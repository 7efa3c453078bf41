----------------------------- MODULE MCFileStore ------------------------------
(* Three launches: while two of them disturb each other, a third finds out.  The
   files, in the order of their strings: a.jsonl, b.jsonl and b/x.jsonl, of which
   the last two change places when sorted as Path objects. *)
EXTENDS FileStore, TLC

CONSTANTS p1, p2, p3

Launches == {p1, p2, p3}
PathOrder == [f \in 0 .. 3 |-> <<0, 1, 3, 2>>[f + 1]]
Symmetry == Permutations(Launches)
===============================================================================

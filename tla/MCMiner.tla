------------------------------- MODULE MCMiner --------------------------------
(* Small instances of Miner. A key that is absent from Json is an object of
   another kind in the same prefix. *)
EXTENDS Miner, TLC

Symmetry == Permutations(Proc)

(* Keys by rank and the dates they carry. In TwoTenants key 1 belongs to the
   first tenant and was written a day after key 2, of the second tenant. *)
OneKey     == {1}
TwoKeys    == {1, 2}
ThreeKeys  == {1, 2, 3}
FirstAndLast == {1, 3}
LastKey    == {3}
NoKeys     == {}
Undated    == [k \in Key |-> 0]
TwoTenants == [k \in Key |-> IF k = 1 THEN 1 ELSE 0]
===============================================================================

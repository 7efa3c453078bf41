----------------------------- MODULE MCTableLease -----------------------------
(* Two or three miners, a lease of two ticks. *)
EXTENDS TableLease, TLC

Symmetry == Permutations(Owner)
===============================================================================

---------------------------- MODULE MCDynamoLease -----------------------------
(* Two miners, a lease of two ticks and clocks that disagree by one at most. *)
EXTENDS DynamoLease
===============================================================================

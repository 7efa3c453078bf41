------------------------------ MODULE SweepLease ------------------------------
(***************************************************************************)
(* What the single-runner lease of the miner promises, whatever store      *)
(* keeps it (CursorStore.acquire_lease and release_lease, sources.py).     *)
(* There is no clock here: the lease is in force (live) until it lapses,   *)
(* and a miner still running at that moment is overdue, because nothing    *)
(* renews the lease while a sweep is under way.                            *)
(***************************************************************************)
CONSTANTS Owner,    \* identities host-pid a miner process takes (worker.py main)
          NoOwner   \* the lease item is absent; not an Owner

VARIABLES holder,   \* the owner written in the lease item
          live,     \* the lease is still in force
          running,  \* the miners that were granted the lease and have not ended
          overdue   \* those of them whose lease has lapsed

vars == <<holder, live, running, overdue>>

TypeOK ==
    /\ holder \in Owner \cup {NoOwner}
    /\ live \in BOOLEAN
    /\ running \subseteq Owner
    /\ overdue \subseteq running

Init ==
    /\ holder = NoOwner
    /\ live = FALSE
    /\ running = {}
    /\ overdue = {}

(* A conditional write succeeds on an absent or lapsed item and on one's own. *)
Grantable(o) == ~live \/ holder = o

(* The grant. A write that took long to arrive may install a lease that has
   already lapsed: its owner is overdue from the start. *)
Acquire(o) ==
    /\ o \notin running
    /\ Grantable(o)
    /\ holder' = o
    /\ live' \in BOOLEAN
    /\ running' = running \cup {o}
    /\ overdue' = IF live' THEN overdue ELSE overdue \cup {o}

(* The write took effect and its caller never learnt it: an orphan lease. *)
AcquireUnseen(o) ==
    /\ o \notin running
    /\ Grantable(o)
    /\ holder' = o
    /\ live' \in BOOLEAN
    /\ UNCHANGED <<running, overdue>>

(* The TTL runs out under whoever still runs. *)
Lapse ==
    /\ live
    /\ live' = FALSE
    /\ overdue' = running
    /\ UNCHANGED <<holder, running>>

(* A clean end frees the lease only if it is still one's own. *)
Release(o) ==
    /\ o \in running
    /\ running' = running \ {o}
    /\ overdue' = overdue \ {o}
    /\ holder' = IF holder = o THEN NoOwner ELSE holder
    /\ live' = (live /\ holder # o)

(* A crash, or a release that failed: the item stays. *)
Crash(o) ==
    /\ o \in running
    /\ running' = running \ {o}
    /\ overdue' = overdue \ {o}
    /\ UNCHANGED <<holder, live>>

Next ==
    \/ Lapse
    \/ \E o \in Owner : Acquire(o) \/ AcquireUnseen(o) \/ Release(o) \/ Crash(o)

Spec == Init /\ [][Next]_vars

------------------------------------------------------------------------------

(* The miners that run under a lease that has not lapsed. *)
InForce == running \ overdue

(* Two miners never both run under a lease in force: a takeover happens only
   after the lease of the previous holder has lapsed or been released. *)
SingleRunner == \A o, p \in InForce : o = p
===============================================================================

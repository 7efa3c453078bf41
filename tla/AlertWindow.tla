------------------------------ MODULE AlertWindow ------------------------------
(***************************************************************************)
(* What dedupe.Cache promises its callers (alerting/dedupe.go, Admit): one *)
(* indivisible answer per request, fresh or duplicate, from a window of    *)
(* the admissions of the last TTL.  A replica that is replaced forgets its *)
(* window, and the requests it was serving are lost.                       *)
(***************************************************************************)
EXTENDS Naturals

CONSTANTS Replica, Req, Fingerprint,
          FpOf,     \* the fingerprint of each request
          TTL

VARIABLES now,
          at,         \* the replica that serves each request
          admitted,   \* the requests answered fresh, with the time
          verdict     \* the answer each request got

vars == <<now, at, admitted, verdict>>

Init ==
    /\ now = 0
    /\ at \in [Req -> Replica]
    /\ admitted = {}
    /\ verdict = [r \in Req |-> "none"]

(* An admission whose window r falls into. *)
Covers(a, r) == at[a.req] = at[r] /\ FpOf[a.req] = FpOf[r] /\ now < a.time + TTL

Fresh(r) ==
    /\ verdict[r] = "none"
    /\ ~\E a \in admitted : Covers(a, r)
    /\ verdict' = [verdict EXCEPT ![r] = "fresh"]
    /\ admitted' = admitted \cup {[req |-> r, time |-> now]}
    /\ UNCHANGED <<now, at>>

Duplicate(r) ==
    /\ verdict[r] = "none"
    /\ \E a \in admitted : Covers(a, r)
    /\ verdict' = [verdict EXCEPT ![r] = "duplicate"]
    /\ UNCHANGED <<now, at, admitted>>

Restart(n) ==
    /\ admitted' = {a \in admitted : at[a.req] # n}
    /\ \E gone \in SUBSET {r \in Req : at[r] = n} :
          verdict' = [r \in Req |-> IF r \in gone THEN "lost" ELSE verdict[r]]
    /\ UNCHANGED <<now, at>>

Tick ==
    /\ now' = now + 1
    /\ UNCHANGED <<at, admitted, verdict>>

Next ==
    \/ Tick
    \/ \E n \in Replica : Restart(n)
    \/ \E r \in Req : Fresh(r) \/ Duplicate(r)

Spec == Init /\ [][Next]_vars
===============================================================================

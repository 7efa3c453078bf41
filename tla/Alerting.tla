------------------------------- MODULE Alerting --------------------------------
(***************************************************************************)
(* The alerting webhook (alerting/handler.go, dedupe.go, dispatch.go): one *)
(* goroutine per request, the fingerprint cache behind its mutex, and one  *)
(* post per notification channel.  The miner that sent the request hangs   *)
(* up after its own timeout (alerts.py), which cancels the request's       *)
(* context.  Several replicas may run, each with its own cache, and a      *)
(* replica can be replaced, which empties the cache.                       *)
(*                                                                         *)
(* Requests rejected with 400 or 422 change nothing and are left out.      *)
(***************************************************************************)
EXTENDS Integers

CONSTANTS Replica,      \* running instances of the service
          Req,          \* requests with a valid payload
          NoReq,        \* the mutex is free
          Fingerprint,
          FpOf,         \* the fingerprint of each request
          Critical,     \* the requests of severity critical; others are high
          Mock,         \* the channels without a URL (main.go: an unset variable)
          TTL,          \* of a fingerprint (main.go: 15 minutes), in ticks
          MaxTime,      \* bounds: clock,
          MaxRestarts   \*   replicas replaced

Channel == {"slack", "pagerduty"}

ASSUME NoReqAssumption == NoReq \notin Req
ASSUME RequestAssumption == FpOf \in [Req -> Fingerprint] /\ Critical \subseteq Req
ASSUME MockAssumption == Mock \subseteq Channel
ASSUME TimeAssumption == TTL \in Nat \ {0} /\ MaxTime \in Nat /\ MaxRestarts \in Nat

VARIABLES
    now,
    mu,         \* per replica: the request that holds the mutex
    entries,    \* per replica and fingerprint: when the cache entry expires
    restarts,
    pc, at,     \* per request: its next step, and the replica that serves it
    clk,        \* the time Admit read
    fresh,      \* Admit found no live entry
    cancelled,  \* requests whose client has hung up
    delivered,  \* the channels whose Dispatch returned nil
    \* history:
    tried,      \* the channels Dispatch was called for
    received,   \* the channels that did get the message
    admissions  \* requests admitted since their replica started, with the time

cache == <<mu, entries, restarts, admissions>>
outcome == <<delivered, tried, received>>
vars == <<now, cache, pc, at, clk, fresh, cancelled, outcome>>

Absent == -1
Done == {"suppressed", "accepted", "failed", "dropped"}

TypeOK ==
    /\ now \in Nat
    /\ mu \in [Replica -> Req \cup {NoReq}]
    /\ entries \in [Replica -> [Fingerprint -> Int]]
    /\ restarts \in Nat
    /\ pc \in [Req -> Channel \cup Done \cup {"new", "arrived", "admitting", "reply"}]
    /\ at \in [Req -> Replica]
    /\ clk \in [Req -> Nat]
    /\ fresh \in [Req -> BOOLEAN]
    /\ cancelled \subseteq Req
    /\ delivered \in [Req -> SUBSET Channel]
    /\ tried \in [Req -> SUBSET Channel]
    /\ received \in [Req -> SUBSET Channel]
    /\ admissions \subseteq [req : Req, time : Nat]

Init ==
    /\ now = 0
    /\ mu = [n \in Replica |-> NoReq]
    /\ entries = [n \in Replica |-> [f \in Fingerprint |-> Absent]]
    /\ restarts = 0
    /\ pc = [r \in Req |-> "new"]
    /\ at \in [Req -> Replica]
    /\ clk = [r \in Req |-> 0]
    /\ fresh = [r \in Req |-> FALSE]
    /\ cancelled = {}
    /\ delivered = [r \in Req |-> {}]
    /\ tried = [r \in Req |-> {}]
    /\ received = [r \in Req |-> {}]
    /\ admissions = {}

GoTo(r, step) == pc' = [pc EXCEPT ![r] = step]

------------------------------------------------------------------------------

Arrive(r) ==
    /\ pc[r] = "new"
    /\ GoTo(r, "arrived")
    /\ UNCHANGED <<now, cache, at, clk, fresh, cancelled, outcome>>

(* Mutated form: Admit does not take the mutex. *)
NoLock(n) == TRUE

LockFree(n) == mu[n] = NoReq

(* Mutated form: the expiry of an entry is not looked at. *)
LiveForever(n, f, t) == entries[n][f] # Absent

(* now.Before(e.expires) of an entry that is there *)
Live(n, f, t) == entries[n][f] # Absent /\ t < entries[n][f]

(* Admit takes the mutex, reads the clock and looks the fingerprint up. *)
Lock(r) ==
    /\ pc[r] = "arrived"
    /\ LockFree(at[r])
    /\ mu' = [mu EXCEPT ![at[r]] = r]
    /\ clk' = [clk EXCEPT ![r] = now]
    /\ fresh' = [fresh EXCEPT ![r] = ~Live(at[r], FpOf[r], now)]
    /\ GoTo(r, "admitting")
    /\ UNCHANGED <<now, entries, restarts, admissions, at, cancelled, outcome>>

(* Mutated form: gcLocked leaves an empty entry behind. *)
KeptEmpty(e, t) == IF e < t THEN NoReq ELSE e

(* gcLocked deletes the entries t is after. *)
Kept(e, t) == IF e < t THEN Absent ELSE e

(* Mutated form: the early return for a duplicate keeps the mutex. *)
UnlockIfFresh(r) == IF fresh[r] THEN mu' = [mu EXCEPT ![at[r]] = NoReq] ELSE UNCHANGED mu

(* The deferred Unlock. *)
Unlock(r) == mu' = [mu EXCEPT ![at[r]] = NoReq]

(* The fingerprint is new, or its entry has expired: store it, collect the
   expired ones, release the mutex and dispatch. *)
Admit(r) ==
    /\ pc[r] = "admitting"
    /\ fresh[r]
    /\ entries' = [entries EXCEPT ![at[r]] =
                      [f \in Fingerprint |-> IF f = FpOf[r] THEN clk[r] + TTL
                                             ELSE Kept(@[f], clk[r])]]
    /\ admissions' = admissions \cup {[req |-> r, time |-> clk[r]]}
    /\ Unlock(r)
    /\ GoTo(r, "slack")
    /\ UNCHANGED <<now, restarts, at, clk, fresh, cancelled, outcome>>

(* A duplicate is counted, refreshes nothing and is answered 200. *)
Suppress(r) ==
    /\ pc[r] = "admitting"
    /\ ~fresh[r]
    /\ Unlock(r)
    /\ GoTo(r, "suppressed")
    /\ UNCHANGED <<now, entries, restarts, admissions, at, clk, fresh, cancelled,
                   outcome>>

(* Mutated form: the loop stops at the first error. *)
FollowingSuccess(r, c, ok) ==
    IF ok /\ c = "slack" /\ r \in Critical THEN "pagerduty" ELSE "reply"

(* The channel after c for this severity; high goes to Slack alone. An error is
   logged and the loop goes on. *)
Following(r, c, ok) == IF c = "slack" /\ r \in Critical THEN "pagerduty" ELSE "reply"

(* Dispatch posts to the channel. It fails when the channel refuses or is too
   slow, in which case the message may still have got there, and at once when
   the client has hung up. In mock mode it logs the payload and succeeds, whether
   or not anybody still waits. *)
Dispatch(r, c) ==
    /\ pc[r] = c
    /\ tried' = [tried EXCEPT ![r] = @ \cup {c}]
    /\ \E ok, arrived \in BOOLEAN :
          /\ c \in Mock => ok /\ ~arrived
          /\ c \notin Mock => (ok => arrived) /\ (r \in cancelled => ~arrived)
          /\ received' = IF arrived THEN [received EXCEPT ![r] = @ \cup {c}] ELSE received
          /\ delivered' = IF ok THEN [delivered EXCEPT ![r] = @ \cup {c}] ELSE delivered
          /\ GoTo(r, Following(r, c, ok))
    /\ UNCHANGED <<now, cache, at, clk, fresh, cancelled>>

(* 502 when every channel failed, else 202. *)
Reply(r) ==
    /\ pc[r] = "reply"
    /\ GoTo(r, IF delivered[r] = {} THEN "failed" ELSE "accepted")
    /\ UNCHANGED <<now, cache, at, clk, fresh, cancelled, outcome>>

(* AlertClient's timeout: the miner logs a failed send and never repeats it. *)
HangUp(r) ==
    /\ pc[r] \notin Done \cup {"new"}
    /\ r \notin cancelled
    /\ cancelled' = cancelled \cup {r}
    /\ UNCHANGED <<now, cache, pc, at, clk, fresh, outcome>>

(* A replica is replaced (a deploy, a scale-down to zero): its requests are
   dropped and its cache starts empty. *)
Restart(n) ==
    /\ restarts < MaxRestarts
    /\ restarts' = restarts + 1
    /\ mu' = [mu EXCEPT ![n] = NoReq]
    /\ entries' = [entries EXCEPT ![n] = [f \in Fingerprint |-> Absent]]
    /\ admissions' = {a \in admissions : at[a.req] # n}
    /\ pc' = [r \in Req |-> IF at[r] = n /\ pc[r] \notin Done \cup {"new"}
                            THEN "dropped" ELSE pc[r]]
    /\ UNCHANGED <<now, at, clk, fresh, cancelled, outcome>>

Tick ==
    /\ now < MaxTime
    /\ now' = now + 1
    /\ UNCHANGED <<cache, pc, at, clk, fresh, cancelled, outcome>>

Handle(r) ==
    \/ Lock(r) \/ Admit(r) \/ Suppress(r) \/ Reply(r)
    \/ \E c \in Channel : Dispatch(r, c)

Next ==
    \/ Tick
    \/ \E n \in Replica : Restart(n)
    \/ \E r \in Req : Arrive(r) \/ Handle(r) \/ HangUp(r)

Spec == Init /\ [][Next]_vars

------------------------------------------------------------------------------

(* REQ-OUT-2, one bad deploy pages once: a replica admits the same fingerprint
   again only after the TTL, however requests interleave in Admit. *)
OncePerWindow ==
    \A a, b \in admissions :
        /\ a # b
        /\ at[a.req] = at[b.req]
        /\ FpOf[a.req] = FpOf[b.req]
        => a.time + TTL <= b.time \/ b.time + TTL <= a.time

(* No new alert is swallowed: a request is about to be suppressed only if its
   replica admitted that fingerprint less than a TTL before. *)
SuppressedHasAdmission ==
    \A r \in Req : pc[r] = "admitting" /\ ~fresh[r] =>
        \E a \in admissions :
            /\ at[a.req] = at[r]
            /\ FpOf[a.req] = FpOf[r]
            /\ a.time <= clk[r]
            /\ clk[r] < a.time + TTL

(* One channel's failure does not keep the alert from the other, and the answer
   names no channel that failed: whatever it is, every channel of the severity was
   tried; a 202 names some, and each of them has the message or has no URL; a 502
   is given only if every one of them has a URL and failed. *)
AnswerIsHonest ==
    \A r \in Req :
        /\ pc[r] \in {"accepted", "failed"} =>
              tried[r] = (IF r \in Critical THEN Channel ELSE {"slack"})
        /\ pc[r] = "accepted" => delivered[r] # {} /\ delivered[r] \subseteq received[r] \cup Mock
        /\ pc[r] = "failed" => tried[r] \cap Mock = {}

(* No request waits for ever: each exit of Admit, and a restart, gives the mutex
   back, so that whoever holds it is inside Admit and can leave. *)
MutexIsReleased ==
    \A n \in Replica : mu[n] # NoReq => at[mu[n]] = n /\ pc[mu[n]] = "admitting"

------------------------------------------------------------------------------

(* The answer Admit has settled on: from the look-up on, not from the store. *)
Duplicate(r) == pc[r] = "suppressed" \/ (pc[r] = "admitting" /\ ~fresh[r])

Verdict(r) == IF pc[r] \in {"new", "arrived"} THEN "none"
              ELSE IF pc[r] = "dropped" THEN "lost"
              ELSE IF Duplicate(r) THEN "duplicate" ELSE "fresh"

(* Looked up and found fresh, not yet stored. *)
Pending == {[req |-> r, time |-> clk[r]] : r \in {q \in Req : pc[q] = "admitting" /\ fresh[q]}}

Window == INSTANCE AlertWindow
             WITH admitted <- admissions \cup Pending, verdict <- [r \in Req |-> Verdict(r)]

(* Admit is atomic: lock, clock, look-up, store, collection and unlock, as the
   requests of all replicas interleave in them and replicas are replaced, amount
   to one indivisible answer, given when the mutex is taken. *)
AdmitIsAtomic == Window!Spec
===============================================================================

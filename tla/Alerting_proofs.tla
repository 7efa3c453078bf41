--------------------------- MODULE Alerting_proofs ----------------------------
(***************************************************************************)
(* The fingerprint cache of the alerting service, for any number of        *)
(* replicas, requests and restarts and every TTL.                          *)
(***************************************************************************)
EXTENDS Alerting, TLAPS

(* Requests r and admissions a that meet in the same cache entry. *)
Same(a, r) == at[a.req] = at[r] /\ FpOf[a.req] = FpOf[r]

Entry(a) == entries[at[a.req]][FpOf[a.req]]

(* Whoever is inside Admit holds the mutex of its replica. *)
MutexInv == \A r \in Req : pc[r] = "admitting" => mu[at[r]] = r

ClockInv ==
    /\ \A r \in Req : clk[r] <= now
    /\ \A a \in admissions : a.time <= now

(* An entry is the one of some admission, and an admission of the last TTL
   still has an entry at least as late as its own. *)
EntryInv ==
    /\ \A n \in Replica, f \in Fingerprint : entries[n][f] # Absent =>
          \E a \in admissions : at[a.req] = n /\ FpOf[a.req] = f
                                /\ entries[n][f] = a.time + TTL
    /\ \A a \in admissions :
          a.time + TTL <= now \/ (Entry(a) # Absent /\ a.time + TTL <= Entry(a))

(* What was looked up under the mutex is still true when it is used. *)
FreshInv ==
    \A r \in Req : pc[r] = "admitting" /\ fresh[r] =>
        \A a \in admissions : Same(a, r) => a.time + TTL <= clk[r]

IInv == /\ TypeOK /\ MutexInv /\ ClockInv /\ EntryInv /\ FreshInv
        /\ SuppressedHasAdmission /\ OncePerWindow

LEMMA InitIInv == Init => IInv
BY NoReqAssumption, RequestAssumption, TimeAssumption
   DEF Init, IInv, TypeOK, Absent, Done, Channel, MutexInv, ClockInv, EntryInv, FreshInv,
       SuppressedHasAdmission, OncePerWindow

LEMMA StepTypeOK == IInv /\ [Next]_vars => TypeOK'
<1> SUFFICES ASSUME TypeOK, [Next]_vars PROVE TypeOK'
    BY DEF IInv
<1> USE RequestAssumption, TimeAssumption DEF TypeOK, Channel, Done, GoTo, cache, outcome
<1>1. CASE Tick \/ UNCHANGED vars
    BY <1>1 DEF Tick, vars
<1>2. CASE \E n \in Replica : Restart(n)
    BY <1>2 DEF Restart, Absent
<1>3. CASE \E r \in Req : Arrive(r) \/ Reply(r) \/ HangUp(r)
    BY <1>3 DEF Arrive, Reply, HangUp
<1>4. CASE \E r \in Req : Lock(r)
    BY <1>4 DEF Lock, Live
<1>5. CASE \E r \in Req : Admit(r)
    BY <1>5 DEF Admit, Unlock, Kept, Absent
<1>6. CASE \E r \in Req : Suppress(r)
    BY <1>6 DEF Suppress, Unlock
<1>7. CASE \E r \in Req, c \in Channel : Dispatch(r, c)
    BY <1>7 DEF Dispatch, Following
<1> QED  BY <1>1, <1>2, <1>3, <1>4, <1>5, <1>6, <1>7 DEF Next, Handle

LEMMA StepIInv == IInv /\ [Next]_vars => IInv'
<1> SUFFICES ASSUME IInv, [Next]_vars
             PROVE  /\ MutexInv' /\ ClockInv' /\ EntryInv' /\ FreshInv'
                    /\ SuppressedHasAdmission' /\ OncePerWindow'
    BY StepTypeOK DEF IInv
<1>a. TypeOK /\ MutexInv /\ ClockInv /\ EntryInv /\ FreshInv
      /\ SuppressedHasAdmission /\ OncePerWindow
    BY DEF IInv
<1>b. \A a \in admissions : /\ a.req \in Req /\ a.time \in Nat /\ at[a.req] \in Replica
                            /\ FpOf[a.req] \in Fingerprint /\ Entry(a) \in Int
    BY <1>a, RequestAssumption DEF TypeOK, Entry
<1>c. now \in Nat /\ TTL \in Nat /\ TTL > 0
    BY <1>a, TimeAssumption DEF TypeOK
<1>1. CASE /\ UNCHANGED <<now, mu, entries, admissions, at, clk, fresh>>
           /\ \A r \in Req : pc'[r] = "admitting" => pc[r] = "admitting"
    <2>1. MutexInv' /\ ClockInv' /\ OncePerWindow'
        BY <1>1, <1>a DEF MutexInv, ClockInv, OncePerWindow
    <2>2. EntryInv' /\ FreshInv' /\ SuppressedHasAdmission'
        BY <1>1, <1>a DEF EntryInv, Entry, FreshInv, Same, SuppressedHasAdmission
    <2> QED  BY <2>1, <2>2
<1>2. CASE \E r \in Req : \/ Arrive(r) \/ Reply(r) \/ HangUp(r)
                          \/ \E c \in Channel : Dispatch(r, c)
    BY <1>1, <1>2, <1>a DEF Arrive, Reply, HangUp, Dispatch, GoTo, Following, cache,
                            TypeOK, Channel
<1>3. CASE UNCHANGED vars
    BY <1>1, <1>3 DEF vars, cache
<1>4. CASE Tick
    <2>1. UNCHANGED <<mu, entries, admissions, pc, at, clk, fresh>> /\ now' = now + 1
        BY <1>4 DEF Tick, cache
    <2>2. ClockInv' /\ EntryInv'
        BY <2>1, <1>a, <1>b, <1>c DEF ClockInv, EntryInv, Entry, TypeOK
    <2>3. MutexInv' /\ FreshInv' /\ SuppressedHasAdmission' /\ OncePerWindow'
        BY <2>1, <1>a DEF MutexInv, FreshInv, Same, SuppressedHasAdmission, OncePerWindow
    <2> QED  BY <2>2, <2>3
<1>5. CASE \E n \in Replica : Restart(n)
    <2>1. PICK n \in Replica : Restart(n)  BY <1>5
    <2>2. /\ UNCHANGED <<now, at, clk, fresh>>
          /\ admissions' = {a \in admissions : at[a.req] # n}
          /\ \A m \in Replica \ {n} : mu'[m] = mu[m] /\ entries'[m] = entries[m]
          /\ \A f \in Fingerprint : entries'[n][f] = Absent
          /\ \A r \in Req : pc'[r] = "admitting" => pc[r] = "admitting" /\ at[r] # n
        BY <2>1, <1>a DEF Restart, TypeOK, Done
    <2>3. MutexInv' /\ ClockInv' /\ OncePerWindow' /\ FreshInv'
        BY <2>2, <1>a DEF MutexInv, ClockInv, OncePerWindow, FreshInv, Same, TypeOK
    <2>4. SuppressedHasAdmission'
        BY <2>2, <1>a DEF SuppressedHasAdmission
    <2>5. EntryInv'
        BY <2>2, <1>a, <1>b DEF EntryInv, Entry
    <2> QED  BY <2>3, <2>4, <2>5
<1>6. CASE \E r \in Req : Lock(r)
    <2>1. PICK r \in Req : Lock(r)  BY <1>6
    <2>2. /\ UNCHANGED <<now, entries, admissions, at>>
          /\ mu[at[r]] = NoReq
          /\ mu' = [mu EXCEPT ![at[r]] = r]
          /\ clk'[r] = now /\ fresh'[r] = ~Live(at[r], FpOf[r], now)
          /\ \A q \in Req \ {r} : UNCHANGED <<pc[q], clk[q], fresh[q]>>
        BY <2>1, <1>a DEF Lock, LockFree, GoTo, TypeOK
    <2>3. MutexInv'
        BY <2>2, <1>a, NoReqAssumption DEF MutexInv, TypeOK
    <2>4. ClockInv' /\ EntryInv' /\ OncePerWindow'
        BY <2>2, <1>a, <1>c DEF ClockInv, EntryInv, Entry, OncePerWindow
    <2>5. FreshInv'
        <3>1. ASSUME fresh'[r], NEW a \in admissions, Same(a, r)
              PROVE  a.time + TTL <= now
            <4>1. Entry(a) = entries[at[r]][FpOf[r]]
                BY <3>1 DEF Entry, Same
            <4>2. ~(Entry(a) # Absent /\ now < Entry(a))
                BY <3>1, <4>1, <2>2 DEF Live
            <4>3. a.time + TTL <= now \/ (Entry(a) # Absent /\ a.time + TTL <= Entry(a))
                BY <1>a DEF EntryInv
            <4>4. a.time \in Nat /\ Entry(a) \in Int
                BY <1>b
            <4> HIDE DEF Entry
            <4> QED  BY <4>2, <4>3, <4>4, <1>c
        <3> QED  BY <2>2, <3>1, <1>a DEF FreshInv, Same
    <2>6. SuppressedHasAdmission'
        <3>1. ASSUME ~fresh'[r]
              PROVE  \E a \in admissions : /\ at[a.req] = at[r]
                                           /\ FpOf[a.req] = FpOf[r]
                                           /\ a.time <= now
                                           /\ now < a.time + TTL
            <4>1. /\ entries[at[r]][FpOf[r]] # Absent
                  /\ now < entries[at[r]][FpOf[r]]
                BY <3>1, <2>2 DEF Live
            <4>2. at[r] \in Replica /\ FpOf[r] \in Fingerprint
                BY <1>a, RequestAssumption DEF TypeOK
            <4>3. PICK a \in admissions : /\ at[a.req] = at[r]
                                          /\ FpOf[a.req] = FpOf[r]
                                          /\ entries[at[r]][FpOf[r]] = a.time + TTL
                BY <4>1, <4>2, <1>a DEF EntryInv
            <4>4. a.time <= now
                BY <1>a DEF ClockInv
            <4>5. now < a.time + TTL
                BY <4>1, <4>3
            <4> QED  BY <4>3, <4>4, <4>5
        <3> QED  BY <2>2, <3>1, <1>a DEF SuppressedHasAdmission
    <2> QED  BY <2>3, <2>4, <2>5, <2>6
<1>7. CASE \E r \in Req : Admit(r)
    <2>1. PICK r \in Req : Admit(r)  BY <1>7
    <2> DEFINE b == [req |-> r, time |-> clk[r]]
    <2>2. /\ UNCHANGED <<now, at, clk, fresh>>
          /\ pc[r] = "admitting" /\ fresh[r] /\ pc'[r] = "slack"
          /\ \A q \in Req \ {r} : pc'[q] = pc[q]
          /\ admissions' = admissions \cup {b}
          /\ mu' = [mu EXCEPT ![at[r]] = NoReq]
        BY <2>1, <1>a DEF Admit, Unlock, GoTo, TypeOK
    <2>3. clk[r] \in Nat /\ clk[r] <= now /\ at[r] \in Replica /\ FpOf[r] \in Fingerprint
        BY <1>a, RequestAssumption DEF TypeOK, ClockInv
    <2>4. /\ entries'[at[r]][FpOf[r]] = clk[r] + TTL
          /\ \A f \in Fingerprint \ {FpOf[r]} :
                entries'[at[r]][f] = Kept(entries[at[r]][f], clk[r])
          /\ \A m \in Replica \ {at[r]} : entries'[m] = entries[m]
        BY <2>1, <2>3, <1>a DEF Admit, TypeOK
    <2>5. \A q \in Req : pc'[q] = "admitting" => pc[q] = "admitting" /\ at[q] # at[r]
        BY <2>2, <1>a DEF MutexInv
    <2>6. \A a \in admissions : Same(a, r) => a.time + TTL <= clk[r]
        BY <2>2, <1>a DEF FreshInv
    <2>7. MutexInv' /\ ClockInv'
        BY <2>2, <2>3, <2>5, <1>a DEF MutexInv, ClockInv, TypeOK
    <2>8. FreshInv'
        <3>1. ASSUME NEW q \in Req, pc'[q] = "admitting" PROVE ~Same(b, q)
            BY <2>5, <3>1 DEF Same
        <3> QED  BY <2>2, <2>5, <3>1, <1>a DEF FreshInv, Same
    <2>9. SuppressedHasAdmission'
        BY <2>2, <2>5, <1>a DEF SuppressedHasAdmission
    <2>10. OncePerWindow'
        <3>1. ASSUME NEW a \in admissions, Same(a, r) PROVE a.time + TTL <= b.time
            BY <2>6, <3>1
        <3> QED  BY <2>2, <3>1, <1>a DEF OncePerWindow, Same
    <2>11. ASSUME NEW n \in Replica, NEW f \in Fingerprint, entries'[n][f] # Absent
           PROVE  \E a \in admissions' : at[a.req] = n /\ FpOf[a.req] = f
                                         /\ entries'[n][f] = a.time + TTL
        <3>1. CASE n = at[r] /\ f = FpOf[r]
            <4>1. b \in admissions' /\ b.req = r /\ b.time = clk[r]
                BY <2>2
            <4>2. entries'[n][f] = b.time + TTL
                BY <3>1, <4>1, <2>4
            <4> QED  BY <3>1, <4>1, <4>2
        <3>2. CASE ~(n = at[r] /\ f = FpOf[r])
            <4>1. entries'[n][f] = entries[n][f]
                BY <3>2, <2>4, <2>11 DEF Kept
            <4> QED  BY <4>1, <2>2, <2>11, <1>a DEF EntryInv
        <3> QED  BY <3>1, <3>2
    <2>12. ASSUME NEW a \in admissions'
           PROVE  a.time + TTL <= now \/ (Entry(a)' # Absent /\ a.time + TTL <= Entry(a)')
        <3>1. CASE a = b
            BY <3>1, <2>2, <2>3, <2>4, <1>c DEF Entry, Absent
        <3>2. CASE a \in admissions /\ Same(a, r)
            BY <3>2, <2>3, <2>6, <1>b, <1>c
        <3>3. CASE a \in admissions /\ ~Same(a, r)
            <4>1. Entry(a)' = Entry(a) \/ Entry(a)' = Kept(Entry(a), clk[r])
                BY <3>3, <2>2, <2>4, <1>b DEF Entry, Same
            <4> QED  BY <4>1, <3>3, <2>3, <1>a, <1>b, <1>c DEF Kept, EntryInv
        <3> QED  BY <3>1, <3>2, <3>3, <2>2
    <2>13. EntryInv'
        BY <2>2, <2>11, <2>12 DEF EntryInv
    <2> QED  BY <2>7, <2>8, <2>9, <2>10, <2>13
<1>8. CASE \E r \in Req : Suppress(r)
    <2>1. PICK r \in Req : Suppress(r)  BY <1>8
    <2>2. /\ UNCHANGED <<now, entries, admissions, at, clk, fresh>>
          /\ pc[r] = "admitting" /\ pc'[r] # "admitting"
          /\ \A q \in Req \ {r} : pc'[q] = pc[q]
          /\ mu' = [mu EXCEPT ![at[r]] = NoReq]
        BY <2>1, <1>a DEF Suppress, Unlock, GoTo, TypeOK
    <2>3. MutexInv'
        BY <2>2, <1>a DEF MutexInv, TypeOK
    <2>4. ClockInv' /\ EntryInv' /\ OncePerWindow'
        BY <2>2, <1>a DEF ClockInv, EntryInv, Entry, OncePerWindow
    <2>5. FreshInv' /\ SuppressedHasAdmission'
        BY <2>2, <1>a DEF FreshInv, Same, SuppressedHasAdmission
    <2> QED  BY <2>3, <2>4, <2>5
<1> QED  BY <1>2, <1>3, <1>4, <1>5, <1>6, <1>7, <1>8 DEF Next, Handle

(* Type correctness of the alerting service. *)
THEOREM TypeCorrect == Spec => []TypeOK
<1>1. IInv => TypeOK  BY DEF IInv
<1> QED  BY <1>1, InitIInv, StepIInv, PTL DEF Spec

(* A replica admits a fingerprint at most once in a TTL. *)
THEOREM OncePerWindowAlways == Spec => []OncePerWindow
<1>1. IInv => OncePerWindow  BY DEF IInv
<1> QED  BY <1>1, InitIInv, StepIInv, PTL DEF Spec

(* A request is suppressed only when an equal one was admitted within the TTL. *)
THEOREM SuppressedAlwaysHasAdmission == Spec => []SuppressedHasAdmission
<1>1. IInv => SuppressedHasAdmission  BY DEF IInv
<1> QED  BY <1>1, InitIInv, StepIInv, PTL DEF Spec

(* The mutex is its own strengthening: its holder is inside Admit. *)
LEMMA StepMutex == TypeOK /\ MutexIsReleased /\ [Next]_vars => MutexIsReleased'
<1> SUFFICES ASSUME TypeOK, MutexIsReleased, [Next]_vars PROVE MutexIsReleased'
    OBVIOUS
<1> USE NoReqAssumption DEF TypeOK, MutexIsReleased, GoTo
<1>1. CASE /\ UNCHANGED <<mu, at>>
           /\ \A r \in Req : pc[r] = "admitting" => pc'[r] = "admitting"
    BY <1>1
<1>2. CASE \E r \in Req : \/ Arrive(r) \/ Reply(r) \/ HangUp(r)
                          \/ \E c \in Channel : Dispatch(r, c)
    BY <1>1, <1>2 DEF Arrive, Reply, HangUp, Dispatch, cache, Channel
<1>3. CASE Tick \/ UNCHANGED vars
    BY <1>1, <1>3 DEF Tick, vars, cache
<1>4. CASE \E n \in Replica : Restart(n)
    BY <1>4 DEF Restart
<1>5. CASE \E r \in Req : Lock(r)
    BY <1>5 DEF Lock, LockFree
<1>6. CASE \E r \in Req : Admit(r) \/ Suppress(r)
    <2>1. PICK r \in Req : Admit(r) \/ Suppress(r)  BY <1>6
    <2>2. /\ pc[r] = "admitting" /\ UNCHANGED at
          /\ mu' = [mu EXCEPT ![at[r]] = NoReq]
          /\ \A q \in Req \ {r} : pc'[q] = pc[q]
        BY <2>1 DEF Admit, Suppress, Unlock
    <2>3. ASSUME NEW n \in Replica, mu'[n] # NoReq
          PROVE  mu[n] = mu'[n] /\ n # at[r]
        BY <2>2, <2>3
    <2>4. \A n \in Replica : mu[n] = r => n = at[r]
        BY <2>2
    <2> QED  BY <2>2, <2>3, <2>4
<1> QED  BY <1>2, <1>3, <1>4, <1>5, <1>6 DEF Next, Handle

(* No request keeps the mutex for ever: whoever holds it is inside Admit. *)
THEOREM MutexIsAlwaysReleased == Spec => []MutexIsReleased
<1>1. Init => MutexIsReleased  BY NoReqAssumption DEF Init, MutexIsReleased
<1>2. IInv => TypeOK  BY DEF IInv
<1> QED  BY <1>1, <1>2, InitIInv, StepIInv, StepMutex, PTL DEF Spec

------------------------------------------------------------------------------
(* The loop over the channels. *)

Wanted(r) == IF r \in Critical THEN Channel ELSE {"slack"}

(* What has been tried when a request reaches a step of the loop, and that the
   code counts only what arrived and what it is not to send. *)
LoopOf(r) ==
    /\ delivered[r] \subseteq received[r] \cup Mock
    /\ tried[r] \cap Mock \subseteq delivered[r]
    /\ pc[r] \in {"new", "arrived", "admitting", "slack"} => tried[r] = {}
    /\ pc[r] = "pagerduty" => r \in Critical /\ tried[r] = {"slack"}
    /\ pc[r] \in {"reply", "accepted", "failed"} => tried[r] = Wanted(r)
    /\ pc[r] = "accepted" => delivered[r] # {}
    /\ pc[r] = "failed" => delivered[r] = {}

LoopInv == \A r \in Req : LoopOf(r)

LEMMA InitLoop == Init => LoopInv
BY DEF Init, LoopInv, LoopOf

LEMMA StepLoop == TypeOK /\ LoopInv /\ [Next]_vars => LoopInv'
<1> SUFFICES ASSUME TypeOK, LoopInv, [Next]_vars PROVE LoopInv'
    OBVIOUS
<1>a. /\ pc \in [Req -> Channel \cup Done \cup {"new", "arrived", "admitting", "reply"}]
      /\ delivered \in [Req -> SUBSET Channel] /\ tried \in [Req -> SUBSET Channel]
      /\ received \in [Req -> SUBSET Channel] /\ \A r \in Req : LoopOf(r)
    BY DEF TypeOK, LoopInv
(* A step of r leaves the loops of the others alone. *)
<1>b. ASSUME NEW r \in Req, LoopOf(r)',
             \A q \in Req \ {r} : UNCHANGED <<pc[q], delivered[q], tried[q], received[q]>>
      PROVE  LoopInv'
    <2>1. ASSUME NEW q \in Req \ {r} PROVE LoopOf(q)'
        <3>1. LoopOf(q) /\ UNCHANGED <<pc[q], delivered[q], tried[q], received[q]>>
            BY <1>a, <1>b
        <3> QED  BY <3>1 DEF LoopOf, Wanted
    <2> QED  BY <1>b, <2>1 DEF LoopInv
<1>1. CASE \E r \in Req : Arrive(r) \/ Lock(r) \/ Admit(r) \/ Suppress(r)
    <2>1. PICK r \in Req : Arrive(r) \/ Lock(r) \/ Admit(r) \/ Suppress(r)
        BY <1>1
    <2>2. /\ UNCHANGED outcome /\ pc[r] \in {"new", "arrived", "admitting"}
          /\ \/ GoTo(r, "arrived") \/ GoTo(r, "admitting") \/ GoTo(r, "slack")
             \/ GoTo(r, "suppressed")
        BY <2>1 DEF Arrive, Lock, Admit, Suppress
    <2>3. /\ pc'[r] \in {"arrived", "admitting", "slack", "suppressed"}
          /\ \A q \in Req \ {r} : pc'[q] = pc[q]
        BY <2>2, <1>a DEF GoTo
    <2>4. LoopOf(r)'
        BY <2>2, <2>3, <1>a DEF LoopOf, outcome
    <2> QED  BY <2>2, <2>3, <2>4, <1>b DEF outcome
<1>2. ASSUME NEW r \in Req, NEW c \in Channel, Dispatch(r, c) PROVE LoopInv'
    <2>1. /\ pc[r] = c /\ tried' = [tried EXCEPT ![r] = @ \cup {c}]
          /\ GoTo(r, IF c = "slack" /\ r \in Critical THEN "pagerduty" ELSE "reply")
        BY <1>2 DEF Dispatch, Following
    <2>2. PICK ok, arrived \in BOOLEAN :
            /\ c \in Mock => ok
            /\ c \notin Mock => (ok => arrived)
            /\ received' = IF arrived THEN [received EXCEPT ![r] = @ \cup {c}] ELSE received
            /\ delivered' = IF ok THEN [delivered EXCEPT ![r] = @ \cup {c}] ELSE delivered
        BY <1>2 DEF Dispatch
    <2>3. \A q \in Req \ {r} : UNCHANGED <<pc[q], delivered[q], tried[q], received[q]>>
        BY <2>1, <2>2, <1>a DEF GoTo
    <2>4. delivered'[r] \subseteq received'[r] \cup Mock
        BY <2>2, <1>a DEF LoopOf
    <2>5. /\ tried'[r] = tried[r] \cup {c}
          /\ pc'[r] = IF c = "slack" /\ r \in Critical THEN "pagerduty" ELSE "reply"
        BY <2>1, <1>a DEF GoTo
    <2>6. tried'[r] \cap Mock \subseteq delivered'[r]
        BY <2>2, <2>5, <1>a DEF LoopOf
    <2>7. LoopOf(r)'
        BY <2>1, <2>4, <2>5, <2>6, <1>a DEF LoopOf, Wanted, Channel
    <2> QED  BY <2>3, <2>7, <1>b
<1>3. CASE \E r \in Req : Reply(r)
    <2>1. PICK r \in Req : Reply(r)
        BY <1>3
    <2>2. /\ pc'[r] = IF delivered[r] = {} THEN "failed" ELSE "accepted"
          /\ pc[r] = "reply" /\ UNCHANGED outcome
          /\ \A q \in Req \ {r} : pc'[q] = pc[q]
        BY <2>1, <1>a DEF Reply, GoTo
    <2>3. LoopOf(r)'
        BY <2>2, <1>a DEF LoopOf, Wanted, outcome
    <2> QED  BY <2>2, <2>3, <1>b DEF outcome
<1>4. CASE \E n \in Replica : Restart(n)
    <2>1. UNCHANGED outcome /\ \A r \in Req : pc'[r] \in {pc[r], "dropped"}
        BY <1>4, <1>a DEF Restart
    <2> QED  BY <2>1, <1>a DEF LoopInv, LoopOf, Wanted, outcome
<1>5. CASE Tick \/ UNCHANGED vars \/ \E r \in Req : HangUp(r)
    BY <1>5, <1>a DEF Tick, HangUp, vars, outcome, LoopInv, LoopOf, Wanted
<1> QED  BY <1>1, <1>2, <1>3, <1>4, <1>5 DEF Next, Handle

(* A channel that fails keeps no other from being tried, a 202 names channels that
   have the message or are in mock mode, and a 502 means that none is and all failed,
   for any number of requests, clients that hang up and replicas that are replaced,
   and whichever channels have no URL. *)
THEOREM AnswerIsAlwaysHonest == Spec => []AnswerIsHonest
<1>1. IInv => TypeOK  BY DEF IInv
<1>2. TypeOK /\ LoopInv => AnswerIsHonest
    BY DEF TypeOK, LoopInv, LoopOf, Wanted, AnswerIsHonest
<1> QED  BY <1>1, <1>2, InitIInv, StepIInv, InitLoop, StepLoop, PTL DEF Spec

------------------------------------------------------------------------------
(* Admit is atomic: the refinement of AlertWindow, step by step. *)

Verdicts == [r \in Req |-> Verdict(r)]
Admitted == admissions \cup Pending

(* The requests that wait to be stored are each alone in their replica. *)
LEMMA PendingAlone ==
    ASSUME MutexInv, NoReq \notin Req, NEW n, mu[n] = NoReq
    PROVE  \A a \in Pending : at[a.req] # n
BY DEF MutexInv, Pending

(* Under the mutex, the entry answers for the whole window. *)
LEMMA LiveIsCovered ==
    ASSUME IInv, NEW r \in Req, mu[at[r]] = NoReq
    PROVE  Live(at[r], FpOf[r], now) <=> \E a \in Admitted : Window!Covers(a, r)
<1>a. TypeOK /\ MutexInv /\ EntryInv
    BY DEF IInv
<1>b. /\ at[r] \in Replica /\ FpOf[r] \in Fingerprint
      /\ now \in Nat /\ TTL \in Nat /\ entries[at[r]][FpOf[r]] \in Int
    BY <1>a, RequestAssumption, TimeAssumption DEF TypeOK
<1>c. \A a \in Admitted : Window!Covers(a, r) => a \in admissions
    BY <1>a, NoReqAssumption, PendingAlone DEF Admitted, Window!Covers
<1>1. ASSUME Live(at[r], FpOf[r], now)
      PROVE  \E a \in Admitted : Window!Covers(a, r)
    <2>1. /\ entries[at[r]][FpOf[r]] # Absent /\ now < entries[at[r]][FpOf[r]]
        BY <1>1 DEF Live
    <2>2. PICK a \in admissions : /\ at[a.req] = at[r] /\ FpOf[a.req] = FpOf[r]
                                  /\ entries[at[r]][FpOf[r]] = a.time + TTL
        BY <2>1, <1>a, <1>b DEF EntryInv
    <2> QED  BY <2>1, <2>2 DEF Admitted, Window!Covers
<1>2. ASSUME NEW a \in admissions, Window!Covers(a, r)
      PROVE  Live(at[r], FpOf[r], now)
    <2>1. /\ Entry(a) = entries[at[r]][FpOf[r]] /\ now < a.time + TTL
        BY <1>2 DEF Window!Covers, Entry
    <2>2. a.time + TTL <= now \/ (Entry(a) # Absent /\ a.time + TTL <= Entry(a))
        BY <1>a DEF EntryInv
    <2>3. a.time \in Nat
        BY <1>a DEF TypeOK
    <2> HIDE DEF Entry
    <2> QED  BY <2>1, <2>2, <2>3, <1>b DEF Live
<1> QED  BY <1>1, <1>2, <1>c

LEMMA InitWindow == Init => Window!Init
BY DEF Init, Window!Init, Pending, Verdict, Duplicate

LEMMA StepWindow == IInv /\ [Next]_vars => [Window!Next]_Window!vars
<1> SUFFICES ASSUME IInv, [Next]_vars PROVE [Window!Next]_Window!vars
    OBVIOUS
<1>a. TypeOK /\ MutexInv
    BY DEF IInv
<1>b. /\ pc \in [Req -> Channel \cup Done \cup {"new", "arrived", "admitting", "reply"}]
      /\ at \in [Req -> Replica] /\ clk \in [Req -> Nat] /\ fresh \in [Req -> BOOLEAN]
    BY <1>a DEF TypeOK
(* A step that changes no answer and no pending request. *)
<1>c. ASSUME UNCHANGED <<now, at, admissions, clk, fresh>>,
             \A r \in Req : /\ pc'[r] = "admitting" <=> pc[r] = "admitting"
                            /\ Verdict(r)' = Verdict(r)
      PROVE  UNCHANGED Window!vars
    BY <1>c DEF Window!vars, Pending
<1>1. CASE Tick
    <2>1. /\ now' = now + 1 /\ at' = at /\ Admitted' = Admitted /\ Verdicts' = Verdicts
        BY <1>1 DEF Tick, cache, Admitted, Pending, Verdicts, Verdict, Duplicate
    <2>2. Window!Tick
        BY <2>1 DEF Window!Tick, Admitted, Verdicts
    <2> QED  BY <2>2 DEF Window!Next
<1>2. ASSUME NEW n \in Replica, Restart(n) PROVE Window!Next
    <2> DEFINE gone == {r \in Req : at[r] = n /\ pc[r] \notin Done \cup {"new"}}
    <2>1. /\ UNCHANGED <<now, at, clk, fresh>>
          /\ admissions' = {a \in admissions : at[a.req] # n}
          /\ \A r \in Req : pc'[r] = IF r \in gone THEN "dropped" ELSE pc[r]
        BY <1>2 DEF Restart
    <2>2. Pending' = {a \in Pending : at[a.req] # n}
        BY <2>1, <1>b DEF Pending, Done
    <2>3. Admitted' = {a \in Admitted : at[a.req] # n}
        BY <2>1, <2>2 DEF Admitted
    <2>4. \A r \in Req : Verdict(r)' = IF r \in gone THEN "lost" ELSE Verdict(r)
        BY <2>1 DEF Verdict, Duplicate
    <2>5. Verdicts' = [r \in Req |-> IF r \in gone THEN "lost" ELSE Verdicts[r]]
        BY <2>4 DEF Verdicts
    <2>6. gone \in SUBSET {r \in Req : at[r] = n}
        OBVIOUS
    <2>7. Window!Restart(n)
        BY <2>1, <2>3, <2>5, <2>6 DEF Window!Restart, Admitted, Verdicts
    <2> QED  BY <2>7 DEF Window!Next
<1>3. ASSUME NEW r \in Req, Lock(r) PROVE Window!Next
    <2> DEFINE b == [req |-> r, time |-> now]
    <2>1. /\ UNCHANGED <<now, admissions, at>> /\ pc[r] = "arrived" /\ mu[at[r]] = NoReq
          /\ clk'[r] = now /\ fresh'[r] = ~Live(at[r], FpOf[r], now)
          /\ pc'[r] = "admitting"
          /\ \A q \in Req \ {r} : UNCHANGED <<pc[q], clk[q], fresh[q]>>
        BY <1>3, <1>b DEF Lock, LockFree, GoTo
    <2>2. /\ Verdicts[r] = "none"
          /\ Verdicts' = [Verdicts EXCEPT ![r] = IF fresh'[r] THEN "fresh" ELSE "duplicate"]
        <3>1. Verdict(r) = "none"
            BY <2>1 DEF Verdict, Duplicate
        <3>2. Verdict(r)' = IF fresh'[r] THEN "fresh" ELSE "duplicate"
            BY <2>1 DEF Verdict, Duplicate
        <3>3. \A q \in Req \ {r} : Verdict(q)' = Verdict(q)
            BY <2>1 DEF Verdict, Duplicate
        <3> QED  BY <3>1, <3>2, <3>3 DEF Verdicts
    <2>3. Live(at[r], FpOf[r], now) <=> \E a \in Admitted : Window!Covers(a, r)
        BY <2>1, LiveIsCovered
    <2>4. CASE fresh'[r]
        <3>1. Pending' = Pending \cup {b}
            BY <2>1, <2>4 DEF Pending
        <3>2. Admitted' = Admitted \cup {b}
            BY <2>1, <3>1 DEF Admitted
        <3>3. Window!Fresh(r)
            BY <2>1, <2>2, <2>3, <2>4, <3>2 DEF Window!Fresh, Admitted, Verdicts
        <3> QED  BY <3>3 DEF Window!Next
    <2>5. CASE ~fresh'[r]
        <3>1. Pending' = Pending
            BY <2>1, <2>5 DEF Pending
        <3>2. Admitted' = Admitted
            BY <2>1, <3>1 DEF Admitted
        <3>3. Window!Duplicate(r)
            BY <2>1, <2>2, <2>3, <2>5, <3>2 DEF Window!Duplicate, Admitted, Verdicts
        <3> QED  BY <3>3 DEF Window!Next
    <2> QED  BY <2>4, <2>5
<1>4. ASSUME NEW r \in Req, Admit(r) PROVE UNCHANGED Window!vars
    <2> DEFINE b == [req |-> r, time |-> clk[r]]
    <2>1. /\ UNCHANGED <<now, at, clk, fresh>> /\ admissions' = admissions \cup {b}
          /\ pc[r] = "admitting" /\ fresh[r] /\ pc'[r] = "slack"
          /\ \A q \in Req \ {r} : pc'[q] = pc[q]
        BY <1>4, <1>b DEF Admit, GoTo
    <2>2. Pending = Pending' \cup {b}
        BY <2>1 DEF Pending
    <2>3. admissions' \cup Pending' = admissions \cup Pending
        BY <2>1, <2>2
    <2>4. \A q \in Req : Verdict(q)' = Verdict(q)
        BY <2>1 DEF Verdict, Duplicate
    <2> QED  BY <2>1, <2>3, <2>4 DEF Window!vars
<1>5. ASSUME NEW r \in Req, Suppress(r) PROVE UNCHANGED Window!vars
    <2>1. /\ UNCHANGED <<now, at, clk, fresh, admissions>>
          /\ pc[r] = "admitting" /\ ~fresh[r] /\ pc'[r] = "suppressed"
          /\ \A q \in Req \ {r} : pc'[q] = pc[q]
        BY <1>5, <1>b DEF Suppress, GoTo
    <2>2. Pending' = Pending
        BY <2>1 DEF Pending
    <2>3. \A q \in Req : Verdict(q)' = Verdict(q)
        BY <2>1 DEF Verdict, Duplicate
    <2> QED  BY <2>1, <2>2, <2>3 DEF Window!vars
<1>6. ASSUME NEW r \in Req,
             Arrive(r) \/ Reply(r) \/ HangUp(r) \/ \E c \in Channel : Dispatch(r, c)
      PROVE  UNCHANGED Window!vars
    <2>1. /\ UNCHANGED <<now, at, clk, fresh, admissions>>
          /\ \/ pc' = pc
             \/ pc[r] = "new" /\ GoTo(r, "arrived")
             \/ pc[r] = "reply" /\ (GoTo(r, "failed") \/ GoTo(r, "accepted"))
             \/ pc[r] \in Channel /\ (GoTo(r, "pagerduty") \/ GoTo(r, "reply"))
        BY <1>6 DEF Arrive, Reply, HangUp, Dispatch, Following, cache
    <2>2. /\ \A q \in Req \ {r} : pc'[q] = pc[q]
          /\ \/ pc'[r] = pc[r]
             \/ pc[r] = "new" /\ pc'[r] = "arrived"
             \/ /\ pc[r] \in {"slack", "pagerduty", "reply"}
                /\ pc'[r] \in {"pagerduty", "reply", "failed", "accepted"}
        BY <2>1, <1>b DEF GoTo, Channel
    <2>3. \A q \in Req : Verdict(q)' = Verdict(q)
        BY <2>1, <2>2 DEF Verdict, Duplicate
    <2> QED  BY <2>1, <2>2, <2>3, <1>c
<1>7. CASE UNCHANGED vars
    BY <1>7, <1>c DEF vars, cache, Verdict, Duplicate
<1> QED  BY <1>1, <1>2, <1>3, <1>4, <1>5, <1>6, <1>7 DEF Next, Handle

(* Admit is atomic for any number of replicas, requests and restarts, and every
   TTL: the service implements a gate that answers each request at once. *)
THEOREM AdmitIsAlwaysAtomic == Spec => AdmitIsAtomic
<1> QED  BY InitIInv, StepIInv, InitWindow, StepWindow, PTL
         DEF Spec, AdmitIsAtomic, Window!Spec
===============================================================================

----------------------------- MODULE Miner_proofs -----------------------------
(***************************************************************************)
(* The safety properties of Miner, for every set of processes and of keys, *)
(* every page size and any number of faults, signals and days.             *)
(***************************************************************************)
EXTENDS Miner, TLAPS, FiniteSetTheorems

(* A process in force is the one the item names; nobody is overdue before
   somebody has overrun. *)
LeaseInv ==
    /\ \A p \in Running \ overdue : holder = p /\ live
    /\ ~overran => overdue = {}

(* What a polling process knows of its page. *)
PageInv ==
    \A p \in Proc :
        /\ pc[p] \in Polling => \A k \in page[p] : k <= after[p]
        /\ pc[p] \in {"off", "loop", "listing", "flushing"} => page[p] = {}
        /\ pc[p] = "commit" => \A k \in page[p] : IsNext(k, page[p]) => k \in mined

(* Every on-time record a listing has passed is mined or in the page: the
   strengthening that makes NoSkip inductive. *)
OnTime == (lake \cap Json) \ late

CoverInv ==
    \A p \in Proc : pc[p] \in Polling =>
        \A k \in OnTime : k <= after[p] => k \in mined \/ k \in page[p]

IInv == TypeOK /\ LeaseInv /\ PageInv /\ CoverInv /\ NoSkip

LEMMA InitIInv == Init => IInv
<1> SUFFICES ASSUME Init PROVE IInv
    OBVIOUS
<1>1. Running = {} /\ OnTime = {}
    BY DEF Init, Running, OnTime
<1>2. TypeOK
    BY <1>1, KeyAssumption DEF Init, TypeOK, Working
<1>3. LeaseInv /\ NoSkip
    BY <1>1 DEF Init, LeaseInv, NoSkip, OnTime
<1>4. PageInv /\ CoverInv
    BY <1>1 DEF Init, PageInv, CoverInv, Polling
<1> QED  BY <1>2, <1>3, <1>4 DEF IInv

(* When a process ends, the variables keep their types. *)
LEMMA EndTypeOK ==
    ASSUME TypeOK, NEW p \in Proc, EndProcess(p),
           holder' \in Proc \cup {NoProc}, live' \in BOOLEAN, faults' \in Nat
    PROVE  TypeOK'
<1> USE DEF TypeOK, EndProcess
<1>1. overdue' \subseteq Running'
    BY DEF Running
<1>2. pc' \in [Proc -> Working \cup {"off", "leaving", "failing"}]
    OBVIOUS
<1>3. page' \in [Proc -> SUBSET (lake' \cap Json)]
    OBVIOUS
<1>4. buffer' \in [Proc -> SUBSET Failing] /\ object' \in [Proc -> SUBSET Failing]
    OBVIOUS
<1>5. archive' \subseteq Failing
    OBVIOUS
<1> QED  BY <1>1, <1>2, <1>3, <1>4, <1>5

LEMMA StepTypeOK == IInv /\ [Next]_vars => TypeOK'
<1> SUFFICES ASSUME IInv, [Next]_vars PROVE TypeOK'
    OBVIOUS
<1> USE ProcAssumption, KeyAssumption, BoundAssumption
    DEF IInv, TypeOK, Running, Working, Polling, store, local, rows, history
<1>1. CASE \E k \in Key : Upload(k)
    <2>1. PICK k \in Key : Upload(k)  BY <1>1
    <2>2. lake' = lake \cup {k} /\ late' \subseteq late \cup {k} /\ Running' = Running
        BY <2>1 DEF Upload
    <2>3. page' \in [Proc -> SUBSET (lake' \cap Json)]
        BY <2>1, <2>2 DEF Upload
    <2>4. lake' \subseteq Key /\ late' \subseteq lake' /\ mined' \subseteq lake'
        BY <2>1, <2>2 DEF Upload
    <2>5. UNCHANGED <<store, local, rows, today, faults, signals, overdue, overran, repeats>>
        BY <2>1 DEF Upload
    <2> QED  BY <2>2, <2>3, <2>4, <2>5
<1>2. CASE NewDay
    <2>1. archive' \subseteq Failing
        <3>1. \A p \in Proc : object[p] \subseteq Failing
            OBVIOUS
        <3>2. archive' = archive \cup UNION {object[p] : p \in Proc} /\ archive \subseteq Failing
            BY <1>2 DEF NewDay
        <3>3. ASSUME NEW k \in UNION {object[p] : p \in Proc} PROVE k \in Failing
            <4>1. PICK p \in Proc : k \in object[p]
                OBVIOUS
            <4> QED  BY <3>1, <4>1
        <3> QED  BY <3>2, <3>3
    <2> QED  BY <1>2, <2>1 DEF NewDay
<1>3. CASE Lapse
    BY <1>3 DEF Lapse
<1>4. CASE \E p \in Proc : Launch(p)
    BY <1>4 DEF Launch
<1>5. CASE \E p \in Proc : LaunchUnseen(p)
    BY <1>5 DEF LaunchUnseen
<1>6. CASE \E p \in Proc : Leave(p)
    BY <1>6 DEF Leave
<1>7. CASE \E p \in Proc : StartPoll(p)
    BY <1>7 DEF StartPoll
<1>8. CASE \E p \in Proc : ListPage(p)
    BY <1>8 DEF ListPage, Wanted, Continue, Unlisted, IsLast
<1>9. CASE \E p \in Proc : Mine(p)
    BY <1>9 DEF Mine
<1>10. CASE \E p \in Proc : MinePoison(p)
    BY <1>10 DEF MinePoison
<1>11. CASE \E p \in Proc : Commit(p)
    BY <1>11 DEF Commit, Continue, IsNext
<1>12. CASE \E p \in Proc : Flush(p)
    BY <1>12 DEF Flush, Store
<1>13. CASE \E p \in Proc : Release(p)
    BY <1>13, EndTypeOK DEF Release
<1>14. CASE \E p \in Proc : Raise(p)
    BY <1>14 DEF Raise, Store, IsNext
<1>15. CASE \E p \in Proc : Crash(p)
    BY <1>15, EndTypeOK DEF Crash
<1>16. CASE UNCHANGED vars
    BY <1>16 DEF vars
<1> QED  BY <1>1, <1>2, <1>3, <1>4, <1>5, <1>6, <1>7, <1>8, <1>9, <1>10, <1>11,
            <1>12, <1>13, <1>14, <1>15, <1>16 DEF Next, Step

LEMMA StepLeaseInv == IInv /\ [Next]_vars => LeaseInv'
<1> SUFFICES ASSUME IInv, [Next]_vars PROVE LeaseInv'
    OBVIOUS
<1> USE DEF LeaseInv, Running
<1>1. CASE UNCHANGED <<holder, live, overdue, overran>> /\ Running' = Running
    BY <1>1 DEF IInv
<1>2. CASE Lapse
    BY <1>2 DEF Lapse, IInv, local
<1>3. CASE \E p \in Proc : Launch(p) \/ LaunchUnseen(p)
    BY <1>3 DEF Launch, LaunchUnseen, Grantable, IInv, TypeOK, local, history
<1>4. CASE \E p \in Proc : Release(p)
    BY <1>4 DEF Release, EndProcess, Freed, IInv, TypeOK
<1>5. CASE \E p \in Proc : Crash(p)
    BY <1>5 DEF Crash, EndProcess, IInv, TypeOK
<1>6. CASE (\E k \in Key : Upload(k)) \/ NewDay \/ UNCHANGED vars
    BY <1>1, <1>6 DEF Upload, NewDay, vars, store, local, history
<1>7. CASE \E p \in Proc : Leave(p) \/ StartPoll(p) \/ Mine(p) \/ MinePoison(p)
                           \/ Flush(p) \/ Raise(p)
    BY <1>1, <1>7 DEF Leave, StartPoll, Mine, MinePoison, Flush, Raise, IInv, TypeOK,
                      Working, Polling, store, history
<1>8. CASE \E p \in Proc : ListPage(p) \/ Commit(p)
    BY <1>1, <1>8 DEF ListPage, Wanted, Commit, Continue, IInv, TypeOK, store, history
<1> QED  BY <1>2, <1>3, <1>4, <1>5, <1>6, <1>7, <1>8 DEF Next, Step

LEMMA StepPageInv == IInv /\ [Next]_vars => PageInv'
<1> SUFFICES ASSUME IInv, [Next]_vars PROVE PageInv'
    OBVIOUS
<1> USE DEF IInv, TypeOK, PageInv, Polling
<1>1. CASE UNCHANGED <<pc, page, after, mined>>
    BY <1>1 DEF IsNext
<1>2. CASE (\E k \in Key : Upload(k)) \/ NewDay \/ Lapse \/ UNCHANGED vars
    BY <1>1, <1>2 DEF Upload, NewDay, Lapse, vars, local, history
<1>3. CASE \E p \in Proc : LaunchUnseen(p)
    BY <1>1, <1>3 DEF LaunchUnseen, local, history
<1>4. CASE \E p \in Proc : \/ Launch(p) \/ Leave(p) \/ MinePoison(p) \/ Flush(p)
                            \/ Raise(p)
    BY <1>4 DEF Launch, Leave, MinePoison, Flush, Raise, IsNext, local, history
<1>5. CASE \E p \in Proc : Release(p) \/ Crash(p)
    BY <1>5 DEF Release, Crash, EndProcess, IsNext
<1>6. CASE \E p \in Proc : StartPoll(p)
    BY <1>6 DEF StartPoll, IsNext, history
<1>7. CASE \E p \in Proc : ListPage(p)
    BY <1>7 DEF ListPage, Wanted, Continue, IsNext, IsLast, history
<1>8. CASE \E p \in Proc : Mine(p)
    BY <1>8, KeyAssumption DEF Mine, IsNext
<1>9. CASE \E p \in Proc : Commit(p)
    BY <1>9 DEF Commit, Continue, IsNext, history
<1> QED  BY <1>2, <1>3, <1>4, <1>5, <1>6, <1>7, <1>8, <1>9 DEF Next, Step

(* Keys, positions and pages are numbers and sets of numbers. *)
LEMMA PositionsAreNumbers ==
    TypeOK => /\ lake \subseteq Nat
              /\ cursor \in Nat
              /\ \A p \in Proc : after[p] \in Nat /\ page[p] \subseteq lake
<1> SUFFICES ASSUME TypeOK
             PROVE  /\ lake \subseteq Nat
                    /\ cursor \in Nat
                    /\ \A p \in Proc : after[p] \in Nat /\ page[p] \subseteq lake
    OBVIOUS
<1>1. \A k \in Key : k \in Nat
    BY KeyAssumption
<1>2. lake \subseteq Key /\ cursor \in Key \cup {0}
    BY DEF TypeOK
<1>3. lake \subseteq Nat
    BY <1>1, <1>2, Zenon
<1>4. cursor \in Nat
    BY <1>1, <1>2
<1>5. ASSUME NEW p \in Proc PROVE after[p] \in Nat /\ page[p] \subseteq lake
    <2>1. after[p] \in Key \cup {0}
        BY DEF TypeOK
    <2>2. after[p] \in Nat
        BY <1>1, <2>1
    <2>3. page[p] \subseteq lake
        BY DEF TypeOK
    <2> QED  BY <2>2, <2>3
<1> QED  BY <1>3, <1>4, <1>5

(* The record a miner has just mined is the first on-time one not yet settled. *)
LEMMA CommitCovered ==
    ASSUME IInv, NEW p \in Proc, pc[p] = "commit", NEW k \in page[p], IsNext(k, page[p])
    PROVE  /\ k \in mined
           /\ k <= after[p]
           /\ \A j \in OnTime : j <= k => j \in mined
<1> USE DEF IInv, TypeOK, Polling
<1>1. page[p] \subseteq Nat /\ OnTime \subseteq Nat /\ after[p] \in Nat
    BY PositionsAreNumbers DEF OnTime
<1>2. k \in mined /\ k <= after[p]
    BY DEF PageInv
<1>3. ASSUME NEW j \in OnTime, j <= k PROVE j \in mined
    <2>1. j <= after[p]
        BY <1>1, <1>2, <1>3
    <2>2. CASE j \in page[p]
        BY <1>1, <1>2, <1>3, <2>2 DEF IsNext
    <2> QED  BY <2>1, <2>2 DEF CoverInv
<1> QED  BY <1>2, <1>3

LEMMA StepCoverInv == IInv /\ [Next]_vars => CoverInv' /\ NoSkip'
<1> SUFFICES ASSUME IInv, [Next]_vars PROVE CoverInv' /\ NoSkip'
    OBVIOUS
<1> USE KeyAssumption DEF IInv, TypeOK, CoverInv, NoSkip, OnTime, Polling
<1>1. CASE UNCHANGED <<lake, late, cursor, pc, page, after, mined>>
    BY <1>1
<1>2. CASE \E k \in Key : Upload(k)
    BY <1>2 DEF Upload, BehindSweep, store, local
<1>3. CASE NewDay \/ Lapse \/ UNCHANGED vars
    BY <1>1, <1>3 DEF NewDay, Lapse, vars, store, local, history
<1>4. CASE \E p \in Proc : LaunchUnseen(p)
    BY <1>1, <1>4 DEF LaunchUnseen, local, history
<1>5. CASE \E p \in Proc : \/ Launch(p) \/ Leave(p) \/ MinePoison(p) \/ Flush(p)
                            \/ Release(p) \/ Crash(p)
    <2>1. UNCHANGED <<lake, late, cursor, mined, after>>
        BY <1>5 DEF Launch, Leave, MinePoison, Flush, Release, Crash, EndProcess,
                    store, local, history
    <2>2. \A q \in Proc : pc'[q] \in Polling => pc'[q] = pc[q] /\ page'[q] = page[q]
        BY <1>5 DEF Launch, Leave, MinePoison, Flush, Release, Crash, EndProcess
    <2> QED  BY <2>1, <2>2
<1>7. CASE \E p \in Proc : StartPoll(p)
    BY <1>7 DEF StartPoll, store, history
<1>8. CASE \E p \in Proc : ListPage(p)
    <2>1. PICK p \in Proc : ListPage(p)  BY <1>8
    <2>2. PICK batch \in SUBSET Unlisted(p) :
              /\ IsPage(batch, Unlisted(p))
              /\ page' = [page EXCEPT ![p] = batch \cap Json]
              /\ IF batch = {}
                 THEN UNCHANGED after
                 ELSE \E k \in batch : IsLast(k, batch) /\ after' = [after EXCEPT ![p] = k]
        BY <2>1 DEF ListPage, Wanted
    <2>3. \A k \in lake : k <= after'[p] => k <= after[p] \/ k \in batch
        <3>1. lake \subseteq Nat /\ after[p] \in Nat /\ batch \subseteq lake
            BY PositionsAreNumbers DEF Unlisted
        <3>2. CASE batch = {}
            BY <2>2, <3>2
        <3>3. ASSUME NEW l \in batch, after' = [after EXCEPT ![p] = l],
                     NEW k \in lake, k <= after'[p], ~(k <= after[p]), k \notin batch
              PROVE  FALSE
            <4>1. k \in Unlisted(p) \ batch
                BY <3>1, <3>3 DEF Unlisted
            <4>2. l < k
                BY <2>2, <4>1 DEF IsPage
            <4> QED  BY <3>1, <3>3, <4>2
        <3> QED  BY <2>2, <3>2, <3>3
    <2>4. UNCHANGED <<lake, late, cursor, mined>> /\ pc[p] = "listing" /\ page[p] = {}
        BY <2>1 DEF ListPage, Wanted, PageInv, store, history
    <2>5. \A q \in Proc \ {p} : UNCHANGED <<pc[q], page[q], after[q]>>
        BY <2>1 DEF ListPage, Wanted, Continue
    <2> QED  BY <2>2, <2>3, <2>4, <2>5
<1>9. CASE \E p \in Proc : Mine(p)
    BY <1>9 DEF Mine, store
<1>10. CASE \E p \in Proc : Commit(p)
    <2>1. PICK p \in Proc : Commit(p)  BY <1>10
    <2>2. PICK k \in page[p] : /\ IsNext(k, page[p])
                              /\ cursor' = k
                              /\ page' = [page EXCEPT ![p] = @ \ {k}]
        BY <2>1 DEF Commit
    <2>3. pc[p] = "commit"
        BY <2>1 DEF Commit
    <2>4. k <= after[p] /\ \A j \in OnTime : j <= k => j \in mined
        BY <2>2, <2>3, CommitCovered
    <2>5. UNCHANGED <<lake, late, mined, after>>
        BY <2>1 DEF Commit, history
    <2>6. \A q \in Proc \ {p} : UNCHANGED <<pc[q], page[q]>>
        BY <2>1, <2>2 DEF Commit, Continue
    <2> QED  BY <2>1, <2>2, <2>3, <2>4, <2>5, <2>6 DEF Commit
<1>11. CASE \E p \in Proc : Raise(p)
    <2>1. PICK p \in Proc : Raise(p)  BY <1>11
    <2>2. \/ cursor' = cursor
          \/ pc[p] = "commit" /\ \E k \in page[p] : IsNext(k, page[p]) /\ cursor' = k
        BY <2>1 DEF Raise
    <2>3. \A j \in OnTime : j <= cursor' => j \in mined
        BY <2>2, CommitCovered
    <2>4. UNCHANGED <<lake, late, mined, after, page>> /\ pc' = [pc EXCEPT ![p] = "failing"]
        BY <2>1 DEF Raise, history
    <2> QED  BY <2>3, <2>4
<1> QED  BY <1>2, <1>3, <1>4, <1>5, <1>7, <1>8, <1>9, <1>10, <1>11 DEF Next, Step

LEMMA StepIInv == IInv /\ [Next]_vars => IInv'
BY StepTypeOK, StepLeaseInv, StepPageInv, StepCoverInv DEF IInv

(* Type correctness of the miners. *)
THEOREM TypeCorrect == Spec => []TypeOK
<1>1. IInv => TypeOK  BY DEF IInv
<1> QED  BY <1>1, InitIInv, StepIInv, PTL DEF Spec

(* The cursor passes no record that was not mined, except those uploaded behind
   a sweep, for any number of miners, pages, crashes and overruns. *)
THEOREM NoSkipAlways == Spec => []NoSkip
<1>1. IInv => NoSkip  BY DEF IInv
<1> QED  BY <1>1, InitIInv, StepIInv, PTL DEF Spec

(* Two miners never both run under a lease in force. *)
THEOREM SingleRunnerAlways == Spec => []SingleRunner
<1>1. IInv => SingleRunner  BY DEF IInv, LeaseInv, SingleRunner, Lease!SingleRunner,
                                        Lease!InForce
<1> QED  BY <1>1, InitIInv, StepIInv, PTL DEF Spec

------------------------------------------------------------------------------
(* The miners implement the lease contract. *)

LEMMA InitLease == Init => Lease!Init
BY DEF Init, Lease!Init, Running

LEMMA StepLease == IInv /\ [Next]_vars => [Lease!Next]_Lease!vars
<1> SUFFICES ASSUME IInv, [Next]_vars PROVE [Lease!Next]_Lease!vars
    OBVIOUS
<1>1. CASE UNCHANGED <<holder, live, overdue>> /\ Running' = Running
    BY <1>1 DEF Lease!vars
<1>2. CASE Lapse
    <2>1. Lease!Lapse
        BY <1>2 DEF Lapse, Lease!Lapse, Running, local
    <2> QED  BY <2>1 DEF Lease!Next
<1>3. CASE \E p \in Proc : Launch(p)
    <2>1. PICK p \in Proc : Launch(p)  BY <1>3
    <2>2. p \notin Running /\ Running' = Running \cup {p}
        BY <2>1 DEF Launch, Running, IInv, TypeOK
    <2>3. Lease!Acquire(p)
        BY <2>1, <2>2 DEF Launch, Grantable, Lease!Acquire, Lease!Grantable, history
    <2> QED  BY <2>3 DEF Lease!Next
<1>4. CASE \E p \in Proc : LaunchUnseen(p)
    <2>1. PICK p \in Proc : LaunchUnseen(p)  BY <1>4
    <2>2. Lease!AcquireUnseen(p)
        BY <2>1 DEF LaunchUnseen, Grantable, Lease!AcquireUnseen, Lease!Grantable,
                    Running, history, local
    <2> QED  BY <2>2 DEF Lease!Next
<1>5. CASE \E p \in Proc : Release(p)
    <2>1. PICK p \in Proc : Release(p)  BY <1>5
    <2>2. p \in Running /\ Running' = Running \ {p}
        BY <2>1 DEF Release, EndProcess, Running, IInv, TypeOK
    <2>3. Lease!Release(p)
        BY <2>1, <2>2 DEF Release, EndProcess, Freed, Lease!Release
    <2> QED  BY <2>3 DEF Lease!Next
<1>6. CASE \E p \in Proc : Crash(p)
    <2>1. PICK p \in Proc : Crash(p)  BY <1>6
    <2>2. p \in Running /\ Running' = Running \ {p}
        BY <2>1 DEF Crash, EndProcess, Running, IInv, TypeOK
    <2>3. Lease!Crash(p)
        BY <2>1, <2>2 DEF Crash, EndProcess, Lease!Crash
    <2> QED  BY <2>3 DEF Lease!Next
<1>7. CASE (\E k \in Key : Upload(k)) \/ NewDay \/ UNCHANGED vars
    BY <1>1, <1>7 DEF Upload, NewDay, vars, store, local, history, Running
<1>8. CASE \E p \in Proc : \/ Leave(p) \/ StartPoll(p) \/ Mine(p) \/ MinePoison(p)
                            \/ Flush(p) \/ Raise(p)
    BY <1>1, <1>8 DEF Leave, StartPoll, Mine, MinePoison, Flush, Raise, IInv, TypeOK,
                      Working, Polling, store, history, Running
<1>9. CASE \E p \in Proc : ListPage(p) \/ Commit(p)
    BY <1>1, <1>9 DEF ListPage, Wanted, Commit, Continue, IInv, TypeOK, store, history, Running
<1> QED  BY <1>2, <1>3, <1>4, <1>5, <1>6, <1>7, <1>8, <1>9 DEF Next, Step

(* Launches, ends, crashes and lapses of the miners are the steps of the lease
   contract; everything else a miner does leaves the lease alone. *)
THEOREM ImplementsLease == Spec => LeaseSpec
<1> QED  BY InitIInv, StepIInv, InitLease, StepLease, PTL DEF Spec, LeaseSpec, Lease!Spec

------------------------------------------------------------------------------
(* Before the first overrun at most one miner runs, and it works ahead of the
   cursor. *)

ForwardInv ==
    ~overran => \A p \in Proc : pc[p] \in Polling =>
        cursor <= after[p] /\ \A k \in page[p] : cursor < k

FInv == IInv /\ ForwardInv

LEMMA OnlyRunner ==
    ASSUME IInv, ~overran, NEW p \in Proc, NEW q \in Proc, pc[p] # "off", pc[q] # "off"
    PROVE  p = q
BY DEF IInv, LeaseInv, Running

LEMMA InitFInv == Init => FInv
BY InitIInv DEF Init, FInv, ForwardInv, Polling

LEMMA StepFInv == FInv /\ [Next]_vars => FInv' /\ (~overran' => cursor' >= cursor)
<1> SUFFICES ASSUME IInv, ForwardInv, [Next]_vars, ~overran'
             PROVE  ForwardInv' /\ cursor' >= cursor
    BY StepIInv DEF FInv, ForwardInv
<1>a. ~overran
    BY DEF Next, Step, Upload, NewDay, Lapse, Launch, LaunchUnseen, Leave, StartPoll,
           ListPage, Wanted, Mine, MinePoison, Commit, Flush, Release, Raise, Crash, EndProcess,
           vars, history
<1>b. TypeOK /\ PageInv
    BY DEF IInv
<1>c. /\ cursor \in Nat /\ lake \subseteq Nat
      /\ \A p \in Proc : after[p] \in Nat /\ page[p] \subseteq Nat
    BY <1>b, PositionsAreNumbers
<1> USE DEF ForwardInv, Polling
<1>1. CASE /\ UNCHANGED <<cursor, after>>
           /\ \A q \in Proc : pc'[q] \in Polling => pc'[q] = pc[q] /\ page'[q] = page[q]
    BY <1>1, <1>a, <1>c
<1>2. CASE \/ \E k \in Key : Upload(k)
           \/ NewDay \/ Lapse \/ UNCHANGED vars
           \/ \E p \in Proc : LaunchUnseen(p)
    BY <1>1, <1>2 DEF Upload, NewDay, Lapse, LaunchUnseen, vars, store, local
<1>3. CASE \E p \in Proc : \/ Launch(p) \/ Leave(p) \/ MinePoison(p) \/ Flush(p)
                            \/ Release(p) \/ Crash(p)
    BY <1>1, <1>3, <1>b DEF Launch, Leave, MinePoison, Flush, Release, Crash, EndProcess,
                      store, TypeOK
<1>4. CASE \E p \in Proc : StartPoll(p)
    BY <1>4, <1>a, <1>b, <1>c DEF StartPoll, store, TypeOK, PageInv
<1>5. CASE \E p \in Proc : ListPage(p)
    <2>1. PICK p \in Proc : ListPage(p)  BY <1>5
    <2>2. PICK batch \in SUBSET Unlisted(p) :
              /\ page' = [page EXCEPT ![p] = batch \cap Json]
              /\ IF batch = {}
                 THEN UNCHANGED after
                 ELSE \E k \in batch : IsLast(k, batch) /\ after' = [after EXCEPT ![p] = k]
        BY <2>1 DEF ListPage, Wanted
    <2>3. cursor' = cursor /\ cursor <= after[p] /\ \A k \in batch : k \in Nat /\ after[p] < k
        BY <2>1, <1>a, <1>c DEF ListPage, Wanted, Unlisted, store
    <2>4. \A k \in batch : cursor < k
        BY <2>3, <1>c
    <2>5. cursor <= after'[p]
        BY <2>2, <2>3, <2>4, <1>b, <1>c DEF TypeOK, IsLast
    <2>6. page'[p] \subseteq batch
        BY <2>2, <1>b DEF TypeOK
    <2>7. \A q \in Proc \ {p} : UNCHANGED <<pc[q], page[q], after[q]>>
        BY <2>1, <2>2, <1>b DEF ListPage, Wanted, Continue, TypeOK
    <2> QED  BY <2>3, <2>4, <2>5, <2>6, <2>7, <1>a, <1>c
<1>6. CASE \E p \in Proc : Mine(p)
    BY <1>6, <1>a, <1>b, <1>c DEF Mine, store, TypeOK
<1>7. CASE \E p \in Proc : Commit(p)
    <2>1. PICK p \in Proc : Commit(p)  BY <1>7
    <2>2. PICK k \in page[p] : /\ IsNext(k, page[p])
                              /\ cursor' = k
                              /\ page' = [page EXCEPT ![p] = @ \ {k}]
        BY <2>1 DEF Commit
    <2>3. pc[p] = "commit" /\ after' = after
        BY <2>1 DEF Commit
    <2>4. cursor < k /\ k \in Nat
        BY <2>3, <1>a, <1>c
    <2>5. k <= after[p] /\ \A j \in page'[p] : k < j
        <3>1. page'[p] = page[p] \ {k}
            BY <2>2, <1>b DEF TypeOK
        <3> QED  BY <2>2, <2>3, <3>1, <1>b, <1>c DEF IsNext, PageInv
    <2>6. \A q \in Proc \ {p} : pc[q] = "off" /\ pc'[q] = pc[q]
        BY <2>1, <2>3, <1>a, <1>b, OnlyRunner DEF Commit, Continue, TypeOK
    <2> QED  BY <2>2, <2>3, <2>4, <2>5, <2>6, <1>c
<1>8. CASE \E p \in Proc : Raise(p)
    <2>1. PICK p \in Proc : Raise(p)  BY <1>8
    <2>2. \/ cursor' = cursor
          \/ pc[p] = "commit" /\ cursor' \in page[p]
        BY <2>1 DEF Raise, IsNext
    <2>3. cursor' >= cursor
        BY <2>2, <1>a, <1>c
    <2>4. \A q \in Proc \ {p} : pc[q] = "off" /\ pc'[q] = pc[q]
        BY <2>1, <1>a, <1>b, OnlyRunner DEF Raise, TypeOK, Working
    <2>5. pc'[p] = "failing"
        BY <2>1, <1>b DEF Raise, TypeOK
    <2> QED  BY <2>3, <2>4, <2>5
<1> QED  BY <1>2, <1>3, <1>4, <1>5, <1>6, <1>7, <1>8 DEF Next, Step

(* The cursor never moves back before some miner has outlived its lease. *)
THEOREM CursorMovesForward == Spec => CursorForward
<1>1. FInv /\ [Next]_vars => [~overran' => cursor' >= cursor]_vars
    BY StepFInv
<1>2. FInv /\ [Next]_vars => FInv'
    BY StepFInv
<1> QED  BY <1>1, <1>2, InitFInv, PTL DEF Spec, CursorForward

------------------------------------------------------------------------------
(* Before the first overrun, a record is owed a repetition when it was mined,
   the cursor has not reached it and nobody is about to commit it: its miner
   died in between. Each fault makes at most one record owed. *)

Committing(k) == \E p \in Proc : pc[p] = "commit" /\ IsNext(k, page[p])

Owed == {k \in mined : k > cursor /\ ~Committing(k)}

RepeatInv ==
    /\ IsFiniteSet(mined)
    /\ ~overran => repeats + Cardinality(Owed) <= faults

RInv == FInv /\ RepeatInv

LEMMA InitRInv == Init => RInv
<1> SUFFICES ASSUME Init PROVE RepeatInv
    BY InitFInv DEF RInv
<1>1. mined = {} /\ Owed = {}
    BY DEF Init, Owed
<1> QED  BY <1>1, FS_EmptySet DEF Init, RepeatInv

(* A set that grows by at most one element. *)
LEMMA GrowsByOne ==
    ASSUME NEW S, NEW T, IsFiniteSet(S), NEW x, T \subseteq S \cup {x}
    PROVE  /\ IsFiniteSet(T)
           /\ Cardinality(T) \in Nat /\ Cardinality(S) \in Nat
           /\ Cardinality(T) <= Cardinality(S) + 1
<1>1. /\ IsFiniteSet(S \cup {x})
      /\ Cardinality(S \cup {x}) = Cardinality(S) \/ Cardinality(S \cup {x}) = Cardinality(S) + 1
    BY FS_AddElement
<1>2. IsFiniteSet(T) /\ Cardinality(T) <= Cardinality(S \cup {x})
    BY <1>1, FS_Subset
<1> QED  BY <1>1, <1>2, FS_CardinalityType

LEMMA StepRInv == RInv /\ [Next]_vars => RInv'
<1> SUFFICES ASSUME FInv, RepeatInv, [Next]_vars PROVE RepeatInv'
    BY StepFInv DEF RInv
<1>a. IsFiniteSet(Owed) /\ Cardinality(Owed) \in Nat /\ IsFiniteSet(mined)
    BY FS_Subset, FS_CardinalityType DEF RepeatInv, Owed
<1>b. IInv /\ TypeOK /\ faults \in Nat /\ repeats \in Nat
    BY DEF FInv, IInv, TypeOK
<1>c. /\ cursor \in Nat /\ mined \subseteq Nat
      /\ \A p \in Proc : page[p] \subseteq Nat
    BY <1>b, PositionsAreNumbers DEF TypeOK
<1>1. CASE mined' = mined /\ Owed' \subseteq Owed /\ faults' = faults /\ repeats' = repeats
           /\ (~overran' => ~overran)
    <2>1. Cardinality(Owed') <= Cardinality(Owed) /\ Cardinality(Owed') \in Nat
        BY <1>1, <1>a, FS_Subset, FS_CardinalityType
    <2> QED  BY <1>1, <1>a, <1>b, <2>1 DEF RepeatInv
<1>2. ASSUME mined' = mined, faults' = faults + 1, repeats' = repeats, overran' = overran,
             NEW x, Owed' \subseteq Owed \cup {x}
      PROVE  RepeatInv'
    <2>1. Cardinality(Owed') <= Cardinality(Owed) + 1 /\ Cardinality(Owed') \in Nat
        BY <1>2, <1>a, GrowsByOne
    <2> QED  BY <1>2, <1>a, <1>b, <2>1 DEF RepeatInv
<1>3. CASE (\E k \in Key : Upload(k)) \/ NewDay \/ Lapse \/ UNCHANGED vars
    <2>1. UNCHANGED <<mined, cursor, pc, page, faults, repeats>> /\ (~overran' => ~overran)
        <3>1. CASE \E k \in Key : Upload(k)
            BY <3>1 DEF Upload, store, local
        <3>2. CASE NewDay \/ UNCHANGED vars
            BY <3>2 DEF NewDay, vars, store, local, history
        <3>3. CASE Lapse
            BY <3>3 DEF Lapse, local
        <3> QED  BY <1>3, <3>1, <3>2, <3>3
    <2>2. Owed' = Owed
        BY <2>1 DEF Owed, Committing, IsNext
    <2> QED  BY <1>1, <2>1, <2>2
<1>4. CASE \E p \in Proc : LaunchUnseen(p)
    <2>1. UNCHANGED <<mined, cursor, pc, page, repeats, overran>> /\ faults' = faults + 1
        BY <1>4 DEF LaunchUnseen, local, history
    <2>2. Owed' = Owed
        BY <2>1 DEF Owed, Committing, IsNext
    <2> QED  BY <1>2, <2>1, <2>2
<1>5. CASE \E p \in Proc : \/ Launch(p) \/ Leave(p) \/ StartPoll(p) \/ ListPage(p)
                            \/ MinePoison(p) \/ Flush(p) \/ Release(p)
    <2>1. UNCHANGED <<mined, cursor, faults, repeats, overran>>
        BY <1>5 DEF Launch, Leave, StartPoll, ListPage, Wanted, MinePoison, Flush, Release,
                    EndProcess, store, history
    <2>2. \A q \in Proc : pc[q] = "commit" => pc'[q] = "commit" /\ page'[q] = page[q]
        BY <1>5, <1>b DEF Launch, Leave, StartPoll, ListPage, Wanted, MinePoison, Flush, Release,
                          EndProcess, Continue, TypeOK
    <2>3. Owed' \subseteq Owed
        BY <2>1, <2>2 DEF Owed, Committing, IsNext
    <2> QED  BY <1>1, <2>1, <2>3
<1>6. CASE \E p \in Proc : Mine(p)
    <2>1. PICK p \in Proc : Mine(p)  BY <1>6
    <2>2. PICK k \in page[p] : /\ IsNext(k, page[p])
                              /\ mined' = mined \cup {k}
                              /\ repeats' = IF k \in mined THEN repeats + 1 ELSE repeats
        BY <2>1 DEF Mine
    <2>3. /\ UNCHANGED <<cursor, faults, overran, page>>
          /\ pc' = [pc EXCEPT ![p] = "commit"] /\ pc[p] = "record"
        BY <2>1 DEF Mine, store
    <2>4. IsFiniteSet(mined')
        BY <2>2, <1>a, FS_AddElement
    <2>5. Committing(k)'
        BY <2>2, <2>3, <1>b DEF Committing, IsNext, TypeOK
    <2>6. \A j : Committing(j) => Committing(j)'
        BY <2>3, <1>b DEF Committing, IsNext, TypeOK
    <2>7. Owed' \subseteq Owed \ {k}
        BY <2>2, <2>3, <2>5, <2>6 DEF Owed
    <2>8. CASE overran
        BY <2>3, <2>4, <2>8 DEF RepeatInv
    <2>9. CASE ~overran /\ k \notin mined
        <3>1. Cardinality(Owed') <= Cardinality(Owed) /\ Cardinality(Owed') \in Nat
            BY <2>7, <1>a, FS_Subset, FS_CardinalityType
        <3> QED  BY <3>1, <2>2, <2>3, <2>4, <2>9, <1>a, <1>b DEF RepeatInv
    <2>10. CASE ~overran /\ k \in mined
        <3>1. k > cursor
            BY <2>3, <2>10, <1>c DEF FInv, ForwardInv, Polling
        <3>2. ~Committing(k)
            BY <2>3, <2>10, <1>b, OnlyRunner DEF Committing
        <3>3. k \in Owed
            BY <3>1, <3>2, <2>10 DEF Owed
        <3>4. IsFiniteSet(Owed \ {k}) /\ Cardinality(Owed \ {k}) = Cardinality(Owed) - 1
            BY <3>3, <1>a, FS_RemoveElement
        <3>5. Cardinality(Owed') <= Cardinality(Owed) - 1 /\ Cardinality(Owed') \in Nat
            BY <3>4, <2>7, <1>a, FS_Subset, FS_CardinalityType
        <3> QED  BY <3>5, <2>2, <2>3, <2>4, <2>10, <1>a, <1>b DEF RepeatInv
    <2> QED  BY <2>8, <2>9, <2>10
<1>7. CASE \E p \in Proc : Commit(p)
    <2>1. PICK p \in Proc : Commit(p)  BY <1>7
    <2>2. PICK k \in page[p] : IsNext(k, page[p]) /\ cursor' = k
        BY <2>1 DEF Commit
    <2>3. pc[p] = "commit" /\ UNCHANGED <<mined, faults, repeats, overran>>
        BY <2>1 DEF Commit, history
    <2>4. CASE overran
        BY <2>3, <2>4, <1>a DEF RepeatInv
    <2>5. CASE ~overran
        <3>1. cursor < k
            BY <2>3, <2>5 DEF FInv, ForwardInv, Polling
        <3>2. \A j : Committing(j) => j = k
            <4>1. \A q \in Proc : pc[q] = "commit" => q = p
                BY <2>3, <2>5, <1>b, OnlyRunner
            <4> QED  BY <4>1, <2>2, <1>c DEF Committing, IsNext
        <3>3. Owed' \subseteq Owed
            <4>1. ASSUME NEW j \in mined, j > k PROVE j > cursor /\ ~Committing(j)
                <5>1. j \in Nat /\ k \in Nat
                    BY <1>c
                <5> QED  BY <4>1, <5>1, <3>1, <3>2, <1>c
            <4> QED  BY <4>1, <2>2, <2>3 DEF Owed
        <3> QED  BY <1>1, <2>3, <3>3
    <2> QED  BY <2>4, <2>5
<1>8. CASE \E p \in Proc : Raise(p) \/ Crash(p)
    <2>1. PICK p \in Proc : Raise(p) \/ Crash(p)  BY <1>8
    <2>2. UNCHANGED <<mined, repeats, overran>> /\ faults' = faults + 1
        BY <2>1 DEF Raise, Crash, EndProcess, history
    <2>3. cursor' >= cursor \/ overran
        BY <2>2, StepFInv
    <2>4. CASE overran
        BY <2>2, <2>4, <1>a DEF RepeatInv
    <2>5. CASE ~overran /\ pc[p] = "commit"
        <3>1. \A j, k : Committing(j) /\ Committing(k) => j = k
            <4>1. \A q \in Proc : pc[q] = "commit" => q = p
                BY <2>5, <1>b, OnlyRunner
            <4> QED  BY <4>1, <1>c DEF Committing, IsNext
        <3>2. \E x : \A j : Committing(j) => j = x
            BY <3>1
        <3>3. PICK x : \A j : Committing(j) => j = x
            BY <3>2
        <3>4. cursor' \in Nat
            BY <2>1, <1>c DEF Raise, Crash, EndProcess
        <3>5. Owed' \subseteq Owed \cup {x}
            <4>1. ASSUME NEW j \in mined, j > cursor', j # x PROVE j > cursor /\ ~Committing(j)
                <5>1. j \in Nat
                    BY <1>c
                <5>2. cursor' >= cursor
                    BY <2>3, <2>5
                <5>3. j > cursor
                    BY <4>1, <5>1, <5>2, <3>4, <1>c
                <5>4. ~Committing(j)
                    BY <4>1, <3>3
                <5> QED  BY <5>3, <5>4
            <4> QED  BY <4>1, <2>2 DEF Owed
        <3> QED  BY <1>2, <2>2, <3>5
    <2>6. CASE ~overran /\ pc[p] # "commit"
        <3>1. cursor' = cursor
            BY <2>1, <2>6 DEF Raise, Crash, EndProcess
        <3>2. \A q \in Proc : pc[q] = "commit" => pc'[q] = "commit" /\ page'[q] = page[q]
            BY <2>1, <2>6, <1>b DEF Raise, Crash, EndProcess, TypeOK
        <3>3. Owed' \subseteq Owed
            BY <2>2, <3>1, <3>2 DEF Owed, Committing, IsNext
        <3> QED  BY <1>2, <2>2, <3>3
    <2> QED  BY <2>4, <2>5, <2>6
<1> QED  BY <1>3, <1>4, <1>5, <1>6, <1>7, <1>8 DEF Next, Step

(* Before the first overrun each fault makes at most one record be mined again:
   a crash re-delivers exactly the record that was in flight. *)
THEOREM OneRepeatPerFaultAlways == Spec => []OneRepeatPerFault
<1>1. RInv => OneRepeatPerFault
    <2> SUFFICES ASSUME RInv PROVE OneRepeatPerFault
        OBVIOUS
    <2>1. IsFiniteSet(Owed) /\ Cardinality(Owed) \in Nat
        BY FS_Subset, FS_CardinalityType DEF RInv, RepeatInv, Owed
    <2> QED  BY <2>1 DEF RInv, RepeatInv, OneRepeatPerFault, FInv, IInv, TypeOK
<1> QED  BY <1>1, InitRInv, StepRInv, PTL DEF Spec

------------------------------------------------------------------------------
(* Between polls a buffer is empty. *)

BufferOf(p) == pc[p] \in {"off", "loop", "leaving"} => buffer[p] = {}
BufferInv == \A p \in Proc : BufferOf(p)

LEMMA StepBuffer == TypeOK /\ BufferInv /\ [Next]_vars => BufferInv'
<1> SUFFICES ASSUME TypeOK, BufferInv, [Next]_vars PROVE BufferInv'
    OBVIOUS
<1> USE DEF store, local, rows, history
<1>a. /\ pc \in [Proc -> Working \cup {"off", "leaving", "failing"}]
      /\ buffer \in [Proc -> SUBSET Failing] /\ \A p \in Proc : BufferOf(p)
    BY DEF TypeOK, BufferInv
<1>b. ASSUME NEW p \in Proc, BufferOf(p)',
             \A q \in Proc \ {p} : pc'[q] = pc[q] /\ buffer'[q] = buffer[q]
      PROVE  BufferInv'
    BY <1>a, <1>b DEF BufferInv, BufferOf
<1>1. CASE UNCHANGED <<pc, buffer>>
    BY <1>1, <1>a DEF BufferInv, BufferOf
<1>2. CASE UNCHANGED vars \/ NewDay \/ Lapse \/ (\E k \in Key : Upload(k))
           \/ (\E p \in Proc : LaunchUnseen(p))
    BY <1>1, <1>2 DEF vars, NewDay, Lapse, Upload, LaunchUnseen
<1>3. ASSUME NEW p \in Proc, Launch(p) \/ Leave(p) PROVE BufferInv'
    <2>1. /\ pc[p] \in {"off", "loop"} /\ UNCHANGED buffer
          /\ \A q \in Proc \ {p} : pc'[q] = pc[q]
        BY <1>3, <1>a DEF Launch, Leave
    <2>2. BufferOf(p)'
        BY <2>1, <1>a DEF BufferOf
    <2> QED  BY <2>1, <2>2, <1>b
<1>4. ASSUME NEW p \in Proc,
             StartPoll(p) \/ ListPage(p) \/ MinePoison(p) \/ Commit(p) \/ Raise(p) \/ Mine(p)
      PROVE  BufferInv'
    <2>1. /\ pc'[p] \in {"listing", "record", "flushing", "commit", "failing"}
          /\ \A q \in Proc \ {p} : pc'[q] = pc[q] /\ buffer'[q] = buffer[q]
        BY <1>4, <1>a DEF StartPoll, ListPage, MinePoison, Commit, Raise, Mine, Continue
    <2>2. BufferOf(p)'
        BY <2>1 DEF BufferOf
    <2> QED  BY <2>1, <2>2, <1>b
<1>5. ASSUME NEW p \in Proc, Flush(p) \/ Release(p) \/ Crash(p) PROVE BufferInv'
    <2>1. /\ buffer'[p] = {}
          /\ \A q \in Proc \ {p} : pc'[q] = pc[q] /\ buffer'[q] = buffer[q]
        BY <1>5, <1>a DEF Flush, Release, Crash, EndProcess
    <2>2. BufferOf(p)'
        BY <2>1 DEF BufferOf
    <2> QED  BY <2>1, <2>2, <1>b
<1> QED  BY <1>2, <1>3, <1>4, <1>5 DEF Next, Step

(* A miner that leaves on a signal has no judged row left in memory, for any
   number of pages, records and miners. *)
THEOREM LeavesAlwaysFlushed == Spec => []LeavesFlushed
<1>1. Init => BufferInv  BY DEF Init, BufferInv, BufferOf
<1>2. IInv => TypeOK  BY DEF IInv
<1>3. BufferInv => LeavesFlushed  BY DEF BufferInv, BufferOf, LeavesFlushed
<1> QED  BY <1>1, <1>2, <1>3, InitIInv, StepIInv, StepBuffer, PTL DEF Spec

------------------------------------------------------------------------------
(* What becomes of a judged row. *)

LEMMA KeptIs ==
    ASSUME NEW k
    PROVE  k \in Kept <=> k \in archive \/ \E p \in Proc : k \in object[p] \/ k \in buffer[p]
BY DEF Kept

LEMMA StepKept ==
    ASSUME TypeOK, BufferInv, Next, NEW k \in Kept, k \notin Kept'
    PROVE  \E p \in Proc : \/ k \in buffer[p] /\ pc'[p] = "off" /\ pc[p] # "leaving"
                           \/ k \in object[p] /\ pc[p] = "flushing" /\ buffer[p] # {}
<1> USE DEF store, local, rows, history
<1>a. /\ pc \in [Proc -> Working \cup {"off", "leaving", "failing"}]
      /\ buffer \in [Proc -> SUBSET Failing] /\ object \in [Proc -> SUBSET Failing]
      /\ \A p \in Proc : BufferOf(p)
    BY DEF TypeOK, BufferInv
<1>b. k \in archive \/ \E p \in Proc : k \in object[p] \/ k \in buffer[p]
    BY KeptIs
<1>c. ~(k \in archive' \/ \E p \in Proc : k \in object'[p] \/ k \in buffer'[p])
    BY DEF Kept
<1>1. CASE \/ UNCHANGED <<archive, object, buffer>>
           \/ \E k1 \in Key : Upload(k1)
           \/ Lapse
           \/ \E p \in Proc : \/ Launch(p) \/ LaunchUnseen(p) \/ Leave(p) \/ StartPoll(p)
                              \/ ListPage(p) \/ MinePoison(p) \/ Commit(p)
    BY <1>1, <1>b, <1>c DEF Upload, Lapse, Launch, LaunchUnseen, Leave, StartPoll,
                            ListPage, MinePoison, Commit
<1>2. CASE NewDay
    <2>1. /\ buffer' = buffer /\ archive' = archive \cup UNION {object[p] : p \in Proc}
        BY <1>2 DEF NewDay
    <2> QED  BY <2>1, <1>b, <1>c
<1>3. ASSUME NEW p \in Proc, Mine(p) PROVE FALSE
    <2>1. /\ UNCHANGED <<archive, object>> /\ \A q \in Proc : buffer[q] \subseteq buffer'[q]
        BY <1>3, <1>a DEF Mine
    <2> QED  BY <2>1, <1>b, <1>c
<1>4. ASSUME NEW p \in Proc,
             Flush(p) \/ Raise(p)
      PROVE  k \in object[p] /\ pc[p] = "flushing" /\ buffer[p] # {}
    <2>1. /\ archive' = archive
          /\ \A q \in Proc \ {p} : object'[q] = object[q] /\ buffer'[q] = buffer[q]
          /\ \/ UNCHANGED <<object, buffer>>
             \/ /\ pc[p] = "flushing" /\ buffer'[p] \in {{}, buffer[p]}
                /\ object'[p] = IF buffer[p] = {} THEN object[p] ELSE buffer[p]
        BY <1>4, <1>a DEF Flush, Raise, Store
    <2> QED  BY <2>1, <1>b, <1>c
<1>5. ASSUME NEW p \in Proc, Release(p) \/ Crash(p)
      PROVE  k \in buffer[p] /\ pc'[p] = "off" /\ pc[p] # "leaving"
    <2>1. /\ archive' = archive \cup object[p] /\ pc'[p] = "off"
          /\ \A q \in Proc \ {p} : object'[q] = object[q] /\ buffer'[q] = buffer[q]
        BY <1>5, <1>a DEF Release, Crash, EndProcess
    <2>2. k \in buffer[p]
        BY <2>1, <1>b, <1>c
    <2>3. pc[p] # "leaving"
        BY <2>2, <1>a DEF BufferOf
    <2> QED  BY <2>1, <2>2, <2>3
<1> QED  BY <1>1, <1>2, <1>3, <1>4, <1>5 DEF Next, Step

(* A judged row is lost with a process that a fault or a rejected record ends,
   or to another flush of its process on the same day, and in no other way,
   for any number of miners, records, days and lapses. *)
THEOREM RowsLostOnlyByCrashOrReplacement == Spec => LostOnlyByCrashOrReplacement
<1>1. Init => BufferInv  BY DEF Init, BufferInv, BufferOf
<1>2. IInv => TypeOK  BY DEF IInv
<1>3. TypeOK /\ BufferInv /\ [Next]_vars
      => [\A k \in Kept \ Kept' : \E p \in Proc :
             \/ k \in buffer[p] /\ pc'[p] = "off" /\ pc[p] # "leaving"
             \/ k \in object[p] /\ pc[p] = "flushing" /\ buffer[p] # {}]_vars
    BY StepKept
<1> QED  BY <1>1, <1>2, <1>3, InitIInv, StepIInv, StepBuffer, PTL
         DEF Spec, LostOnlyByCrashOrReplacement
===============================================================================

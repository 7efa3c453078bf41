-------------------------- MODULE Orchestrator_proofs --------------------------
(***************************************************************************)
(* The sweep orchestration, for any set of executions and any number of    *)
(* alerting tasks that die.                                                *)
(***************************************************************************)
EXTENDS Orchestrator, TLAPS

(* The states from which an execution will still scale the service down. *)
Committed == {"wait", "describe", "choice", "run", "down", "downAfterFailure"}

(* The service is up only for somebody. *)
UpForSomebody ==
    desired = 1 => \E e \in Exec : step[e] \in Committed \cup {"aborted"}

LEMMA TypeInit == Init => TypeOK
<1> SUFFICES ASSUME Init PROVE TypeOK
    OBVIOUS
<1>1. "unstarted" \in Over
    BY DEF Over
<1>2. 0 \in {0, 1} /\ 0 \in Nat /\ FALSE \in BOOLEAN
    OBVIOUS
<1> QED  BY <1>1, <1>2 DEF Init, TypeOK

LEMMA TypeStep == TypeOK /\ [Next]_vars => TypeOK'
<1> USE BoundAssumption DEF TypeOK, Over, Ended, GoTo
<1> SUFFICES ASSUME TypeOK, [Next]_vars PROVE TypeOK'
    OBVIOUS
<1>1. CASE UNCHANGED vars
    BY <1>1 DEF vars
<1>2. CASE Converge \/ AlertingDies
    BY <1>2 DEF Converge, AlertingDies
<1>3. CASE \E e \in Exec : Start(e)
    BY <1>3 DEF Start
<1>4. CASE \E e \in Exec : Step(e)
    BY <1>4 DEF Step, ScaleAlertingUp, WaitForAlertingStable, DescribeAlertingService,
                IsAlertingStable, ScaleAlertingDown, ScaleAlertingDownAfterFailure,
                SweepFailed
<1>5. CASE \E e \in Exec : RunMinerTask(e) \/ CallFails(e)
    BY <1>5 DEF RunMinerTask, After, CallFails
<1> QED  BY <1>1, <1>2, <1>3, <1>4, <1>5 DEF Next

(* Type correctness of the orchestration. *)
THEOREM TypeCorrect == Spec => []TypeOK
<1> QED  BY TypeInit, TypeStep, PTL DEF Spec

------------------------------------------------------------------------------

LEMMA UpStep == TypeOK /\ UpForSomebody /\ [Next]_vars => UpForSomebody'
<1> USE DEF TypeOK, UpForSomebody, Committed, GoTo
<1> SUFFICES ASSUME TypeOK, UpForSomebody, [Next]_vars PROVE UpForSomebody'
    OBVIOUS
<1>1. CASE UNCHANGED vars \/ Converge \/ AlertingDies
    BY <1>1 DEF vars, Converge, AlertingDies
<1>2. CASE \E e \in Exec : Start(e)
    BY <1>2 DEF Start
<1>3. CASE \E e \in Exec : Step(e)
    BY <1>3 DEF Step, ScaleAlertingUp, WaitForAlertingStable, DescribeAlertingService,
                IsAlertingStable, ScaleAlertingDown, ScaleAlertingDownAfterFailure,
                SweepFailed
<1>4. CASE \E e \in Exec : RunMinerTask(e) \/ CallFails(e)
    BY <1>4 DEF RunMinerTask, After, CallFails
<1> QED  BY <1>1, <1>2, <1>3, <1>4 DEF Next

(* An idle orchestration has scaled the service down unless a call failed. *)
THEOREM IdleIsAlwaysScaledDown == Spec => []IdleIsScaledDown
<1>1. Init => UpForSomebody  BY DEF Init, UpForSomebody
<1>2. TypeOK /\ UpForSomebody => IdleIsScaledDown
    BY DEF TypeOK, UpForSomebody, IdleIsScaledDown, Committed, Active, Over, Ended
<1> QED  BY <1>1, <1>2, TypeInit, TypeStep, UpStep, PTL DEF Spec

------------------------------------------------------------------------------

(* While executions do not overlap there is one at most, and what it was told
   of the service stays true until its miner has ended. *)
AloneInv ==
    ~overlapped =>
        /\ \A e, f \in Active : e = f
        /\ \A e \in Exec :
              /\ step[e] \in {"wait", "describe", "choice", "run"} => desired = 1
              /\ /\ deaths = 0
                 /\ step[e] = "run" \/ (step[e] = "choice" /\ Stable(e))
                 => tasks = 1

LEMMA AloneStep == TypeOK /\ AloneInv /\ [Next]_vars => AloneInv'
<1> USE DEF TypeOK, AloneInv, Active, Over, Ended, GoTo, Stable
<1> SUFFICES ASSUME TypeOK, AloneInv, [Next]_vars PROVE AloneInv'
    OBVIOUS
<1>1. CASE UNCHANGED vars
    BY <1>1 DEF vars
<1>2. CASE Converge
    BY <1>2 DEF Converge
<1>3. CASE AlertingDies
    BY <1>3 DEF AlertingDies
<1>4. CASE \E e \in Exec : Start(e)
    <2>1. PICK e \in Exec : Start(e)  BY <1>4
    <2>2. step' = [step EXCEPT ![e] = "up"] /\ UNCHANGED <<desired, tasks, seen, deaths>>
          /\ overlapped' = (overlapped \/ Active # {})
        BY <2>1 DEF Start
    <2>3. ~overlapped' => Active' = {e}
        BY <2>2
    <2> QED  BY <2>2, <2>3
<1>5. ASSUME NEW e \in Exec, Step(e) \/ RunMinerTask(e) \/ CallFails(e)
      PROVE  AloneInv'
    <2>1. e \in Active /\ Active' \subseteq Active /\ overlapped' = overlapped
          /\ UNCHANGED <<tasks, deaths>> /\ \A f \in Exec \ {e} : step'[f] = step[f]
        BY <1>5 DEF Step, ScaleAlertingUp, WaitForAlertingStable, DescribeAlertingService,
               IsAlertingStable, ScaleAlertingDown, ScaleAlertingDownAfterFailure,
               SweepFailed, RunMinerTask, After, CallFails
    <2>2. ~overlapped => \A f \in Exec \ {e} : step'[f] \in Over
        BY <2>1
    <2>3. /\ step'[e] \in {"wait", "describe", "choice", "run"} =>
                desired' = 1 \/ (desired' = desired /\ step[e] \in {"wait", "describe", "choice"})
          /\ step'[e] = "run" => step[e] = "choice" /\ Stable(e)
          /\ step'[e] = "choice" => seen'[e] = tasks
        BY <1>5 DEF Step, ScaleAlertingUp, WaitForAlertingStable, DescribeAlertingService,
               IsAlertingStable, ScaleAlertingDown, ScaleAlertingDownAfterFailure,
               SweepFailed, RunMinerTask, After, CallFails
    <2> QED  BY <2>1, <2>2, <2>3
<1> QED  BY <1>1, <1>2, <1>3, <1>4, <1>5 DEF Next

(* Without overlapping executions no miner runs without alerting. *)
THEOREM MinerAlwaysHasAlerting == Spec => []MinerHasAlerting
<1>1. Init => AloneInv  BY DEF Init, AloneInv, Active, Over
<1>2. AloneInv => MinerHasAlerting
    BY DEF AloneInv, MinerHasAlerting
<1> QED  BY <1>1, <1>2, TypeInit, TypeStep, AloneStep, PTL DEF Spec
===============================================================================

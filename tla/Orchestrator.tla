----------------------------- MODULE Orchestrator -----------------------------
(***************************************************************************)
(* The sweep orchestration of iac/aws/step_functions.tf: an execution      *)
(* scales the alerting service up, waits until it runs, runs a miner task  *)
(* to its end and scales the service down again.  EventBridge starts       *)
(* executions on a schedule, whether or not an earlier one is still under  *)
(* way.  The miner task ends when it likes: at once when another miner     *)
(* has the lease, otherwise with success or a failure.                     *)
(***************************************************************************)
EXTENDS Naturals

CONSTANTS Exec,       \* executions of the state machine
          MaxDeaths   \* bound: alerting tasks that die

ASSUME BoundAssumption == MaxDeaths \in Nat

VARIABLES
    step,        \* the state each execution is in
    desired,     \* DesiredCount of the alerting service
    tasks,       \* its RunningCount
    seen,        \* the RunningCount an execution was last told
    deaths,      \* alerting tasks that have died
    overlapped   \* history: two executions have been under way at once

vars == <<step, desired, tasks, seen, deaths, overlapped>>

Ended == {"done", "failed", "aborted"}
Over == Ended \cup {"unstarted"}
Active == {e \in Exec : step[e] \notin Over}

TypeOK ==
    /\ step \in [Exec -> Over \cup {"up", "wait", "describe", "choice", "run", "down",
                                    "downAfterFailure", "sweepFailed"}]
    /\ desired \in {0, 1}
    /\ tasks \in {0, 1}
    /\ seen \in [Exec -> {0, 1}]
    /\ deaths \in Nat
    /\ overlapped \in BOOLEAN

Init ==
    /\ step = [e \in Exec |-> "unstarted"]
    /\ desired = 0
    /\ tasks = 0
    /\ seen = [e \in Exec |-> 0]
    /\ deaths = 0
    /\ overlapped = FALSE

GoTo(e, s) == step' = [step EXCEPT ![e] = s]

------------------------------------------------------------------------------
(* The states of the machine. *)

Start(e) ==
    /\ step[e] = "unstarted"
    /\ GoTo(e, "up")
    /\ overlapped' = (overlapped \/ Active # {})
    /\ UNCHANGED <<desired, tasks, seen, deaths>>

ScaleAlertingUp(e) ==
    /\ step[e] = "up"
    /\ desired' = 1
    /\ GoTo(e, "wait")
    /\ UNCHANGED <<tasks, seen, deaths, overlapped>>

WaitForAlertingStable(e) ==
    /\ step[e] = "wait"
    /\ GoTo(e, "describe")
    /\ UNCHANGED <<desired, tasks, seen, deaths, overlapped>>

DescribeAlertingService(e) ==
    /\ step[e] = "describe"
    /\ seen' = [seen EXCEPT ![e] = tasks]
    /\ GoTo(e, "choice")
    /\ UNCHANGED <<desired, tasks, deaths, overlapped>>

(* Mutated forms: a count of zero is enough, or one is not. *)
StableAlways(e) == seen[e] >= 0
StableNever(e) == seen[e] > 1

(* NumericGreaterThanEquals = 1 *)
Stable(e) == seen[e] >= 1

IsAlertingStable(e) ==
    /\ step[e] = "choice"
    /\ GoTo(e, IF Stable(e) THEN "run" ELSE "wait")
    /\ UNCHANGED <<desired, tasks, seen, deaths, overlapped>>

(* Mutated forms: the error is not caught, or the state after a success is
   mistyped. *)
AfterUncaught(ok) == IF ok THEN "down" ELSE "failed"
AfterUnknown(ok) == IF ok THEN "scaleDown" ELSE "downAfterFailure"

(* Next, or the Catch of States.ALL. *)
After(ok) == IF ok THEN "down" ELSE "downAfterFailure"

(* The miner task ends. *)
RunMinerTask(e) ==
    /\ step[e] = "run"
    /\ \E ok \in BOOLEAN : GoTo(e, After(ok))
    /\ UNCHANGED <<desired, tasks, seen, deaths, overlapped>>

ScaleAlertingDown(e) ==
    /\ step[e] = "down"
    /\ desired' = 0
    /\ GoTo(e, "done")
    /\ UNCHANGED <<tasks, seen, deaths, overlapped>>

ScaleAlertingDownAfterFailure(e) ==
    /\ step[e] = "downAfterFailure"
    /\ desired' = 0
    /\ GoTo(e, "sweepFailed")
    /\ UNCHANGED <<tasks, seen, deaths, overlapped>>

SweepFailed(e) ==
    /\ step[e] = "sweepFailed"
    /\ GoTo(e, "failed")
    /\ UNCHANGED <<desired, tasks, seen, deaths, overlapped>>

(* A call to ECS fails, applied or not. Only RunMinerTask has a Catch: the
   execution is over. *)
CallFails(e) ==
    /\ \/ step[e] = "describe" /\ UNCHANGED desired
       \/ step[e] = "up" /\ desired' \in {desired, 1}
       \/ step[e] \in {"down", "downAfterFailure"} /\ desired' \in {desired, 0}
    /\ GoTo(e, "aborted")
    /\ UNCHANGED <<tasks, seen, deaths, overlapped>>

------------------------------------------------------------------------------
(* ECS *)

(* The service scheduler starts or stops the task. *)
Converge ==
    /\ tasks # desired
    /\ tasks' = desired
    /\ UNCHANGED <<step, desired, seen, deaths, overlapped>>

AlertingDies ==
    /\ tasks = 1
    /\ deaths < MaxDeaths
    /\ tasks' = 0
    /\ deaths' = deaths + 1
    /\ UNCHANGED <<step, desired, seen, overlapped>>

------------------------------------------------------------------------------

Step(e) ==
    \/ ScaleAlertingUp(e) \/ WaitForAlertingStable(e) \/ DescribeAlertingService(e)
    \/ IsAlertingStable(e) \/ ScaleAlertingDown(e) \/ ScaleAlertingDownAfterFailure(e)
    \/ SweepFailed(e)

Next ==
    \/ Converge
    \/ AlertingDies
    \/ \E e \in Exec : Start(e) \/ Step(e) \/ RunMinerTask(e) \/ CallFails(e)

Spec == Init /\ [][Next]_vars

(* Step Functions goes on with every execution and ECS with every service.
   Neither the end of a miner task (the miner polls until it is told to stop)
   nor the start of an execution is fair. *)
FairSpec == Spec /\ WF_vars(Converge) /\ \A e \in Exec : WF_vars(Step(e))

------------------------------------------------------------------------------

(* step_functions.tf 3-7: the miner never runs without alerting. This holds
   while executions do not overlap; an execution that ends under another one's
   miner scales alerting to zero. *)
MinerHasAlerting ==
    \A e \in Exec : step[e] = "run" /\ ~overlapped /\ deaths = 0 => tasks = 1

(* finops-policy.md 45-47, no compute between sweeps: unless a call to ECS has
   failed, an idle orchestration has scaled the service down, whether miners
   succeeded or not and however executions overlapped. *)
IdleIsScaledDown ==
    Active = {} /\ (\A e \in Exec : step[e] # "aborted") => desired = 0

(* The waiting loop ends: an execution that has started gets to its miner, is
   aborted, or has been overtaken by another execution, which may have scaled
   the service down for good. *)
MinerIsReached ==
    \A e \in Exec : (step[e] = "up") ~> (step[e] \in {"run", "aborted"} \/ overlapped)
===============================================================================

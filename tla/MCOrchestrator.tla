---------------------------- MODULE MCOrchestrator ----------------------------
(* Three executions: two that overlap and one that follows. *)
EXTENDS Orchestrator
===============================================================================

---------------------------- MODULE MCOrchestrator ----------------------------
(***************************************************************************)
(* Instances of Orchestrator for TLC.                                      *)
(***************************************************************************)
EXTENDS OrchestratorProps

\* Everybody who may call enqueue.
Actors == Callers
================================================================================

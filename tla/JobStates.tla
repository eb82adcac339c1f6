------------------------------- MODULE JobStates -------------------------------
(***************************************************************************)
(* The states of a job and the check JobService.transition makes on them:  *)
(* api/src/job/job.model.ts and job.utility.ts.                            *)
(***************************************************************************)
EXTENDS Integers

JOB_STATES ==
  {"TRIAGED", "PLANNING", "AWAITING_PLAN_APPROVAL", "IMPLEMENTING",
   "VERIFYING", "SELF_REVIEWING", "REVISING", "OPENING_PR",
   "AWAITING_PR_APPROVAL", "DONE", "FAILED", "CANCELLED"}

TERMINAL_STATES == {"DONE", "FAILED", "CANCELLED"}

\* ALLOWED_TRANSITIONS, as a relation.
ALLOWED_TRANSITIONS ==
  {<<"TRIAGED", "PLANNING">>,
   <<"PLANNING", "AWAITING_PLAN_APPROVAL">>,
   <<"AWAITING_PLAN_APPROVAL", "PLANNING">>,
   <<"AWAITING_PLAN_APPROVAL", "IMPLEMENTING">>,
   <<"IMPLEMENTING", "VERIFYING">>,
   <<"VERIFYING", "REVISING">>,
   <<"VERIFYING", "SELF_REVIEWING">>,
   <<"VERIFYING", "OPENING_PR">>,
   <<"SELF_REVIEWING", "REVISING">>,
   <<"SELF_REVIEWING", "OPENING_PR">>,
   <<"REVISING", "VERIFYING">>,
   <<"OPENING_PR", "AWAITING_PR_APPROVAL">>,
   <<"OPENING_PR", "REVISING">>,
   <<"AWAITING_PR_APPROVAL", "REVISING">>,
   <<"AWAITING_PR_APPROVAL", "DONE">>}

canTransition(from, to) ==
  /\ from \notin TERMINAL_STATES
  /\ to \in {"FAILED", "CANCELLED"} \/ <<from, to>> \in ALLOWED_TRANSITIONS

\* TASK_KINDS, and retryJob's map from the kind of the last task to the state
\* the job re-enters.
TASK_KINDS == {"PLAN", "IMPLEMENT", "VERIFY", "REVIEW", "REVISE", "OPEN_PR"}

retryStateMap ==
  [k \in TASK_KINDS |->
     CASE k = "PLAN"      -> "PLANNING"
       [] k = "IMPLEMENT" -> "IMPLEMENTING"
       [] k = "VERIFY"    -> "VERIFYING"
       [] k = "REVIEW"    -> "SELF_REVIEWING"
       [] k = "REVISE"    -> "REVISING"
       [] k = "OPEN_PR"   -> "OPENING_PR"]
================================================================================

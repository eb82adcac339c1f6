----------------------------- MODULE JobLifecycle -----------------------------
(***************************************************************************)
(* The abstract specification of a job's state: it moves along the table   *)
(* of allowed transitions, one job at a time, and a FAILED job is put back *)
(* into a stage by retryJob, the only caller that sets `force`.            *)
(* Orchestrator is the detailed specification.                             *)
(***************************************************************************)
EXTENDS JobStates

CONSTANT Jobs

\* "ABSENT" stands for a job that has no row yet.
VARIABLE state

\* The table may hold jobs already: a specification of moves, not of a start.
LifecycleInit == state \in [Jobs -> JOB_STATES \cup {"ABSENT"}]

\* create and createDashboard.
Create(j) ==
  /\ state[j] = "ABSENT"
  /\ state' = [state EXCEPT ![j] = "TRIAGED"]

Transition(j, to) ==
  /\ state[j] # "ABSENT"
  /\ canTransition(state[j], to)
  /\ state' = [state EXCEPT ![j] = to]

ForcedRetry(j, k) ==
  /\ state[j] = "FAILED"
  /\ state' = [state EXCEPT ![j] = retryStateMap[k]]

LifecycleNext ==
  \E j \in Jobs :
    \/ Create(j)
    \/ \E to \in JOB_STATES : Transition(j, to)
    \/ \E k \in TASK_KINDS : ForcedRetry(j, k)

LifecycleSpec == LifecycleInit /\ [][LifecycleNext]_state
================================================================================

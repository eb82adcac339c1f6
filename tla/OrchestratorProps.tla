--------------------------- MODULE OrchestratorProps ---------------------------
(***************************************************************************)
(* What the pipeline promises.                                             *)
(***************************************************************************)
EXTENDS Orchestrator

\* Every variable has its type; a script belongs to an execution, to the
\* escalation of an expired row, or to a request.
TypeOK ==
  /\ \E n \in 0..MaxTasks : task \in [1..n -> Row]
  /\ runs \subseteq Execution
  /\ expired \subseteq Escalation
  /\ state \in [Jobs -> JOB_STATES \cup {"ABSENT"}]
  /\ \A j \in Jobs : plans[j] \in Seq({"PROPOSED", "APPROVED", "SUPERSEDED"})
  /\ cycle \in [Jobs -> 0..MaxRequests + 1]
  /\ hasPr \in [Jobs -> BOOLEAN]
  /\ unaddressed \in [Jobs -> BOOLEAN]
  /\ \A c \in finding : c.by \in DOMAIN script
  /\ \A a \in DOMAIN script :
       a[1] = 0 \/ RunOf(a) # {} \/ ExpiredOf(a) # {}

Lifecycle == INSTANCE JobLifecycle WITH Jobs <- Jobs, state <- state

\* "Validated state transition" (job.service.ts): a job's state moves only
\* along the table of allowed transitions, which has no move out of DONE and
\* CANCELLED, and out of FAILED only by a retry.
\* The refinement of JobLifecycle.
LegalMoves == Lifecycle!LifecycleSpec

\* The pipeline uses the queue only as Worker says it is used: each of its
\* steps is a step of the worker, or leaves the queue alone.  What is proved
\* of Worker's steps holds of the pipeline's.
RunsOnWorker == [][WorkerNext]_queueVars

Working == {"TRIAGED", "PLANNING", "IMPLEMENTING", "VERIFYING",
            "SELF_REVIEWING", "REVISING", "OPENING_PR"}

Outstanding(j) ==
  \/ \E t \in DOMAIN task :
       task[t].job = j /\ task[t].status \in {"PENDING", "RUNNING"}
  \/ \E a \in DOMAIN script : script[a].job = j
  \/ \E r \in runs : task[r.task].job = j
  \/ \E x \in expired : task[x.task].job = j

\* Until the process is restarted or a lock outlives its TTL, a job in a working
\* state has something that will carry it on: a task, or a method still under
\* way.  Otherwise nothing but a human's cancel ever moves it again.  (After a
\* restart see StrandedJobRecovers.  With a stale lock and three attempts: the
\* first execution of a PLAN row ends while the second has put the job back
\* into PLANNING and fails; the row waits for its third attempt, and the first
\* execution's complete, which asks nothing, writes DONE over it.)
NoStrandedJob ==
  restarts = 0 /\ lapses = 0 =>
    \A j \in Jobs : state[j] \in Working => Outstanding(j)

\* "Never run two tasks for the same job concurrently" (claimBatch): no two
\* rows of a job are RUNNING with a healthy lock.
OneTaskPerJob ==
  \A t, u \in DOMAIN task :
    t # u /\ Healthy(task[t]) /\ Healthy(task[u]) => task[t].job # task[u].job

StageOf == [p \in TASK_KINDS \cup {"SUMMARY"} |->
              IF p = "SUMMARY" THEN "OPENING_PR" ELSE retryStateMap[p]]

\* While an agent works for a stage, the job is in that stage, or a human or
\* the escalation has ended it: no handler works on a job that moved on.
StageMatchesState ==
  \A a \in DOMAIN script :
    At(a, "await") =>
      state[script[a].job] \in {StageOf[Op(a).phase]} \cup TERMINAL_STATES

Approved(j) == \E i \in DOMAIN plans[j] : plans[j][i] = "APPROVED"

\* IMPLEMENT builds a plan that a human approved, never the fallback of
\* approvedPlan (the latest revision, whatever its status).
ImplementsApprovedPlan ==
  \A a \in DOMAIN script :
    At(a, "await") /\ Op(a).phase = "IMPLEMENT" => Approved(script[a].job)

PostPlan == {"IMPLEMENTING", "VERIFYING", "SELF_REVIEWING", "REVISING",
             "OPENING_PR", "AWAITING_PR_APPROVAL", "DONE"}

\* The human gate: work on the code happens in a revision round, and a round
\* is opened only by an approval or by requested changes; so a job past the
\* plan gate is in round 1 or later, through every race, crash and retry.
RoundOpened == \A j \in Jobs : state[j] \in PostPlan => cycle[j] >= 1

\* cancelForJob "cancels all outstanding tasks": a task of a CANCELLED job
\* is never put back in the queue.  Does not hold: a failing execution that
\* the cancel found RUNNING writes PENDING over it.
CancelledStaysCancelled ==
  [][\A t \in DOMAIN task :
       state[task[t].job] = "CANCELLED" /\ task[t].status = "FAILED"
         => task'[t].status = "FAILED"]_vars

\* "A mid-processing crash is safely retried" (webhook.service.ts): when a job
\* is stranded, some event that is delivered again, or some request other than
\* giving the job up, still has an effect on it.
StrandedJobRecovers ==
  \A j \in Jobs :
    state[j] \in Working /\ ~ Outstanding(j) =>
      \E kind \in RequestKinds \ {"cancel"} : RequestOps(kind, j) # <<>>

\* A re-label of a FAILED or CANCELLED job restarts it: the transition it is
\* about to make is one transition() allows.
RelabelRestarts ==
  \A a \in DOMAIN script :
    script[a].name = "label" /\ At(a, "transition")
      => canTransition(state[script[a].job], Op(a).to)
================================================================================

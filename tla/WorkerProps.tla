------------------------------ MODULE WorkerProps ------------------------------
(***************************************************************************)
(* What the worker and the queue promise, and the fairness the promise of  *)
(* progress rests on.                                                      *)
(***************************************************************************)
EXTENDS Worker

\* Every variable of the worker and the queue has its type; rows are
\* numbered without gaps.
WorkerTypeOK ==
  /\ \E n \in 0..MaxTasks : task \in [1..n -> Row]
  /\ runs \subseteq Execution
  /\ finding \subseteq Calls
  /\ expired \subseteq Escalation
  /\ restarts \in Nat
  /\ lapses \in Nat

\* The retry budget (attempts against maxAttempts in claimBatch and fail): a
\* task is started at most QUEUE_MAX_ATTEMPTS times, plus once for every crash
\* that put a running task back and once for every lock that went stale under
\* a live execution.  Both slips are real: reclaimOrphaned ignores the budget,
\* and fail writes PENDING on an attempts value it read earlier.
AttemptBudget ==
  \A t \in DOMAIN task : task[t].attempts <= MaxAttempts + restarts + lapses

\* WORKER_CONCURRENCY bounds the executions in flight, whatever the ticks,
\* crashes and stale locks.
InflightBound == Cardinality(runs) <= Concurrency

\* No orphan rows in a live process: behind every RUNNING row is the execution
\* that claimed it last, and it will still write the row's outcome.  This is
\* what makes reclaimOrphaned (and nothing else) necessary after a crash.
RunningIsExecuted ==
  \A t \in DOMAIN task :
    task[t].status = "RUNNING" =>
      \E r \in runs :
        r.task = t /\ r.attempt = task[t].attempts /\ r.pc \notin {"escalate", "notify"}

\* As long as no lock outlives its TTL (the heartbeat's purpose), a task is
\* executed by at most one execution at a time, across cancellations, retries
\* and restarts.
OneExecutionPerTask ==
  lapses = 0 => \A r, s \in runs : r.task = s.task => r = s

\* As long as no lock outlives its TTL, a task that settled as FAILED with its
\* budget spent is never put back in the queue.
ExhaustedStaysSettled ==
  [][\A t \in DOMAIN task :
       lapses = 0 /\ task[t].status = "FAILED" /\ Exhausted(task[t])
         => task'[t].status \in {"FAILED", "DONE"}]_queueVars

-------------------------------------------------------------------------------
(* Fairness.  The loop reschedules itself whatever a tick does, so every   *)
(* step of a tick and every step of an execution is eventually taken; a    *)
(* handler returns or throws because the agent process it waits for is     *)
(* killed at its timeout; a backoff elapses.  ORDER BY runAt serves the    *)
(* row that has been due for longest, so a row claimable again and again   *)
(* is claimed: strong fairness per row.                                    *)

ExecutionProceeds(t, n) ==
  \E r \in runs :
    /\ r.task = t /\ r.attempt = n
    /\ \/ HandlerReturns(r) \/ HandlerThrows(r) \/ Complete(r)
       \/ FailRead(r) \/ FailRetry(r) \/ FailSettle(r)
       \/ Escalate(r) \/ Escalated(r)

WorkerFairness ==
  /\ WF_queueVars(TickExpire)
  /\ WF_queueVars(\E x \in expired : TickEscalate(x) \/ TickEscalated(x))
  /\ \A t \in TaskIds :
       /\ SF_queueVars(\E S \in SUBSET TaskIds : t \in S /\ TickClaim(S))
       /\ WF_queueVars(BackoffElapses(t))
       /\ \A n \in 1..(MaxAttempts + MaxRestarts + MaxLapses) :
            WF_queueVars(ExecutionProceeds(t, n))

FairWorkerSpec == WorkerSpec /\ WorkerFairness

\* Progress: a task in the queue is eventually done or settled as failed,
\* through retries, crashes, stale locks and other tasks of the same job.
TasksSettle ==
  \A t \in TaskIds :
    (t \in DOMAIN task) ~>
      (t \in DOMAIN task /\ task[t].status \in {"DONE", "FAILED"})
================================================================================

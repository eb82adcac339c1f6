-------------------------------- MODULE Worker --------------------------------
(***************************************************************************)
(* The polling worker of api/src/worker/worker.service.ts over the task    *)
(* table: one timer-driven tick at a time, up to WORKER_CONCURRENCY        *)
(* executions of process() in flight, a heartbeat per execution, and the   *)
(* calls other parts of the process make on the queue (enqueue and         *)
(* cancelForJob).  What a stage handler does is left open here: it         *)
(* returns or throws.  Orchestrator fills it in.                           *)
(*                                                                         *)
(* An execution is a record [task, attempt, pc]: attempt is the value the  *)
(* claim gave the row's attempts column, and pc the statement it is about  *)
(* to issue.  A crash loses every variable except the table.               *)
(***************************************************************************)
EXTENDS TaskQueue

CONSTANTS
  Producers,    \* concurrent callers of enqueue
  Concurrency,  \* WORKER_CONCURRENCY
  MaxRestarts,  \* bound: process crashes
  MaxLapses     \* bound: locks that outlive their TTL while RUNNING

ASSUME WorkerAssumption ==
  /\ Concurrency \in Nat
  /\ MaxRestarts \in Nat
  /\ MaxLapses \in Nat

VARIABLES
  task,      \* the QueueTask table
  runs,      \* process() executions in flight; inflight is their number
  finding,   \* enqueue calls that found no PENDING row, before their insert
  expired,   \* the rows expireExhaustedStale returned, still to escalate
  restarts,  \* ghost: crashes so far
  lapses     \* ghost: locks gone stale so far

queueVars == <<task, runs, finding, expired, restarts, lapses>>

RunPcs ==
  {"working", "complete", "fail", "retry", "settle", "escalate", "notify"}

Execution == [task: TaskIds, attempt: Nat, pc: RunPcs]

Escalation == [task: TaskIds, pc: {"escalate", "notify"}]

Calls == [by: Producers, job: Jobs, kind: Kinds]

WorkerInit ==
  /\ task = <<>>
  /\ runs = {}
  /\ finding = {}
  /\ expired = {}
  /\ restarts = 0
  /\ lapses = 0

-------------------------------------------------------------------------------
(* tick.  refreshMetrics reads only.  A tick runs to its end before the    *)
(* next one is scheduled, so a claim follows the escalation of every       *)
(* expired row.  Capacity is read before claimBatch is awaited; until the  *)
(* claimed rows are dispatched it can only grow, so reading it in the      *)
(* claiming step loses a smaller batch and nothing else.                   *)

TickExpire ==
  /\ expired = {}
  /\ ExpiredRows(task) # {}
  /\ task' = Expired(task)
  /\ expired' = {[task |-> t, pc |-> "escalate"] : t \in ExpiredRows(task)}
  /\ UNCHANGED <<runs, finding, restarts, lapses>>

\* onTaskExhausted for an expired row, one row after the other: it cancels
\* what the job has outstanding, then fails the job ("notify", to its end).
TickEscalate(x) ==
  /\ x \in expired /\ x.pc = "escalate"
  /\ \A y \in expired : y.pc = "escalate"
  /\ task' = CancelledFor(task, task[x.task].job)
  /\ expired' = (expired \ {x}) \cup {[x EXCEPT !.pc = "notify"]}
  /\ UNCHANGED <<runs, finding, restarts, lapses>>

TickEscalated(x) ==
  /\ x \in expired /\ x.pc = "notify"
  /\ expired' = expired \ {x}
  /\ UNCHANGED <<task, runs, finding, restarts, lapses>>

\* Fault: executions in flight are not counted.
CapacityUncounted == Concurrency

Capacity == Concurrency - Cardinality(runs)

\* The executions process() starts for a claimed batch.
Started(S) ==
  {[task |-> t, attempt |-> task[t].attempts + 1, pc |-> "working"] : t \in S}

\* The batch is as large as the capacity and the claimable rows allow.  Its
\* choice is open: runAt, which orders it, is abstracted.
TickClaim(S) ==
  /\ expired = {}
  /\ Capacity > 0
  /\ S \subseteq Claimable(task)
  /\ S # {}
  /\ Cardinality(S) <= Capacity
  /\ Cardinality(S) < Capacity => S = Claimable(task)
  /\ task' = Claimed(task, S)
  /\ runs' = runs \cup Started(S)
  /\ UNCHANGED <<finding, expired, restarts, lapses>>

-------------------------------------------------------------------------------
(* process.                                                                *)

Goto(r, pc) == runs' = (runs \ {r}) \cup {[r EXCEPT !.pc = pc]}

End(r) == runs' = runs \ {r}

HandlerReturns(r) ==
  /\ r \in runs /\ r.pc = "working"
  /\ Goto(r, "complete")
  /\ UNCHANGED <<task, finding, expired, restarts, lapses>>

\* Fault: the exception is logged and the row is left RUNNING.
HandlerThrowsSilently(r) ==
  /\ r \in runs /\ r.pc = "working"
  /\ End(r)
  /\ UNCHANGED <<task, finding, expired, restarts, lapses>>

HandlerThrows(r) ==
  /\ r \in runs /\ r.pc = "working"
  /\ Goto(r, "fail")
  /\ UNCHANGED <<task, finding, expired, restarts, lapses>>

Complete(r) ==
  /\ r \in runs /\ r.pc = "complete"
  /\ task' = Completed(task, r.task)
  /\ End(r)
  /\ UNCHANGED <<finding, expired, restarts, lapses>>

\* fail reads the row, then writes what it decided on that reading.
FailRead(r) ==
  /\ r \in runs /\ r.pc = "fail"
  /\ Goto(r, IF WillRetry(task, r.task) THEN "retry" ELSE "settle")
  /\ UNCHANGED <<task, finding, expired, restarts, lapses>>

FailRetry(r) ==
  /\ r \in runs /\ r.pc = "retry"
  /\ task' = Retried(task, r.task)
  /\ End(r)
  /\ UNCHANGED <<finding, expired, restarts, lapses>>

FailSettle(r) ==
  /\ r \in runs /\ r.pc = "settle"
  /\ task' = Settled(task, r.task)
  /\ Goto(r, "escalate")
  /\ UNCHANGED <<finding, expired, restarts, lapses>>

\* onTaskExhausted; an exception in it is caught, so it always ends.
Escalate(r) ==
  /\ r \in runs /\ r.pc = "escalate"
  /\ task' = CancelledFor(task, task[r.task].job)
  /\ Goto(r, "notify")
  /\ UNCHANGED <<finding, expired, restarts, lapses>>

Escalated(r) ==
  /\ r \in runs /\ r.pc = "notify"
  /\ End(r)
  /\ UNCHANGED <<task, finding, expired, restarts, lapses>>

\* The interval is cleared only when process() ends.
Heartbeat(r) ==
  /\ r \in runs
  /\ task' = Refreshed(task, r.task)
  /\ UNCHANGED <<runs, finding, expired, restarts, lapses>>

-------------------------------------------------------------------------------
(* Time and crashes.                                                       *)

BackoffElapses(t) ==
  /\ t \in DOMAIN task
  /\ task[t].status = "PENDING" /\ ~ task[t].due
  /\ task' = [task EXCEPT ![t].due = TRUE]
  /\ UNCHANGED <<runs, finding, expired, restarts, lapses>>

\* Heartbeats failed, or the host was suspended, for a whole TTL.
LockLapses(t) ==
  /\ t \in DOMAIN task
  /\ lapses < MaxLapses
  /\ task[t].status = "RUNNING" /\ task[t].lock = "fresh"
  /\ task' = [task EXCEPT ![t].lock = "stale"]
  /\ lapses' = lapses + 1
  /\ UNCHANGED <<runs, finding, expired, restarts>>

\* The process dies and boots again: onModuleInit kills what containers are
\* left and reclaims before the loop starts and before requests are served.
CrashRestart ==
  /\ restarts < MaxRestarts
  /\ restarts' = restarts + 1
  /\ task' = Reclaimed(task)
  /\ runs' = {}
  /\ finding' = {}
  /\ expired' = {}
  /\ UNCHANGED lapses

-------------------------------------------------------------------------------
(* Calls on the queue from the rest of the process.                        *)

EnqueueFind(p, j, k) ==
  /\ \A c \in finding : c.by # p
  /\ ~ HasPending(task, j, k)
  /\ finding' = finding \cup {[by |-> p, job |-> j, kind |-> k]}
  /\ UNCHANGED <<task, runs, expired, restarts, lapses>>

EnqueueCreate(c, t) ==
  /\ c \in finding
  /\ IsNextId(task, t)
  /\ task' = Created(task, t, c.job, c.kind)
  /\ finding' = finding \ {c}
  /\ UNCHANGED <<runs, expired, restarts, lapses>>

CancelForJob(j) ==
  /\ task' = CancelledFor(task, j)
  /\ UNCHANGED <<runs, finding, expired, restarts, lapses>>

-------------------------------------------------------------------------------
RunStep(r) ==
  \/ HandlerReturns(r)
  \/ HandlerThrows(r)
  \/ Complete(r)
  \/ FailRead(r)
  \/ FailRetry(r)
  \/ FailSettle(r)
  \/ Escalate(r)
  \/ Escalated(r)
  \/ Heartbeat(r)

WorkerNext ==
  \/ TickExpire
  \/ \E x \in expired : TickEscalate(x) \/ TickEscalated(x)
  \/ \E S \in SUBSET TaskIds : TickClaim(S)
  \/ \E r \in runs : RunStep(r)
  \/ \E t \in TaskIds : BackoffElapses(t) \/ LockLapses(t)
  \/ CrashRestart
  \/ \E p \in Producers, j \in Jobs, k \in Kinds : EnqueueFind(p, j, k)
  \/ \E c \in finding, t \in TaskIds : EnqueueCreate(c, t)
  \/ \E j \in Jobs : CancelForJob(j)

WorkerSpec == WorkerInit /\ [][WorkerNext]_queueVars
================================================================================

------------------------------- MODULE TaskQueue -------------------------------
(***************************************************************************)
(* The QueueTask table of api/src/queue/queue.service.ts, and what each    *)
(* statement the service issues against it does to the table.  SQLite      *)
(* executes one statement at a time, so a statement is one function from   *)
(* tables to tables; a service method that issues two statements is two    *)
(* steps of whoever calls it (Worker, Orchestrator).                       *)
(*                                                                         *)
(* A table q is a function from row identifiers to rows.  Identifiers are  *)
(* 1, 2, ... in creation order (createdAt), and rows are never deleted.    *)
(* Time is abstracted to what the statements compare it with:              *)
(*   due   "runAt" <= now,                                                 *)
(*   lock  "none" when lockedAt is null, "stale" when lockedAt lies before *)
(*         now - QUEUE_LOCK_TTL_MS, "fresh" otherwise.                     *)
(* lockedBy is left out: one process owns the table, every RUNNING row     *)
(* carries its WORKER_ID (reclaimOrphaned leaves no other one).            *)
(***************************************************************************)
EXTENDS Integers, FiniteSets

CONSTANTS
  Jobs,         \* the jobs tasks belong to
  Kinds,        \* the task kinds (TASK_KINDS)
  MaxAttempts,  \* QUEUE_MAX_ATTEMPTS
  MaxTasks      \* bound: rows ever created

ASSUME QueueAssumption ==
  /\ MaxAttempts \in Nat \ {0}
  /\ MaxTasks \in Nat

TaskIds == 1..MaxTasks

Statuses == {"PENDING", "RUNNING", "DONE", "FAILED"}

Row == [job: Jobs, kind: Kinds, status: Statuses, attempts: Nat,
        due: BOOLEAN, lock: {"none", "fresh", "stale"}]

-------------------------------------------------------------------------------
\* enqueue: the row it inserts is due at once (no caller passes runAt).
NewRow(j, k) ==
  [job |-> j, kind |-> k, status |-> "PENDING", attempts |-> 0,
   due |-> TRUE, lock |-> "none"]

\* Fault: looks for a RUNNING row as well, so a task cannot enqueue its own
\* successor of the same kind.
HasOutstanding(q, j, k) ==
  \E t \in DOMAIN q :
    q[t].job = j /\ q[t].kind = k /\ q[t].status \in {"PENDING", "RUNNING"}

HasPending(q, j, k) ==
  \E t \in DOMAIN q : q[t].job = j /\ q[t].kind = k /\ q[t].status = "PENDING"

\* t is the identifier the next row gets.
IsNextId(q, t) == t \in TaskIds /\ DOMAIN q = 1..(t - 1)

Created(q, t, j, k) ==
  [u \in DOMAIN q \cup {t} |-> IF u = t THEN NewRow(j, k) ELSE q[u]]

-------------------------------------------------------------------------------
\* claimBatch: a RUNNING row whose lock is not past its TTL.
Healthy(row) == row.status = "RUNNING" /\ row.lock # "stale"

Exhausted(row) == row.attempts >= MaxAttempts

\* Fault: the per-job guard is gone.
ClaimableUnguarded(q) ==
  {t \in DOMAIN q :
     /\ \/ q[t].status = "PENDING" /\ q[t].due
        \/ q[t].status = "RUNNING" /\ q[t].lock = "stale"
     /\ ~ (q[t].status = "RUNNING" /\ Exhausted(q[t]))}

\* Fault: the TTL is not looked at, and a row does not block itself.
ClaimableLive(q) ==
  {t \in DOMAIN q :
     /\ \/ q[t].status = "PENDING" /\ q[t].due
        \/ q[t].status = "RUNNING"
     /\ \A u \in DOMAIN q \ {t} : Healthy(q[u]) => q[u].job # q[t].job
     /\ ~ (q[t].status = "RUNNING" /\ Exhausted(q[t]))}

Claimable(q) ==
  {t \in DOMAIN q :
     /\ \/ q[t].status = "PENDING" /\ q[t].due
        \/ q[t].status = "RUNNING" /\ q[t].lock = "stale"
     /\ \A u \in DOMAIN q : Healthy(q[u]) => q[u].job # q[t].job
     /\ ~ (q[t].status = "RUNNING" /\ Exhausted(q[t]))}

Claimed(q, S) ==
  [t \in DOMAIN q |->
     IF t \in S
     THEN [q[t] EXCEPT !.status = "RUNNING", !.lock = "fresh",
                       !.attempts = @ + 1]
     ELSE q[t]]

-------------------------------------------------------------------------------
\* complete: unconditional, whatever the row's status has become.
Completed(q, t) == [q EXCEPT ![t].status = "DONE", ![t].lock = "none"]

\* refreshLock: the WHERE clause asks for a row that is still RUNNING.
Refreshed(q, t) ==
  IF q[t].status = "RUNNING" THEN [q EXCEPT ![t].lock = "fresh"] ELSE q

\* fail, first statement: the row as read decides whether to retry.
\* Fault: one attempt too many.
WillRetryOffByOne(q, t) == q[t].attempts <= MaxAttempts

WillRetry(q, t) == ~ Exhausted(q[t])

\* fail, second statement: back off, or settle.
Retried(q, t) ==
  [q EXCEPT ![t].status = "PENDING", ![t].due = FALSE, ![t].lock = "none"]

Settled(q, t) == [q EXCEPT ![t].status = "FAILED", ![t].lock = "none"]

\* expireExhaustedStale: the rows its UPDATE hits, and the table it leaves.
ExpiredRows(q) ==
  {t \in DOMAIN q :
     q[t].status = "RUNNING" /\ q[t].lock = "stale" /\ Exhausted(q[t])}

Expired(q) ==
  [t \in DOMAIN q |->
     IF t \in ExpiredRows(q)
     THEN [q[t] EXCEPT !.status = "FAILED", !.lock = "none"]
     ELSE q[t]]

\* cancelForJob: lockedAt is left as it was.
CancelledFor(q, j) ==
  [t \in DOMAIN q |->
     IF q[t].job = j /\ q[t].status \in {"PENDING", "RUNNING"}
     THEN [q[t] EXCEPT !.status = "FAILED"]
     ELSE q[t]]

\* Fault: startup leaves the orphans alone.
NotReclaimed(q) == q

\* reclaimOrphaned: on startup; attempts stay as they were.
Reclaimed(q) ==
  [t \in DOMAIN q |->
     IF q[t].status = "RUNNING"
     THEN [q[t] EXCEPT !.status = "PENDING", !.due = TRUE, !.lock = "none"]
     ELSE q[t]]
================================================================================

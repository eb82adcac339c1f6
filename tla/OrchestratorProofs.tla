--------------------------- MODULE OrchestratorProofs ---------------------------
(***************************************************************************)
(* Theorems about the worker, then about the pipeline it executes, for     *)
(* every number of jobs, kinds, callers, tasks, attempts, slots, requests, *)
(* crashes and stale locks; some for requests that are made one at a time. *)
(***************************************************************************)
EXTENDS OrchestratorProps, WorkerProps, TLAPS, FiniteSetTheorems

(***************************************************************************)
(* THE WORKER                                                              *)
(***************************************************************************)

USE DEF Statuses

-------------------------------------------------------------------------------
(* What the statements do to the type of the table.                        *)

\* Each statement that rewrites rows in place keeps a table of n rows one.
LEMMA RewriteTypes ==
  ASSUME NEW n, NEW q \in [1..n -> Row], NEW t, NEW j, NEW S
  PROVE  /\ Claimed(q, S) \in [1..n -> Row]
         /\ Completed(q, t) \in [1..n -> Row]
         /\ Refreshed(q, t) \in [1..n -> Row]
         /\ Retried(q, t) \in [1..n -> Row]
         /\ Settled(q, t) \in [1..n -> Row]
         /\ Expired(q) \in [1..n -> Row]
         /\ CancelledFor(q, j) \in [1..n -> Row]
         /\ Reclaimed(q) \in [1..n -> Row]
<1>1. Claimed(q, S) \in [1..n -> Row]
  <2>1. \A row \in Row :
          [row EXCEPT !.status = "RUNNING", !.lock = "fresh", !.attempts = @ + 1] \in Row
    <3> TAKE row \in Row
    <3>1. row.attempts + 1 \in Nat
      BY DEF Row
    <3>2. [row EXCEPT !.status = "RUNNING", !.lock = "fresh"] \in Row
      BY DEF Row
    <3> QED BY <3>1, <3>2 DEF Row
  <2> QED BY <2>1 DEF Claimed
<1>2. Completed(q, t) \in [1..n -> Row]
  <2>1. \A row \in Row : [row EXCEPT !.status = "DONE", !.lock = "none"] \in Row
    BY DEF Row
  <2>2. CASE t \in 1..n
    BY <2>1, <2>2 DEF Completed
  <2>3. CASE t \notin 1..n
    BY <2>3 DEF Completed
  <2> QED BY <2>2, <2>3
<1>3. Refreshed(q, t) \in [1..n -> Row]
  <2>1. \A row \in Row : [row EXCEPT !.lock = "fresh"] \in Row
    BY DEF Row
  <2>2. CASE t \in 1..n
    BY <2>1, <2>2 DEF Refreshed
  <2>3. CASE t \notin 1..n
    BY <2>3 DEF Refreshed
  <2> QED BY <2>2, <2>3
<1>4. Retried(q, t) \in [1..n -> Row]
  <2>1. \A row \in Row :
          [row EXCEPT !.status = "PENDING", !.due = FALSE, !.lock = "none"] \in Row
    BY DEF Row
  <2>2. CASE t \in 1..n
    BY <2>1, <2>2 DEF Retried
  <2>3. CASE t \notin 1..n
    BY <2>3 DEF Retried
  <2> QED BY <2>2, <2>3
<1>5. Settled(q, t) \in [1..n -> Row]
  <2>1. \A row \in Row : [row EXCEPT !.status = "FAILED", !.lock = "none"] \in Row
    BY DEF Row
  <2>2. CASE t \in 1..n
    BY <2>1, <2>2 DEF Settled
  <2>3. CASE t \notin 1..n
    BY <2>3 DEF Settled
  <2> QED BY <2>2, <2>3
<1>6. Expired(q) \in [1..n -> Row]
  BY DEF Expired, Row
<1>7. CancelledFor(q, j) \in [1..n -> Row]
  BY DEF CancelledFor, Row
<1>8. Reclaimed(q) \in [1..n -> Row]
  BY DEF Reclaimed, Row
<1> QED BY <1>1, <1>2, <1>3, <1>4, <1>5, <1>6, <1>7, <1>8

\* f is q after a statement that ends the execution of row t.
Wrote(q, f, t, status) ==
  f[t].status = status /\ f[t].lock = "none" /\ f[t].attempts = q[t].attempts

\* What the statements that end an execution write into its row.
LEMMA WrittenRows ==
  ASSUME NEW n, NEW q \in [1..n -> Row], NEW t \in DOMAIN q
  PROVE  /\ Wrote(q, Completed(q, t), t, "DONE")
         /\ Wrote(q, Retried(q, t), t, "PENDING")
         /\ Wrote(q, Settled(q, t), t, "FAILED")
<1>1. Wrote(q, Completed(q, t), t, "DONE")
  <2>1. Completed(q, t)[t] = [q[t] EXCEPT !.status = "DONE", !.lock = "none"]
    BY DEF Completed, Row
  <2> QED BY <2>1 DEF Wrote, Row
<1>2. Wrote(q, Retried(q, t), t, "PENDING")
  <2>1. Retried(q, t)[t] = [q[t] EXCEPT !.status = "PENDING", !.due = FALSE, !.lock = "none"]
    BY DEF Retried, Row
  <2> QED BY <2>1 DEF Wrote, Row
<1>3. Wrote(q, Settled(q, t), t, "FAILED")
  <2>1. Settled(q, t)[t] = [q[t] EXCEPT !.status = "FAILED", !.lock = "none"]
    BY DEF Settled, Row
  <2> QED BY <2>1 DEF Wrote, Row
<1> QED BY <1>1, <1>2, <1>3

\* An insert makes a table of one row more.
LEMMA CreatedType ==
  ASSUME NEW n \in 0..MaxTasks, NEW q \in [1..n -> Row],
         NEW t, IsNextId(q, t), NEW j \in Jobs, NEW k \in Kinds
  PROVE  t \in 1..MaxTasks /\ n = t - 1 /\ Created(q, t, j, k) \in [1..t -> Row]
<1>1. t \in 1..MaxTasks /\ 1..n = 1..(t - 1)
  BY QueueAssumption DEF IsNextId, TaskIds
<1>2. n = t - 1
  <2>1. CASE n = 0
    BY <2>1, <1>1, QueueAssumption
  <2>2. CASE n > 0
    <3>1. n \in 1..(t - 1) /\ t - 1 \in 1..n
      BY <2>2, <1>1, QueueAssumption
    <3> QED BY <3>1, <1>1, QueueAssumption
  <2> QED BY <2>1, <2>2, QueueAssumption
<1>3. (1..n) \cup {t} = 1..t
  BY <1>1, <1>2, QueueAssumption
<1>4. NewRow(j, k) \in Row
  BY DEF NewRow, Row
<1> QED BY <1>1, <1>2, <1>3, <1>4 DEF Created

-------------------------------------------------------------------------------
(* Type correctness.                                                       *)

\* The empty table is a table.
LEMMA TypeInit == WorkerInit => WorkerTypeOK
<1> SUFFICES ASSUME WorkerInit PROVE WorkerTypeOK
  OBVIOUS
<1>1. task \in [1..0 -> Row] /\ 0 \in 0..MaxTasks
  BY QueueAssumption DEF WorkerInit
<1> QED BY <1>1 DEF WorkerInit, WorkerTypeOK

\* Moving an execution to its next statement, or ending it, keeps the set of
\* executions well-typed.
LEMMA GotoType ==
  ASSUME runs \subseteq Execution, NEW r \in runs, NEW pc \in RunPcs
  PROVE  /\ Goto(r, pc) => runs' \subseteq Execution
         /\ End(r) => runs' \subseteq Execution
BY DEF Goto, End, Execution

\* Every step of the worker keeps the types.
LEMMA TypeStep == WorkerTypeOK /\ [WorkerNext]_queueVars => WorkerTypeOK'
<1> SUFFICES ASSUME WorkerTypeOK, [WorkerNext]_queueVars PROVE WorkerTypeOK'
  OBVIOUS
<1> PICK n \in 0..MaxTasks : task \in [1..n -> Row]
  BY DEF WorkerTypeOK
<1> USE DEF WorkerTypeOK
<1>0. \A t \in DOMAIN task : t \in TaskIds
  BY QueueAssumption DEF TaskIds
<1>1. CASE TickExpire
  <2>1. task' \in [1..n -> Row]
    BY <1>1, RewriteTypes DEF TickExpire
  <2>2. expired' \subseteq Escalation
    BY <1>0, <1>1 DEF TickExpire, ExpiredRows, Escalation
  <2> QED BY <1>1, <2>1, <2>2 DEF TickExpire
<1>2. ASSUME NEW x \in expired, TickEscalate(x) PROVE WorkerTypeOK'
  <2>1. task' \in [1..n -> Row]
    BY <1>2, RewriteTypes DEF TickEscalate
  <2>2. expired' \subseteq Escalation
    BY <1>2 DEF TickEscalate, Escalation
  <2> QED BY <1>2, <2>1, <2>2 DEF TickEscalate
<1>3. ASSUME NEW x \in expired, TickEscalated(x) PROVE WorkerTypeOK'
  BY <1>3 DEF TickEscalated
<1>4. ASSUME NEW S \in SUBSET TaskIds, TickClaim(S) PROVE WorkerTypeOK'
  <2>1. task' \in [1..n -> Row]
    BY <1>4, RewriteTypes DEF TickClaim
  <2>2. \A t \in S : task[t].attempts + 1 \in Nat
    BY <1>4 DEF TickClaim, Claimable, Row
  <2>3. Started(S) \subseteq Execution
    BY <1>4, <2>2 DEF Started, Execution, RunPcs
  <2> QED BY <1>4, <2>1, <2>3 DEF TickClaim
<1>5. ASSUME NEW r \in runs, RunStep(r) PROVE WorkerTypeOK'
  <2>1. CASE HandlerReturns(r)
    BY <2>1, GotoType DEF HandlerReturns, RunPcs
  <2>2. CASE HandlerThrows(r)
    BY <2>2, GotoType DEF HandlerThrows, RunPcs
  <2>3. CASE Complete(r)
    <3>1. task' \in [1..n -> Row]
      BY <2>3, RewriteTypes DEF Complete
    <3> QED BY <2>3, <3>1, GotoType DEF Complete, RunPcs
  <2>4. CASE FailRead(r)
    BY <2>4, GotoType DEF FailRead, RunPcs
  <2>5. CASE FailRetry(r)
    <3>1. task' \in [1..n -> Row]
      BY <2>5, RewriteTypes DEF FailRetry
    <3> QED BY <2>5, <3>1, GotoType DEF FailRetry, RunPcs
  <2>6. CASE FailSettle(r)
    <3>1. task' \in [1..n -> Row]
      BY <2>6, RewriteTypes DEF FailSettle
    <3> QED BY <2>6, <3>1, GotoType DEF FailSettle, RunPcs
  <2>7. CASE Escalate(r)
    <3>1. task' \in [1..n -> Row]
      BY <2>7, RewriteTypes DEF Escalate
    <3> QED BY <2>7, <3>1, GotoType DEF Escalate, RunPcs
  <2>8. CASE Escalated(r)
    BY <2>8, GotoType DEF Escalated, RunPcs
  <2>9. CASE Heartbeat(r)
    <3>1. task' \in [1..n -> Row]
      BY <2>9, RewriteTypes DEF Heartbeat
    <3> QED BY <2>9, <3>1 DEF Heartbeat
  <2> QED
    BY <1>5, <2>1, <2>2, <2>3, <2>4, <2>5, <2>6, <2>7, <2>8, <2>9 DEF RunStep
<1>6. ASSUME NEW t \in TaskIds, BackoffElapses(t) PROVE WorkerTypeOK'
  <2>1. task' = [task EXCEPT ![t] = [@ EXCEPT !.due = TRUE]]
    BY <1>6 DEF BackoffElapses
  <2>2. \A row \in Row : [row EXCEPT !.due = TRUE] \in Row
    BY DEF Row
  <2>3. task' \in [1..n -> Row]
    BY <2>1, <2>2
  <2> QED BY <1>6, <2>3 DEF BackoffElapses
<1>7. ASSUME NEW t \in TaskIds, LockLapses(t) PROVE WorkerTypeOK'
  <2>1. task' \in [1..n -> Row]
    <3>1. \A row \in Row : [row EXCEPT !.lock = "stale"] \in Row
      BY DEF Row
    <3>2. task' = [task EXCEPT ![t].lock = "stale"] /\ t \in 1..n
      BY <1>7 DEF LockLapses
    <3> QED BY <3>1, <3>2
  <2> QED BY <1>7, <2>1 DEF LockLapses
<1>8. CASE CrashRestart
  <2>1. task' \in [1..n -> Row]
    BY <1>8, RewriteTypes DEF CrashRestart
  <2> QED BY <1>8, <2>1 DEF CrashRestart
<1>9. ASSUME NEW p \in Producers, NEW j \in Jobs, NEW k \in Kinds, EnqueueFind(p, j, k)
      PROVE  WorkerTypeOK'
  BY <1>9 DEF EnqueueFind, Calls
<1>10. ASSUME NEW c \in finding, NEW t \in TaskIds, EnqueueCreate(c, t)
       PROVE  WorkerTypeOK'
  <2>1. c.job \in Jobs /\ c.kind \in Kinds
    BY DEF Calls
  <2>2. t \in 0..MaxTasks /\ task' \in [1..t -> Row]
    BY <1>10, <2>1, CreatedType, QueueAssumption DEF EnqueueCreate
  <2> QED BY <1>10, <2>2 DEF EnqueueCreate
<1>11. ASSUME NEW j \in Jobs, CancelForJob(j) PROVE WorkerTypeOK'
  <2>1. task' \in [1..n -> Row]
    BY <1>11, RewriteTypes DEF CancelForJob
  <2> QED BY <1>11, <2>1 DEF CancelForJob
<1>12. CASE UNCHANGED queueVars
  BY <1>12 DEF queueVars
<1> QED
  BY <1>1, <1>2, <1>3, <1>4, <1>5, <1>6, <1>7, <1>8, <1>9, <1>10, <1>11, <1>12
  DEF WorkerNext

\* Every variable of the worker and of the queue table keeps its type through
\* every statement, crash and stale lock.
THEOREM TypeCorrect == WorkerSpec => []WorkerTypeOK
BY TypeInit, TypeStep, PTL DEF WorkerSpec

-------------------------------------------------------------------------------
(* Behind every RUNNING row is the execution that claimed it last.         *)

\* An execution that will still write its row's outcome.
Owes(r, t, n) ==
  r.task = t /\ r.attempt = n /\ r.pc \notin {"escalate", "notify"}

\* An execution that moves on within process() still owes what it owed, and
\* so does every other one.
LEMMA GotoOwes ==
  ASSUME NEW r \in runs, NEW pc \in RunPcs, Goto(r, pc), runs \subseteq Execution,
         pc \notin {"escalate", "notify"},
         NEW t, NEW n, NEW s \in runs, Owes(s, t, n)
  PROVE  \E u \in runs' : Owes(u, t, n)
<1>1. CASE s = r
  <2>1. Owes([r EXCEPT !.pc = pc], t, n)
    BY <1>1 DEF Owes, Execution
  <2> QED BY <2>1 DEF Goto
<1>2. CASE s # r
  BY <1>2 DEF Goto
<1> QED BY <1>1, <1>2

\* Every step keeps an execution behind every RUNNING row.
LEMMA ExecutedStep ==
  WorkerTypeOK /\ RunningIsExecuted /\ [WorkerNext]_queueVars => RunningIsExecuted'
<1> SUFFICES ASSUME WorkerTypeOK, RunningIsExecuted, [WorkerNext]_queueVars,
                    NEW t \in DOMAIN task', task'[t].status = "RUNNING"
             PROVE  \E u \in runs' : Owes(u, t, task'[t].attempts)
  BY DEF RunningIsExecuted, Owes
<1> PICK n \in 0..MaxTasks : task \in [1..n -> Row]
  BY DEF WorkerTypeOK
<1>a. runs \subseteq Execution
  BY DEF WorkerTypeOK
<1>b. ASSUME t \in DOMAIN task, task[t].status = "RUNNING"
      PROVE  \E s \in runs : Owes(s, t, task[t].attempts)
  BY <1>b DEF RunningIsExecuted, Owes
\* The statements that neither start an execution nor end one.
<1>c. ASSUME runs' = runs, t \in DOMAIN task, task[t].status = "RUNNING",
             task'[t].attempts = task[t].attempts
      PROVE  \E u \in runs' : Owes(u, t, task'[t].attempts)
  BY <1>b, <1>c
<1>1. CASE TickExpire
  BY <1>1, <1>c DEF TickExpire, Expired, Row
<1>2. ASSUME NEW x \in expired, TickEscalate(x)
      PROVE  \E u \in runs' : Owes(u, t, task'[t].attempts)
  BY <1>2, <1>c DEF TickEscalate, CancelledFor, Row
<1>3. ASSUME NEW x \in expired, TickEscalated(x)
      PROVE  \E u \in runs' : Owes(u, t, task'[t].attempts)
  BY <1>3, <1>c DEF TickEscalated
<1>4. ASSUME NEW S \in SUBSET TaskIds, TickClaim(S)
      PROVE  \E u \in runs' : Owes(u, t, task'[t].attempts)
  <2>1. t \in DOMAIN task
    BY <1>4 DEF TickClaim, Claimed
  <2>2. CASE t \in S
    <3>1. task'[t].attempts = task[t].attempts + 1
      BY <1>4, <2>1, <2>2 DEF TickClaim, Claimed, Row
    <3>2. [task |-> t, attempt |-> task[t].attempts + 1, pc |-> "working"] \in runs'
      BY <1>4, <2>2 DEF TickClaim, Started
    <3> QED BY <3>1, <3>2 DEF Owes
  <2>3. CASE t \notin S
    <3>1. task'[t] = task[t]
      BY <1>4, <2>1, <2>3 DEF TickClaim, Claimed
    <3> QED BY <1>4, <1>b, <2>1, <3>1 DEF TickClaim
  <2> QED BY <2>2, <2>3
<1>5. ASSUME NEW r \in runs, RunStep(r)
      PROVE  \E u \in runs' : Owes(u, t, task'[t].attempts)
  <2>1. CASE HandlerReturns(r) \/ HandlerThrows(r) \/ FailRead(r)
    <3>1. task' = task
      BY <2>1 DEF HandlerReturns, HandlerThrows, FailRead
    <3>2. PICK pc \in {"complete", "fail", "retry", "settle"} : Goto(r, pc)
      BY <2>1 DEF HandlerReturns, HandlerThrows, FailRead
    <3>3. PICK s \in runs : Owes(s, t, task[t].attempts)
      BY <1>b, <3>1
    <3> QED BY <1>a, <3>1, <3>2, <3>3, GotoOwes DEF RunPcs
  \* What ends an execution, or takes it past its outcome, leaves its row in
  \* another status; the other executions stay.
  <2>2. CASE Complete(r) \/ FailRetry(r) \/ FailSettle(r)
    <3>1. /\ t \in DOMAIN task /\ t # r.task
          /\ task'[t] = task[t]
      <4>1. DOMAIN task' = DOMAIN task /\ \A v \in DOMAIN task : v # r.task => task'[v] = task[v]
        BY <2>2 DEF Complete, Completed, FailRetry, Retried, FailSettle, Settled
      <4>2. r.task \in DOMAIN task => task'[r.task].status \in {"DONE", "PENDING", "FAILED"}
        <5>1. CASE Complete(r)
          BY <5>1 DEF Complete, Completed, Row
        <5>2. CASE FailRetry(r)
          BY <5>2 DEF FailRetry, Retried, Row
        <5>3. CASE FailSettle(r)
          BY <5>3 DEF FailSettle, Settled, Row
        <5> QED BY <2>2, <5>1, <5>2, <5>3
      <4> QED BY <4>1, <4>2
    <3>2. \A s \in runs : s # r => s \in runs'
      BY <2>2 DEF Complete, FailRetry, FailSettle, Goto, End
    <3> QED BY <1>b, <3>1, <3>2 DEF Owes
  <2>3. CASE Escalate(r) \/ Escalated(r)
    <3>1. /\ t \in DOMAIN task /\ task[t].status = "RUNNING"
          /\ task'[t].attempts = task[t].attempts
      BY <2>3 DEF Escalate, CancelledFor, Escalated, Row
    <3>2. \A s \in runs : s # r => s \in runs'
      BY <2>3 DEF Escalate, Escalated, Goto, End
    <3>3. r.pc \in {"escalate", "notify"}
      BY <2>3 DEF Escalate, Escalated
    <3> QED BY <1>b, <3>1, <3>2, <3>3 DEF Owes
  <2>4. CASE Heartbeat(r)
    BY <2>4, <1>c DEF Heartbeat, Refreshed, Row
  <2> QED BY <1>5, <2>1, <2>2, <2>3, <2>4 DEF RunStep
<1>6. ASSUME NEW v \in TaskIds, BackoffElapses(v) \/ LockLapses(v)
      PROVE  \E u \in runs' : Owes(u, t, task'[t].attempts)
  <2>1. runs' = runs
    BY <1>6 DEF BackoffElapses, LockLapses
  <2>2. /\ t \in DOMAIN task
        /\ task'[t].status = task[t].status
        /\ task'[t].attempts = task[t].attempts
    <3>1. CASE BackoffElapses(v)
      BY <3>1 DEF BackoffElapses, Row
    <3>2. CASE LockLapses(v)
      BY <3>2 DEF LockLapses, Row
    <3> QED BY <1>6, <3>1, <3>2
  <2> QED BY <1>c, <2>1, <2>2
<1>7. CASE CrashRestart
  BY <1>7 DEF CrashRestart, Reclaimed, Row
<1>8. ASSUME NEW p \in Producers, NEW j \in Jobs, NEW k \in Kinds, EnqueueFind(p, j, k)
      PROVE  \E u \in runs' : Owes(u, t, task'[t].attempts)
  BY <1>8, <1>c DEF EnqueueFind
<1>9. ASSUME NEW c \in finding, NEW v \in TaskIds, EnqueueCreate(c, v)
      PROVE  \E u \in runs' : Owes(u, t, task'[t].attempts)
  BY <1>9, <1>c DEF EnqueueCreate, Created, NewRow
<1>10. ASSUME NEW j \in Jobs, CancelForJob(j)
       PROVE  \E u \in runs' : Owes(u, t, task'[t].attempts)
  BY <1>10, <1>c DEF CancelForJob, CancelledFor, Row
<1>11. CASE UNCHANGED queueVars
  BY <1>11, <1>c DEF queueVars
<1> QED
  BY <1>1, <1>2, <1>3, <1>4, <1>5, <1>6, <1>7, <1>8, <1>9, <1>10, <1>11
  DEF WorkerNext

\* No orphan rows in a live process: a RUNNING row's latest execution is in
\* flight and has its outcome still to write.
THEOREM RunningRowsAreExecuted == WorkerSpec => []RunningIsExecuted
<1>1. WorkerInit => RunningIsExecuted
  BY DEF WorkerInit, RunningIsExecuted
<1> QED BY <1>1, TypeCorrect, ExecutedStep, PTL DEF WorkerSpec

-------------------------------------------------------------------------------
(* As long as no lock has outlived its TTL.  One execution per task is not *)
(* inductive by itself: a claim must not find a row PENDING whose          *)
(* execution is still in flight, so an execution's row is never PENDING,   *)
(* and none is stale.  Likewise the budget: fail puts a row back on what   *)
(* it read earlier, so what it read must still hold when it writes.        *)

RowOK(row, n) ==
  /\ row.lock # "stale"
  /\ row.attempts <= MaxAttempts + n
  /\ row.status = "PENDING" => row.attempts < MaxAttempts + n

RunOK(q, r) ==
  /\ r.task \in DOMAIN q
  /\ q[r.task].status # "PENDING"
  /\ r.pc = "retry" => q[r.task].attempts < MaxAttempts

LapseFree ==
  lapses = 0 =>
    /\ \A t \in DOMAIN task : RowOK(task[t], restarts)
    /\ \A r \in runs : RunOK(task, r)
    /\ \A r, s \in runs : r.task = s.task => r = s

\* A statement that rewrites rows, starts no execution and spends no attempt
\* keeps the invariant when it puts none of the rows in execution back.
LEMMA RewriteKeeps ==
  ASSUME WorkerTypeOK, lapses = 0, LapseFree,
         runs' = runs, lapses' = lapses, restarts' = restarts,
         DOMAIN task \subseteq DOMAIN task',
         \A t \in DOMAIN task' : RowOK(task'[t], restarts'),
         \A r \in runs : /\ task'[r.task].status # "PENDING"
                        /\ task'[r.task].attempts = task[r.task].attempts
  PROVE  LapseFree'
BY DEF LapseFree, RunOK, RowOK

\* An execution that moves on within process(), the table left as it is.
LEMMA GotoKeeps ==
  ASSUME WorkerTypeOK, lapses = 0, LapseFree, NEW r \in runs, NEW pc \in RunPcs,
         Goto(r, pc) \/ End(r),
         pc = "retry" => task[r.task].attempts < MaxAttempts,
         task' = task, lapses' = lapses, restarts' = restarts
  PROVE  LapseFree'
<1> DEFINE e == [r EXCEPT !.pc = pc]
<1>1. \A s \in runs' : s = e \/ (s \in runs /\ s # r)
  BY DEF Goto, End
<1>2. e.task = r.task /\ e.pc = pc
  BY DEF WorkerTypeOK, Execution
<1> HIDE DEF e
<1>3. \A s \in runs' : RunOK(task', s)
  BY <1>1, <1>2 DEF LapseFree, RunOK
<1>4. \A s, u \in runs' : s.task = u.task => s = u
  BY <1>1, <1>2 DEF LapseFree
<1> QED BY <1>3, <1>4 DEF LapseFree, RowOK

\* Every step keeps the invariant, or lets a lock go stale.
LEMMA LapseFreeStep ==
  WorkerTypeOK /\ LapseFree /\ [WorkerNext]_queueVars => LapseFree'
<1> SUFFICES ASSUME WorkerTypeOK, LapseFree, [WorkerNext]_queueVars, lapses' = 0
             PROVE  LapseFree'
  BY DEF LapseFree
<1> PICK n \in 0..MaxTasks : task \in [1..n -> Row]
  BY DEF WorkerTypeOK
<1>a. restarts \in Nat /\ lapses \in Nat /\ runs \subseteq Execution
  BY DEF WorkerTypeOK
<1>b. MaxAttempts \in Nat \ {0}
  BY QueueAssumption
<1>c. ASSUME lapses = 0
      PROVE  /\ \A t \in DOMAIN task : RowOK(task[t], restarts)
             /\ \A r \in runs : RunOK(task, r)
             /\ \A r, s \in runs : r.task = s.task => r = s
  BY <1>c DEF LapseFree
<1>d. \A t \in DOMAIN task : task[t] \in Row /\ task[t].attempts \in Nat
  BY DEF Row
<1>1. CASE TickExpire
  <2>1. lapses = 0
    BY <1>1 DEF TickExpire
  <2> QED BY <1>1, <1>c, <2>1 DEF TickExpire, ExpiredRows, RowOK
<1>2. ASSUME NEW j, task' = CancelledFor(task, j), lapses' = lapses,
             restarts' = restarts, runs' = runs
      PROVE  LapseFree'
  <2>1. \A t \in DOMAIN task :
          /\ t \in DOMAIN task'
          /\ task'[t].lock = task[t].lock /\ task'[t].attempts = task[t].attempts
          /\ task'[t].status \in {task[t].status, "FAILED"}
    BY <1>2, <1>d DEF CancelledFor, Row
  <2>2. DOMAIN task' = DOMAIN task
    BY <1>2 DEF CancelledFor
  <2>3. \A t \in DOMAIN task' : RowOK(task'[t], restarts')
    BY <1>2, <1>c, <2>1, <2>2 DEF RowOK
  <2> QED BY <1>2, <1>c, <2>1, <2>2, <2>3, RewriteKeeps DEF RunOK
<1>3. ASSUME NEW x \in expired, TickEscalate(x) \/ TickEscalated(x)
      PROVE  LapseFree'
  <2>1. CASE TickEscalate(x)
    BY <2>1, <1>2 DEF TickEscalate
  <2>2. CASE TickEscalated(x)
    BY <2>2 DEF TickEscalated, LapseFree, RowOK, RunOK
  <2> QED BY <1>3, <2>1, <2>2
<1>4. ASSUME NEW S \in SUBSET TaskIds, TickClaim(S)
      PROVE  LapseFree'
  <2>1. /\ lapses = 0 /\ lapses' = lapses /\ restarts' = restarts
        /\ DOMAIN task' = DOMAIN task
    BY <1>4 DEF TickClaim, Claimed
  \* With no stale lock, only a PENDING row is claimable, so no execution in
  \* flight is of a row of the batch.
  <2>2. \A t \in S : t \in DOMAIN task /\ task[t].status = "PENDING"
    BY <1>4, <1>c, <2>1 DEF TickClaim, Claimable, RowOK
  <2>3. \A t \in S : /\ task'[t].status = "RUNNING" /\ task'[t].lock = "fresh"
                    /\ task'[t].attempts = task[t].attempts + 1
    BY <1>4, <1>d, <2>2 DEF TickClaim, Claimed, Row
  <2>4. \A t \in DOMAIN task \ S : task'[t] = task[t]
    BY <1>4 DEF TickClaim, Claimed
  <2>5. \A t \in DOMAIN task' : RowOK(task'[t], restarts')
    <3> TAKE t \in DOMAIN task'
    <3>1. CASE t \in S
      BY <1>a, <1>b, <1>c, <1>d, <2>1, <2>2, <2>3, <3>1 DEF RowOK
    <3>2. CASE t \notin S
      BY <1>c, <2>1, <2>4, <3>2 DEF RowOK
    <3> QED BY <3>1, <3>2
  <2>6. \A r \in runs : r.task \notin S
    BY <1>c, <2>1, <2>2 DEF RunOK
  <2>7. \A r \in Started(S) : r.task \in S /\ r.pc = "working"
    BY DEF Started
  <2>8. runs' = runs \cup Started(S)
    BY <1>4 DEF TickClaim
  <2>9. \A r \in runs' : RunOK(task', r)
    <3> TAKE r \in runs'
    <3>1. CASE r \in runs
      BY <1>c, <2>1, <2>4, <2>6, <3>1 DEF RunOK
    <3>2. CASE r \in Started(S)
      BY <2>1, <2>2, <2>3, <2>7, <3>2 DEF RunOK
    <3> QED BY <2>8, <3>1, <3>2
  <2>10. \A r, s \in Started(S) : r.task = s.task => r = s
    BY DEF Started
  <2>11. \A r, s \in runs' : r.task = s.task => r = s
    BY <1>c, <2>1, <2>6, <2>7, <2>8, <2>10
  <2> QED BY <2>5, <2>9, <2>11 DEF LapseFree
<1>5. ASSUME NEW r \in runs, RunStep(r) PROVE LapseFree'
  <2>0. lapses = 0 /\ lapses' = lapses /\ restarts' = restarts
    BY <1>5 DEF RunStep, HandlerReturns, HandlerThrows, Complete, FailRead,
                FailRetry, FailSettle, Escalate, Escalated, Heartbeat
  <2>a. r.task \in DOMAIN task
    BY <1>c, <2>0 DEF RunOK
  <2>c. /\ Wrote(task, Completed(task, r.task), r.task, "DONE")
        /\ Wrote(task, Retried(task, r.task), r.task, "PENDING")
        /\ Wrote(task, Settled(task, r.task), r.task, "FAILED")
    BY <2>a, WrittenRows
  <2>1. CASE HandlerReturns(r)
    BY <2>0, <2>1, GotoKeeps DEF HandlerReturns, RunPcs
  <2>2. CASE HandlerThrows(r)
    BY <2>0, <2>2, GotoKeeps DEF HandlerThrows, RunPcs
  <2>3. CASE FailRead(r)
    <3>1. CASE WillRetry(task, r.task)
      <4>1. task[r.task].attempts < MaxAttempts
        BY <1>b, <1>d, <2>a, <3>1 DEF WillRetry, Exhausted
      <4> QED BY <2>0, <2>3, <3>1, <4>1, GotoKeeps DEF FailRead, RunPcs
    <3>2. CASE ~ WillRetry(task, r.task)
      BY <2>0, <2>3, <3>2, GotoKeeps DEF FailRead, RunPcs
    <3> QED BY <3>1, <3>2
  <2>4. CASE Escalated(r)
    <3>1. "notify" \in RunPcs /\ End(r) /\ task' = task
      BY <2>4 DEF Escalated, RunPcs
    <3> QED BY <2>0, <3>1, GotoKeeps
  \* The statements that write the outcome of r's row: no other execution is
  \* of that row.
  <2>b. ASSUME DOMAIN task' = DOMAIN task,
               \A t \in DOMAIN task : t # r.task => task'[t] = task[t],
               RowOK(task'[r.task], restarts'),
               \A s \in runs' : \/ s \in runs /\ s # r
                                \/ RunOK(task', s) /\ s.task = r.task /\ r \notin runs',
               \A s, u \in runs' : s \in runs \/ u \in runs \/ s = u
        PROVE  LapseFree'
    <3>1. \A t \in DOMAIN task' : RowOK(task'[t], restarts')
      BY <1>c, <2>0, <2>b DEF RowOK
    <3>2. \A s \in runs' : RunOK(task', s)
      BY <1>c, <2>0, <2>b DEF RunOK
    <3>3. \A s, u \in runs' : s.task = u.task => s = u
      BY <1>c, <2>0, <2>b
    <3> QED BY <3>1, <3>2, <3>3 DEF LapseFree
  <2>5. CASE Complete(r)
    <3>1. /\ DOMAIN task' = DOMAIN task
          /\ \A t \in DOMAIN task : t # r.task => task'[t] = task[t]
      BY <2>5 DEF Complete, Completed
    <3>2. RowOK(task'[r.task], restarts')
      BY <1>c, <1>d, <2>0, <2>a, <2>c, <2>5 DEF Complete, Wrote, RowOK
    <3>3. \A s \in runs' : s \in runs /\ s # r
      BY <2>5 DEF Complete, End
    <3> QED BY <2>b, <3>1, <3>2, <3>3
  <2>6. CASE FailRetry(r)
    <3>1. /\ DOMAIN task' = DOMAIN task
          /\ \A t \in DOMAIN task : t # r.task => task'[t] = task[t]
      BY <2>6 DEF FailRetry, Retried
    <3>2. RowOK(task'[r.task], restarts')
      <4>1. task[r.task].attempts < MaxAttempts
        BY <1>c, <2>0, <2>6 DEF FailRetry, RunOK
      <4>2. /\ task'[r.task].lock = "none"
            /\ task'[r.task].attempts = task[r.task].attempts
        BY <2>6, <2>c DEF FailRetry, Wrote
      <4> QED BY <1>a, <1>b, <1>d, <2>0, <2>a, <4>1, <4>2 DEF RowOK
    <3>3. \A s \in runs' : s \in runs /\ s # r
      BY <2>6 DEF FailRetry, End
    <3> QED BY <2>b, <3>1, <3>2, <3>3
  <2>7. CASE FailSettle(r)
    <3> DEFINE e == [r EXCEPT !.pc = "escalate"]
    <3>1. /\ DOMAIN task' = DOMAIN task
          /\ \A t \in DOMAIN task : t # r.task => task'[t] = task[t]
      BY <2>7 DEF FailSettle, Settled
    <3>2. /\ task'[r.task].status = "FAILED" /\ task'[r.task].lock = "none"
          /\ task'[r.task].attempts = task[r.task].attempts
      BY <2>7, <2>c DEF FailSettle, Wrote
    <3>3. RowOK(task'[r.task], restarts')
      BY <1>c, <2>0, <2>a, <3>2 DEF RowOK
    <3>4. e.task = r.task /\ e.pc = "escalate" /\ e # r
      BY <1>a, <2>7 DEF FailSettle, Execution
    <3>5. runs' = (runs \ {r}) \cup {e}
      BY <2>7 DEF FailSettle, Goto
    <3>6. RunOK(task', e)
      BY <2>a, <3>1, <3>2, <3>4 DEF RunOK
    <3> QED BY <2>b, <3>1, <3>3, <3>4, <3>5, <3>6
  \* The escalation cancels the job's rows, then moves on: two changes, each
  \* of which keeps the invariant.
  <2>8. CASE Escalate(r)
    <3> DEFINE e == [r EXCEPT !.pc = "notify"]
    <3>1. \A t \in DOMAIN task :
            /\ task'[t].lock = task[t].lock /\ task'[t].attempts = task[t].attempts
            /\ task'[t].status \in {task[t].status, "FAILED"}
      BY <1>d, <2>8 DEF Escalate, CancelledFor, Row
    <3>2. DOMAIN task' = DOMAIN task
      BY <2>8 DEF Escalate, CancelledFor
    <3>3. \A t \in DOMAIN task' : RowOK(task'[t], restarts')
      BY <1>c, <2>0, <3>1, <3>2 DEF RowOK
    <3>4. e.task = r.task /\ e.pc = "notify"
      BY <1>a DEF Execution
    <3>5. runs' = (runs \ {r}) \cup {e}
      BY <2>8 DEF Escalate, Goto
    <3> HIDE DEF e
    <3>6. \A s \in runs' : RunOK(task', s)
      BY <1>c, <2>0, <3>1, <3>2, <3>4, <3>5 DEF RunOK
    <3>7. \A s, u \in runs' : s.task = u.task => s = u
      BY <1>c, <2>0, <3>4, <3>5
    <3> QED BY <3>3, <3>6, <3>7 DEF LapseFree
  <2>9. CASE Heartbeat(r)
    <3>1. DOMAIN task' = DOMAIN task
      BY <2>9 DEF Heartbeat, Refreshed
    <3>2. \A t \in DOMAIN task :
            /\ task'[t].lock \in {task[t].lock, "fresh"}
            /\ task'[t].attempts = task[t].attempts /\ task'[t].status = task[t].status
      BY <1>d, <2>9 DEF Heartbeat, Refreshed, Row
    <3>3. \A t \in DOMAIN task' : RowOK(task'[t], restarts')
      BY <1>c, <2>0, <3>1, <3>2 DEF RowOK
    <3> QED BY <1>c, <2>0, <2>9, <3>1, <3>2, <3>3, RewriteKeeps DEF Heartbeat, RunOK
  <2> QED
    BY <1>5, <2>1, <2>2, <2>3, <2>4, <2>5, <2>6, <2>7, <2>8, <2>9 DEF RunStep
<1>6. ASSUME NEW t \in TaskIds, BackoffElapses(t) PROVE LapseFree'
  <2>1. \A v \in DOMAIN task :
          /\ task'[v].lock = task[v].lock
          /\ task'[v].attempts = task[v].attempts /\ task'[v].status = task[v].status
    BY <1>6, <1>d DEF BackoffElapses, Row
  <2>2. DOMAIN task' = DOMAIN task
    BY <1>6 DEF BackoffElapses
  <2>3. \A v \in DOMAIN task' : RowOK(task'[v], restarts')
    BY <1>6, <1>c, <2>1, <2>2 DEF RowOK, BackoffElapses
  <2> QED BY <1>6, <1>c, <2>1, <2>2, <2>3, RewriteKeeps DEF BackoffElapses, RunOK
<1>7. ASSUME NEW t \in TaskIds, LockLapses(t) PROVE LapseFree'
  BY <1>7, <1>a DEF LockLapses
<1>8. CASE CrashRestart
  <2>1. \A t \in DOMAIN task : RowOK(Reclaimed(task)[t], restarts')
    <3> TAKE t \in DOMAIN task
    <3>1. lapses = 0 /\ restarts' = restarts + 1
      BY <1>8 DEF CrashRestart
    <3>2. /\ Reclaimed(task)[t].attempts = task[t].attempts
          /\ Reclaimed(task)[t].lock \in {task[t].lock, "none"}
      BY <1>d DEF Reclaimed, Row
    <3> QED BY <1>8, <1>a, <1>b, <1>c, <1>d, <3>1, <3>2 DEF CrashRestart, RowOK
  <2> QED BY <1>8, <2>1 DEF CrashRestart, LapseFree, RowOK, Reclaimed
<1>9. ASSUME NEW p \in Producers, NEW j \in Jobs, NEW k \in Kinds, EnqueueFind(p, j, k)
      PROVE  LapseFree'
  BY <1>9 DEF EnqueueFind, LapseFree, RowOK, RunOK
<1>10. ASSUME NEW c \in finding, NEW t \in TaskIds, EnqueueCreate(c, t)
       PROVE  LapseFree'
  <2>1. lapses = 0 /\ lapses' = lapses /\ restarts' = restarts /\ runs' = runs
    BY <1>10 DEF EnqueueCreate
  <2>2. t \notin DOMAIN task /\ DOMAIN task' = DOMAIN task \cup {t}
    BY <1>10, QueueAssumption DEF EnqueueCreate, IsNextId, Created, TaskIds
  <2>3. \A v \in DOMAIN task : task'[v] = task[v]
    BY <1>10, <2>2 DEF EnqueueCreate, Created
  <2>4. RowOK(task'[t], restarts')
    BY <1>10, <1>a, <1>b DEF EnqueueCreate, Created, NewRow, RowOK
  <2>5. \A v \in DOMAIN task' : RowOK(task'[v], restarts')
    BY <1>c, <2>1, <2>2, <2>3, <2>4
  <2> QED BY <1>c, <2>1, <2>2, <2>3, <2>5, RewriteKeeps DEF RunOK
<1>11. ASSUME NEW j \in Jobs, CancelForJob(j) PROVE LapseFree'
  BY <1>11, <1>2 DEF CancelForJob
<1>12. CASE UNCHANGED queueVars
  BY <1>12 DEF queueVars, LapseFree, RowOK, RunOK
<1> QED
  BY <1>1, <1>3, <1>4, <1>5, <1>6, <1>7, <1>8, <1>9, <1>10, <1>11, <1>12
  DEF WorkerNext

\* The strengthened invariant holds of every behaviour.
LEMMA LapseFreeAlways == WorkerSpec => []LapseFree
<1>1. WorkerInit => LapseFree
  BY DEF WorkerInit, LapseFree
<1> QED BY <1>1, TypeCorrect, LapseFreeStep, PTL DEF WorkerSpec

\* While the heartbeats keep every lock alive, a task is executed by at most
\* one execution at a time, across retries, cancellations and restarts.
THEOREM OneExecution == WorkerSpec => []OneExecutionPerTask
<1>1. LapseFree => OneExecutionPerTask
  BY DEF LapseFree, OneExecutionPerTask
<1> QED BY <1>1, LapseFreeAlways, PTL

\* While no lock has gone stale, the retry budget is exceeded by at most one
\* attempt per crash: the part of AttemptBudget that reclaimOrphaned costs.
THEOREM LapseFreeBudget ==
  WorkerSpec => [](lapses = 0 => \A t \in DOMAIN task :
                                  task[t].attempts <= MaxAttempts + restarts)
<1>1. LapseFree => (lapses = 0 => \A t \in DOMAIN task :
                                    task[t].attempts <= MaxAttempts + restarts)
  BY DEF LapseFree, RowOK
<1> QED BY <1>1, LapseFreeAlways, PTL

\* A row that is FAILED with its budget spent is left alone by every step, as
\* long as no lock has gone stale.
LEMMA SettledStep ==
  WorkerTypeOK /\ LapseFree /\ [WorkerNext]_queueVars =>
    \A t \in DOMAIN task :
      lapses = 0 /\ task[t].status = "FAILED" /\ Exhausted(task[t])
        => task'[t].status \in {"FAILED", "DONE"}
<1> SUFFICES ASSUME WorkerTypeOK, LapseFree, [WorkerNext]_queueVars,
                    NEW t \in DOMAIN task, lapses = 0,
                    task[t].status = "FAILED", Exhausted(task[t])
             PROVE  task'[t].status \in {"FAILED", "DONE"}
  OBVIOUS
<1> PICK n \in 0..MaxTasks : task \in [1..n -> Row]
  BY DEF WorkerTypeOK
<1>a. \A r \in runs : RunOK(task, r)
  BY DEF LapseFree
<1>1. CASE TickExpire
  BY <1>1 DEF TickExpire, Expired, ExpiredRows
<1>2. ASSUME NEW x \in expired, TickEscalate(x) \/ TickEscalated(x)
      PROVE  task'[t].status \in {"FAILED", "DONE"}
  BY <1>2 DEF TickEscalate, TickEscalated, CancelledFor
<1>3. ASSUME NEW S \in SUBSET TaskIds, TickClaim(S)
      PROVE  task'[t].status \in {"FAILED", "DONE"}
  <2>1. t \notin S
    BY <1>3 DEF TickClaim, Claimable
  <2> QED BY <1>3, <2>1 DEF TickClaim, Claimed
<1>4. ASSUME NEW r \in runs, RunStep(r)
      PROVE  task'[t].status \in {"FAILED", "DONE"}
  <2>1. CASE HandlerReturns(r) \/ HandlerThrows(r) \/ FailRead(r) \/ Escalated(r)
    BY <2>1 DEF HandlerReturns, HandlerThrows, FailRead, Escalated
  <2>2. CASE Complete(r)
    <3>1. t = r.task => task'[t].status = "DONE"
      BY <2>2, WrittenRows DEF Complete, Wrote
    <3>2. t # r.task => task'[t] = task[t]
      BY <2>2 DEF Complete, Completed
    <3> QED BY <3>1, <3>2
  \* What fail read when it decided to retry still holds: the row is not
  \* exhausted, so it is not this one.
  <2>3. CASE FailRetry(r)
    <3>1. task[r.task].attempts < MaxAttempts
      BY <1>a, <2>3 DEF FailRetry, RunOK
    <3>2. t # r.task
      <4>1. task[t].attempts \in Nat /\ task[t].attempts >= MaxAttempts
        BY DEF Exhausted, Row
      <4> QED BY <3>1, <4>1, QueueAssumption
    <3> QED BY <2>3, <3>2 DEF FailRetry, Retried
  <2>4. CASE FailSettle(r)
    <3>1. t = r.task => task'[t].status = "FAILED"
      BY <2>4, WrittenRows DEF FailSettle, Wrote
    <3>2. t # r.task => task'[t] = task[t]
      BY <2>4 DEF FailSettle, Settled
    <3> QED BY <3>1, <3>2
  <2>5. CASE Escalate(r)
    BY <2>5 DEF Escalate, CancelledFor
  <2>6. CASE Heartbeat(r)
    <3>1. t = r.task => task' = task
      BY <2>6 DEF Heartbeat, Refreshed
    <3>2. t # r.task => task'[t] = task[t]
      BY <2>6 DEF Heartbeat, Refreshed
    <3> QED BY <3>1, <3>2
  <2> QED BY <1>4, <2>1, <2>2, <2>3, <2>4, <2>5, <2>6 DEF RunStep
<1>5. ASSUME NEW v \in TaskIds, BackoffElapses(v) \/ LockLapses(v)
      PROVE  task'[t].status \in {"FAILED", "DONE"}
  <2>1. t # v /\ v \in DOMAIN task
    BY <1>5 DEF BackoffElapses, LockLapses
  <2> QED BY <1>5, <2>1 DEF BackoffElapses, LockLapses
<1>6. CASE CrashRestart
  BY <1>6 DEF CrashRestart, Reclaimed
<1>7. ASSUME NEW p \in Producers, NEW j \in Jobs, NEW k \in Kinds, EnqueueFind(p, j, k)
      PROVE  task'[t].status \in {"FAILED", "DONE"}
  BY <1>7 DEF EnqueueFind
<1>8. ASSUME NEW c \in finding, NEW v \in TaskIds, EnqueueCreate(c, v)
      PROVE  task'[t].status \in {"FAILED", "DONE"}
  <2>1. t # v
    BY <1>8, QueueAssumption DEF EnqueueCreate, IsNextId, TaskIds
  <2> QED BY <1>8, <2>1 DEF EnqueueCreate, Created
<1>9. ASSUME NEW j \in Jobs, CancelForJob(j)
      PROVE  task'[t].status \in {"FAILED", "DONE"}
  BY <1>9 DEF CancelForJob, CancelledFor
<1>10. CASE UNCHANGED queueVars
  BY <1>10 DEF queueVars
<1> QED
  BY <1>1, <1>2, <1>3, <1>4, <1>5, <1>6, <1>7, <1>8, <1>9, <1>10 DEF WorkerNext

\* A task that settled as FAILED with its budget spent is never put back in
\* the queue while no lock has gone stale.
THEOREM ExhaustedSettles == WorkerSpec => ExhaustedStaysSettled
BY TypeCorrect, LapseFreeAlways, SettledStep, PTL DEF WorkerSpec, ExhaustedStaysSettled

-------------------------------------------------------------------------------
(* WORKER_CONCURRENCY.  runs must be known to be finite for its            *)
(* cardinality to mean anything.                                           *)

Bounded == IsFiniteSet(runs) /\ Cardinality(runs) <= Concurrency

\* A batch starts at most one execution per row.
LEMMA StartedBound ==
  ASSUME NEW S, IsFiniteSet(S)
  PROVE  IsFiniteSet(Started(S)) /\ Cardinality(Started(S)) <= Cardinality(S)
<1> DEFINE f == [t \in S |->
                  [task |-> t, attempt |-> task[t].attempts + 1, pc |-> "working"]]
<1>1. f \in Surjection(S, Started(S))
  BY DEF Started, Surjection
<1> HIDE DEF f
<1> QED BY <1>1, FS_Surjection

\* Moving an execution on never makes them more.
LEMMA GotoBound ==
  ASSUME Bounded, NEW r \in runs, NEW pc, Goto(r, pc) \/ End(r)
  PROVE  Bounded'
<1>1. IsFiniteSet(runs \ {r}) /\ Cardinality(runs \ {r}) = Cardinality(runs) - 1
  BY FS_RemoveElement DEF Bounded
<1>2. Cardinality(runs) \in Nat /\ Concurrency \in Nat
  BY FS_CardinalityType, WorkerAssumption DEF Bounded
<1>3. CASE End(r)
  BY <1>1, <1>2, <1>3 DEF End, Bounded
<1>4. CASE Goto(r, pc)
  <2> DEFINE e == [r EXCEPT !.pc = pc]
  <2>1. runs' = (runs \ {r}) \cup {e}
    BY <1>4 DEF Goto
  <2> HIDE DEF e
  <2>2. /\ IsFiniteSet((runs \ {r}) \cup {e})
        /\ \/ Cardinality((runs \ {r}) \cup {e}) = Cardinality(runs) - 1
           \/ Cardinality((runs \ {r}) \cup {e}) = Cardinality(runs) - 1 + 1
    BY <1>1, FS_AddElement
  <2> QED BY <1>2, <2>1, <2>2 DEF Bounded
<1> QED BY <1>3, <1>4

\* Every step keeps the executions within the bound.
LEMMA BoundedStep == Bounded /\ [WorkerNext]_queueVars => Bounded'
<1> SUFFICES ASSUME Bounded, [WorkerNext]_queueVars PROVE Bounded'
  OBVIOUS
<1>1. ASSUME NEW S \in SUBSET TaskIds, TickClaim(S) PROVE Bounded'
  <2>1. IsFiniteSet(TaskIds)
    BY FS_Interval, QueueAssumption DEF TaskIds
  <2>2. IsFiniteSet(S)
    BY <2>1, FS_Subset
  <2>3. IsFiniteSet(Started(S)) /\ Cardinality(Started(S)) <= Cardinality(S)
    BY <2>2, StartedBound
  <2>4. Cardinality(S) <= Concurrency - Cardinality(runs)
    BY <1>1 DEF TickClaim, Capacity
  <2>5. /\ IsFiniteSet(runs \cup Started(S))
        /\ Cardinality(runs \cup Started(S)) =
             Cardinality(runs) + Cardinality(Started(S)) - Cardinality(runs \cap Started(S))
    BY <2>3, FS_Union DEF Bounded
  <2>6. IsFiniteSet(runs \cap Started(S))
    BY <2>3, FS_Intersection DEF Bounded
  <2>7. /\ Cardinality(runs) \in Nat /\ Cardinality(S) \in Nat
        /\ Cardinality(Started(S)) \in Nat /\ Cardinality(runs \cap Started(S)) \in Nat
    BY <2>2, <2>3, <2>6, FS_CardinalityType DEF Bounded
  <2>8. runs' = runs \cup Started(S)
    BY <1>1 DEF TickClaim
  <2> QED BY <2>3, <2>4, <2>5, <2>7, <2>8, WorkerAssumption DEF Bounded
<1>2. ASSUME NEW r \in runs, RunStep(r) PROVE Bounded'
  <2>1. CASE Heartbeat(r)
    BY <2>1 DEF Heartbeat, Bounded
  <2>2. CASE ~ Heartbeat(r)
    <3>1. \E pc \in RunPcs : Goto(r, pc) \/ End(r)
      BY <1>2, <2>2 DEF RunStep, HandlerReturns, HandlerThrows, Complete, FailRead,
                        FailRetry, FailSettle, Escalate, Escalated, RunPcs
    <3> QED BY <3>1, GotoBound
  <2> QED BY <2>1, <2>2
<1>3. CASE CrashRestart
  BY <1>3, FS_EmptySet, WorkerAssumption DEF CrashRestart, Bounded
<1>4. CASE UNCHANGED runs
  BY <1>4 DEF Bounded
<1> QED
  BY <1>1, <1>2, <1>3, <1>4
  DEF WorkerNext, TickExpire, TickEscalate, TickEscalated, BackoffElapses, LockLapses,
      EnqueueFind, EnqueueCreate, CancelForJob, queueVars

\* WORKER_CONCURRENCY bounds the executions in flight.
THEOREM InflightBounded == WorkerSpec => []InflightBound
<1>1. WorkerInit => Bounded
  BY FS_EmptySet, WorkerAssumption DEF WorkerInit, Bounded
<1>2. Bounded => InflightBound
  BY DEF Bounded, InflightBound
<1> QED BY <1>1, <1>2, BoundedStep, PTL DEF WorkerSpec

-------------------------------------------------------------------------------
(* The retry budget.  attempts alone is not inductive: fail puts back a row *)
(* on an attempts value it read earlier, so what must be counted besides   *)
(* is who may still do so, against the locks that went stale; and the      *)
(* claim still to come of a row that waits.                                *)

\* The executions of row t that are at one of the statements pcs.
Held(R, t, pcs) == {r \in R : r.task = t /\ r.pc \in pcs}

\* Those that may still put the row back, and those that have decided to.
Active(R, t) == Held(R, t, {"working", "complete", "fail", "retry"})
Retriers(R, t) == Held(R, t, {"retry"})

\* A row that a claim may take.
Waits(row) == row.status = "PENDING" \/ (row.status = "RUNNING" /\ row.lock = "stale")

RowPaid(row, R, t, crashes, stale) ==
  /\ Cardinality(Active(R, t)) <= stale + (IF Waits(row) THEN 0 ELSE 1)
  /\ Exhausted(row) =>
       row.attempts + Cardinality(Retriers(R, t)) + (IF row.status = "PENDING" THEN 1 ELSE 0)
         <= MaxAttempts + crashes + stale

Paid ==
  /\ IsFiniteSet(runs)
  /\ \A r \in runs : r.task \in DOMAIN task
  /\ \A t \in DOMAIN task : RowPaid(task[t], runs, t, restarts, lapses)

\* How many an execution that ends leaves.
LEMMA HeldEnded ==
  ASSUME NEW R, IsFiniteSet(R), NEW r \in R, NEW t, NEW pcs
  PROVE  /\ IsFiniteSet(Held(R, t, pcs)) /\ Cardinality(Held(R, t, pcs)) \in Nat
         /\ IsFiniteSet(Held(R \ {r}, t, pcs)) /\ Cardinality(Held(R \ {r}, t, pcs)) \in Nat
         /\ Cardinality(Held(R \ {r}, t, pcs)) <= Cardinality(Held(R, t, pcs))
         /\ r.task = t /\ r.pc \in pcs =>
              Cardinality(Held(R \ {r}, t, pcs)) = Cardinality(Held(R, t, pcs)) - 1
<1>1. IsFiniteSet(Held(R, t, pcs)) /\ Cardinality(Held(R, t, pcs)) \in Nat
  <2>1. Held(R, t, pcs) \subseteq R
    BY DEF Held
  <2> QED BY <2>1, FS_Subset, FS_CardinalityType
<1>2. CASE r.task = t /\ r.pc \in pcs
  <2>1. Held(R \ {r}, t, pcs) = Held(R, t, pcs) \ {r} /\ r \in Held(R, t, pcs)
    BY <1>2 DEF Held
  <2>2. /\ IsFiniteSet(Held(R, t, pcs) \ {r})
        /\ Cardinality(Held(R, t, pcs) \ {r}) = Cardinality(Held(R, t, pcs)) - 1
    BY <1>1, <2>1, FS_RemoveElement
  <2>3. Cardinality(Held(R, t, pcs) \ {r}) \in Nat
    BY <2>2, FS_CardinalityType
  <2>4. Held(R \ {r}, t, pcs) = Held(R, t, pcs) \ {r}
    BY <2>1
  <2>5. /\ IsFiniteSet(Held(R \ {r}, t, pcs)) /\ Cardinality(Held(R \ {r}, t, pcs)) \in Nat
        /\ Cardinality(Held(R \ {r}, t, pcs)) = Cardinality(Held(R, t, pcs)) - 1
    BY <2>2, <2>3, <2>4, Zenon
  <2>6. Cardinality(Held(R \ {r}, t, pcs)) <= Cardinality(Held(R, t, pcs))
    BY <1>1, <2>5
  <2> QED BY <1>1, <2>5, <2>6
<1>3. CASE ~ (r.task = t /\ r.pc \in pcs)
  <2>1. Held(R \ {r}, t, pcs) = Held(R, t, pcs)
    BY <1>3 DEF Held
  <2> QED BY <1>1, <1>3, <2>1
<1> QED BY <1>2, <1>3

\* An execution that moves on is not one more.
LEMMA HeldMoved ==
  ASSUME NEW R, IsFiniteSet(R), NEW r \in R, NEW e, NEW t, NEW pcs,
         e.task = t /\ e.pc \in pcs => r.task = t /\ r.pc \in pcs
  PROVE  Cardinality(Held((R \ {r}) \cup {e}, t, pcs)) <= Cardinality(Held(R, t, pcs))
<1>1. CASE e.task = t /\ e.pc \in pcs
  <2>1. Held((R \ {r}) \cup {e}, t, pcs) = Held(R \ {r}, t, pcs) \cup {e}
    BY <1>1 DEF Held
  <2>2. IsFiniteSet(Held(R \ {r}, t, pcs))
    BY HeldEnded
  <2>3. \/ Cardinality(Held(R \ {r}, t, pcs) \cup {e}) = Cardinality(Held(R \ {r}, t, pcs))
        \/ Cardinality(Held(R \ {r}, t, pcs) \cup {e}) = Cardinality(Held(R \ {r}, t, pcs)) + 1
    BY <2>2, FS_AddElement
  <2>4. /\ Cardinality(Held(R, t, pcs)) \in Nat /\ Cardinality(Held(R \ {r}, t, pcs)) \in Nat
        /\ Cardinality(Held(R \ {r}, t, pcs)) = Cardinality(Held(R, t, pcs)) - 1
    BY <1>1, HeldEnded
  <2>5. \/ Cardinality(Held((R \ {r}) \cup {e}, t, pcs)) = Cardinality(Held(R \ {r}, t, pcs))
        \/ Cardinality(Held((R \ {r}) \cup {e}, t, pcs)) = Cardinality(Held(R \ {r}, t, pcs)) + 1
    BY <2>1, <2>3, Zenon
  <2> QED BY <2>4, <2>5
<1>2. CASE ~ (e.task = t /\ e.pc \in pcs)
  <2>1. Held((R \ {r}) \cup {e}, t, pcs) = Held(R \ {r}, t, pcs)
    BY <1>2 DEF Held
  <2> QED BY <2>1, HeldEnded
<1> QED BY <1>1, <1>2

\* The counts of a finite set of executions are numbers.
LEMMA Counts ==
  ASSUME NEW R, IsFiniteSet(R), NEW t
  PROVE  /\ Cardinality(Active(R, t)) \in Nat /\ Cardinality(Retriers(R, t)) \in Nat
         /\ IsFiniteSet(Active(R, t)) /\ IsFiniteSet(Retriers(R, t))
         /\ Cardinality(Retriers(R, t)) <= Cardinality(Active(R, t))
<1>1. Active(R, t) \subseteq R /\ Retriers(R, t) \subseteq Active(R, t)
  BY DEF Active, Retriers, Held
<1> QED BY <1>1, FS_Subset, FS_CardinalityType

\* A step that neither starts an execution nor puts a row back.
LEMMA PaidKeeps ==
  ASSUME WorkerTypeOK, Paid, UNCHANGED <<restarts, lapses>>, DOMAIN task' = DOMAIN task,
         IsFiniteSet(runs'), \A r \in runs' : r.task \in DOMAIN task,
         \A t \in DOMAIN task :
           /\ task'[t].attempts = task[t].attempts
           /\ Waits(task'[t]) => Waits(task[t])
           /\ task'[t].status = "PENDING" => task[t].status = "PENDING"
           /\ Cardinality(Active(runs', t)) <= Cardinality(Active(runs, t))
           /\ Exhausted(task[t]) =>
                Cardinality(Retriers(runs', t)) <= Cardinality(Retriers(runs, t))
  PROVE  Paid'
<1> SUFFICES ASSUME NEW t \in DOMAIN task
             PROVE  RowPaid(task'[t], runs', t, restarts, lapses)
  BY DEF Paid
<1>1. RowPaid(task[t], runs, t, restarts, lapses)
  BY DEF Paid
<1>2. /\ task[t].attempts \in Nat /\ MaxAttempts \in Nat /\ restarts \in Nat /\ lapses \in Nat
  BY QueueAssumption DEF WorkerTypeOK, Row
<1>3. /\ Cardinality(Active(runs, t)) \in Nat /\ Cardinality(Retriers(runs, t)) \in Nat
      /\ Cardinality(Active(runs', t)) \in Nat /\ Cardinality(Retriers(runs', t)) \in Nat
  BY Counts DEF Paid
<1>4. Cardinality(Active(runs', t)) <= lapses + (IF Waits(task'[t]) THEN 0 ELSE 1)
  BY <1>1, <1>2, <1>3 DEF RowPaid
<1>5. ASSUME Exhausted(task'[t])
      PROVE  task'[t].attempts + Cardinality(Retriers(runs', t))
               + (IF task'[t].status = "PENDING" THEN 1 ELSE 0) <= MaxAttempts + restarts + lapses
  <2>1. Exhausted(task[t])
    BY <1>5 DEF Exhausted
  <2> QED BY <1>1, <1>2, <1>3, <2>1 DEF RowPaid
<1> QED BY <1>4, <1>5 DEF RowPaid

\* An execution that ends, or moves on without becoming active.
LEMMA PaidGoto ==
  ASSUME WorkerTypeOK, Paid, UNCHANGED <<restarts, lapses>>, DOMAIN task' = DOMAIN task,
         NEW r \in runs, NEW pc \in RunPcs, Goto(r, pc) \/ End(r),
         pc \in {"working", "complete", "fail", "retry"} =>
           r.pc \in {"working", "complete", "fail", "retry"},
         pc = "retry" => ~ Exhausted(task[r.task]),
         \A t \in DOMAIN task :
           /\ task'[t].attempts = task[t].attempts
           /\ Waits(task'[t]) => Waits(task[t])
           /\ task'[t].status = "PENDING" => task[t].status = "PENDING"
  PROVE  Paid'
<1>1. IsFiniteSet(runs) /\ \A s \in runs : s.task \in DOMAIN task
  BY DEF Paid
<1>2. IsFiniteSet(runs \ {r})
  BY <1>1, FS_RemoveElement
<1>3. CASE End(r)
  <2>1. runs' = runs \ {r}
    BY <1>3 DEF End
  <2>2. \A t \in DOMAIN task :
          /\ Cardinality(Active(runs', t)) <= Cardinality(Active(runs, t))
          /\ Cardinality(Retriers(runs', t)) <= Cardinality(Retriers(runs, t))
    BY <1>1, <2>1, HeldEnded DEF Active, Retriers
  <2> QED BY <1>1, <1>2, <2>1, <2>2, PaidKeeps
<1>4. CASE Goto(r, pc)
  <2> DEFINE e == [r EXCEPT !.pc = pc]
  <2>1. runs' = (runs \ {r}) \cup {e}
    BY <1>4 DEF Goto
  <2>2. e.task = r.task /\ e.pc = pc
    BY DEF WorkerTypeOK, Execution
  <2> HIDE DEF e
  <2>3. \A t \in DOMAIN task : Cardinality(Active(runs', t)) <= Cardinality(Active(runs, t))
    BY <1>1, <2>1, <2>2, HeldMoved DEF Active
  <2>4. ASSUME NEW t \in DOMAIN task, Exhausted(task[t])
        PROVE  Cardinality(Retriers(runs', t)) <= Cardinality(Retriers(runs, t))
    BY <1>1, <2>1, <2>2, <2>4, HeldMoved DEF Retriers
  <2>5. IsFiniteSet(runs') /\ \A s \in runs' : s.task \in DOMAIN task
    BY <1>1, <1>2, <2>1, <2>2, FS_AddElement
  <2> QED BY <2>3, <2>4, <2>5, PaidKeeps
<1> QED BY <1>3, <1>4

\* A claim: one more execution per claimed row, which waited.
LEMMA PaidClaim ==
  ASSUME WorkerTypeOK, Paid, NEW S \in SUBSET TaskIds, TickClaim(S)
  PROVE  Paid'
<1> PICK n \in 0..MaxTasks : task \in [1..n -> Row]
  BY DEF WorkerTypeOK
<1>1. /\ DOMAIN task' = DOMAIN task /\ S \subseteq DOMAIN task
      /\ runs' = runs \cup Started(S) /\ restarts' = restarts /\ lapses' = lapses
  BY DEF TickClaim, Claimed, Claimable
<1>2. IsFiniteSet(runs) /\ \A r \in runs : r.task \in DOMAIN task
  BY DEF Paid
<1>3. IsFiniteSet(runs')
  <2>1. IsFiniteSet(TaskIds)
    BY FS_Interval, QueueAssumption DEF TaskIds
  <2>2. IsFiniteSet(S)
    BY <2>1, FS_Subset
  <2>3. IsFiniteSet(Started(S))
    BY <2>2, StartedBound
  <2> QED BY <1>1, <1>2, <2>3, FS_Union
<1>4. \A r \in runs' : r.task \in DOMAIN task'
  BY <1>1, <1>2 DEF Started
<1>5. ASSUME NEW t \in DOMAIN task
      PROVE  RowPaid(task'[t], runs', t, restarts', lapses')
  <2>1. RowPaid(task[t], runs, t, restarts, lapses)
    BY DEF Paid
  <2>2. Retriers(runs', t) = Retriers(runs, t)
    BY <1>1 DEF Retriers, Held, Started
  <2>3. /\ Cardinality(Active(runs, t)) \in Nat /\ Cardinality(Retriers(runs, t)) \in Nat
        /\ Cardinality(Active(runs', t)) \in Nat /\ IsFiniteSet(Active(runs, t))
        /\ Cardinality(Retriers(runs, t)) <= Cardinality(Active(runs, t))
    BY <1>2, <1>3, Counts
  <2>4. /\ task[t].attempts \in Nat /\ MaxAttempts \in Nat
        /\ restarts \in Nat /\ lapses \in Nat
    BY QueueAssumption DEF WorkerTypeOK, Row
  <2>5. CASE t \notin S
    <3>1. task'[t] = task[t]
      BY <2>5 DEF TickClaim, Claimed
    <3>2. Active(runs', t) = Active(runs, t)
      BY <1>1, <2>5 DEF Active, Held, Started
    <3> QED BY <1>1, <2>1, <2>2, <3>1, <3>2 DEF RowPaid
  <2>6. CASE t \in S
    <3> DEFINE e == [task |-> t, attempt |-> task[t].attempts + 1, pc |-> "working"]
    <3>1. Active(runs', t) = Active(runs, t) \cup {e}
      BY <1>1, <2>6 DEF Active, Held, Started
    <3> HIDE DEF e
    <3>2. Cardinality(Active(runs', t)) <= Cardinality(Active(runs, t)) + 1
      <4>1. \/ Cardinality(Active(runs, t) \cup {e}) = Cardinality(Active(runs, t))
            \/ Cardinality(Active(runs, t) \cup {e}) = Cardinality(Active(runs, t)) + 1
        BY <2>3, FS_AddElement
      <4>2. \/ Cardinality(Active(runs', t)) = Cardinality(Active(runs, t))
            \/ Cardinality(Active(runs', t)) = Cardinality(Active(runs, t)) + 1
        BY <3>1, <4>1, Zenon
      <4> QED BY <2>3, <4>2
    <3>3. /\ task'[t].status = "RUNNING" /\ task'[t].lock = "fresh"
          /\ task'[t].attempts = task[t].attempts + 1
      <4>1. task'[t] = [task[t] EXCEPT !.status = "RUNNING", !.lock = "fresh",
                                       !.attempts = @ + 1]
        BY <2>6 DEF TickClaim, Claimed
      <4> QED BY <4>1 DEF Row
    <3>4. /\ Waits(task[t])
          /\ Exhausted(task[t]) => task[t].status = "PENDING"
      BY <2>6 DEF TickClaim, Claimable, Waits
    <3>5. Cardinality(Active(runs', t)) <= lapses + 1
      BY <2>1, <2>3, <2>4, <3>2, <3>4 DEF RowPaid
    <3>6. task'[t].attempts + Cardinality(Retriers(runs', t)) <= MaxAttempts + restarts + lapses
          \/ ~ Exhausted(task'[t])
      <4>1. CASE Exhausted(task[t])
        BY <2>1, <2>2, <2>3, <2>4, <3>3, <3>4, <4>1 DEF RowPaid
      <4>2. CASE ~ Exhausted(task[t])
        <5>1. Cardinality(Retriers(runs, t)) <= lapses
          BY <2>1, <2>3, <2>4, <3>4 DEF RowPaid
        <5>2. task[t].attempts < MaxAttempts
          BY <2>4, <4>2 DEF Exhausted
        <5> QED BY <2>2, <2>3, <2>4, <3>3, <5>1, <5>2
      <4> QED BY <4>1, <4>2
    <3>7. ~ Waits(task'[t]) /\ task'[t].status # "PENDING"
      BY <3>3 DEF Waits
    <3>8. task'[t].attempts \in Nat /\ Cardinality(Retriers(runs', t)) \in Nat
      BY <2>2, <2>3, <2>4, <3>3
    <3> QED BY <1>1, <3>5, <3>6, <3>7, <3>8 DEF RowPaid
  <2> QED BY <2>5, <2>6
<1> QED BY <1>1, <1>3, <1>4, <1>5 DEF Paid

\* Putting a row back takes the execution that does it out of the count.
LEMMA PaidRetry ==
  ASSUME WorkerTypeOK, Paid, NEW r \in runs, FailRetry(r)
  PROVE  Paid'
<1> PICK n \in 0..MaxTasks : task \in [1..n -> Row]
  BY DEF WorkerTypeOK
<1>1. /\ DOMAIN task' = DOMAIN task /\ runs' = runs \ {r}
      /\ restarts' = restarts /\ lapses' = lapses /\ r.pc = "retry"
      /\ \A t \in DOMAIN task : t # r.task => task'[t] = task[t]
  BY DEF FailRetry, Retried, End
<1>2. IsFiniteSet(runs) /\ \A s \in runs : s.task \in DOMAIN task
  BY DEF Paid
<1>3. IsFiniteSet(runs') /\ \A s \in runs' : s.task \in DOMAIN task'
  BY <1>1, <1>2, FS_RemoveElement
<1>4. ASSUME NEW t \in DOMAIN task
      PROVE  RowPaid(task'[t], runs', t, restarts', lapses')
  <2>1. RowPaid(task[t], runs, t, restarts, lapses)
    BY DEF Paid
  <2>2. /\ Cardinality(Active(runs, t)) \in Nat /\ Cardinality(Retriers(runs, t)) \in Nat
        /\ Cardinality(Active(runs', t)) \in Nat /\ Cardinality(Retriers(runs', t)) \in Nat
    BY <1>2, <1>3, Counts
  <2>3. /\ task[t].attempts \in Nat /\ MaxAttempts \in Nat
        /\ restarts \in Nat /\ lapses \in Nat
    BY QueueAssumption DEF WorkerTypeOK, Row
  <2>4. CASE t = r.task
    <3>a. /\ Cardinality(Active(runs \ {r}, t)) = Cardinality(Active(runs, t)) - 1
          /\ Cardinality(Retriers(runs \ {r}, t)) = Cardinality(Retriers(runs, t)) - 1
      BY <1>1, <1>2, <2>4, HeldEnded, SMTT(30) DEF Active, Retriers
    <3>1. /\ Cardinality(Active(runs', t)) = Cardinality(Active(runs, t)) - 1
          /\ Cardinality(Retriers(runs', t)) = Cardinality(Retriers(runs, t)) - 1
      BY <1>1, <3>a
    <3>2. task'[t].status = "PENDING" /\ task'[t].attempts = task[t].attempts
      BY <2>4, WrittenRows DEF FailRetry, Wrote
    <3>3. Waits(task'[t]) /\ (Exhausted(task'[t]) => Exhausted(task[t]))
      BY <3>2 DEF Waits, Exhausted
    <3>4. Cardinality(Active(runs', t)) <= lapses
      BY <2>1, <2>2, <2>3, <3>1 DEF RowPaid
    <3>5. Exhausted(task'[t]) =>
            task'[t].attempts + Cardinality(Retriers(runs', t)) + 1
              <= MaxAttempts + restarts + lapses
      <4> SUFFICES ASSUME Exhausted(task[t])
                   PROVE  task'[t].attempts + Cardinality(Retriers(runs', t)) + 1
                            <= MaxAttempts + restarts + lapses
        BY <3>3
      <4>1. task[t].attempts + Cardinality(Retriers(runs, t)) <= MaxAttempts + restarts + lapses
        BY <2>1, <2>2, <2>3 DEF RowPaid
      <4>2. Cardinality(Retriers(runs', t)) + 1 = Cardinality(Retriers(runs, t))
        BY <2>2, <3>1
      <4> QED BY <2>2, <2>3, <3>2, <4>1, <4>2
    <3> QED BY <1>1, <2>2, <2>3, <3>2, <3>3, <3>4, <3>5 DEF RowPaid
  <2>5. CASE t # r.task
    <3>1. Active(runs', t) = Active(runs, t) /\ Retriers(runs', t) = Retriers(runs, t)
      BY <1>1, <2>5 DEF Active, Retriers, Held
    <3> QED BY <1>1, <2>1, <2>5, <3>1 DEF RowPaid
  <2> QED BY <2>4, <2>5
<1> QED BY <1>1, <1>3, <1>4 DEF Paid

\* Every step of an execution keeps the account.
LEMMA PaidRun ==
  ASSUME WorkerTypeOK, Paid, NEW r \in runs, RunStep(r)
  PROVE  Paid'
<1> PICK n \in 0..MaxTasks : task \in [1..n -> Row]
  BY DEF WorkerTypeOK
<1>0. /\ r.task \in DOMAIN task
      /\ IsFiniteSet(runs) /\ \A s \in runs : s.task \in DOMAIN task
  BY DEF Paid
<1>1. CASE HandlerReturns(r) \/ HandlerThrows(r) \/ Escalated(r)
  <2>1. UNCHANGED <<task, restarts, lapses>>
    BY <1>1 DEF HandlerReturns, HandlerThrows, Escalated
  <2>2. \/ r.pc = "working" /\ (Goto(r, "complete") \/ Goto(r, "fail"))
        \/ End(r)
    BY <1>1 DEF HandlerReturns, HandlerThrows, Escalated
  <2>3. CASE End(r)
    BY <2>1, <2>3, PaidGoto DEF RunPcs
  <2>4. CASE r.pc = "working" /\ (Goto(r, "complete") \/ Goto(r, "fail"))
    <3>1. PICK pc \in {"complete", "fail"} : Goto(r, pc)
      BY <2>4
    <3> QED BY <2>1, <2>4, <3>1, PaidGoto DEF RunPcs
  <2> QED BY <2>2, <2>3, <2>4
<1>2. CASE FailRead(r)
  <2> DEFINE pc == IF WillRetry(task, r.task) THEN "retry" ELSE "settle"
  <2>1. pc \in {"retry", "settle"} /\ (pc = "retry" => ~ Exhausted(task[r.task]))
    BY DEF WillRetry
  <2>2. Goto(r, pc) /\ r.pc = "fail" /\ UNCHANGED <<task, restarts, lapses>>
    BY <1>2 DEF FailRead
  <2> HIDE DEF pc
  <2> QED BY <2>1, <2>2, PaidGoto DEF RunPcs
<1>3. CASE Complete(r) \/ FailSettle(r)
  <2>1. /\ DOMAIN task' = DOMAIN task
        /\ \A t \in DOMAIN task : t # r.task => task'[t] = task[t]
    BY <1>3 DEF Complete, Completed, FailSettle, Settled
  <2>2. /\ task'[r.task].status \in {"DONE", "FAILED"}
        /\ task'[r.task].attempts = task[r.task].attempts
    BY <1>0, <1>3, WrittenRows DEF Complete, FailSettle, Wrote
  <2>3. \A t \in DOMAIN task :
          /\ task'[t].attempts = task[t].attempts
          /\ Waits(task'[t]) => Waits(task[t])
          /\ task'[t].status = "PENDING" => task[t].status = "PENDING"
    BY <2>1, <2>2 DEF Waits
  <2>4. (Goto(r, "escalate") \/ End(r)) /\ UNCHANGED <<restarts, lapses>>
    BY <1>3 DEF Complete, FailSettle
  <2> QED BY <2>1, <2>3, <2>4, PaidGoto DEF RunPcs
<1>4. CASE FailRetry(r)
  BY <1>4, PaidRetry
<1>5. CASE Escalate(r)
  <2>1. DOMAIN task' = DOMAIN task
    BY <1>5 DEF Escalate, CancelledFor
  <2>2. \A t \in DOMAIN task :
          /\ task'[t].attempts = task[t].attempts /\ task'[t].lock = task[t].lock
          /\ task'[t].status \in {task[t].status, "FAILED"}
    BY <1>5 DEF Escalate, CancelledFor, Row
  <2>3. Goto(r, "notify") /\ UNCHANGED <<restarts, lapses>>
    BY <1>5 DEF Escalate
  <2>4. \A t \in DOMAIN task :
          /\ Waits(task'[t]) => Waits(task[t])
          /\ task'[t].status = "PENDING" => task[t].status = "PENDING"
    BY <2>2 DEF Waits
  <2> QED BY <2>1, <2>2, <2>3, <2>4, PaidGoto DEF RunPcs
<1>6. CASE Heartbeat(r)
  <2>1. DOMAIN task' = DOMAIN task /\ UNCHANGED <<runs, restarts, lapses>>
    BY <1>6 DEF Heartbeat, Refreshed
  <2>2. \A t \in DOMAIN task :
          /\ task'[t].attempts = task[t].attempts /\ task'[t].status = task[t].status
          /\ task'[t].lock \in {task[t].lock, "fresh"}
    BY <1>6 DEF Heartbeat, Refreshed, Row
  <2>3. \A t \in DOMAIN task : Waits(task'[t]) => Waits(task[t])
    BY <2>2 DEF Waits
  <2>4. \A t \in DOMAIN task :
          /\ Cardinality(Active(runs', t)) <= Cardinality(Active(runs, t))
          /\ Cardinality(Retriers(runs', t)) <= Cardinality(Retriers(runs, t))
    BY <1>0, <2>1, Counts
  <2> QED BY <1>0, <2>1, <2>2, <2>3, <2>4, PaidKeeps
<1> QED BY <1>1, <1>2, <1>3, <1>4, <1>5, <1>6 DEF RunStep

\* The account of what QUEUE_MAX_ATTEMPTS allows is kept by every step.
LEMMA PaidStep == WorkerTypeOK /\ Paid /\ [WorkerNext]_queueVars => Paid'
<1> SUFFICES ASSUME WorkerTypeOK, Paid, [WorkerNext]_queueVars PROVE Paid'
  OBVIOUS
<1> PICK n \in 0..MaxTasks : task \in [1..n -> Row]
  BY DEF WorkerTypeOK
<1>a. IsFiniteSet(runs) /\ \A r \in runs : r.task \in DOMAIN task
  BY DEF Paid
<1>b. /\ MaxAttempts \in Nat /\ restarts \in Nat /\ lapses \in Nat
      /\ \A t \in DOMAIN task : task[t].attempts \in Nat
  BY QueueAssumption DEF WorkerTypeOK, Row
\* The statements on the table that start no execution and put no row back.
<1>c. ASSUME UNCHANGED <<runs, restarts, lapses>>, DOMAIN task' = DOMAIN task,
             \A t \in DOMAIN task :
               /\ task'[t].attempts = task[t].attempts
               /\ \/ task'[t].status = task[t].status /\ task'[t].lock = task[t].lock
                  \/ task'[t].status = "FAILED"
      PROVE  Paid'
  <2>1. \A t \in DOMAIN task :
          /\ task'[t].attempts = task[t].attempts
          /\ Waits(task'[t]) => Waits(task[t])
          /\ task'[t].status = "PENDING" => task[t].status = "PENDING"
    BY <1>c DEF Waits
  <2>2. \A t \in DOMAIN task :
          /\ Cardinality(Active(runs', t)) <= Cardinality(Active(runs, t))
          /\ Cardinality(Retriers(runs', t)) <= Cardinality(Retriers(runs, t))
    BY <1>a, <1>c, Counts
  <2> QED BY <1>a, <1>c, <2>1, <2>2, PaidKeeps
<1>1. CASE TickExpire
  <2>1. /\ UNCHANGED <<runs, restarts, lapses>> /\ DOMAIN task' = DOMAIN task
    BY <1>1 DEF TickExpire, Expired
  <2>2. \A t \in DOMAIN task :
          /\ task'[t].attempts = task[t].attempts
          /\ task'[t] = task[t] \/ task'[t].status = "FAILED"
    BY <1>1 DEF TickExpire, Expired, Row
  <2> QED BY <1>c, <2>1, <2>2
<1>2. ASSUME NEW x \in expired, TickEscalate(x) PROVE Paid'
  <2>1. /\ UNCHANGED <<runs, restarts, lapses>> /\ DOMAIN task' = DOMAIN task
    BY <1>2 DEF TickEscalate, CancelledFor
  <2>2. \A t \in DOMAIN task :
          /\ task'[t].attempts = task[t].attempts
          /\ task'[t] = task[t] \/ task'[t].status = "FAILED"
    BY <1>2 DEF TickEscalate, CancelledFor, Row
  <2> QED BY <1>c, <2>1, <2>2
<1>3. ASSUME NEW S \in SUBSET TaskIds, TickClaim(S) PROVE Paid'
  BY <1>3, PaidClaim
<1>4. ASSUME NEW r \in runs, RunStep(r) PROVE Paid'
  BY <1>4, PaidRun
<1>5. ASSUME NEW v \in TaskIds, BackoffElapses(v) PROVE Paid'
  <2>1. /\ UNCHANGED <<runs, restarts, lapses>> /\ DOMAIN task' = DOMAIN task
    BY <1>5 DEF BackoffElapses
  <2>2. \A t \in DOMAIN task :
          /\ task'[t].attempts = task[t].attempts
          /\ task'[t].status = task[t].status /\ task'[t].lock = task[t].lock
    BY <1>5 DEF BackoffElapses, Row
  <2> QED BY <1>c, <2>1, <2>2
\* One more lapse pays for the execution that is now beside its lock.
<1>6. ASSUME NEW v \in TaskIds, LockLapses(v) PROVE Paid'
  <2>1. /\ runs' = runs /\ restarts' = restarts /\ lapses' = lapses + 1
        /\ DOMAIN task' = DOMAIN task
    BY <1>6 DEF LockLapses
  <2>2. \A t \in DOMAIN task :
          task'[t].attempts = task[t].attempts /\ task'[t].status = task[t].status
    BY <1>6 DEF LockLapses, Row
  <2>3. \A t \in DOMAIN task : Waits(task[t]) => Waits(task'[t])
    <3> TAKE t \in DOMAIN task
    <3>1. t # v => task'[t] = task[t]
      BY <1>6 DEF LockLapses
    <3>2. t = v => ~ Waits(task[t])
      BY <1>6 DEF LockLapses, Waits
    <3> QED BY <3>1, <3>2
  <2>4. ASSUME NEW t \in DOMAIN task
        PROVE  RowPaid(task'[t], runs', t, restarts', lapses')
    <3>1. RowPaid(task[t], runs, t, restarts, lapses)
      BY DEF Paid
    <3>2. /\ Cardinality(Active(runs, t)) \in Nat /\ Cardinality(Retriers(runs, t)) \in Nat
      BY <1>a, Counts
    <3>3. Exhausted(task'[t]) => Exhausted(task[t])
      BY <2>2 DEF Exhausted
    <3>4. Cardinality(Active(runs, t)) <= lapses + 1 + (IF Waits(task'[t]) THEN 0 ELSE 1)
      BY <1>b, <2>3, <3>1, <3>2 DEF RowPaid
    <3>5. Exhausted(task'[t]) =>
            task'[t].attempts + Cardinality(Retriers(runs, t))
              + (IF task'[t].status = "PENDING" THEN 1 ELSE 0)
              <= MaxAttempts + restarts + (lapses + 1)
      BY <1>b, <2>2, <3>1, <3>2, <3>3 DEF RowPaid
    <3> QED BY <2>1, <3>4, <3>5 DEF RowPaid
  <2> QED BY <1>a, <2>1, <2>4 DEF Paid
\* One more crash pays for the row it puts back.
<1>7. CASE CrashRestart
  <2>1. /\ runs' = {} /\ restarts' = restarts + 1 /\ lapses' = lapses
        /\ DOMAIN task' = DOMAIN task
    BY <1>7 DEF CrashRestart, Reclaimed
  <2>2. IsFiniteSet(runs')
    BY <2>1, FS_EmptySet
  <2>3. ASSUME NEW t \in DOMAIN task
        PROVE  RowPaid(task'[t], runs', t, restarts', lapses')
    <3>1. RowPaid(task[t], runs, t, restarts, lapses)
      BY DEF Paid
    <3>2. Cardinality(Retriers(runs, t)) \in Nat
      BY <1>a, Counts
    <3>3. Active(runs', t) = {} /\ Retriers(runs', t) = {}
      BY <2>1 DEF Active, Retriers, Held
    <3>4. Cardinality(Active(runs', t)) = 0 /\ Cardinality(Retriers(runs', t)) = 0
      BY <3>3, FS_EmptySet
    <3>5. task'[t].attempts = task[t].attempts
      BY <1>7 DEF CrashRestart, Reclaimed, Row
    <3>6. Exhausted(task'[t]) => Exhausted(task[t])
      BY <3>5 DEF Exhausted
    <3>7. Exhausted(task'[t]) =>
            task'[t].attempts + 0 + (IF task'[t].status = "PENDING" THEN 1 ELSE 0)
              <= MaxAttempts + (restarts + 1) + lapses
      BY <1>b, <3>1, <3>2, <3>5, <3>6 DEF RowPaid
    <3> QED BY <1>b, <2>1, <3>4, <3>7 DEF RowPaid
  <2> QED BY <2>1, <2>2, <2>3 DEF Paid
\* No execution is at work on a row that is only now inserted.
<1>8. ASSUME NEW c \in finding, NEW v \in TaskIds, EnqueueCreate(c, v) PROVE Paid'
  <2>1. /\ v \notin DOMAIN task /\ DOMAIN task' = DOMAIN task \cup {v}
        /\ UNCHANGED <<runs, restarts, lapses>>
        /\ task'[v] = NewRow(c.job, c.kind)
        /\ \A t \in DOMAIN task : task'[t] = task[t]
    BY <1>8, QueueAssumption DEF EnqueueCreate, IsNextId, Created, TaskIds
  <2>2. Active(runs, v) = {} /\ Retriers(runs, v) = {}
    BY <1>a, <2>1 DEF Active, Retriers, Held
  <2>3. Cardinality(Active(runs, v)) = 0
    BY <2>2, FS_EmptySet
  <2>4. ~ Exhausted(task'[v])
    BY <2>1, QueueAssumption DEF NewRow, Exhausted
  <2>5. RowPaid(task'[v], runs, v, restarts, lapses)
    BY <1>b, <2>3, <2>4 DEF RowPaid
  <2> QED BY <1>a, <2>1, <2>5 DEF Paid
<1>9. ASSUME NEW j \in Jobs, CancelForJob(j) PROVE Paid'
  <2>1. /\ UNCHANGED <<runs, restarts, lapses>> /\ DOMAIN task' = DOMAIN task
    BY <1>9 DEF CancelForJob, CancelledFor
  <2>2. \A t \in DOMAIN task :
          /\ task'[t].attempts = task[t].attempts
          /\ task'[t] = task[t] \/ task'[t].status = "FAILED"
    BY <1>9 DEF CancelForJob, CancelledFor, Row
  <2> QED BY <1>c, <2>1, <2>2
<1>10. CASE UNCHANGED <<task, runs, restarts, lapses>>
  BY <1>10 DEF Paid
<1> QED
  BY <1>1, <1>2, <1>3, <1>4, <1>5, <1>6, <1>7, <1>8, <1>9, <1>10
  DEF WorkerNext, TickEscalated, EnqueueFind, queueVars

\* What the account says of a row: its attempts are within the budget.
LEMMA PaidBudget == WorkerTypeOK /\ Paid => AttemptBudget
<1> SUFFICES ASSUME WorkerTypeOK, Paid, NEW t \in DOMAIN task
             PROVE  task[t].attempts <= MaxAttempts + restarts + lapses
  BY DEF AttemptBudget
<1>1. /\ task[t].attempts \in Nat /\ MaxAttempts \in Nat
      /\ restarts \in Nat /\ lapses \in Nat
  BY QueueAssumption DEF WorkerTypeOK, Row
<1>2. IsFiniteSet(runs) /\ RowPaid(task[t], runs, t, restarts, lapses)
  BY DEF Paid
<1>3. Cardinality(Retriers(runs, t)) \in Nat
  BY <1>2, Counts
<1> QED BY <1>1, <1>2, <1>3 DEF RowPaid, Exhausted

\* The account holds of every behaviour.
LEMMA PaidAlways == WorkerSpec => []Paid
<1>1. WorkerInit => Paid
  BY FS_EmptySet DEF WorkerInit, Paid
<1> QED BY <1>1, TypeCorrect, PaidStep, PTL DEF WorkerSpec

\* The retry budget: whatever the crashes and the stale locks, a task is
\* started at most QUEUE_MAX_ATTEMPTS times, once more for every crash and once
\* more for every lock that outlived its TTL.
THEOREM AttemptBudgetHolds == WorkerSpec => []AttemptBudget
BY PaidBudget, TypeCorrect, PaidAlways, PTL

(***************************************************************************)
(* THE PIPELINE                                                            *)
(***************************************************************************)

-------------------------------------------------------------------------------
(* Operations and scripts.                                                 *)

\* The phases agents run for, the statements of one word, the operations, and
\* the names of scripts: a task's kind, a request's, or the escalation.
Phases == TASK_KINDS \cup {"SUMMARY"}

Statements ==
  {"process", "context", "create", "insert", "cancelTasks", "propose", "approvePlans",
   "supersede", "cycle", "savePr", "feedback", "guard", "verified", "reviewed"}

Ops ==
  [op: {"transition"}, to: JOB_STATES, force: BOOLEAN] \cup [op: {"write"}, to: JOB_STATES]
    \cup [op: {"enqueue"}, kind: TASK_KINDS] \cup [op: {"agent", "await"}, phase: Phases]
    \cup [op: Statements]

Names == TASK_KINDS \cup RequestKinds \cup {"exhausted"}

\* An operation that moves the job to another state.
Moves(o) == o.op \in {"transition", "write"}

\* What the operations of a script of this name may be: the escalation only
\* fails the job, only an execution reads it as process() does, and only a request
\* opens a round.
OpsOK(ops, name) ==
  \A k \in 1..Len(ops) :
    /\ name = "exhausted" => Moves(ops[k]) /\ ops[k].to = "FAILED"
    /\ ops[k].op \in {"process", "context"} => name \in TASK_KINDS
    /\ ops[k].op = "cycle" => name \in RequestKinds

\* Who is no caller of enqueue is an escalation.
ScriptOK(a) ==
  /\ a \notin Callers => script[a].name = "exhausted"
  /\ OpsOK(script[a].ops, script[a].name)

Script == [job: Jobs, name: Names, ops: Seq(Ops)]

\* The scripts have their types, and their owners.
ScriptTypes ==
  /\ DOMAIN script \subseteq Callers \cup (TaskIds \X {0})
  /\ script \in [DOMAIN script -> Script]
  /\ \A a \in DOMAIN script : ScriptOK(a)

\* The fields of the jobs have their types.
JobTypes ==
  /\ state \in [Jobs -> JOB_STATES \cup {"ABSENT"}]
  /\ cycle \in [Jobs -> Nat]
  /\ hasPr \in [Jobs -> BOOLEAN]
  /\ unaddressed \in [Jobs -> BOOLEAN]
  /\ plans \in [Jobs -> Seq({"PROPOSED", "APPROVED", "SUPERSEDED"})]

\* The counters keep within their bounds, and executions are callers of enqueue.
Bounds ==
  /\ arrived \in 0..MaxRequests /\ restarts \in 0..MaxRestarts /\ lapses \in 0..MaxLapses
  /\ \A r \in runs : RunActor(r) \in Callers

\* All of them, and the worker's accounting.
Types == WorkerTypeOK /\ Paid /\ JobTypes /\ Bounds /\ ScriptTypes

\* Job j has a row in table q.
HasRow(q, j) == \E t \in DOMAIN q : q[t].job = j

\* The rows of a job have a newest one, as findFirst by createdAt needs.
Newest ==
  \A j \in Jobs : HasRow(task, j) =>
    \E t \in DOMAIN task :
      task[t].job = j /\ \A u \in DOMAIN task : task[u].job = j => u <= t

\* An operation past the plan gate, or one that decides on others that are.
PastGate(o) ==
  \/ Moves(o) /\ o.to \in PostPlan
  \/ o.op = "enqueue" /\ o.kind # "PLAN"
  \/ o.op \in {"verified", "reviewed", "guard"}

\* A round is open, or is opened before the operation that needs it.
GatedBy(ops, open) ==
  \A k \in 1..Len(ops) :
    PastGate(ops[k]) => open \/ \E l \in 1..(k - 1) : ops[l].op = "cycle"

\* The strengthening of RoundOpened: rows, calls of enqueue and scripts past the
\* gate are those of a job in a round, or open one before it matters.
Round ==
  /\ RoundOpened
  /\ \A t \in DOMAIN task : task[t].kind # "PLAN" => cycle[task[t].job] >= 1
  /\ \A c \in finding : c.kind # "PLAN" => cycle[c.job] >= 1
  /\ \A a \in DOMAIN script :
       /\ script[a].name \in TASK_KINDS \ {"PLAN"} => cycle[script[a].job] >= 1
       /\ GatedBy(script[a].ops, cycle[script[a].job] >= 1)

\* What a script may do to a job without rows, which is in state s.
Early(o, s) ==
  \/ o.op \in {"create", "insert", "cancelTasks", "feedback"}
  \/ o.op = "enqueue" /\ o.kind = "PLAN"
  \/ Moves(o) /\ o.to = "CANCELLED"
  \/ o.op = "transition" /\ ~ o.force /\ o.to = "PLANNING" /\ s = "CANCELLED"

EarlyOnly(ops, s) == \A k \in 1..Len(ops) : Early(ops[k], s)

\* A job without rows is at its beginning or cancelled, and its scripts keep it so;
\* a retry, which without rows would resume REVIEW, is not reached.
Rowless ==
  /\ \A j \in Jobs : ~ HasRow(task, j) => state[j] \in {"ABSENT", "TRIAGED", "CANCELLED"}
  /\ \A a \in DOMAIN script :
       /\ ~ HasRow(task, script[a].job) => EarlyOnly(script[a].ops, state[script[a].job])
       /\ script[a].name \in TASK_KINDS \cup {"exhausted"} => HasRow(task, script[a].job)
  /\ \A x \in expired : x.task \in DOMAIN task

\* An operation a handler may end with: it hands the job on, or rests it.
Ends(o) ==
  \/ o.op \in {"enqueue", "insert", "process", "context", "verified", "reviewed"}
  \/ Moves(o) /\ o.to \notin Working

\* The operations no request has.
HandlersOnly ==
  {"process", "context", "verified", "reviewed", "guard", "agent", "await"}

\* What moves a job to a working state in a request is followed by the enqueue
\* that carries it there, what cancels its tasks by the move to CANCELLED, and what
\* opens a round by the move and the enqueue, so that a request opens one at most.
RequestScript(ops) ==
  \A k \in 1..Len(ops) :
    /\ ops[k].op \notin HandlersOnly
    /\ (Moves(ops[k]) /\ ops[k].to \in Working) \/ ops[k].op = "create" =>
         k < Len(ops) /\ ops[k + 1].op = "enqueue"
    /\ ops[k].op = "cancelTasks" =>
         k < Len(ops) /\ ops[k + 1].op = "transition" /\ ops[k + 1].to = "CANCELLED"
    /\ ops[k].op = "cycle" => Len(ops) = k + 2

\* What the fields of an operation range over.
LEMMA OpFields ==
  ASSUME NEW o \in Ops
  PROVE  /\ o.op = "transition" => o.to \in JOB_STATES /\ o.force \in BOOLEAN
         /\ o.op = "write" => o.to \in JOB_STATES
         /\ o.op = "enqueue" => o.kind \in TASK_KINDS
         /\ o.op \in {"agent", "await"} => o.phase \in Phases
BY DEF Ops, Statements

\* The operations that move the job on.
LEMMA MoveOps ==
  ASSUME NEW to \in JOB_STATES
  PROVE  /\ T(to) \in Ops /\ T(to).op = "transition" /\ T(to).to = to /\ T(to).force = FALSE
         /\ Forced(to) \in Ops /\ Forced(to).op = "transition" /\ Forced(to).to = to
         /\ Forced(to).force = TRUE
         /\ [op |-> "write", to |-> to] \in Ops /\ [op |-> "write", to |-> to].op = "write"
         /\ [op |-> "write", to |-> to].to = to
BY DEF Ops, T, Forced

\* The others.
LEMMA OtherOps ==
  /\ \A k \in TASK_KINDS : Enqueue(k) \in Ops /\ Enqueue(k).op = "enqueue" /\ Enqueue(k).kind = k
  /\ \A p \in Phases :
       /\ Agent(p) \in Ops /\ Agent(p).op = "agent"
       /\ [op |-> "await", phase |-> p] \in Ops /\ [op |-> "await", phase |-> p].op = "await"
  /\ \A w \in Statements : Do(w) \in Ops /\ Do(w).op = w
BY DEF Ops, Enqueue, Agent, Do

\* What is left of a script when its first operation is done, and what it
\* becomes when that operation goes on as another one.
LEMMA RestOps ==
  ASSUME NEW S, NEW ops \in Seq(S), ops # <<>>, NEW o \in S
  PROVE  /\ Len(ops) \in Nat /\ 1 \in 1..Len(ops) /\ Head(ops) = ops[1] /\ Head(ops) \in S
         /\ Tail(ops) \in Seq(S) /\ Len(Tail(ops)) = Len(ops) - 1
         /\ \A k \in 1..Len(Tail(ops)) : k + 1 \in 1..Len(ops) /\ Tail(ops)[k] = ops[k + 1]
         /\ <<o>> \o Tail(ops) \in Seq(S) /\ Len(<<o>> \o Tail(ops)) = Len(ops)
         /\ (<<o>> \o Tail(ops))[1] = o
         /\ \A k \in 2..Len(ops) : (<<o>> \o Tail(ops))[k] = ops[k]
<1>1. Len(ops) \in Nat /\ Len(ops) >= 1
  OBVIOUS
<1>2. Tail(ops) \in Seq(S) /\ Len(Tail(ops)) = Len(ops) - 1 /\ Head(ops) = ops[1]
      /\ \A k \in 1..Len(Tail(ops)) : Tail(ops)[k] = ops[k + 1]
  OBVIOUS
<1> DEFINE rest == Tail(ops)
<1> HIDE DEF rest
<1>3. rest \in Seq(S) /\ Len(rest) = Len(ops) - 1
      /\ \A k \in 1..Len(rest) : rest[k] = ops[k + 1]
  BY <1>2 DEF rest
<1>4. /\ <<o>> \o rest \in Seq(S) /\ Len(<<o>> \o rest) = 1 + Len(rest)
      /\ (<<o>> \o rest)[1] = o
      /\ \A k \in 2..(1 + Len(rest)) : (<<o>> \o rest)[k] = rest[k - 1]
  BY <1>3
<1>5. \A k \in 2..Len(ops) : (<<o>> \o rest)[k] = ops[k]
  <2> TAKE k \in 2..Len(ops)
  <2>1. k - 1 \in 1..Len(rest) /\ k \in 2..(1 + Len(rest)) /\ (k - 1) + 1 = k
    BY <1>1, <1>3
  <2> QED BY <2>1, <1>3, <1>4
<1>6. ops[1] \in S /\ \A k \in 1..Len(rest) : k + 1 \in 1..Len(ops)
  BY <1>1, <1>3
<1> QED BY <1>1, <1>2, <1>3, <1>4, <1>5, <1>6 DEF rest

-------------------------------------------------------------------------------
(* What the handlers and the requests set out to do.                       *)

\* Sequences of up to four operations.
LEMMA Tuples ==
  ASSUME NEW S, NEW o1 \in S, NEW o2 \in S, NEW o3 \in S, NEW o4 \in S
  PROVE  /\ <<o1>> \in Seq(S) /\ Len(<<o1>>) = 1 /\ <<o1>>[1] = o1
         /\ <<o1, o2>> \in Seq(S) /\ Len(<<o1, o2>>) = 2
         /\ <<o1, o2>>[1] = o1 /\ <<o1, o2>>[2] = o2
         /\ <<o1, o2, o3>> \in Seq(S) /\ Len(<<o1, o2, o3>>) = 3
         /\ <<o1, o2, o3>>[1] = o1 /\ <<o1, o2, o3>>[2] = o2 /\ <<o1, o2, o3>>[3] = o3
         /\ <<o1, o2, o3, o4>> \in Seq(S) /\ Len(<<o1, o2, o3, o4>>) = 4
         /\ <<o1, o2, o3, o4>>[1] = o1 /\ <<o1, o2, o3, o4>>[2] = o2
         /\ <<o1, o2, o3, o4>>[3] = o3 /\ <<o1, o2, o3, o4>>[4] = o4
OBVIOUS

\* Sequences that agree at every place are the same.
LEMMA SameSeq ==
  ASSUME NEW S, NEW s \in Seq(S), NEW t \in Seq(S), Len(s) = Len(t),
         \A k \in 1..Len(s) : s[k] = t[k]
  PROVE  s = t
OBVIOUS

\* What the handlers' scripts are put together of.
LEMMA JoinThree ==
  ASSUME NEW x \in Ops, NEW y \in Ops, NEW z \in Ops
  PROVE  <<x>> \o <<y, z>> = <<x, y, z>> /\ <<>> \o <<y, z>> = <<y, z>>
<1> DEFINE s == <<x>> \o <<y, z>>
           t == <<x, y, z>>
<1>1. /\ s \in Seq(Ops) /\ Len(s) = 3 /\ s[1] = x /\ s[2] = y /\ s[3] = z
      /\ t \in Seq(Ops) /\ Len(t) = 3 /\ t[1] = x /\ t[2] = y /\ t[3] = z
  OBVIOUS
<1> HIDE DEF s, t
<1>2. s = t
  BY <1>1, SameSeq
<1>3. \A r \in Seq(Ops) : <<>> \o r = r
  OBVIOUS
<1>4. <<y, z>> \in Seq(Ops)
  OBVIOUS
<1> QED BY <1>2, <1>3, <1>4 DEF s, t

\* And those with one more at the front.
LEMMA JoinFour ==
  ASSUME NEW w \in Ops, NEW x \in Ops, NEW y \in Ops, NEW z \in Ops
  PROVE  /\ <<w>> \o <<x>> \o <<y, z>> = <<w, x, y, z>>
         /\ <<w, x>> \o <<y, z>> = <<w, x, y, z>>
<1>1. <<w, x>> \o <<y, z>> = <<w, x, y, z>>
  <2> DEFINE s == <<w, x>> \o <<y, z>>
             t == <<w, x, y, z>>
  <2>1. /\ s \in Seq(Ops) /\ Len(s) = 4 /\ s[1] = w /\ s[2] = x /\ s[3] = y /\ s[4] = z
        /\ t \in Seq(Ops) /\ Len(t) = 4 /\ t[1] = w /\ t[2] = x /\ t[3] = y /\ t[4] = z
    OBVIOUS
  <2> HIDE DEF s, t
  <2>2. s = t
    BY <2>1, SameSeq
  <2> QED BY <2>2 DEF s, t
<1>2. <<w>> \o <<x>> = <<w, x>>
  <2> DEFINE s == <<w>> \o <<x>>
             t == <<w, x>>
  <2>1. /\ s \in Seq(Ops) /\ Len(s) = 2 /\ s[1] = w /\ s[2] = x
        /\ t \in Seq(Ops) /\ Len(t) = 2 /\ t[1] = w /\ t[2] = x
    OBVIOUS
  <2> HIDE DEF s, t
  <2>2. s = t
    BY <2>1, SameSeq
  <2> QED BY <2>2 DEF s, t
<1> QED BY <1>1, <1>2, Zenon

\* A handler's operations move a job past the gate only if its task is not
\* PLAN, and end by handing the job over.
Allowed(o, kind) ==
  o.op \notin {"process", "context", "cycle"} /\ (PastGate(o) => kind # "PLAN")

HandlerScript(ops, kind) ==
  /\ ops \in Seq(Ops) /\ ops # <<>> /\ Ends(ops[Len(ops)])
  /\ \A k \in 1..Len(ops) : Allowed(ops[k], kind)

\* The facts about each of four operations that decide it.
LEMMA HandlerTuples ==
  ASSUME NEW kind, NEW o1 \in Ops, NEW o2 \in Ops, NEW o3 \in Ops, NEW o4 \in Ops,
         Allowed(o1, kind), Allowed(o2, kind), Allowed(o3, kind), Allowed(o4, kind),
         Ends(o4)
  PROVE  /\ HandlerScript(<<o1, o2, o3, o4>>, kind) /\ HandlerScript(<<o2, o3, o4>>, kind)
         /\ HandlerScript(<<o3, o4>>, kind)
<1>1. /\ <<o1, o2, o3, o4>> \in Seq(Ops) /\ Len(<<o1, o2, o3, o4>>) = 4
      /\ <<o2, o3, o4>> \in Seq(Ops) /\ Len(<<o2, o3, o4>>) = 3
      /\ <<o3, o4>> \in Seq(Ops) /\ Len(<<o3, o4>>) = 2
  BY Tuples
<1> QED BY <1>1 DEF HandlerScript

\* Every handler's script is of that form, whatever state it has read.
LEMMA Handlers ==
  ASSUME NEW kind \in TASK_KINDS, NEW s
  PROVE  HandlerScript(HandlerOps(kind, s), kind)
<1>0. /\ \A to \in JOB_STATES :
           T(to) \in Ops /\ T(to).op = "transition" /\ T(to).to = to
      /\ \A k \in TASK_KINDS : Enqueue(k) \in Ops /\ Enqueue(k).op = "enqueue" /\ Enqueue(k).kind = k
      /\ \A p \in Phases : Agent(p) \in Ops /\ Agent(p).op = "agent"
      /\ \A w \in Statements : Do(w) \in Ops /\ Do(w).op = w
  BY MoveOps, OtherOps
<1>1. CASE kind = "PLAN"
  <2> DEFINE o1 == T("PLANNING")
             o2 == Agent("PLAN")
             o3 == Do("propose")
             o4 == T("AWAITING_PLAN_APPROVAL")
  <2>1. /\ o1 \in Ops /\ o1.op = "transition" /\ o1.to = "PLANNING"
        /\ o2 \in Ops /\ o2.op = "agent"
        /\ o3 \in Ops /\ o3.op = "propose"
        /\ o4 \in Ops /\ o4.op = "transition" /\ o4.to = "AWAITING_PLAN_APPROVAL"
    BY <1>0 DEF JOB_STATES, Phases, TASK_KINDS, Statements
  <2>2. HandlerOps(kind, s) = <<o1, o2, o3, o4>>
    BY <1>1 DEF HandlerOps, handlePlan
  <2> HIDE DEF o1, o2, o3, o4
  <2>3. Ends(o4)
    BY <2>1 DEF Ends, Moves, Working
  <2>4. Allowed(o1, kind) /\ Allowed(o2, kind) /\ Allowed(o3, kind) /\ Allowed(o4, kind)
    BY <2>1 DEF Allowed, PastGate, Moves, PostPlan
  <2> QED BY <2>1, <2>2, <2>3, <2>4, HandlerTuples
<1>2. CASE kind = "IMPLEMENT"
  <2> DEFINE o1 == T("IMPLEMENTING")
             o2 == Agent("IMPLEMENT")
             o3 == T("VERIFYING")
             o4 == Enqueue("VERIFY")
  <2>1. /\ o1 \in Ops /\ o1.op = "transition"
        /\ o2 \in Ops /\ o2.op = "agent"
        /\ o3 \in Ops /\ o3.op = "transition"
        /\ o4 \in Ops /\ o4.op = "enqueue"
    BY <1>0 DEF JOB_STATES, Phases, TASK_KINDS
  <2>2. HandlerOps(kind, s) \in {<<o1, o2, o3, o4>>, <<o2, o3, o4>>}
    <3>1. handleImplement(s) = (IF s # "IMPLEMENTING" THEN <<o1>> ELSE <<>>)
                                  \o <<o2>> \o <<o3, o4>>
      BY DEF handleImplement, MoveOn
    <3>2. HandlerOps(kind, s) = handleImplement(s)
      BY <1>2 DEF HandlerOps
    <3> HIDE DEF o1, o2, o3, o4
    <3>a. o1 \in Ops /\ o2 \in Ops /\ o3 \in Ops /\ o4 \in Ops
      BY <2>1
    <3>3. <<o1>> \o <<o2>> \o <<o3, o4>> = <<o1, o2, o3, o4>>
      BY <3>a, JoinFour, ZenonT(30)
    <3>4. <<>> \o <<o2>> \o <<o3, o4>> = <<o2, o3, o4>>
      <4>1. <<o2>> \o <<o3, o4>> = <<o2, o3, o4>>
        BY <3>a, JoinThree, ZenonT(30)
      <4>2. <<>> \o <<o2>> = <<o2>>
        OBVIOUS
      <4> QED BY <4>1, <4>2, Zenon
    <3> QED BY <3>1, <3>2, <3>3, <3>4
  <2> HIDE DEF o1, o2, o3, o4
  <2>3. HandlerScript(<<o1, o2, o3, o4>>, kind) /\ HandlerScript(<<o2, o3, o4>>, kind)
    <3>1. Ends(o4)
      BY <2>1 DEF Ends
    <3>2. Allowed(o1, kind) /\ Allowed(o2, kind) /\ Allowed(o3, kind) /\ Allowed(o4, kind)
      BY <1>2, <2>1 DEF Allowed
    <3> QED BY <2>1, <3>1, <3>2, HandlerTuples
  <2> QED BY <2>2, <2>3
<1>3. CASE kind = "VERIFY"
  <2> DEFINE o1 == Do("propose")
             o2 == T("VERIFYING")
             o3 == Agent("VERIFY")
             o4 == Do("verified")
  <2>1. /\ o1 \in Ops /\ o1.op = "propose"
        /\ o2 \in Ops /\ o2.op = "transition"
        /\ o3 \in Ops /\ o3.op = "agent"
        /\ o4 \in Ops /\ o4.op = "verified"
    BY <1>0 DEF JOB_STATES, Phases, TASK_KINDS, Statements
  <2>2. HandlerOps(kind, s) \in {<<o2, o3, o4>>, <<o3, o4>>}
    <3>1. handleVerify(s) = (IF s # "VERIFYING" THEN <<o2>> ELSE <<>>) \o <<o3, o4>>
      BY DEF handleVerify
    <3>2. HandlerOps(kind, s) = handleVerify(s)
      BY <1>3 DEF HandlerOps
    <3> HIDE DEF o2, o3, o4
    <3>3. <<o2>> \o <<o3, o4>> = <<o2, o3, o4>> /\ <<>> \o <<o3, o4>> = <<o3, o4>>
      BY <2>1, JoinThree, ZenonT(30)
    <3> QED BY <3>1, <3>2, <3>3
  <2> HIDE DEF o1, o2, o3, o4
  <2>3. HandlerScript(<<o2, o3, o4>>, kind) /\ HandlerScript(<<o3, o4>>, kind)
    <3>1. Ends(o4)
      BY <2>1 DEF Ends
    <3>2. Allowed(o1, kind) /\ Allowed(o2, kind) /\ Allowed(o3, kind) /\ Allowed(o4, kind)
      BY <1>3, <2>1 DEF Allowed
    <3> QED BY <2>1, <3>1, <3>2, HandlerTuples
  <2> QED BY <2>2, <2>3
<1>4. CASE kind = "REVIEW"
  <2> DEFINE o2 == T("SELF_REVIEWING")
             o3 == Agent("REVIEW")
             o4 == Do("reviewed")
  <2>1. /\ o2 \in Ops /\ o2.op = "transition"
        /\ o3 \in Ops /\ o3.op = "agent"
        /\ o4 \in Ops /\ o4.op = "reviewed"
    BY <1>0 DEF JOB_STATES, Phases, TASK_KINDS, Statements
  <2>2. HandlerOps(kind, s) = <<o2, o3, o4>>
    BY <1>4 DEF HandlerOps, handleReview
  <2> HIDE DEF o2, o3, o4
  <2>3. Ends(o4)
    BY <2>1 DEF Ends
  <2>4. Allowed(o2, kind) /\ Allowed(o3, kind) /\ Allowed(o4, kind)
    BY <1>4, <2>1 DEF Allowed
  <2> QED BY <2>1, <2>2, <2>3, <2>4, HandlerTuples
<1>5. CASE kind = "REVISE"
  <2> DEFINE o2 == Agent("REVISE")
             o3 == T("VERIFYING")
             o4 == Enqueue("VERIFY")
  <2>1. /\ o2 \in Ops /\ o2.op = "agent"
        /\ o3 \in Ops /\ o3.op = "transition"
        /\ o4 \in Ops /\ o4.op = "enqueue"
    BY <1>0 DEF JOB_STATES, Phases, TASK_KINDS
  <2>2. HandlerOps(kind, s) = <<o2, o3, o4>>
    <3>1. HandlerOps(kind, s) = <<o2>> \o <<o3, o4>>
      BY <1>5 DEF HandlerOps, handleRevise, MoveOn
    <3> HIDE DEF o2, o3, o4
    <3>2. <<o2>> \o <<o3, o4>> = <<o2, o3, o4>>
      BY <2>1, JoinThree, ZenonT(30)
    <3> QED BY <3>1, <3>2
  <2> HIDE DEF o2, o3, o4
  <2>3. Ends(o4)
    BY <2>1 DEF Ends
  <2>4. Allowed(o2, kind) /\ Allowed(o3, kind) /\ Allowed(o4, kind)
    BY <1>5, <2>1 DEF Allowed
  <2> QED BY <2>1, <2>2, <2>3, <2>4, HandlerTuples
<1>6. CASE kind = "OPEN_PR"
  <2> DEFINE o1 == Do("guard")
             o2 == Agent("SUMMARY")
             o3 == Do("savePr")
             o4 == T("AWAITING_PR_APPROVAL")
  <2>1. /\ o1 \in Ops /\ o1.op = "guard"
        /\ o2 \in Ops /\ o2.op = "agent"
        /\ o3 \in Ops /\ o3.op = "savePr"
        /\ o4 \in Ops /\ o4.op = "transition" /\ o4.to = "AWAITING_PR_APPROVAL"
    BY <1>0 DEF JOB_STATES, Phases, Statements
  <2>2. HandlerOps(kind, s) = <<o1, o2, o3, o4>>
    BY <1>6 DEF HandlerOps, handleOpenPr
  <2> HIDE DEF o1, o2, o3, o4
  <2>3. Ends(o4)
    BY <2>1 DEF Ends, Moves, Working
  <2>4. Allowed(o1, kind) /\ Allowed(o2, kind) /\ Allowed(o3, kind) /\ Allowed(o4, kind)
    BY <1>6, <2>1 DEF Allowed
  <2> QED BY <2>1, <2>2, <2>3, <2>4, HandlerTuples
<1> QED BY <1>1, <1>2, <1>3, <1>4, <1>5, <1>6 DEF TASK_KINDS

\* So is what VERIFY, REVIEW and OPEN_PR decide on.
LEMMA Decisions ==
  ASSUME NEW ops \in AfterVerify \cup AfterReview \cup {MoveOn("REVISING", "REVISE")}
  PROVE  HandlerScript(ops, "VERIFY")
<1>0. /\ \A to \in JOB_STATES : T(to) \in Ops /\ T(to).op = "transition" /\ T(to).to = to
      /\ \A k \in TASK_KINDS : Enqueue(k) \in Ops /\ Enqueue(k).op = "enqueue" /\ Enqueue(k).kind = k
  BY MoveOps, OtherOps
<1>1. ASSUME NEW to \in JOB_STATES, NEW k \in TASK_KINDS
      PROVE  HandlerScript(<<T(to), Enqueue(k)>>, "VERIFY") /\ HandlerScript(<<Enqueue(k)>>, "VERIFY")
  <2> DEFINE o1 == T(to)
             o2 == Enqueue(k)
  <2>1. o1 \in Ops /\ o1.op = "transition" /\ o2 \in Ops /\ o2.op = "enqueue"
    BY <1>0
  <2> HIDE DEF o1, o2
  <2>2. Ends(o2) /\ Allowed(o1, "VERIFY") /\ Allowed(o2, "VERIFY")
    BY <2>1 DEF Ends, Allowed
  <2>3. /\ <<o1, o2>> \in Seq(Ops) /\ Len(<<o1, o2>>) = 2
        /\ <<o2>> \in Seq(Ops) /\ Len(<<o2>>) = 1
    BY <2>1
  <2>4. HandlerScript(<<o1, o2>>, "VERIFY") /\ HandlerScript(<<o2>>, "VERIFY")
    BY <2>2, <2>3 DEF HandlerScript
  <2> QED BY <2>4 DEF o1, o2
<1>2. \E to \in JOB_STATES, k \in TASK_KINDS : ops \in {<<T(to), Enqueue(k)>>, <<Enqueue(k)>>}
  BY DEF AfterVerify, AfterReview, MoveOn, JOB_STATES, TASK_KINDS
<1> QED BY <1>1, <1>2

\* A request's script: what it may do, whether it needs an open round, and
\* whether it may be left by a request on a job without rows.
RequestOK(ops, open, s) ==
  ops \in Seq(Ops) /\ RequestScript(ops) /\ GatedBy(ops, open) /\ EarlyOnly(ops, s)

\* The request that moves the job on and leaves a task for it.
LEMMA MovingOn ==
  ASSUME NEW to \in JOB_STATES, NEW k \in TASK_KINDS, NEW o \in {T(to), Forced(to)}
  PROVE  /\ <<o, Enqueue(k)>> \in Seq(Ops) /\ RequestScript(<<o, Enqueue(k)>>)
         /\ \A open : (to \in PostPlan \/ k # "PLAN" => open) => GatedBy(<<o, Enqueue(k)>>, open)
         /\ o = T("PLANNING") /\ k = "PLAN" => EarlyOnly(<<o, Enqueue(k)>>, "CANCELLED")
<1> DEFINE p == Enqueue(k)
<1>1. /\ o \in Ops /\ o.op = "transition" /\ o.to = to /\ (o = T("PLANNING") => ~ o.force)
      /\ p \in Ops /\ p.op = "enqueue" /\ p.kind = k
  <2>1. o \in Ops /\ o.op = "transition" /\ o.to = to
    <3>1. CASE o = T(to)
      BY <3>1, MoveOps
    <3>2. CASE o = Forced(to)
      BY <3>2, MoveOps
    <3> QED BY <3>1, <3>2
  <2>2. T("PLANNING").force = FALSE
    BY MoveOps DEF JOB_STATES
  <2> QED BY <2>1, <2>2, OtherOps
<1> HIDE DEF p
<1>2. <<o, p>> \in Seq(Ops) /\ Len(<<o, p>>) = 2 /\ <<o, p>>[1] = o /\ <<o, p>>[2] = p
  BY <1>1
<1>3. RequestScript(<<o, p>>)
  BY <1>1, <1>2 DEF RequestScript, Moves, HandlersOnly
<1>4. \A open : (to \in PostPlan \/ k # "PLAN" => open) => GatedBy(<<o, p>>, open)
  BY <1>1, <1>2 DEF GatedBy, PastGate, Moves
<1>5. o = T("PLANNING") /\ k = "PLAN" => EarlyOnly(<<o, p>>, "CANCELLED")
  <2> SUFFICES ASSUME o = T("PLANNING"), k = "PLAN" PROVE EarlyOnly(<<o, p>>, "CANCELLED")
    OBVIOUS
  <2>1. o.to = "PLANNING" /\ ~ o.force
    BY <1>1, MoveOps DEF JOB_STATES
  <2> QED BY <1>1, <1>2, <2>1 DEF EarlyOnly, Early
<1> QED BY <1>2, <1>3, <1>4, <1>5, Zenon DEF p

\* The request that is a statement and then moves the job on.
LEMMA StatingAndMovingOn ==
  ASSUME NEW w \in {"supersede", "propose"}, NEW to \in JOB_STATES \ PostPlan
  PROVE  LET ops == <<Do(w)>> \o MoveOn(to, "PLAN")
         IN  ops \in Seq(Ops) /\ RequestScript(ops) /\ \A open : GatedBy(ops, open)
<1> DEFINE o == Do(w)
           p == T(to)
           q == Enqueue("PLAN")
<1>1. /\ o \in Ops /\ o.op = w /\ p \in Ops /\ p.op = "transition" /\ p.to = to
      /\ q \in Ops /\ q.op = "enqueue" /\ q.kind = "PLAN"
  <2>1. to \in JOB_STATES /\ w \in Statements /\ "PLAN" \in TASK_KINDS
    BY DEF Statements, TASK_KINDS
  <2> QED BY <2>1, MoveOps, OtherOps, Zenon
<1>2. <<Do(w)>> \o MoveOn(to, "PLAN") = <<o>> \o <<p, q>>
  BY DEF MoveOn
<1> HIDE DEF o, p, q
<1>3. <<o>> \o <<p, q>> = <<o, p, q>>
  BY <1>1, JoinThree, ZenonT(30)
<1>4. /\ <<o, p, q>> \in Seq(Ops) /\ Len(<<o, p, q>>) = 3
      /\ <<o, p, q>>[1] = o /\ <<o, p, q>>[2] = p /\ <<o, p, q>>[3] = q
  BY <1>1
<1>5. RequestScript(<<o, p, q>>)
  BY <1>1, <1>4 DEF RequestScript, Moves, HandlersOnly
<1>6. \A open : GatedBy(<<o, p, q>>, open)
  BY <1>1, <1>4 DEF GatedBy, PastGate, Moves
<1> QED BY <1>2, <1>3, <1>4, <1>5, <1>6

\* The requests that open a round.
LEMMA OpeningARound ==
  ASSUME NEW w \in {"approvePlans", "feedback"}, NEW to \in JOB_STATES, NEW k \in TASK_KINDS
  PROVE  LET ops == <<Do(w), Do("cycle")>> \o MoveOn(to, k)
         IN  ops \in Seq(Ops) /\ RequestScript(ops) /\ \A open : GatedBy(ops, open)
<1> DEFINE n == Do(w)
           o == Do("cycle")
           p == T(to)
           q == Enqueue(k)
<1>1. /\ n \in Ops /\ n.op = w /\ o \in Ops /\ o.op = "cycle"
      /\ p \in Ops /\ p.op = "transition" /\ q \in Ops /\ q.op = "enqueue"
  BY MoveOps, OtherOps DEF Statements
<1>2. <<Do(w), Do("cycle")>> \o MoveOn(to, k) = <<n, o>> \o <<p, q>>
  BY DEF MoveOn
<1> HIDE DEF n, o, p, q
<1>3. <<n, o>> \o <<p, q>> = <<n, o, p, q>>
  <2>1. n \in Ops /\ o \in Ops /\ p \in Ops /\ q \in Ops
    BY <1>1
  <2> QED BY <2>1, JoinFour, ZenonT(30)
<1>4. /\ <<n, o, p, q>> \in Seq(Ops) /\ Len(<<n, o, p, q>>) = 4
      /\ <<n, o, p, q>>[1] = n /\ <<n, o, p, q>>[2] = o
      /\ <<n, o, p, q>>[3] = p /\ <<n, o, p, q>>[4] = q
  BY <1>1
<1>5. RequestScript(<<n, o, p, q>>)
  BY <1>1, <1>4 DEF RequestScript, Moves, HandlersOnly
<1>6. \A open : GatedBy(<<n, o, p, q>>, open)
  <2> SUFFICES ASSUME NEW open, NEW i \in 1..4, PastGate(<<n, o, p, q>>[i])
               PROVE  \E l \in 1..(i - 1) : <<n, o, p, q>>[l].op = "cycle"
    BY <1>4 DEF GatedBy
  <2>1. i # 1 /\ i # 2
    BY <1>1, <1>4 DEF PastGate, Moves
  <2>2. 2 \in 1..(i - 1)
    BY <2>1
  <2> QED BY <1>1, <1>4, <2>2
<1> QED BY <1>2, <1>3, <1>4, <1>5, <1>6

\* The requests of a statement or two.
LEMMA Stating ==
  /\ \A open, s : RequestOK(<<>>, open, s)
  /\ \A open, s : RequestOK(<<Do("create"), Enqueue("PLAN")>>, open, s)
  /\ \A open, s : RequestOK(<<Do("cancelTasks"), T("CANCELLED")>>, open, s)
  /\ \A open, s : RequestOK(<<Do("feedback")>>, open, s)
  /\ \A to \in {"FAILED", "DONE"} :
       /\ <<T(to)>> \in Seq(Ops) /\ RequestScript(<<T(to)>>)
       /\ \A open : (to = "DONE" => open) => GatedBy(<<T(to)>>, open)
<1>1. ASSUME NEW o \in Ops, NEW p \in Ops
      PROVE  /\ <<>> \in Seq(Ops) /\ Len(<<>>) = 0
             /\ <<o>> \in Seq(Ops) /\ Len(<<o>>) = 1 /\ <<o>>[1] = o
             /\ <<o, p>> \in Seq(Ops) /\ Len(<<o, p>>) = 2 /\ <<o, p>>[1] = o /\ <<o, p>>[2] = p
  OBVIOUS
<1>2. \A open, s : RequestOK(<<>>, open, s)
  BY DEF RequestOK, RequestScript, GatedBy, EarlyOnly
<1>3. \A open, s : RequestOK(<<Do("create"), Enqueue("PLAN")>>, open, s)
  <2> DEFINE o == Do("create")
             p == Enqueue("PLAN")
  <2>1. /\ o \in Ops /\ o.op = "create" /\ p \in Ops /\ p.op = "enqueue" /\ p.kind = "PLAN"
    BY OtherOps DEF Statements, TASK_KINDS
  <2> HIDE DEF o, p
  <2>2. RequestScript(<<o, p>>)
    BY <1>1, <2>1 DEF RequestScript, Moves, HandlersOnly
  <2>3. \A open, s : GatedBy(<<o, p>>, open) /\ EarlyOnly(<<o, p>>, s)
    BY <1>1, <2>1 DEF GatedBy, PastGate, Moves, EarlyOnly, Early
  <2> QED BY <1>1, <2>1, <2>2, <2>3 DEF RequestOK, o, p
<1>4. \A open, s : RequestOK(<<Do("cancelTasks"), T("CANCELLED")>>, open, s)
  <2> DEFINE o == Do("cancelTasks")
             p == T("CANCELLED")
  <2>1. /\ o \in Ops /\ o.op = "cancelTasks" /\ p \in Ops /\ p.op = "transition" /\ p.to = "CANCELLED"
    BY MoveOps, OtherOps DEF Statements, JOB_STATES
  <2> HIDE DEF o, p
  <2>2. RequestScript(<<o, p>>)
    BY <1>1, <2>1 DEF RequestScript, Moves, HandlersOnly, Working
  <2>3. \A open, s : GatedBy(<<o, p>>, open) /\ EarlyOnly(<<o, p>>, s)
    BY <1>1, <2>1 DEF GatedBy, PastGate, Moves, PostPlan, EarlyOnly, Early
  <2> QED BY <1>1, <2>1, <2>2, <2>3 DEF RequestOK, o, p
<1>5. \A open, s : RequestOK(<<Do("feedback")>>, open, s)
  <2> DEFINE o == Do("feedback")
  <2>1. o \in Ops /\ o.op = "feedback"
    BY OtherOps DEF Statements
  <2> HIDE DEF o
  <2>2. RequestScript(<<o>>)
    BY <1>1, <2>1 DEF RequestScript, Moves, HandlersOnly
  <2>3. \A open, s : GatedBy(<<o>>, open) /\ EarlyOnly(<<o>>, s)
    BY <1>1, <2>1 DEF GatedBy, PastGate, Moves, EarlyOnly, Early
  <2> QED BY <1>1, <2>1, <2>2, <2>3 DEF RequestOK, o
<1>6. ASSUME NEW to \in {"FAILED", "DONE"}
      PROVE  /\ <<T(to)>> \in Seq(Ops) /\ RequestScript(<<T(to)>>)
             /\ \A open : (to = "DONE" => open) => GatedBy(<<T(to)>>, open)
  <2> DEFINE o == T(to)
  <2>1. o \in Ops /\ o.op = "transition" /\ o.to = to
    BY MoveOps DEF JOB_STATES
  <2> HIDE DEF o
  <2>2. RequestScript(<<o>>)
    BY <1>1, <2>1 DEF RequestScript, Moves, HandlersOnly, Working
  <2>3. \A open : (to = "DONE" => open) => GatedBy(<<o>>, open)
    BY <1>1, <2>1 DEF GatedBy, PastGate, Moves, PostPlan
  <2> QED BY <1>1, <2>1, <2>2, <2>3 DEF o
<1> QED BY <1>2, <1>3, <1>4, <1>5, <1>6

\* The newest row of a job decides what a retry resumes.
LEMMA RetryKinds ==
  ASSUME Newest, NEW j \in Jobs, HasRow(task, j), \A t \in DOMAIN task : task[t] \in Row /\ t \in Int
  PROVE  /\ RetryKind(j) \in TASK_KINDS
         /\ \E t \in DOMAIN task : task[t].job = j /\ RetryKind(j) = task[t].kind
<1> DEFINE rows == {t \in DOMAIN task : task[t].job = j}
           newest == CHOOSE t \in rows : \A u \in rows : u <= t
<1>1. \E t \in rows : \A u \in rows : u <= t
  BY DEF Newest
<1>2. newest \in rows
  BY <1>1
<1>3. RetryKind(j) = task[newest].kind
  BY <1>2 DEF RetryKind
<1>4. task[newest].kind \in TASK_KINDS
  BY <1>2, OrchestratorAssumption DEF Row
<1> HIDE DEF newest
<1> QED BY <1>2, <1>3, <1>4

\* Every request's script is of that form, on the reading it is made of.
LEMMA Requested ==
  ASSUME NEW kind \in RequestKinds, NEW j \in Jobs,
         Newest, Round, Rowless, \A t \in DOMAIN task : task[t] \in Row /\ t \in Int
  PROVE  /\ RequestOps(kind, j) \in Seq(Ops) /\ RequestScript(RequestOps(kind, j))
         /\ GatedBy(RequestOps(kind, j), cycle[j] >= 1)
         /\ ~ HasRow(task, j) => EarlyOnly(RequestOps(kind, j), state[j])
<1> DEFINE s == state[j]
           open == cycle[j] >= 1
           Fine(ops) == /\ ops \in Seq(Ops) /\ RequestScript(ops) /\ GatedBy(ops, open)
                        /\ ~ HasRow(task, j) => EarlyOnly(ops, s)
<1>0. \A ops : RequestOK(ops, open, s) => Fine(ops)
  BY DEF RequestOK
<1>1. Fine(<<>>) /\ Fine(<<Do("feedback")>>)
  BY <1>0, Stating
<1>2. ~ HasRow(task, j) => s \in {"ABSENT", "TRIAGED", "CANCELLED"}
  BY DEF Rowless
<1>3. s \in PostPlan => open
  BY DEF Round, RoundOpened
<1>4. Fine(onIssueLabeled(s))
  <2>1. CASE s = "ABSENT"
    <3>1. onIssueLabeled(s) = <<Do("create"), Enqueue("PLAN")>>
      BY <2>1 DEF onIssueLabeled
    <3>2. RequestOK(<<Do("create"), Enqueue("PLAN")>>, open, s)
      BY Stating
    <3> QED BY <1>0, <3>1, <3>2
  <2>2. CASE s \in {"FAILED", "CANCELLED"}
    <3>1. onIssueLabeled(s) = <<T("PLANNING"), Enqueue("PLAN")>>
      BY <2>2 DEF onIssueLabeled, MoveOn
    <3>2. /\ "PLANNING" \in JOB_STATES /\ "PLANNING" \notin PostPlan /\ "PLAN" \in TASK_KINDS
      BY DEF JOB_STATES, PostPlan, TASK_KINDS
    <3>3. /\ onIssueLabeled(s) \in Seq(Ops) /\ RequestScript(onIssueLabeled(s))
          /\ GatedBy(onIssueLabeled(s), open)
          /\ EarlyOnly(onIssueLabeled(s), "CANCELLED")
      BY <3>1, <3>2, MovingOn
    <3> QED BY <1>2, <2>2, <3>3
  <2>3. CASE s \notin {"ABSENT", "FAILED", "CANCELLED"}
    BY <1>1, <2>3 DEF onIssueLabeled
  <2> QED BY <2>1, <2>2, <2>3
<1>5. Fine(approvePlan(s))
  <2>1. CASE s = "AWAITING_PLAN_APPROVAL"
    <3>1. approvePlan(s) = <<Do("approvePlans"), Do("cycle")>> \o MoveOn("IMPLEMENTING", "IMPLEMENT")
      BY <2>1 DEF approvePlan
    <3>2. "IMPLEMENTING" \in JOB_STATES /\ "IMPLEMENT" \in TASK_KINDS
      BY DEF JOB_STATES, TASK_KINDS
    <3>3. /\ approvePlan(s) \in Seq(Ops) /\ RequestScript(approvePlan(s))
          /\ GatedBy(approvePlan(s), open)
      BY <3>1, <3>2, OpeningARound
    <3> QED BY <1>2, <2>1, <3>3
  <2> QED BY <1>1, <2>1 DEF approvePlan
<1>6. Fine(submitPlanFeedback(s))
  <2>1. CASE s = "AWAITING_PLAN_APPROVAL"
    <3>1. submitPlanFeedback(s) = <<Do("supersede")>> \o MoveOn("PLANNING", "PLAN")
      BY <2>1 DEF submitPlanFeedback
    <3>2. "PLANNING" \in JOB_STATES \ PostPlan
      BY DEF JOB_STATES, PostPlan
    <3>3. /\ submitPlanFeedback(s) \in Seq(Ops) /\ RequestScript(submitPlanFeedback(s))
          /\ GatedBy(submitPlanFeedback(s), open)
      BY <3>1, <3>2, StatingAndMovingOn
    <3> QED BY <1>2, <2>1, <3>3
  <2> QED BY <1>1, <2>1 DEF submitPlanFeedback
<1>7. Fine(onIssueComment(j, s))
  <2>1. CASE s = "AWAITING_PLAN_APPROVAL" /\ Len(plans[j]) >= MaxPlanRevisions
    <3>1. onIssueComment(j, s) = <<T("FAILED")>>
      BY <2>1 DEF onIssueComment
    <3>2. <<T("FAILED")>> \in Seq(Ops) /\ RequestScript(<<T("FAILED")>>) /\ GatedBy(<<T("FAILED")>>, open)
      BY Stating
    <3> QED BY <1>2, <2>1, <3>1, <3>2
  <2>2. CASE ~ (s = "AWAITING_PLAN_APPROVAL" /\ Len(plans[j]) >= MaxPlanRevisions)
    <3>1. onIssueComment(j, s) = submitPlanFeedback(s)
      BY <2>2 DEF onIssueComment
    <3> QED BY <1>6, <3>1
  <2> QED BY <2>1, <2>2
<1>8. Fine(cancelJob(s))
  <2>1. cancelJob(s) = <<>> \/ cancelJob(s) = <<Do("cancelTasks"), T("CANCELLED")>>
    BY DEF cancelJob
  <2>2. RequestOK(<<Do("cancelTasks"), T("CANCELLED")>>, open, s)
    BY Stating
  <2> QED BY <1>0, <1>1, <2>1, <2>2
<1>9. Fine(retryJob(j, s))
  <2>1. CASE s = "FAILED"
    <3> DEFINE kind2 == RetryKind(j)
               to == retryStateMap[RetryKind(j)]
    <3>1. HasRow(task, j)
      BY <1>2, <2>1
    <3>2. /\ kind2 \in TASK_KINDS
          /\ \E t \in DOMAIN task : task[t].job = j /\ kind2 = task[t].kind
      BY <3>1, RetryKinds
    <3>3. retryJob(j, s) = <<Forced(to), Enqueue(kind2)>>
      BY <2>1 DEF retryJob
    <3>4. to \in JOB_STATES /\ (kind2 = "PLAN" => to = "PLANNING")
      BY <3>2 DEF retryStateMap, TASK_KINDS, JOB_STATES
    <3>5. kind2 # "PLAN" => open
      BY <3>2 DEF Round
    <3>6. to \in PostPlan \/ kind2 # "PLAN" => open
      BY <3>4, <3>5 DEF PostPlan
    <3> HIDE DEF kind2, to
    <3>7. /\ <<Forced(to), Enqueue(kind2)>> \in Seq(Ops)
          /\ RequestScript(<<Forced(to), Enqueue(kind2)>>)
          /\ GatedBy(<<Forced(to), Enqueue(kind2)>>, open)
      BY <3>2, <3>4, <3>6, MovingOn
    <3> QED BY <3>1, <3>3, <3>7
  <2> QED BY <1>1, <2>1 DEF retryJob
<1>10. Fine(onPullRequestReview(j, s))
  <2>1. CASE s = "AWAITING_PR_APPROVAL" /\ hasPr[j]
    <3>1. onPullRequestReview(j, s) = <<Do("feedback"), Do("cycle")>> \o MoveOn("REVISING", "REVISE")
      BY <2>1 DEF onPullRequestReview, TERMINAL_STATES
    <3>2. "REVISING" \in JOB_STATES /\ "REVISE" \in TASK_KINDS
      BY DEF JOB_STATES, TASK_KINDS
    <3>3. /\ onPullRequestReview(j, s) \in Seq(Ops) /\ RequestScript(onPullRequestReview(j, s))
          /\ GatedBy(onPullRequestReview(j, s), open)
      BY <3>1, <3>2, OpeningARound
    <3> QED BY <1>2, <2>1, <3>3
  <2>2. CASE ~ (s = "AWAITING_PR_APPROVAL" /\ hasPr[j])
    <3>1. onPullRequestReview(j, s) = <<>> \/ onPullRequestReview(j, s) = <<Do("feedback")>>
      BY <2>2 DEF onPullRequestReview
    <3> QED BY <1>1, <3>1
  <2> QED BY <2>1, <2>2
<1>11. Fine(onPrReviewComment(j, s))
  BY <1>1 DEF onPrReviewComment
<1>12. Fine(acceptResult(s))
  <2>1. CASE s = "AWAITING_PR_APPROVAL"
    <3>1. acceptResult(s) = <<T("DONE")>> /\ open
      BY <1>3, <2>1 DEF acceptResult, PostPlan
    <3>2. <<T("DONE")>> \in Seq(Ops) /\ RequestScript(<<T("DONE")>>) /\ GatedBy(<<T("DONE")>>, open)
      BY <3>1, Stating
    <3> QED BY <1>2, <2>1, <3>1, <3>2
  <2> QED BY <1>1, <2>1 DEF acceptResult
<1> HIDE DEF Fine, s, open
<1>13. Fine(RequestOps(kind, j))
  <2>1. kind \in {"label", "approve", "comment", "feedback", "cancel", "retry", "changes",
                 "inline", "accept"}
    BY OrchestratorAssumption
  <2> QED BY <2>1, <1>4, <1>5, <1>6, <1>7, <1>8, <1>9, <1>10, <1>11, <1>12 DEF RequestOps, s
<1> QED BY <1>13 DEF Fine, s, open

-------------------------------------------------------------------------------
(* What a step does to the scripts.                                        *)

\* A script that goes on with other operations.
LEMMA Replaced ==
  ASSUME script \in [DOMAIN script -> Script], NEW a \in DOMAIN script,
         NEW ops \in Seq(Ops), Become(a, ops)
  PROVE  /\ script' \in [DOMAIN script' -> Script] /\ DOMAIN script' = DOMAIN script
         /\ script'[a].ops = ops /\ script'[a].job = script[a].job
         /\ script'[a].name = script[a].name
         /\ \A b \in DOMAIN script : b # a => script'[b] = script[b]
<1> DEFINE e == [script[a] EXCEPT !.ops = ops]
<1>1. e \in Script /\ e.ops = ops /\ e.job = script[a].job /\ e.name = script[a].name
  BY DEF Script
<1>2. script' = [script EXCEPT ![a] = e]
  BY DEF Become
<1> HIDE DEF e
<1>3. script' \in [DOMAIN script -> Script] /\ script'[a] = e
  BY <1>1, <1>2
<1> QED BY <1>1, <1>2, <1>3

\* A script that is over.
LEMMA Removed ==
  ASSUME script \in [DOMAIN script -> Script], NEW a, script' = Without(a)
  PROVE  /\ script' \in [DOMAIN script' -> Script] /\ DOMAIN script' = DOMAIN script \ {a}
         /\ \A b \in DOMAIN script' : b \in DOMAIN script /\ b # a /\ script'[b] = script[b]
BY DEF Without

\* Scripts that begin.
LEMMA Added ==
  ASSUME script \in [DOMAIN script -> Script], NEW started,
         \A b \in DOMAIN started : started[b] \in Script, script' = With(started)
  PROVE  /\ script' \in [DOMAIN script' -> Script]
         /\ DOMAIN script' = DOMAIN script \cup DOMAIN started
         /\ \A b \in DOMAIN started : script'[b] = started[b]
         /\ \A b \in DOMAIN script \ DOMAIN started : script'[b] = script[b]
BY DEF With

\* What a script's operations become in one step of its own: the first is
\* done, or goes on as another one (a transition only if state s allows it), or
\* it decided on what there is to do.
Turned(ops, new, name, s) ==
  /\ ops # <<>>
  /\ \/ /\ Head(ops).op \notin {"process", "context", "verified", "reviewed", "agent"}
        /\ new = Tail(ops)
     \/ \E o \in Ops :
          /\ new = <<o>> \o Tail(ops)
          /\ \/ /\ Head(ops).op = "transition" /\ o.op = "write" /\ o.to = Head(ops).to
                /\ Head(ops).force \/ canTransition(s, Head(ops).to)
             \/ Head(ops).op = "enqueue" /\ o.op = "insert"
             \/ Head(ops).op = "agent" /\ o.op = "await"
     \/ Head(ops).op \in {"verified", "reviewed", "guard"} /\ HandlerScript(new, "VERIFY")
     \/ Head(ops).op = "process" /\ new \in {<<>>, <<Do("context")>>}
     \/ Head(ops).op = "context" /\ HandlerScript(new, name)

Turns(a) ==
  \E new \in Seq(Ops) :
    Become(a, new) /\ Turned(script[a].ops, new, script[a].name, state[script[a].job])

\* What a step of script a does to the job, on its way or
\* when it is over.
JobMoves(a) ==
  LET j == script[a].job
  IN  \/ state' = state /\ ~ At(a, "write")
      \/ At(a, "write") /\ state' = [state EXCEPT ![j] = Op(a).to] /\ Advance(a)
      \/ At(a, "create") /\ state[j] = "ABSENT" /\ state' = [state EXCEPT ![j] = "TRIAGED"]
           /\ Advance(a)

\* And to the round.
RoundMoves(a) ==
  \/ cycle' = cycle /\ ~ At(a, "cycle")
  \/ At(a, "cycle") /\ cycle' = [cycle EXCEPT ![script[a].job] = @ + 1]

\* And to the queue.
QueueMoves(a) ==
  LET j == script[a].job
  IN  \/ UNCHANGED queueVars /\ ~ At(a, "insert")
      \/ /\ script' = Without(a) /\ ~ At(a, "insert")
         /\ \/ \E r \in RunOf(a) : HandlerReturns(r) \/ HandlerThrows(r) \/ Escalated(r)
            \/ \E x \in ExpiredOf(a) : TickEscalated(x)
      \/ At(a, "enqueue") /\ EnqueueFind(a, j, Op(a).kind) /\ Become(a, <<Do("insert")>> \o Rest(a))
      \/ At(a, "insert") /\ (\E c \in finding, t \in TaskIds : c.by = a /\ EnqueueCreate(c, t))
           /\ Advance(a)
      \/ At(a, "cancelTasks") /\ CancelForJob(j) /\ Advance(a)

\* Operations have one name.
LEMMA OneOp ==
  ASSUME NEW a, NEW x, NEW y, At(a, x), At(a, y)
  PROVE  x = y
BY DEF At

\* An exception, or the end, is the end of the script.
LEMMA Thrown ==
  ASSUME NEW a, Throw(a), ~ At(a, "insert")
  PROVE  script' = Without(a) /\ QueueMoves(a)
BY DEF Throw, QueueMoves

\* The end of a method.
LEMMA Returned ==
  ASSUME NEW a, Return(a)
  PROVE  script' = Without(a) /\ QueueMoves(a) /\ JobMoves(a) /\ RoundMoves(a)
<1>1. \A x : ~ At(a, x)
  BY DEF Return, At
<1> QED BY <1>1 DEF Return, QueueMoves, JobMoves, RoundMoves, jobVars

\* A script's next operation and the rest of it.
LEMMA NextOp ==
  ASSUME Types, NEW a \in DOMAIN script, NEW what, At(a, what)
  PROVE  /\ script[a] \in Script /\ script[a].ops \in Seq(Ops) /\ script[a].ops # <<>>
         /\ Op(a) = Head(script[a].ops) /\ Op(a) \in Ops /\ Op(a).op = what
         /\ Rest(a) = Tail(script[a].ops) /\ Rest(a) \in Seq(Ops)
         /\ \A o \in Ops : <<o>> \o Rest(a) \in Seq(Ops)
<1>1. script[a] \in Script
  BY DEF Types, ScriptTypes
<1>2. script[a].ops \in Seq(Ops) /\ script[a].ops # <<>> /\ Head(script[a].ops).op = what
  BY <1>1 DEF Script, At
<1>3. Head(script[a].ops) \in Ops
  BY <1>2
<1>4. /\ Tail(script[a].ops) \in Seq(Ops)
      /\ \A o \in Ops : <<o>> \o Tail(script[a].ops) \in Seq(Ops)
  BY <1>2, RestOps
<1> QED BY <1>1, <1>2, <1>3, <1>4 DEF Op, Rest

\* An operation that is done.
LEMMA Advanced ==
  ASSUME Types, NEW a \in DOMAIN script,
         NEW what, what \notin {"process", "context", "verified", "reviewed", "agent"},
         At(a, what), Advance(a)
  PROVE  Turns(a)
<1>1. /\ script[a].ops # <<>> /\ Head(script[a].ops).op = what /\ Rest(a) = Tail(script[a].ops) /\ Rest(a) \in Seq(Ops)
  BY NextOp
<1>2. Turned(script[a].ops, Rest(a), script[a].name, state[script[a].job])
  BY <1>1 DEF Turned
<1>3. Become(a, Rest(a))
  BY DEF Advance
<1> QED BY <1>1, <1>2, <1>3 DEF Turns

\* An operation that goes on as another one.
LEMMA WentOn ==
  ASSUME Types, NEW a \in DOMAIN script, NEW what, At(a, what), NEW o \in Ops,
         Become(a, <<o>> \o Rest(a)),
         \/ /\ what = "transition" /\ o.op = "write" /\ o.to = Op(a).to
            /\ Op(a).force \/ canTransition(state[script[a].job], Op(a).to)
         \/ what = "enqueue" /\ o.op = "insert"
         \/ what = "agent" /\ o.op = "await"
  PROVE  Turns(a)
<1>1. /\ script[a].ops # <<>> /\ Head(script[a].ops) = Op(a) /\ Op(a).op = what /\ Rest(a) = Tail(script[a].ops)
      /\ <<o>> \o Rest(a) \in Seq(Ops)
  BY NextOp
<1>2. Turned(script[a].ops, <<o>> \o Rest(a), script[a].name, state[script[a].job])
  BY <1>1 DEF Turned
<1> QED BY <1>1, <1>2 DEF Turns

\* What a step of script a does.
Acts(a) ==
  /\ script' = Without(a) \/ Turns(a)
  /\ JobMoves(a) /\ RoundMoves(a) /\ QueueMoves(a)

\* A step that only turns the script.
LEMMA Quietly ==
  ASSUME NEW a, NEW what, At(a, what), what \notin {"write", "cycle", "insert"},
         Turns(a) \/ Throw(a), UNCHANGED <<state, cycle>>,
         Turns(a) => UNCHANGED queueVars
  PROVE  Acts(a)
<1>1. ~ At(a, "write") /\ ~ At(a, "cycle") /\ ~ At(a, "insert")
  BY OneOp
<1>2. JobMoves(a) /\ RoundMoves(a)
  BY <1>1 DEF JobMoves, RoundMoves
<1>3. CASE Turns(a)
  BY <1>1, <1>2, <1>3 DEF Acts, QueueMoves
<1>4. CASE Throw(a)
  BY <1>1, <1>2, <1>4, Thrown DEF Acts
<1> QED BY <1>3, <1>4

\* Whatever a script does, it does one of these.
LEMMA Acting ==
  ASSUME Types, NEW a \in DOMAIN script, ScriptStep(a)
  PROVE  Acts(a) /\ arrived' = arrived
<1> USE DEF jobVars
<1>1. CASE ProcessTask(a)
  <2>1. \E new \in {<<>>, <<Do("context")>>} : Become(a, new)
    BY <1>1 DEF ProcessTask
  <2>2. <<>> \in Seq(Ops) /\ <<Do("context")>> \in Seq(Ops)
    BY OtherOps DEF Statements
  <2>3. At(a, "process") /\ script[a].ops # <<>> /\ Head(script[a].ops).op = "process"
    BY <1>1 DEF ProcessTask, At
  <2>4. Turns(a)
    BY <2>1, <2>2, <2>3 DEF Turns, Turned
  <2> QED BY <1>1, <2>3, <2>4, Quietly DEF ProcessTask
<1>2. CASE Context(a)
  <2> DEFINE new == HandlerOps(script[a].name, state[script[a].job])
  <2>1. At(a, "context") /\ script[a].ops # <<>> /\ Head(script[a].ops).op = "context" /\ Become(a, new)
    BY <1>2 DEF Context, At
  <2>2. script[a].name \in TASK_KINDS
    <3>1. script[a].ops \in Seq(Ops) /\ script[a].ops # <<>>
      BY <2>1, NextOp
    <3>2. 1 \in 1..Len(script[a].ops) /\ script[a].ops[1].op = "context"
      BY <2>1, <3>1
    <3> QED BY <3>2 DEF Types, ScriptTypes, ScriptOK, OpsOK
  <2>3. HandlerScript(new, script[a].name)
    BY <2>2, Handlers
  <2> HIDE DEF new
  <2>4. Turns(a)
    BY <2>1, <2>3 DEF Turns, Turned, HandlerScript
  <2> QED BY <1>2, <2>1, <2>4, Quietly DEF Context
<1>3. CASE TransitionRead(a)
  <2>1. At(a, "transition") /\ Op(a).op = "transition"
    BY <1>3, NextOp DEF TransitionRead
  <2>2. Op(a).to \in JOB_STATES
    BY <2>1, NextOp, OpFields
  <2>3. CASE Advance(a) /\ UNCHANGED queueVars
    BY <1>3, <2>1, <2>3, Advanced, Quietly DEF TransitionRead
  <2>4. CASE /\ Become(a, <<[op |-> "write", to |-> Op(a).to]>> \o Rest(a)) /\ UNCHANGED queueVars
             /\ Op(a).force \/ canTransition(state[script[a].job], Op(a).to)
    <3> DEFINE o == [op |-> "write", to |-> Op(a).to]
    <3>1. o \in Ops /\ o.op = "write" /\ o.to = Op(a).to
      BY <2>2, MoveOps
    <3>2. Become(a, <<o>> \o Rest(a))
      BY <2>4
    <3> HIDE DEF o
    <3>3. Turns(a)
      BY <2>1, <2>4, <3>1, <3>2, WentOn
    <3> QED BY <1>3, <2>1, <2>4, <3>3, Quietly DEF TransitionRead
  <2>5. CASE Throw(a)
    <3>1. Turns(a) => UNCHANGED queueVars
      <4>1. script' = Without(a)
        BY <2>5 DEF Throw
      <4>2. a \notin DOMAIN script'
        BY <4>1 DEF Without
      <4>3. ~ Turns(a)
        BY <4>2, Replaced DEF Turns, Types, ScriptTypes
      <4> QED BY <4>3
    <3> QED BY <1>3, <2>1, <2>5, <3>1, Quietly DEF TransitionRead
  <2> QED BY <1>3, <2>3, <2>4, <2>5 DEF TransitionRead
<1>4. CASE TransitionWrite(a)
  <2>1. At(a, "write") /\ ~ At(a, "cycle") /\ ~ At(a, "insert")
    BY <1>4, OneOp DEF TransitionWrite
  <2>2. Turns(a)
    BY <1>4, <2>1, Advanced DEF TransitionWrite
  <2> QED BY <1>4, <2>1, <2>2 DEF TransitionWrite, Acts, JobMoves, RoundMoves, QueueMoves
<1>5. CASE EnqueueStart(a)
  <2>1. At(a, "enqueue") /\ ~ At(a, "write") /\ ~ At(a, "cycle") /\ ~ At(a, "insert")
    BY <1>5, OneOp DEF EnqueueStart
  <2>2. JobMoves(a) /\ RoundMoves(a)
    BY <1>5, <2>1 DEF EnqueueStart, JobMoves, RoundMoves
  <2>3. CASE Advance(a) /\ UNCHANGED queueVars
    BY <1>5, <2>1, <2>3, Advanced, Quietly DEF EnqueueStart
  <2>4. CASE EnqueueFind(a, script[a].job, Op(a).kind) /\ Become(a, <<Do("insert")>> \o Rest(a))
    <3>1. Do("insert") \in Ops /\ Do("insert").op = "insert"
      BY OtherOps DEF Statements
    <3>2. Turns(a)
      BY <2>1, <2>4, <3>1, WentOn
    <3>3. QueueMoves(a)
      BY <2>1, <2>4 DEF QueueMoves
    <3> QED BY <1>5, <2>2, <3>2, <3>3 DEF Acts, EnqueueStart
  <2> QED BY <1>5, <2>3, <2>4 DEF EnqueueStart
<1>6. CASE EnqueueInsert(a)
  <2>1. At(a, "insert") /\ ~ At(a, "write") /\ ~ At(a, "cycle")
    BY <1>6, OneOp DEF EnqueueInsert
  <2>2. Turns(a)
    BY <1>6, <2>1, Advanced DEF EnqueueInsert
  <2> QED BY <1>6, <2>1, <2>2 DEF EnqueueInsert, Acts, JobMoves, RoundMoves, QueueMoves
<1>7. CASE CancelTasks(a)
  <2>1. At(a, "cancelTasks") /\ ~ At(a, "write") /\ ~ At(a, "cycle")
    BY <1>7, OneOp DEF CancelTasks
  <2>2. Turns(a)
    BY <1>7, <2>1, Advanced DEF CancelTasks
  <2> QED BY <1>7, <2>1, <2>2 DEF CancelTasks, Acts, JobMoves, RoundMoves, QueueMoves
<1>8. CASE AgentStart(a)
  <2>1. At(a, "agent") /\ Op(a).op = "agent"
    BY <1>8, NextOp DEF AgentStart
  <2>2. Op(a).phase \in Phases
    BY <2>1, NextOp, OpFields
  <2> DEFINE o == [op |-> "await", phase |-> Op(a).phase]
  <2>3. o \in Ops /\ o.op = "await"
    BY <2>2, OtherOps
  <2>4. Become(a, <<o>> \o Rest(a))
    BY <1>8 DEF AgentStart
  <2> HIDE DEF o
  <2>5. Turns(a)
    BY <2>1, <2>3, <2>4, WentOn
  <2> QED BY <1>8, <2>1, <2>5, Quietly DEF AgentStart
<1>9. CASE AgentSucceeds(a)
  BY <1>9, Advanced, Quietly DEF AgentSucceeds
<1>10. CASE AgentFails(a)
  <2>1. Turns(a) => UNCHANGED queueVars
    <3>1. script' = Without(a)
      BY <1>10 DEF AgentFails, Throw
    <3>2. a \notin DOMAIN script'
      BY <3>1 DEF Without
    <3>3. ~ Turns(a)
      BY <3>2, Replaced DEF Turns, Types, ScriptTypes
    <3> QED BY <3>3
  <2> QED BY <1>10, <2>1, Quietly DEF AgentFails
<1>11. CASE Decide(a)
  <2>1. PICK what \in {"verified", "reviewed"}, ops \in AfterVerify \cup AfterReview :
          At(a, what) /\ Become(a, ops)
    BY <1>11 DEF Decide
  <2>2. HandlerScript(ops, "VERIFY")
    BY Decisions
  <2>3. script[a].ops # <<>> /\ Head(script[a].ops).op = what
    BY <2>1 DEF At
  <2>4. Turns(a)
    BY <2>1, <2>2, <2>3 DEF Turns, Turned, HandlerScript
  <2> QED BY <1>11, <2>1, <2>4, Quietly DEF Decide
<1>12. CASE OpenPrGuard(a)
  <2>1. At(a, "guard") /\ script[a].ops # <<>> /\ Head(script[a].ops).op = "guard"
    BY <1>12 DEF OpenPrGuard, At
  <2>2. CASE Become(a, MoveOn("REVISING", "REVISE"))
    <3>1. HandlerScript(MoveOn("REVISING", "REVISE"), "VERIFY")
      BY Decisions
    <3>2. Turns(a)
      BY <2>1, <2>2, <3>1 DEF Turns, Turned, HandlerScript
    <3> QED BY <1>12, <2>1, <3>2, Quietly DEF OpenPrGuard
  <2>3. CASE Advance(a)
    <3>1. Turns(a)
      BY <2>1, <2>3, Advanced
    <3> QED BY <1>12, <2>1, <3>1, Quietly DEF OpenPrGuard
  <2> QED BY <1>12, <2>2, <2>3 DEF OpenPrGuard
<1>13. CASE CreateJob(a)
  <2>1. At(a, "create") /\ ~ At(a, "write") /\ ~ At(a, "cycle") /\ ~ At(a, "insert")
    BY <1>13, OneOp DEF CreateJob
  <2>2. CASE state[script[a].job] = "ABSENT"
    <3>1. Turns(a)
      BY <1>13, <2>1, <2>2, Advanced DEF CreateJob
    <3> QED BY <1>13, <2>1, <2>2, <3>1 DEF CreateJob, Acts, JobMoves, RoundMoves, QueueMoves
  <2>3. CASE state[script[a].job] # "ABSENT"
    <3>1. Throw(a) /\ UNCHANGED <<state, cycle, arrived>>
      BY <1>13, <2>3 DEF CreateJob
    <3>2. Acts(a)
      BY <2>1, <3>1, Thrown DEF Acts, JobMoves, RoundMoves
    <3> QED BY <3>1, <3>2
  <2> QED BY <2>2, <2>3
<1>14. CASE PlanStatement(a)
  <2>1. PICK what \in {"propose", "approvePlans", "supersede"} : At(a, what)
    BY <1>14 DEF PlanStatement
  <2>2. Turns(a)
    BY <1>14, <2>1, Advanced DEF PlanStatement
  <2> QED BY <1>14, <2>1, <2>2, Quietly DEF PlanStatement
<1>15. CASE JobStatement(a)
  <2>1. CASE At(a, "cycle")
    <3>1. ~ At(a, "savePr") /\ ~ At(a, "feedback") /\ ~ At(a, "write") /\ ~ At(a, "insert")
      BY <2>1, OneOp
    <3>2. Turns(a)
      BY <1>15, <2>1, Advanced DEF JobStatement
    <3> QED BY <1>15, <2>1, <3>1, <3>2 DEF JobStatement, Acts, JobMoves, RoundMoves, QueueMoves
  <2>2. CASE ~ At(a, "cycle")
    <3>1. PICK what \in {"savePr", "feedback"} : At(a, what)
      BY <1>15, <2>2 DEF JobStatement
    <3>2. UNCHANGED <<state, cycle, arrived>> /\ UNCHANGED queueVars /\ Advance(a)
      BY <1>15, <2>2 DEF JobStatement
    <3>3. Turns(a)
      BY <3>1, <3>2, Advanced
    <3> QED BY <3>1, <3>2, <3>3, Quietly
  <2> QED BY <2>1, <2>2
<1>16. CASE Return(a)
  BY <1>16, Returned DEF Acts, Return
<1> QED
  BY <1>1, <1>2, <1>3, <1>4, <1>5, <1>6, <1>7, <1>8, <1>9, <1>10, <1>11, <1>12, <1>13,
     <1>14, <1>15, <1>16 DEF ScriptStep

-------------------------------------------------------------------------------
(* The pipeline uses the queue as Worker says.                             *)

\* A script's steps are the worker's, or leave the queue alone.
LEMMA ScriptOnWorker ==
  ASSUME Types, NEW a \in DOMAIN script, ScriptStep(a)
  PROVE  [WorkerNext]_queueVars
<1>0. QueueMoves(a)
  BY Acting DEF Acts
<1>1. script[a] \in Script /\ script[a].job \in Jobs
  BY DEF Types, ScriptTypes, Script
<1>2. CASE \E r \in RunOf(a) : HandlerReturns(r) \/ HandlerThrows(r) \/ Escalated(r)
  BY <1>2 DEF RunOf, WorkerNext, RunStep
<1>3. CASE \E x \in ExpiredOf(a) : TickEscalated(x)
  BY <1>3 DEF ExpiredOf, WorkerNext
<1>4. CASE At(a, "enqueue") /\ EnqueueFind(a, script[a].job, Op(a).kind)
  <2>1. Op(a) \in Ops /\ Op(a).op = "enqueue"
    BY <1>4, NextOp
  <2>2. Op(a).kind \in Kinds
    BY <2>1, OpFields, OrchestratorAssumption
  <2>3. a \in Callers
    <3>1. 1 \in 1..Len(script[a].ops) /\ script[a].ops[1].op = "enqueue"
      BY <1>1, <1>4 DEF At, Script
    <3>2. script[a].name # "exhausted"
      BY <3>1 DEF Types, ScriptTypes, ScriptOK, OpsOK, Moves
    <3> QED BY <3>2 DEF Types, ScriptTypes, ScriptOK, OpsOK
  <2>4. a \in Producers
    BY <2>3, OrchestratorAssumption
  <2> QED BY <1>1, <1>4, <2>2, <2>4 DEF WorkerNext
<1>5. CASE \E c \in finding, t \in TaskIds : EnqueueCreate(c, t)
  BY <1>5 DEF WorkerNext
<1>6. CASE CancelForJob(script[a].job)
  BY <1>1, <1>6 DEF WorkerNext
<1>7. CASE UNCHANGED queueVars
  BY <1>7
<1> QED BY <1>0, <1>2, <1>3, <1>4, <1>5, <1>6, <1>7 DEF QueueMoves

\* So are all the pipeline's steps.
LEMMA OnWorker == Types /\ [Next]_vars => [WorkerNext]_queueVars
<1> SUFFICES ASSUME Types, [Next]_vars PROVE [WorkerNext]_queueVars
  OBVIOUS
<1>1. ASSUME NEW kind \in RequestKinds, NEW j \in Jobs, Arrive(kind, j)
      PROVE  [WorkerNext]_queueVars
  BY <1>1 DEF Arrive
<1>2. ASSUME NEW S \in SUBSET TaskIds, Claim(S) PROVE [WorkerNext]_queueVars
  BY <1>2 DEF Claim, WorkerNext
<1>3. ASSUME NEW a \in DOMAIN script, ScriptStep(a) PROVE [WorkerNext]_queueVars
  BY <1>3, ScriptOnWorker
<1>4. ASSUME NEW r \in runs, RunExhausted(r) PROVE [WorkerNext]_queueVars
  BY <1>4 DEF RunExhausted, WorkerNext, RunStep
<1>5. ASSUME NEW x \in expired, RowExhausted(x) PROVE [WorkerNext]_queueVars
  BY <1>5 DEF RowExhausted, WorkerNext
<1>6. CASE WorkerAlone
  BY <1>6 DEF WorkerAlone, WorkerNext, RunStep
<1>7. CASE Crash
  BY <1>7 DEF Crash, WorkerNext
<1>8. CASE UNCHANGED vars
  BY <1>8 DEF vars
<1> QED BY <1>1, <1>2, <1>3, <1>4, <1>5, <1>6, <1>7, <1>8 DEF Next

\* What the worker never does to the table: it keeps every row, for its job,
\* and gives back no attempt; what it adds is one row, the newest, PENDING, for
\* a call that has looked for one.
RowsKept ==
  /\ \A t \in DOMAIN task :
       /\ t \in DOMAIN task' /\ task'[t].job = task[t].job /\ task'[t].kind = task[t].kind
       /\ task'[t].attempts >= task[t].attempts
  /\ \A t \in DOMAIN task' \ DOMAIN task :
       /\ task'[t].status = "PENDING"
       /\ \E c \in finding : task'[t].job = c.job /\ task'[t].kind = c.kind
       /\ \A u \in DOMAIN task' : u <= t

\* The worker keeps the rows.
LEMMA TableKept ==
  ASSUME WorkerTypeOK, [WorkerNext]_queueVars
  PROVE  RowsKept
<1> PICK n \in 0..MaxTasks : task \in [1..n -> Row]
  BY DEF WorkerTypeOK
<1>a. n \in Nat /\ \A t \in DOMAIN task : task[t] \in Row /\ task[t].attempts \in Nat
  BY QueueAssumption DEF Row
<1>b. ASSUME DOMAIN task' = DOMAIN task,
             \A t \in DOMAIN task :
               /\ task'[t].job = task[t].job /\ task'[t].kind = task[t].kind
               /\ task'[t].attempts \in {task[t].attempts, task[t].attempts + 1}
      PROVE  RowsKept
  BY <1>a, <1>b DEF RowsKept
<1>1. CASE TickExpire
  BY <1>1, <1>b DEF TickExpire, Expired, Row
<1>2. ASSUME NEW j, task' = CancelledFor(task, j) PROVE RowsKept
  BY <1>2, <1>b DEF CancelledFor, Row
<1>3. ASSUME NEW S, task' = Claimed(task, S) PROVE RowsKept
  <2>1. ASSUME NEW row \in Row
        PROVE  LET e == [row EXCEPT !.status = "RUNNING", !.lock = "fresh", !.attempts = @ + 1]
               IN  e.job = row.job /\ e.kind = row.kind /\ e.attempts = row.attempts + 1
    BY DEF Row
  <2>2. DOMAIN task' = DOMAIN task
    BY <1>3 DEF Claimed
  <2>3. ASSUME NEW t \in DOMAIN task
        PROVE  /\ task'[t].job = task[t].job /\ task'[t].kind = task[t].kind
               /\ task'[t].attempts \in {task[t].attempts, task[t].attempts + 1}
    BY <1>3, <1>a, <2>1 DEF Claimed
  <2> QED BY <1>b, <2>2, <2>3
<1>4. ASSUME NEW r \in runs, RunStep(r) PROVE RowsKept
  <2>1. CASE Complete(r) \/ FailRetry(r) \/ FailSettle(r)
    <3>1. \A row \in Row :
            /\ [row EXCEPT !.status = "DONE", !.lock = "none"].job = row.job
            /\ [row EXCEPT !.status = "DONE", !.lock = "none"].kind = row.kind
            /\ [row EXCEPT !.status = "DONE", !.lock = "none"].attempts = row.attempts
            /\ [row EXCEPT !.status = "PENDING", !.due = FALSE, !.lock = "none"].job = row.job
            /\ [row EXCEPT !.status = "PENDING", !.due = FALSE, !.lock = "none"].kind = row.kind
            /\ [row EXCEPT !.status = "PENDING", !.due = FALSE, !.lock = "none"].attempts
                 = row.attempts
            /\ [row EXCEPT !.status = "FAILED", !.lock = "none"].job = row.job
            /\ [row EXCEPT !.status = "FAILED", !.lock = "none"].kind = row.kind
            /\ [row EXCEPT !.status = "FAILED", !.lock = "none"].attempts = row.attempts
      BY DEF Row
    <3>2. \/ task' = [task EXCEPT ![r.task] = [@ EXCEPT !.status = "DONE", !.lock = "none"]]
          \/ task' = [task EXCEPT ![r.task] =
                        [@ EXCEPT !.status = "PENDING", !.due = FALSE, !.lock = "none"]]
          \/ task' = [task EXCEPT ![r.task] = [@ EXCEPT !.status = "FAILED", !.lock = "none"]]
      BY <2>1 DEF Complete, Completed, FailRetry, Retried, FailSettle, Settled
    <3>3. DOMAIN task' = DOMAIN task
      BY <3>2
    <3>4. ASSUME NEW t \in DOMAIN task
          PROVE  /\ task'[t].job = task[t].job /\ task'[t].kind = task[t].kind
                 /\ task'[t].attempts = task[t].attempts
      <4>1. CASE t = r.task
        <5>1. \/ task'[t] = [task[t] EXCEPT !.status = "DONE", !.lock = "none"]
              \/ task'[t] = [task[t] EXCEPT !.status = "PENDING", !.due = FALSE, !.lock = "none"]
              \/ task'[t] = [task[t] EXCEPT !.status = "FAILED", !.lock = "none"]
          BY <3>2, <4>1
        <5>2. task[t] \in Row
          BY <1>a
        <5> QED BY <3>1, <5>1, <5>2
      <4>2. CASE t # r.task
        BY <3>2, <4>2
      <4> QED BY <4>1, <4>2
    <3> QED BY <1>b, <3>3, <3>4
  <2>2. CASE Escalate(r)
    BY <1>2, <2>2 DEF Escalate
  <2>3. CASE Heartbeat(r)
    BY <1>b, <2>3 DEF Heartbeat, Refreshed, Row
  <2>4. CASE task' = task
    BY <1>b, <2>4
  <2> QED
    BY <1>4, <2>1, <2>2, <2>3, <2>4
    DEF RunStep, HandlerReturns, HandlerThrows, FailRead, Escalated
<1>5. ASSUME NEW t \in TaskIds, BackoffElapses(t) PROVE RowsKept
  <2>1. task' = [task EXCEPT ![t].due = TRUE]
    BY <1>5 DEF BackoffElapses
  <2> QED BY <1>b, <2>1 DEF Row
<1>6. ASSUME NEW t \in TaskIds, LockLapses(t) PROVE RowsKept
  <2>1. task' = [task EXCEPT ![t].lock = "stale"]
    BY <1>6 DEF LockLapses
  <2> QED BY <1>b, <2>1 DEF Row
<1>7. CASE CrashRestart
  BY <1>7, <1>b DEF CrashRestart, Reclaimed, Row
<1>8. ASSUME NEW c \in finding, NEW t \in TaskIds, EnqueueCreate(c, t) PROVE RowsKept
  <2>1. /\ DOMAIN task = 1..(t - 1) /\ t \in 1..MaxTasks
        /\ task' = [u \in DOMAIN task \cup {t} |-> IF u = t THEN NewRow(c.job, c.kind) ELSE task[u]]
    BY <1>8 DEF EnqueueCreate, IsNextId, Created, TaskIds
  <2>2. t \notin DOMAIN task /\ DOMAIN task' = DOMAIN task \cup {t} /\ t \in Int
        /\ \A u \in DOMAIN task : u <= t
    BY <2>1, QueueAssumption
  <2>3. \A u \in DOMAIN task : task'[u] = task[u]
    BY <2>1, <2>2
  <2>4. /\ task'[t].job = c.job /\ task'[t].kind = c.kind /\ task'[t].status = "PENDING"
    BY <2>1 DEF NewRow
  <2> QED BY <1>a, <2>2, <2>3, <2>4 DEF RowsKept
<1>9. CASE task' = task
  BY <1>b, <1>9
<1> QED
  BY <1>1, <1>2, <1>3, <1>4, <1>5, <1>6, <1>7, <1>8, <1>9
  DEF WorkerNext, queueVars, TickEscalate, TickEscalated, TickClaim, EnqueueFind, CancelForJob

-------------------------------------------------------------------------------
(* Types.                                                                  *)

\* The ways a script goes on, place by place.
Shorter(ops, new) ==
  Len(new) = Len(ops) - 1 /\ \A k \in 1..Len(new) : k + 1 \in 1..Len(ops) /\ new[k] = ops[k + 1]

GoesOn(ops, new, s) ==
  /\ Len(new) = Len(ops) /\ \A k \in 2..Len(ops) : new[k] = ops[k]
  /\ \/ /\ ops[1].op = "transition" /\ new[1].op = "write" /\ new[1].to = ops[1].to
        /\ ops[1].force \/ canTransition(s, ops[1].to)
     \/ ops[1].op = "enqueue" /\ new[1].op = "insert"
     \/ ops[1].op = "agent" /\ new[1].op = "await"

\* They are these.
LEMMA WaysOn ==
  ASSUME NEW ops \in Seq(Ops), NEW new \in Seq(Ops), NEW name, NEW s,
         Turned(ops, new, name, s)
  PROVE  /\ ops # <<>> /\ Len(ops) \in Nat /\ Len(new) \in Nat
         /\ 1 \in 1..Len(ops) /\ Head(ops) = ops[1]
         /\ \/ Shorter(ops, new)
            \/ GoesOn(ops, new, s)
            \/ ops[1].op \in {"verified", "reviewed", "guard"} /\ HandlerScript(new, "VERIFY")
            \/ ops[1].op = "process" /\ new \in {<<>>, <<Do("context")>>}
            \/ ops[1].op = "context" /\ HandlerScript(new, name)
<1>a. ops # <<>>
  BY DEF Turned
<1>0. /\ ops # <<>> /\ Len(ops) \in Nat /\ Len(new) \in Nat
      /\ 1 \in 1..Len(ops) /\ Head(ops) = ops[1]
  BY <1>a
<1>1. CASE new = Tail(ops)
  <2>1. Do("cycle") \in Ops
    BY OtherOps DEF Statements
  <2>2. /\ Len(Tail(ops)) = Len(ops) - 1
        /\ \A k \in 1..Len(Tail(ops)) : k + 1 \in 1..Len(ops) /\ Tail(ops)[k] = ops[k + 1]
    BY <1>a, <2>1, RestOps
  <2> QED BY <1>0, <1>1, <2>2 DEF Shorter
<1>2. ASSUME NEW o \in Ops, new = <<o>> \o Tail(ops),
             \/ /\ Head(ops).op = "transition" /\ o.op = "write" /\ o.to = Head(ops).to
                /\ Head(ops).force \/ canTransition(s, Head(ops).to)
             \/ Head(ops).op = "enqueue" /\ o.op = "insert"
             \/ Head(ops).op = "agent" /\ o.op = "await"
      PROVE  GoesOn(ops, new, s)
  <2>1. /\ Len(<<o>> \o Tail(ops)) = Len(ops) /\ (<<o>> \o Tail(ops))[1] = o
        /\ \A k \in 2..Len(ops) : (<<o>> \o Tail(ops))[k] = ops[k]
    BY <1>a, RestOps
  <2> QED BY <1>0, <1>2, <2>1 DEF GoesOn
<1> QED BY <1>0, <1>1, <1>2 DEF Turned

\* The one operation of an execution that has found its job open.
LEMMA ContextOnly ==
  /\ Len(<<Do("context")>>) = 1 /\ <<Do("context")>>[1].op = "context"
  /\ <<Do("context")>> # <<>> /\ Len(<<>>) = 0
<1>1. Do("context") \in Ops /\ Do("context").op = "context"
  BY OtherOps DEF Statements
<1> QED BY <1>1

\* What the operations of a script may be.
LEMMA TurnedOpsOK ==
  ASSUME NEW ops \in Seq(Ops), NEW new \in Seq(Ops), NEW name, NEW s,
         Turned(ops, new, name, s), OpsOK(ops, name)
  PROVE  OpsOK(new, name)
<1>0. /\ Len(ops) \in Nat /\ Len(new) \in Nat /\ 1 \in 1..Len(ops)
      /\ \A k \in 1..Len(ops) :
           /\ name = "exhausted" => Moves(ops[k]) /\ ops[k].to = "FAILED"
           /\ ops[k].op \in {"process", "context"} => name \in TASK_KINDS
           /\ ops[k].op = "cycle" => name \in RequestKinds
  BY WaysOn DEF OpsOK
<1>1. CASE Shorter(ops, new)
  BY <1>0, <1>1 DEF OpsOK, Shorter
<1>2. CASE GoesOn(ops, new, s)
  <2>1. ASSUME NEW k \in 1..Len(new), k # 1 PROVE k \in 2..Len(ops) /\ k \in 1..Len(ops)
    BY <1>0, <1>2, <2>1 DEF GoesOn
  <2>2. ASSUME name = "exhausted" PROVE Moves(new[1]) /\ new[1].to = "FAILED"
    BY <1>0, <1>2, <2>2 DEF GoesOn, Moves
  <2>3. new[1].op \notin {"process", "context", "cycle"}
    BY <1>2 DEF GoesOn
  <2> QED BY <1>0, <1>2, <2>1, <2>2, <2>3 DEF OpsOK, GoesOn
<1>3. ASSUME NEW kind, HandlerScript(new, kind), name # "exhausted" PROVE OpsOK(new, name)
  BY <1>3 DEF OpsOK, HandlerScript, Allowed
<1>4. CASE ops[1].op \in {"verified", "reviewed", "guard"} /\ HandlerScript(new, "VERIFY")
  BY <1>0, <1>3, <1>4 DEF Moves
<1>5. CASE ops[1].op = "process" /\ new \in {<<>>, <<Do("context")>>}
  BY <1>0, <1>5, ContextOnly DEF OpsOK, TASK_KINDS
<1>6. CASE ops[1].op = "context" /\ HandlerScript(new, name)
  BY <1>0, <1>3, <1>6 DEF Moves
<1> QED BY <1>1, <1>2, <1>4, <1>5, <1>6, WaysOn

\* The scripts executions and escalations begin with.
LEMMA BeginningOps ==
  /\ <<Do("process")>> \in Seq(Ops) /\ Len(<<Do("process")>>) = 1
  /\ <<Do("process")>>[1].op = "process" /\ <<Do("process")>> # <<>>
  /\ <<T("FAILED")>> \in Seq(Ops) /\ Len(<<T("FAILED")>>) = 1
  /\ <<T("FAILED")>>[1].op = "transition" /\ <<T("FAILED")>>[1].to = "FAILED"
  /\ <<T("FAILED")>> # <<>>
<1>1. Do("process") \in Ops /\ Do("process").op = "process"
  BY OtherOps DEF Statements
<1>2. T("FAILED") \in Ops /\ T("FAILED").op = "transition" /\ T("FAILED").to = "FAILED"
  BY MoveOps DEF JOB_STATES
<1> QED BY <1>1, <1>2

\* A script's own step keeps the scripts.
LEMMA ScriptTypesKept ==
  ASSUME Types, NEW a \in DOMAIN script, script' = Without(a) \/ Turns(a)
  PROVE  ScriptTypes'
<1>0. /\ script \in [DOMAIN script -> Script] /\ script[a] \in Script
      /\ DOMAIN script \subseteq Callers \cup (TaskIds \X {0})
      /\ \A b \in DOMAIN script : ScriptOK(b)
  BY DEF Types, ScriptTypes
<1>1. CASE script' = Without(a)
  <2>1. /\ script' \in [DOMAIN script' -> Script] /\ DOMAIN script' = DOMAIN script \ {a}
        /\ \A b \in DOMAIN script' : b \in DOMAIN script /\ b # a /\ script'[b] = script[b]
    BY <1>0, <1>1, Removed
  <2> QED BY <1>0, <2>1 DEF ScriptTypes, ScriptOK
<1>2. CASE Turns(a)
  <2>1. PICK new \in Seq(Ops) : Become(a, new) /\ Turned(script[a].ops, new, script[a].name, state[script[a].job])
    BY <1>2 DEF Turns
  <2>2. /\ script' \in [DOMAIN script' -> Script] /\ DOMAIN script' = DOMAIN script
        /\ script'[a].ops = new /\ script'[a].name = script[a].name
        /\ \A b \in DOMAIN script : b # a => script'[b] = script[b]
    BY <1>0, <2>1, Replaced
  <2>3. OpsOK(new, script[a].name)
    <3>1. script[a].ops \in Seq(Ops) /\ OpsOK(script[a].ops, script[a].name)
      BY <1>0 DEF Script, ScriptOK
    <3> QED BY <2>1, <3>1, TurnedOpsOK
  <2> QED BY <1>0, <2>2, <2>3 DEF ScriptTypes, ScriptOK
<1> QED BY <1>1, <1>2

\* A step that starts scripts keeps the scripts.
LEMMA ScriptTypesBegin ==
  ASSUME ScriptTypes, NEW started, script' = With(started),
         \A b \in DOMAIN started :
           /\ started[b] \in Script /\ OpsOK(started[b].ops, started[b].name)
           /\ b \in Callers \/ (b \in TaskIds \X {0} /\ started[b].name = "exhausted")
  PROVE  ScriptTypes'
<1>0. script \in [DOMAIN script -> Script] /\ \A b \in DOMAIN started : started[b] \in Script
  BY DEF ScriptTypes
<1>1. /\ script' \in [DOMAIN script' -> Script]
      /\ DOMAIN script' = DOMAIN script \cup DOMAIN started
      /\ \A b \in DOMAIN started : script'[b] = started[b]
      /\ \A b \in DOMAIN script \ DOMAIN started : script'[b] = script[b]
  BY <1>0, Added
<1>2. ASSUME NEW b \in DOMAIN script'
      PROVE  /\ b \in Callers \cup (TaskIds \X {0})
             /\ b \notin Callers => script'[b].name = "exhausted"
             /\ OpsOK(script'[b].ops, script'[b].name)
  <2>1. CASE b \in DOMAIN started
    BY <1>1, <2>1
  <2>2. CASE b \in DOMAIN script \ DOMAIN started
    BY <1>1, <2>2 DEF ScriptTypes, ScriptOK
  <2> QED BY <1>1, <2>1, <2>2
<1> QED BY <1>1, <1>2 DEF ScriptTypes, ScriptOK

\* The executions a claim starts are called by their row and its attempt.
LEMMA StartedActors ==
  ASSUME WorkerTypeOK, NEW S, TickClaim(S)
  PROVE  /\ {RunActor(r) : r \in Started(S)} = {<<t, task[t].attempts + 1>> : t \in S}
         /\ \A t \in S : /\ t \in DOMAIN task /\ t \in TaskIds /\ task[t] \in Row
                         /\ task'[t].attempts = task[t].attempts + 1
                         /\ task'[t].status = "RUNNING"
                         /\ task'[t].job = task[t].job
<1> PICK n \in 0..MaxTasks : task \in [1..n -> Row]
  BY DEF WorkerTypeOK
<1>1. {RunActor(r) : r \in Started(S)} = {<<t, task[t].attempts + 1>> : t \in S}
  <2> DEFINE e(t) == [task |-> t, attempt |-> task[t].attempts + 1, pc |-> "working"]
  <2>1. \A t : RunActor(e(t)) = <<t, task[t].attempts + 1>>
    BY DEF RunActor
  <2>2. Started(S) = {e(t) : t \in S}
    BY DEF Started
  <2> HIDE DEF e
  <2>3. \A b : b \in {RunActor(r) : r \in Started(S)}
                <=> b \in {<<t, task[t].attempts + 1>> : t \in S}
    BY <2>1, <2>2, Zenon
  <2> QED BY <2>3
<1>2. ASSUME NEW row \in Row
      PROVE  LET e == [row EXCEPT !.status = "RUNNING", !.lock = "fresh", !.attempts = @ + 1]
             IN  e.job = row.job /\ e.status = "RUNNING" /\ e.attempts = row.attempts + 1
  BY DEF Row
<1>3. \A t \in S : t \in DOMAIN task /\ t \in TaskIds /\ task[t] \in Row
  BY QueueAssumption DEF TickClaim, Claimable, TaskIds
<1> QED BY <1>1, <1>2, <1>3 DEF TickClaim, Claimed

\* They are callers: the retry budget bounds their attempts.
LEMMA ClaimCallers ==
  ASSUME Types, Paid', WorkerTypeOK', NEW S, TickClaim(S)
  PROVE  \A t \in S : <<t, task[t].attempts + 1>> \in Callers
<1>1. AttemptBudget'
  <2>1. (WorkerTypeOK /\ Paid => AttemptBudget)'
    BY PaidBudget, PTL
  <2> QED BY <2>1
<1> SUFFICES ASSUME NEW t \in S PROVE <<t, task[t].attempts + 1>> \in Callers
  OBVIOUS
<1>2. /\ t \in DOMAIN task /\ t \in TaskIds /\ task[t] \in Row
      /\ task'[t].attempts = task[t].attempts + 1
  BY StartedActors DEF Types
<1>3. DOMAIN task' = DOMAIN task /\ restarts' = restarts /\ lapses' = lapses
  BY DEF TickClaim, Claimed
<1>4. task[t].attempts + 1 <= MaxAttempts + restarts + lapses
  BY <1>1, <1>2, <1>3 DEF AttemptBudget
<1>5. /\ restarts \in 0..MaxRestarts /\ lapses \in 0..MaxLapses /\ task[t].attempts \in Nat
      /\ MaxRestarts \in Nat /\ MaxLapses \in Nat /\ MaxAttempts \in Nat
  BY <1>2, WorkerAssumption, QueueAssumption DEF Types, Bounds, Row
<1>6. task[t].attempts + 1 \in 1..(MaxAttempts + MaxRestarts + MaxLapses)
  BY <1>4, <1>5
<1> QED BY <1>2, <1>6 DEF Callers

\* What a claim, an escalation and a request start.
LEMMA StartingScripts ==
  ASSUME Types, Next, ~ (\E a \in DOMAIN script : ScriptStep(a)), ~ WorkerAlone, ~ Crash,
         Newest, Round, Rowless, Paid', WorkerTypeOK'
  PROVE  ScriptTypes'
<1>0. ScriptTypes
  BY DEF Types
<1>a. \A t \in DOMAIN task : task[t] \in Row /\ t \in Int /\ t \in TaskIds
  BY QueueAssumption DEF Types, WorkerTypeOK, TaskIds
<1>1. ASSUME NEW kind \in RequestKinds, NEW j \in Jobs, Arrive(kind, j) PROVE ScriptTypes'
  <2> DEFINE a == <<0, arrived + 1>>
             e == [job |-> j, name |-> kind, ops |-> RequestOps(kind, j)]
             started == [b \in {a} |-> e]
  <2>1. RequestOps(kind, j) \in Seq(Ops) /\ RequestScript(RequestOps(kind, j))
    BY <1>a, Requested
  <2>2. e \in Script /\ kind \notin TASK_KINDS \cup {"exhausted"}
    BY <2>1, OrchestratorAssumption DEF Script, Names, TASK_KINDS
  <2>3. OpsOK(RequestOps(kind, j), kind)
    BY <2>1, <2>2 DEF OpsOK, RequestScript, HandlersOnly
  <2>4. a \in Callers
    <3>1. arrived \in Nat /\ arrived + 1 \in 1..MaxRequests
      BY <1>1, OrchestratorAssumption DEF Types, Bounds, Arrive
    <3> QED BY <3>1 DEF Callers
  <2>5. script' = With(started)
    BY <1>1 DEF Arrive
  <2>6. DOMAIN started = {a} /\ started[a] = e /\ e.ops = RequestOps(kind, j) /\ e.name = kind
    OBVIOUS
  <2> HIDE DEF started, e, a
  <2> QED BY <1>0, <2>2, <2>3, <2>4, <2>5, <2>6, ScriptTypesBegin
<1>2. ASSUME NEW S \in SUBSET TaskIds, Claim(S) PROVE ScriptTypes'
  <2> DEFINE B == {<<t, task[t].attempts + 1>> : t \in S}
             e(b) == [job |-> task[b[1]].job, name |-> task[b[1]].kind, ops |-> <<Do("process")>>]
             started == [b \in B |-> e(b)]
  <2>1. TickClaim(S) /\ WorkerTypeOK
    BY <1>2 DEF Claim, Types
  <2>2. {RunActor(r) : r \in Started(S)} = B
    BY <2>1, StartedActors
  <2>3. script' = With(started)
    BY <1>2, <2>2 DEF Claim
  <2>4. ASSUME NEW b \in B
        PROVE  /\ started[b] = e(b) /\ e(b) \in Script
               /\ OpsOK(e(b).ops, e(b).name) /\ b \in Callers
    <3>1. PICK t \in S : b = <<t, task[t].attempts + 1>>
      OBVIOUS
    <3>2. b \in Callers /\ b[1] = t /\ task[t] \in Row
      BY <2>1, <3>1, ClaimCallers, StartedActors
    <3>3. task[t].job \in Jobs /\ task[t].kind \in TASK_KINDS
      BY <3>2, OrchestratorAssumption DEF Row
    <3>4. e(b) \in Script
      BY <3>2, <3>3, BeginningOps DEF Script, Names
    <3>5. OpsOK(<<Do("process")>>, task[t].kind)
      BY <3>3, BeginningOps DEF OpsOK, TASK_KINDS
    <3> QED BY <3>2, <3>4, <3>5
  <2>5. DOMAIN started = B
    OBVIOUS
  <2> HIDE DEF started, B
  <2> QED BY <1>0, <2>3, <2>4, <2>5, ScriptTypesBegin
<1>3. ASSUME NEW a, NEW t \in DOMAIN task, Exhaust(a, t), a \in Callers \cup (TaskIds \X {0})
      PROVE  ScriptTypes'
  <2> DEFINE e == [job |-> task[t].job, name |-> "exhausted", ops |-> <<T("FAILED")>>]
             started == [b \in {a} |-> e]
  <2>1. e \in Script
    BY <1>a, BeginningOps DEF Script, Names, Row
  <2>2. OpsOK(<<T("FAILED")>>, "exhausted")
    BY BeginningOps DEF OpsOK, Moves
  <2>3. script' = With(started)
    BY <1>3 DEF Exhaust
  <2>4. DOMAIN started = {a} /\ started[a] = e /\ e.ops = <<T("FAILED")>> /\ e.name = "exhausted"
    OBVIOUS
  <2> HIDE DEF started, e
  <2> QED BY <1>0, <1>3, <2>1, <2>2, <2>3, <2>4, ScriptTypesBegin
<1>4. ASSUME NEW r \in runs, RunExhausted(r) PROVE ScriptTypes'
  <2>1. RunActor(r) \in Callers /\ r.task \in DOMAIN task
    BY DEF Types, Bounds, Paid
  <2> QED BY <1>3, <1>4, <2>1 DEF RunExhausted
<1>5. ASSUME NEW x \in expired, RowExhausted(x) PROVE ScriptTypes'
  <2>1. x.task \in DOMAIN task
    BY DEF Rowless
  <2>2. <<x.task, 0>> \in TaskIds \X {0}
    BY <1>a, <2>1
  <2> QED BY <1>3, <1>5, <2>1, <2>2 DEF RowExhausted
<1> QED BY <1>1, <1>2, <1>4, <1>5 DEF Next

\* The other fields of a job keep their types.
LEMMA JobTypesStep == Types /\ [Next]_vars => JobTypes'
<1> SUFFICES ASSUME Types, [Next]_vars PROVE JobTypes'
  OBVIOUS
<1>0. JobTypes /\ \A a \in DOMAIN script : script[a].job \in Jobs
  BY DEF Types, ScriptTypes, Script
<1>1. CASE UNCHANGED jobVars
  BY <1>0, <1>1 DEF JobTypes, jobVars
<1>2. ASSUME NEW a \in DOMAIN script, ScriptStep(a) PROVE JobTypes'
  <2>1. script[a].job \in Jobs
    BY <1>0
  <2>2. state' \in [Jobs -> JOB_STATES \cup {"ABSENT"}]
    <3>1. JobMoves(a)
      BY <1>2, Acting DEF Acts
    <3>2. At(a, "write") => Op(a).to \in JOB_STATES
      BY NextOp, OpFields
    <3> QED BY <1>0, <3>1, <3>2 DEF JobMoves, JobTypes, JOB_STATES
  <2>3. cycle' \in [Jobs -> Nat]
    <3>1. RoundMoves(a)
      BY <1>2, Acting DEF Acts
    <3>2. \A j \in Jobs : cycle[j] \in Nat /\ cycle[j] + 1 \in Nat
      BY <1>0 DEF JobTypes
    <3>3. cycle \in [Jobs -> Nat]
      BY <1>0 DEF JobTypes
    <3> QED BY <2>1, <3>1, <3>2, <3>3 DEF RoundMoves
  <2>4. hasPr' \in [Jobs -> BOOLEAN] /\ unaddressed' \in [Jobs -> BOOLEAN]
    <3>1. hasPr' = hasPr \/ hasPr' = [hasPr EXCEPT ![script[a].job] = TRUE]
      BY <1>2
      DEF ScriptStep, ProcessTask, Context, TransitionRead, TransitionWrite, EnqueueStart,
          EnqueueInsert, CancelTasks, AgentStart, AgentSucceeds, AgentFails, Decide,
          OpenPrGuard, CreateJob, PlanStatement, JobStatement, Return, jobVars
    <3>2. \/ unaddressed' = unaddressed
          \/ unaddressed' = [unaddressed EXCEPT ![script[a].job] = TRUE]
          \/ unaddressed' = [unaddressed EXCEPT ![script[a].job] = FALSE]
      BY <1>2
      DEF ScriptStep, ProcessTask, Context, TransitionRead, TransitionWrite, EnqueueStart,
          EnqueueInsert, CancelTasks, AgentStart, AgentSucceeds, AgentFails, Decide,
          OpenPrGuard, CreateJob, PlanStatement, JobStatement, Return, jobVars
    <3>3. hasPr' \in [Jobs -> BOOLEAN]
      BY <1>0, <3>1 DEF JobTypes
    <3>4. unaddressed' \in [Jobs -> BOOLEAN]
      BY <1>0, <3>2 DEF JobTypes
    <3> QED BY <3>3, <3>4
  <2>5. plans' \in [Jobs -> Seq({"PROPOSED", "APPROVED", "SUPERSEDED"})]
    <3> DEFINE P == {"PROPOSED", "APPROVED", "SUPERSEDED"}
    <3>1. \/ plans' = plans
          \/ plans' = [plans EXCEPT ![script[a].job] = Append(@, "PROPOSED")]
          \/ Restatus(script[a].job, "APPROVED") \/ Restatus(script[a].job, "SUPERSEDED")
      BY <1>2
      DEF ScriptStep, ProcessTask, Context, TransitionRead, TransitionWrite, EnqueueStart,
          EnqueueInsert, CancelTasks, AgentStart, AgentSucceeds, AgentFails, Decide,
          OpenPrGuard, CreateJob, PlanStatement, JobStatement, Return, jobVars
    <3>2. ASSUME NEW s \in Seq(P), NEW q \in P
          PROVE  /\ Append(s, "PROPOSED") \in Seq(P)
                 /\ [i \in DOMAIN s |-> IF s[i] = "PROPOSED" THEN q ELSE s[i]] \in Seq(P)
      <4>1. DOMAIN s = 1..Len(s) /\ Len(s) \in Nat /\ \A i \in DOMAIN s : s[i] \in P
        OBVIOUS
      <4>2. [i \in 1..Len(s) |-> IF s[i] = "PROPOSED" THEN q ELSE s[i]] \in [1..Len(s) -> P]
        BY <4>1
      <4>3. [i \in DOMAIN s |-> IF s[i] = "PROPOSED" THEN q ELSE s[i]] \in Seq(P)
        BY <4>1, <4>2
      <4> QED BY <4>3
    <3>3. plans \in [Jobs -> Seq(P)]
      BY <1>0 DEF JobTypes
    <3>4. CASE plans' = [plans EXCEPT ![script[a].job] = Append(@, "PROPOSED")]
      BY <2>1, <3>2, <3>3, <3>4
    <3>5. ASSUME NEW q \in {"APPROVED", "SUPERSEDED"}, Restatus(script[a].job, q)
          PROVE  plans' \in [Jobs -> Seq(P)]
      <4> DEFINE s == plans[script[a].job]
                 f == [i \in DOMAIN s |-> IF s[i] = "PROPOSED" THEN q ELSE s[i]]
      <4>1. plans' = [plans EXCEPT ![script[a].job] = f]
        BY <3>5 DEF Restatus
      <4>2. f \in Seq(P)
        BY <2>1, <3>2, <3>3
      <4> HIDE DEF f
      <4> QED BY <3>3, <4>1, <4>2
    <3> QED BY <3>1, <3>3, <3>4, <3>5
  <2> QED BY <2>2, <2>3, <2>4, <2>5 DEF JobTypes
<1> QED
  BY <1>1, <1>2 DEF Next, vars, Arrive, Claim, RunExhausted, RowExhausted, WorkerAlone, Crash

\* An execution keeps its row and its attempt for as long as it lasts.
RunsKept ==
  \A r \in runs' :
    \/ \E s \in runs : RunActor(r) = RunActor(s) /\ r.task = s.task /\ r.attempt = s.attempt
    \/ \E S \in SUBSET TaskIds : TickClaim(S) /\ r \in Started(S)

\* The worker's steps do so.
LEMMA ActorsKept == WorkerTypeOK /\ [WorkerNext]_queueVars => RunsKept
<1> SUFFICES ASSUME WorkerTypeOK, [WorkerNext]_queueVars PROVE RunsKept
  OBVIOUS
<1>1. ASSUME NEW r \in runs, NEW pc, Goto(r, pc) \/ End(r) PROVE RunsKept
  <2>1. r \in Execution
    BY DEF WorkerTypeOK
  <2>2. [r EXCEPT !.pc = pc].task = r.task /\ [r EXCEPT !.pc = pc].attempt = r.attempt
    BY <2>1 DEF Execution
  <2> QED BY <1>1, <2>2 DEF RunsKept, RunActor, Goto, End
<1>2. CASE runs' \subseteq runs
  BY <1>2 DEF RunsKept
<1>3. ASSUME NEW S \in SUBSET TaskIds, TickClaim(S) PROVE RunsKept
  <2>1. runs' = runs \cup Started(S)
    BY <1>3 DEF TickClaim
  <2> QED BY <1>3, <2>1 DEF RunsKept
<1>4. ASSUME NEW r \in runs, RunStep(r) PROVE RunsKept
  BY <1>1, <1>2, <1>4
  DEF RunStep, HandlerReturns, HandlerThrows, Complete, FailRead, FailRetry, FailSettle,
      Escalate, Escalated, Heartbeat
<1> QED
  BY <1>2, <1>3, <1>4
  DEF WorkerNext, queueVars, TickExpire, TickEscalate, TickEscalated, BackoffElapses, LockLapses,
      CrashRestart, EnqueueFind, EnqueueCreate, CancelForJob

\* The bounds are kept: a claim starts an execution only within the budget.
LEMMA BoundsStep == Types /\ Paid' /\ WorkerTypeOK' /\ [Next]_vars => Bounds'
<1> SUFFICES ASSUME Types, Paid', WorkerTypeOK', [Next]_vars PROVE Bounds'
  OBVIOUS
<1>0. Bounds /\ WorkerTypeOK /\ [WorkerNext]_queueVars
  BY OnWorker DEF Types
<1>1. arrived' \in 0..MaxRequests
  <2>1. arrived' = arrived \/ (arrived < MaxRequests /\ arrived' = arrived + 1)
    <3>1. ASSUME NEW a \in DOMAIN script, ScriptStep(a) PROVE arrived' = arrived
      BY <3>1, Acting
    <3> QED
      BY <3>1 DEF Next, vars, Arrive, Claim, RunExhausted, RowExhausted, WorkerAlone, Crash
  <2> QED BY <1>0, <2>1, OrchestratorAssumption DEF Bounds
<1>2. restarts' \in 0..MaxRestarts /\ lapses' \in 0..MaxLapses
  <2>1. /\ \/ restarts' = restarts
           \/ restarts < MaxRestarts /\ restarts' = restarts + 1
        /\ \/ lapses' = lapses
           \/ lapses < MaxLapses /\ lapses' = lapses + 1
    BY <1>0
    DEF WorkerNext, RunStep, queueVars, TickExpire, TickEscalate, TickEscalated, TickClaim,
        HandlerReturns, HandlerThrows, Complete, FailRead, FailRetry, FailSettle, Escalate,
        Escalated, Heartbeat, BackoffElapses, LockLapses, CrashRestart, EnqueueFind,
        EnqueueCreate, CancelForJob
  <2> QED BY <1>0, <2>1, WorkerAssumption DEF Bounds
<1>3. ASSUME NEW r \in runs' PROVE RunActor(r) \in Callers
  <2>1. CASE \E s \in runs : RunActor(r) = RunActor(s)
    BY <1>0, <2>1 DEF Bounds
  <2>2. ASSUME NEW S \in SUBSET TaskIds, TickClaim(S), r \in Started(S)
        PROVE  RunActor(r) \in Callers
    <3>1. \A t \in S : <<t, task[t].attempts + 1>> \in Callers
      BY <2>2, ClaimCallers
    <3>2. RunActor(r) \in {<<t, task[t].attempts + 1>> : t \in S}
      BY <1>0, <2>2, StartedActors
    <3> QED BY <3>1, <3>2
  <2> QED BY <1>0, <2>1, <2>2, ActorsKept DEF RunsKept
<1> QED BY <1>1, <1>2, <1>3 DEF Bounds

\* Every step keeps the types.
LEMMA TypesStep ==
  Types /\ Newest /\ Round /\ Rowless /\ [Next]_vars => Types' /\ [WorkerNext]_queueVars /\ RowsKept
<1> SUFFICES ASSUME Types, Newest, Round, Rowless, [Next]_vars
             PROVE  Types' /\ [WorkerNext]_queueVars /\ RowsKept
  OBVIOUS
<1>1. [WorkerNext]_queueVars /\ WorkerTypeOK /\ Paid
  BY OnWorker DEF Types
<1>2. WorkerTypeOK' /\ Paid' /\ RowsKept
  BY <1>1, TypeStep, PaidStep, TableKept
<1>3. ScriptTypes'
  <2>1. CASE UNCHANGED script
    BY <2>1 DEF Types, ScriptTypes, ScriptOK
  <2>2. CASE \E a \in DOMAIN script : ScriptStep(a)
    BY <2>2, Acting, ScriptTypesKept DEF Acts
  <2>3. CASE Crash
    <3>1. script' = <<>>
      BY <2>3 DEF Crash
    <3> QED BY <3>1 DEF ScriptTypes
  <2>4. CASE WorkerAlone
    BY <2>1, <2>4 DEF WorkerAlone
  <2>5. CASE UNCHANGED vars
    BY <2>1, <2>5 DEF vars
  <2> QED BY <1>2, <2>2, <2>3, <2>4, <2>5, StartingScripts
<1> QED BY <1>1, <1>2, <1>3, JobTypesStep, BoundsStep DEF Types

-------------------------------------------------------------------------------
(* What a step leaves: the scripts, the jobs and the calls of enqueue.     *)

\* Script b was there, and has at most taken a step of its own.
Continues(b) ==
  /\ b \in DOMAIN script
  /\ script'[b].job = script[b].job /\ script'[b].name = script[b].name
  /\ \/ script'[b].ops = script[b].ops
     \/ /\ Turned(script[b].ops, script'[b].ops, script[b].name, state[script[b].job])
        /\ At(b, "cycle") => cycle'[script[b].job] >= 1

\* Script b is new: a request's, an execution's or an escalation's.
Begins(b) ==
  \/ \E kind \in RequestKinds, j \in Jobs :
       /\ RequestOps(kind, j) # <<>> /\ UNCHANGED <<queueVars, jobVars>>
       /\ script'[b].job = j /\ script'[b].name = kind /\ script'[b].ops = RequestOps(kind, j)
  \/ \E t \in DOMAIN task :
       /\ b[1] = t /\ script'[b].job = task[t].job /\ script'[b].name = task[t].kind
       /\ script'[b].ops = <<Do("process")>>
  \/ \E t \in DOMAIN task :
       /\ script'[b].job = task[t].job /\ script'[b].name = "exhausted"
       /\ script'[b].ops = <<T("FAILED")>>

\* Every script goes on, or begins.
LEMMA EveryScript ==
  Types /\ Rowless /\ [Next]_vars => \A b \in DOMAIN script' : Continues(b) \/ Begins(b)
<1> SUFFICES ASSUME Types, Rowless, [Next]_vars, NEW b \in DOMAIN script'
             PROVE  Continues(b) \/ Begins(b)
  OBVIOUS
<1>0. /\ script \in [DOMAIN script -> Script]
      /\ \A a \in DOMAIN script : script[a].job \in Jobs /\ script[a].ops \in Seq(Ops)
  BY DEF Types, ScriptTypes, Script
<1>1. CASE UNCHANGED script
  BY <1>1 DEF Continues
<1>2. ASSUME NEW a \in DOMAIN script, ScriptStep(a) PROVE Continues(b)
  <2>1. Acts(a)
    BY <1>2, Acting
  <2>2. CASE script' = Without(a)
    <3>1. b \in DOMAIN script /\ script'[b] = script[b]
      BY <1>0, <2>2, Removed
    <3> QED BY <3>1 DEF Continues
  <2>3. CASE Turns(a)
    <3>1. PICK new \in Seq(Ops) :
            /\ Become(a, new)
            /\ Turned(script[a].ops, new, script[a].name, state[script[a].job])
      BY <2>3 DEF Turns
    <3>2. /\ DOMAIN script' = DOMAIN script /\ script'[a].ops = new
          /\ script'[a].job = script[a].job /\ script'[a].name = script[a].name
          /\ \A c \in DOMAIN script : c # a => script'[c] = script[c]
      BY <1>0, <3>1, Replaced
    <3>3. At(a, "cycle") => cycle'[script[a].job] >= 1
      <4>1. RoundMoves(a)
        BY <2>1 DEF Acts
      <4>2. script[a].job \in Jobs /\ cycle \in [Jobs -> Nat]
        BY <1>0 DEF Types, JobTypes
      <4> QED BY <4>1, <4>2 DEF RoundMoves
    <3>4. CASE b = a
      BY <3>1, <3>2, <3>3, <3>4 DEF Continues
    <3>5. CASE b # a
      BY <3>2, <3>5 DEF Continues
    <3> QED BY <3>4, <3>5
  <2> QED BY <2>1, <2>2, <2>3 DEF Acts
<1>3. ASSUME NEW started, script' = With(started), b \notin DOMAIN started
      PROVE  Continues(b)
  <2>1. b \in DOMAIN script /\ script'[b] = script[b]
    BY <1>3 DEF With
  <2> QED BY <2>1 DEF Continues
<1>4. ASSUME NEW kind \in RequestKinds, NEW j \in Jobs, Arrive(kind, j)
      PROVE  Continues(b) \/ Begins(b)
  <2> DEFINE a == <<0, arrived + 1>>
             e == [job |-> j, name |-> kind, ops |-> RequestOps(kind, j)]
             started == [c \in {a} |-> e]
  <2>1. script' = With(started) /\ DOMAIN started = {a} /\ started[a] = e
    BY <1>4 DEF Arrive
  <2>2. e.job = j /\ e.name = kind /\ e.ops = RequestOps(kind, j)
    OBVIOUS
  <2> HIDE DEF started, e, a
  <2>3. CASE b = a
    <3>1. script'[b] = e
      BY <2>1, <2>3 DEF With
    <3> QED BY <1>4, <2>2, <3>1 DEF Begins, Arrive
  <2>4. CASE b # a
    BY <1>3, <2>1, <2>4
  <2> QED BY <2>3, <2>4
<1>5. ASSUME NEW S \in SUBSET TaskIds, Claim(S) PROVE Continues(b) \/ Begins(b)
  <2> DEFINE B == {<<t, task[t].attempts + 1>> : t \in S}
             e(c) == [job |-> task[c[1]].job, name |-> task[c[1]].kind, ops |-> <<Do("process")>>]
             started == [c \in B |-> e(c)]
  <2>1. TickClaim(S) /\ WorkerTypeOK
    BY <1>5 DEF Claim, Types
  <2>2. /\ {RunActor(r) : r \in Started(S)} = B
        /\ \A t \in S : t \in DOMAIN task
    BY <2>1, StartedActors
  <2>3. script' = With(started)
    BY <1>5, <2>2 DEF Claim
  <2>4. CASE b \in B
    <3>1. PICK t \in S : b = <<t, task[t].attempts + 1>>
      BY <2>4
    <3>2. script'[b] = e(b) /\ b[1] = t /\ t \in DOMAIN task
      BY <2>2, <2>3, <2>4, <3>1 DEF With
    <3> QED BY <3>2 DEF Begins
  <2>5. CASE b \notin B
    <3>1. DOMAIN started = B
      OBVIOUS
    <3> HIDE DEF started, B
    <3> QED BY <1>3, <2>3, <2>5, <3>1
  <2> QED BY <2>4, <2>5
<1>6. ASSUME NEW a, NEW t \in DOMAIN task, Exhaust(a, t) PROVE Continues(b) \/ Begins(b)
  <2> DEFINE e == [job |-> task[t].job, name |-> "exhausted", ops |-> <<T("FAILED")>>]
             started == [c \in {a} |-> e]
  <2>1. script' = With(started) /\ DOMAIN started = {a} /\ started[a] = e
    BY <1>6 DEF Exhaust
  <2>2. e.job = task[t].job /\ e.name = "exhausted" /\ e.ops = <<T("FAILED")>>
    OBVIOUS
  <2> HIDE DEF started, e
  <2>3. CASE b = a
    <3>1. script'[b] = e
      BY <2>1, <2>3 DEF With
    <3> QED BY <2>2, <3>1 DEF Begins
  <2>4. CASE b # a
    BY <1>3, <2>1, <2>4
  <2> QED BY <2>3, <2>4
<1>7. ASSUME NEW r \in runs, RunExhausted(r) PROVE Continues(b) \/ Begins(b)
  <2>1. r.task \in DOMAIN task
    BY DEF Types, Paid
  <2> QED BY <1>6, <1>7, <2>1 DEF RunExhausted
<1>8. ASSUME NEW x \in expired, RowExhausted(x) PROVE Continues(b) \/ Begins(b)
  <2>1. x.task \in DOMAIN task
    BY DEF Rowless
  <2> QED BY <1>6, <1>8, <2>1 DEF RowExhausted
<1>9. ~ Crash
  BY DEF Crash
<1> QED BY <1>1, <1>2, <1>4, <1>5, <1>7, <1>8, <1>9 DEF Next, WorkerAlone, vars

\* What becomes of the jobs: only a write moves one, and only a create makes one.
JobsAfter ==
  /\ \A j \in Jobs : cycle'[j] >= cycle[j]
  /\ \A j \in Jobs :
       \/ state'[j] = state[j]
       \/ \E a \in DOMAIN script :
            /\ script[a].job = j
            /\ \/ At(a, "write") /\ state'[j] = Op(a).to
               \/ At(a, "create") /\ state[j] = "ABSENT" /\ state'[j] = "TRIAGED"

\* Every step leaves the jobs so.
LEMMA EveryJob == Types /\ [Next]_vars => JobsAfter
<1> SUFFICES ASSUME Types, [Next]_vars PROVE JobsAfter
  OBVIOUS
<1>0. /\ state \in [Jobs -> JOB_STATES \cup {"ABSENT"}]
      /\ cycle \in [Jobs -> Nat] /\ \A a \in DOMAIN script : script[a].job \in Jobs
  BY DEF Types, JobTypes, ScriptTypes, Script
<1>1. CASE UNCHANGED jobVars
  BY <1>0, <1>1 DEF JobsAfter, jobVars
<1>2. ASSUME NEW a \in DOMAIN script, ScriptStep(a) PROVE JobsAfter
  <2>1. JobMoves(a) /\ RoundMoves(a)
    BY <1>2, Acting DEF Acts
  <2>2. \A j \in Jobs : cycle[j] \in Nat
    BY <1>0
  <2>3. \A j \in Jobs : cycle'[j] = cycle[j] \/ cycle'[j] = cycle[j] + 1
    BY <1>0, <2>1, <2>2 DEF RoundMoves
  <2>4. ASSUME NEW j \in Jobs, state'[j] # state[j]
        PROVE  /\ script[a].job = j
               /\ \/ At(a, "write") /\ state'[j] = Op(a).to
                  \/ At(a, "create") /\ state[j] = "ABSENT" /\ state'[j] = "TRIAGED"
    BY <1>0, <2>1, <2>4 DEF JobMoves
  <2> QED BY <2>2, <2>3, <2>4 DEF JobsAfter
<1> QED
  BY <1>1, <1>2 DEF Next, vars, Arrive, Claim, RunExhausted, RowExhausted, WorkerAlone, Crash

\* A call of enqueue that has found no row is one a script is in.
FindingsAfter ==
  \A c \in finding' :
    \/ c \in finding
    \/ \E a \in DOMAIN script :
         /\ At(a, "enqueue") /\ script'[a].ops = <<Do("insert")>> \o Rest(a)
         /\ c = [by |-> a, job |-> script[a].job, kind |-> Op(a).kind]
         /\ \A d \in finding : d.by # a

\* Every step leaves the calls so.
LEMMA EveryFinding == Types /\ [Next]_vars => FindingsAfter
<1> SUFFICES ASSUME Types, [Next]_vars PROVE FindingsAfter
  OBVIOUS
<1>1. CASE finding' \subseteq finding
  BY <1>1 DEF FindingsAfter
<1>2. ASSUME NEW a \in DOMAIN script, ScriptStep(a) PROVE FindingsAfter
  <2>1. QueueMoves(a)
    BY <1>2, Acting DEF Acts
  <2>2. CASE At(a, "enqueue") /\ EnqueueFind(a, script[a].job, Op(a).kind)
               /\ Become(a, <<Do("insert")>> \o Rest(a))
    <3>1. Do("insert") \in Ops
      BY OtherOps DEF Statements
    <3>2. <<Do("insert")>> \o Rest(a) \in Seq(Ops)
      BY <2>2, <3>1, NextOp
    <3>3. script'[a].ops = <<Do("insert")>> \o Rest(a)
      BY <2>2, <3>2, Replaced DEF Types, ScriptTypes
    <3> QED BY <2>2, <3>3 DEF EnqueueFind, FindingsAfter
  <2>3. CASE finding' \subseteq finding
    BY <2>3 DEF FindingsAfter
  <2> QED
    BY <2>1, <2>2, <2>3
    DEF QueueMoves, queueVars, HandlerReturns, HandlerThrows, Escalated, TickEscalated,
        EnqueueCreate, CancelForJob
<1> QED
  BY <1>1, <1>2
  DEF Next, vars, queueVars, Arrive, Claim, TickClaim, RunExhausted, Escalate, RowExhausted,
      TickEscalate, WorkerAlone, TickExpire, Complete, FailRead, FailRetry, FailSettle,
      Heartbeat, BackoffElapses, LockLapses, Crash, CrashRestart

-------------------------------------------------------------------------------
(* The human gate.                                                         *)

\* The newest row of a job stays known: rows are only added behind the others.
LEMMA NewestStep == Types /\ Newest /\ RowsKept => Newest'
<1> SUFFICES ASSUME Types, Newest, RowsKept, NEW j \in Jobs,
                    NEW v \in DOMAIN task', task'[v].job = j
             PROVE  \E t \in DOMAIN task' :
                      task'[t].job = j /\ \A u \in DOMAIN task' : task'[u].job = j => u <= t
  BY DEF Newest, HasRow
<1>1. CASE \E t \in DOMAIN task' \ DOMAIN task : task'[t].job = j
  BY <1>1 DEF RowsKept
<1>2. CASE \A t \in DOMAIN task' : task'[t].job = j => t \in DOMAIN task
  <2>1. v \in DOMAIN task /\ task[v].job = j
    BY <1>2 DEF RowsKept
  <2>2. PICK t \in DOMAIN task :
          task[t].job = j /\ \A u \in DOMAIN task : task[u].job = j => u <= t
    BY <2>1 DEF Newest, HasRow
  <2>3. t \in DOMAIN task' /\ task'[t].job = j
    BY <2>2 DEF RowsKept
  <2>4. ASSUME NEW u \in DOMAIN task', task'[u].job = j PROVE u <= t
    BY <1>2, <2>2, <2>4 DEF RowsKept
  <2> QED BY <2>3, <2>4
<1> QED BY <1>1, <1>2

\* A script that goes on stays behind the gate, or has opened the round.
LEMMA TurnedGated ==
  ASSUME NEW ops \in Seq(Ops), NEW new \in Seq(Ops), NEW name, NEW s, NEW open, NEW after,
         Turned(ops, new, name, s), OpsOK(ops, name), GatedBy(ops, open),
         open => after, Head(ops).op = "cycle" => after,
         name \in TASK_KINDS \ {"PLAN"} => open
  PROVE  GatedBy(new, after)
<1>0. /\ Len(ops) \in Nat /\ Len(new) \in Nat /\ 1 \in 1..Len(ops) /\ Head(ops) = ops[1]
  BY WaysOn
<1>a. PastGate(ops[1]) => open
  BY <1>0 DEF GatedBy
<1>1. CASE Shorter(ops, new)
  <2> SUFFICES ASSUME NEW k \in 1..Len(new), PastGate(new[k]), ~ after
               PROVE  \E l \in 1..(k - 1) : new[l].op = "cycle"
    BY DEF GatedBy
  <2>1. k \in Nat /\ k + 1 \in 1..Len(ops) /\ new[k] = ops[k + 1]
    BY <1>0, <1>1 DEF Shorter
  <2>2. PICK l \in 1..((k + 1) - 1) : ops[l].op = "cycle"
    BY <2>1 DEF GatedBy
  <2>3. l # 1
    BY <1>0, <2>2
  <2>4. l - 1 \in 1..(k - 1) /\ l - 1 \in 1..Len(new) /\ (l - 1) + 1 = l
    BY <1>0, <2>1, <2>2, <2>3
  <2>5. new[l - 1] = ops[l]
    BY <1>1, <2>4 DEF Shorter
  <2> QED BY <2>2, <2>4, <2>5
<1>2. CASE GoesOn(ops, new, s)
  <2> SUFFICES ASSUME NEW k \in 1..Len(new), PastGate(new[k]), ~ after
               PROVE  \E l \in 1..(k - 1) : new[l].op = "cycle"
    BY DEF GatedBy
  <2>1. k \in 1..Len(ops) /\ (k # 1 => k \in 2..Len(ops))
    BY <1>0, <1>2 DEF GoesOn
  <2>2. k # 1
    <3>1. PastGate(new[1]) => PastGate(ops[1])
      BY <1>2 DEF GoesOn, PastGate, Moves
    <3> QED BY <1>a, <3>1
  <2>3. new[k] = ops[k]
    BY <1>2, <2>1, <2>2 DEF GoesOn
  <2>4. PICK l \in 1..(k - 1) : ops[l].op = "cycle"
    BY <2>1, <2>3 DEF GatedBy
  <2>5. l # 1
    BY <1>2, <2>4 DEF GoesOn
  <2>6. l \in 2..Len(ops)
    BY <1>0, <2>1, <2>4, <2>5
  <2>7. new[l] = ops[l]
    BY <1>2, <2>6 DEF GoesOn
  <2> QED BY <2>4, <2>7
<1>3. ASSUME NEW kind, HandlerScript(new, kind), kind # "PLAN" => open
      PROVE  GatedBy(new, after)
  BY <1>3 DEF HandlerScript, Allowed, GatedBy
<1>4. CASE ops[1].op \in {"verified", "reviewed", "guard"} /\ HandlerScript(new, "VERIFY")
  <2>1. open
    BY <1>a, <1>4 DEF PastGate
  <2> QED BY <1>3, <1>4, <2>1
<1>5. CASE ops[1].op = "process" /\ new \in {<<>>, <<Do("context")>>}
  BY <1>5, ContextOnly DEF GatedBy, PastGate, Moves
<1>6. CASE ops[1].op = "context" /\ HandlerScript(new, name)
  <2>1. name \in TASK_KINDS
    BY <1>0, <1>6 DEF OpsOK
  <2> QED BY <1>3, <1>6, <2>1
<1> QED BY <1>1, <1>2, <1>4, <1>5, <1>6, WaysOn

\* Work past the gate stays work of an open round.
LEMMA RoundStep ==
  ASSUME Types, Newest, Round, Rowless, [Next]_vars
  PROVE  Round'
<1>0. /\ RowsKept /\ JobsAfter /\ FindingsAfter /\ Types'
      /\ \A b \in DOMAIN script' : Continues(b) \/ Begins(b)
  BY TypesStep, EveryJob, EveryFinding, EveryScript
<1>a. /\ cycle \in [Jobs -> Nat] /\ cycle' \in [Jobs -> Nat]
      /\ \A j \in Jobs : cycle[j] >= 1 => cycle'[j] >= 1
  BY <1>0 DEF Types, JobTypes, JobsAfter
<1>b. \A a \in DOMAIN script : script[a] \in Script /\ script[a].job \in Jobs /\ script[a].ops \in Seq(Ops)
  BY DEF Types, ScriptTypes, Script
<1>c. ASSUME NEW a \in DOMAIN script, script[a].ops # <<>>, PastGate(Op(a))
      PROVE  cycle[script[a].job] >= 1
  <2>1. 1 \in 1..Len(script[a].ops) /\ Op(a) = script[a].ops[1] /\ 1..(1 - 1) = {}
    BY <1>b, <1>c DEF Op
  <2> QED BY <1>c, <2>1 DEF Round, GatedBy
<1>1. RoundOpened'
  <2> SUFFICES ASSUME NEW j \in Jobs, state'[j] \in PostPlan PROVE cycle'[j] >= 1
    BY DEF RoundOpened
  <2>1. CASE state'[j] = state[j]
    BY <1>a, <2>1 DEF Round, RoundOpened
  <2>2. ASSUME NEW a \in DOMAIN script, script[a].job = j, At(a, "write"), state'[j] = Op(a).to
        PROVE  cycle'[j] >= 1
    <3>1. script[a].ops # <<>> /\ PastGate(Op(a))
      BY <2>2 DEF At, Op, PastGate, Moves
    <3> QED BY <1>a, <1>c, <2>2, <3>1
  <2> QED BY <1>0, <2>1, <2>2 DEF JobsAfter, PostPlan
<1>2. \A t \in DOMAIN task : task[t].job \in Jobs
  BY DEF Types, WorkerTypeOK, Row
<1>d. \A c \in finding : c.job \in Jobs
  BY DEF Types, WorkerTypeOK, Calls
<1>3. ASSUME NEW t \in DOMAIN task', task'[t].kind # "PLAN" PROVE cycle'[task'[t].job] >= 1
  <2>1. CASE t \in DOMAIN task
    BY <1>0, <1>a, <1>2, <1>3, <2>1 DEF RowsKept, Round
  <2>2. CASE t \notin DOMAIN task
    <3>1. PICK c \in finding : task'[t].job = c.job /\ task'[t].kind = c.kind
      BY <1>0, <2>2 DEF RowsKept
    <3> QED BY <1>a, <1>d, <1>3, <3>1 DEF Round
  <2> QED BY <2>1, <2>2
<1>4. ASSUME NEW c \in finding', c.kind # "PLAN" PROVE cycle'[c.job] >= 1
  <2>1. CASE c \in finding
    BY <1>a, <1>d, <1>4, <2>1 DEF Round
  <2>2. ASSUME NEW a \in DOMAIN script, At(a, "enqueue"),
               c = [by |-> a, job |-> script[a].job, kind |-> Op(a).kind]
        PROVE  cycle'[c.job] >= 1
    <3>1. c.job = script[a].job /\ c.kind = Op(a).kind
      BY <2>2
    <3>2. script[a].ops # <<>> /\ PastGate(Op(a))
      BY <1>4, <2>2, <3>1 DEF At, Op, PastGate
    <3> QED BY <1>a, <1>b, <1>c, <3>1, <3>2
  <2> QED BY <1>0, <2>1, <2>2 DEF FindingsAfter
<1>5. ASSUME NEW b \in DOMAIN script'
      PROVE  /\ script'[b].name \in TASK_KINDS \ {"PLAN"} => cycle'[script'[b].job] >= 1
             /\ GatedBy(script'[b].ops, cycle'[script'[b].job] >= 1)
  <2>1. CASE Continues(b)
    <3> DEFINE open == cycle[script[b].job] >= 1
               after == cycle'[script[b].job] >= 1
               ops == script[b].ops
               new == script'[b].ops
               name == script[b].name
               s == state[script[b].job]
    <3>1. /\ b \in DOMAIN script /\ script'[b].job = script[b].job /\ script'[b].name = name
          /\ ops \in Seq(Ops) /\ script[b].job \in Jobs
      BY <1>b, <2>1 DEF Continues
    <3>2. new \in Seq(Ops)
      BY <1>0 DEF Types, ScriptTypes, Script
    <3>3. (open => after) /\ GatedBy(ops, open) /\ (name \in TASK_KINDS \ {"PLAN"} => open)
      BY <1>a, <3>1 DEF Round
    <3>4. OpsOK(ops, name)
      BY <3>1 DEF Types, ScriptTypes, ScriptOK
    <3>5. CASE new = ops
      <4>1. GatedBy(new, after)
        BY <3>3, <3>5 DEF GatedBy
      <4> QED BY <3>1, <3>3, <4>1
    <3>6. CASE Turned(ops, new, name, s) /\ (At(b, "cycle") => after)
      <4>1. Head(ops).op = "cycle" => after
        BY <3>1, <3>6 DEF Turned, At
      <4> HIDE DEF open, after, ops, new, name, s
      <4>2. GatedBy(new, after)
        BY <3>1, <3>2, <3>3, <3>4, <3>6, <4>1, TurnedGated
      <4> QED BY <3>1, <3>3, <4>2 DEF after, new, name
    <3> QED BY <2>1, <3>5, <3>6 DEF Continues
  <2>2. CASE Begins(b)
    <3>1. ASSUME NEW kind \in RequestKinds, NEW j \in Jobs, UNCHANGED jobVars,
                 script'[b].job = j, script'[b].name = kind,
                 script'[b].ops = RequestOps(kind, j)
          PROVE  /\ script'[b].name \in TASK_KINDS \ {"PLAN"} => cycle'[script'[b].job] >= 1
                 /\ GatedBy(script'[b].ops, cycle'[script'[b].job] >= 1)
      <4>1. \A t \in DOMAIN task : task[t] \in Row /\ t \in Int
        BY QueueAssumption DEF Types, WorkerTypeOK
      <4>2. GatedBy(RequestOps(kind, j), cycle[j] >= 1)
        BY <4>1, Requested
      <4>3. kind \notin TASK_KINDS
        BY OrchestratorAssumption DEF TASK_KINDS
      <4>4. cycle'[j] = cycle[j]
        BY <3>1 DEF jobVars
      <4> QED BY <3>1, <4>2, <4>3, <4>4
    <3>2. ASSUME NEW t \in DOMAIN task, script'[b].job = task[t].job,
                 script'[b].name = task[t].kind, script'[b].ops = <<Do("process")>>
          PROVE  /\ script'[b].name \in TASK_KINDS \ {"PLAN"} => cycle'[script'[b].job] >= 1
                 /\ GatedBy(script'[b].ops, cycle'[script'[b].job] >= 1)
      <4>1. task[t].kind # "PLAN" => cycle'[task[t].job] >= 1
        BY <1>a, <1>2 DEF Round
      <4>2. \A open : GatedBy(<<Do("process")>>, open)
        BY BeginningOps DEF GatedBy, PastGate, Moves
      <4> QED BY <3>2, <4>1, <4>2
    <3>3. ASSUME script'[b].name = "exhausted", script'[b].ops = <<T("FAILED")>>
          PROVE  /\ script'[b].name \in TASK_KINDS \ {"PLAN"} => cycle'[script'[b].job] >= 1
                 /\ GatedBy(script'[b].ops, cycle'[script'[b].job] >= 1)
      <4>1. \A open : GatedBy(<<T("FAILED")>>, open)
        BY BeginningOps DEF GatedBy, PastGate, Moves, PostPlan
      <4> QED BY <3>3, <4>1 DEF TASK_KINDS
    <3> QED BY <2>2, <3>1, <3>2, <3>3 DEF Begins
  <2> QED BY <1>0, <2>1, <2>2
<1> QED BY <1>1, <1>3, <1>4, <1>5 DEF Round

\* A script of a job without rows: it goes on as one.
LEMMA TurnedEarly ==
  ASSUME NEW ops \in Seq(Ops), NEW new \in Seq(Ops), NEW name, NEW s, NEW after,
         Turned(ops, new, name, s), EarlyOnly(ops, s), s = "CANCELLED" => after = "CANCELLED"
  PROVE  EarlyOnly(new, after)
<1>0. /\ Len(ops) \in Nat /\ Len(new) \in Nat /\ 1 \in 1..Len(ops)
      /\ \A k \in 1..Len(ops) : Early(ops[k], s)
  BY WaysOn DEF EarlyOnly
<1>1. \A o : Early(o, s) => Early(o, after)
  BY DEF Early
<1>2. CASE Shorter(ops, new)
  BY <1>0, <1>1, <1>2 DEF EarlyOnly, Shorter
<1>3. CASE GoesOn(ops, new, s)
  <2>1. Early(new[1], after)
    <3>1. Early(ops[1], s)
      BY <1>0
    <3>2. CASE ops[1].op = "transition" /\ new[1].op = "write" /\ new[1].to = ops[1].to
                 /\ (ops[1].force \/ canTransition(s, ops[1].to))
      <4>1. ~ (s = "CANCELLED" /\ canTransition(s, ops[1].to))
        BY DEF canTransition, TERMINAL_STATES
      <4>2. ops[1].to = "CANCELLED"
        BY <3>1, <3>2, <4>1 DEF Early, Moves
      <4> QED BY <3>2, <4>2 DEF Early, Moves
    <3>3. CASE new[1].op = "insert"
      BY <3>3 DEF Early
    <3>4. ops[1].op # "agent"
      BY <3>1 DEF Early, Moves
    <3> QED BY <1>3, <3>2, <3>3, <3>4 DEF GoesOn
  <2>2. \A k \in 1..Len(new) : k # 1 => k \in 2..Len(ops) /\ k \in 1..Len(ops)
    BY <1>0, <1>3 DEF GoesOn
  <2> QED BY <1>0, <1>1, <1>3, <2>1, <2>2 DEF EarlyOnly, GoesOn
<1>4. ops[1].op \notin {"verified", "reviewed", "guard", "process", "context"}
  <2>1. Early(ops[1], s)
    BY <1>0
  <2> QED BY <2>1 DEF Early, Moves
<1> QED BY <1>2, <1>3, <1>4, WaysOn

\* A job without rows stays at its beginning, or cancelled.
LEMMA RowlessStep ==
  ASSUME Types, Newest, Round, Rowless, [Next]_vars
  PROVE  Rowless'
<1>0. /\ RowsKept /\ JobsAfter /\ Types' /\ [WorkerNext]_queueVars
      /\ \A b \in DOMAIN script' : Continues(b) \/ Begins(b)
  BY TypesStep, EveryJob, EveryScript
<1>a. \A j \in Jobs : HasRow(task, j) => HasRow(task', j)
  BY <1>0 DEF RowsKept, HasRow
<1>b. \A a \in DOMAIN script : script[a].job \in Jobs /\ script[a].ops \in Seq(Ops)
  BY DEF Types, ScriptTypes, Script
<1>c. \A t \in DOMAIN task : task[t].job \in Jobs /\ HasRow(task, task[t].job)
  BY DEF Types, WorkerTypeOK, Row, HasRow
<1>1. ASSUME NEW j \in Jobs, ~ HasRow(task, j)
      PROVE  /\ state[j] \in {"ABSENT", "TRIAGED", "CANCELLED"}
             /\ state'[j] \in {"ABSENT", "TRIAGED", "CANCELLED"}
             /\ state[j] = "CANCELLED" => state'[j] = "CANCELLED"
  <2>1. state[j] \in {"ABSENT", "TRIAGED", "CANCELLED"}
    BY <1>1 DEF Rowless
  <2>2. ASSUME NEW a \in DOMAIN script, script[a].job = j, At(a, "write")
        PROVE  Op(a).to = "CANCELLED"
    <3>1. EarlyOnly(script[a].ops, state[j])
      BY <1>1, <2>2 DEF Rowless
    <3>2. 1 \in 1..Len(script[a].ops) /\ Op(a) = script[a].ops[1] /\ Op(a).op = "write"
      BY <1>b, <2>2 DEF Op, At
    <3>3. Early(Op(a), state[j])
      BY <3>1, <3>2 DEF EarlyOnly
    <3> QED BY <3>2, <3>3 DEF Early
  <2>3. \/ state'[j] = state[j] \/ state'[j] = "CANCELLED"
        \/ state[j] = "ABSENT" /\ state'[j] = "TRIAGED"
    BY <1>0, <2>2 DEF JobsAfter
  <2> QED BY <2>1, <2>3
<1>2. \A j \in Jobs : ~ HasRow(task', j) => state'[j] \in {"ABSENT", "TRIAGED", "CANCELLED"}
  BY <1>a, <1>1
<1>3. ASSUME NEW b \in DOMAIN script'
      PROVE  /\ ~ HasRow(task', script'[b].job) => EarlyOnly(script'[b].ops, state'[script'[b].job])
             /\ script'[b].name \in TASK_KINDS \cup {"exhausted"} => HasRow(task', script'[b].job)
  <2>1. CASE Continues(b)
    <3> DEFINE ops == script[b].ops
               new == script'[b].ops
               name == script[b].name
               j == script[b].job
    <3>1. /\ b \in DOMAIN script /\ script'[b].job = j /\ script'[b].name = name
          /\ ops \in Seq(Ops) /\ j \in Jobs
      BY <1>b, <2>1 DEF Continues
    <3>2. new \in Seq(Ops)
      BY <1>0 DEF Types, ScriptTypes, Script
    <3>3. name \in TASK_KINDS \cup {"exhausted"} => HasRow(task', j)
      BY <1>a, <3>1 DEF Rowless
    <3>4. ASSUME ~ HasRow(task, j) PROVE EarlyOnly(new, state'[j])
      <4>1. EarlyOnly(ops, state[j]) /\ (state[j] = "CANCELLED" => state'[j] = "CANCELLED")
        BY <1>1, <3>1, <3>4 DEF Rowless
      <4>2. CASE new = ops
        BY <4>1, <4>2 DEF EarlyOnly, Early
      <4>3. CASE Turned(ops, new, name, state[j])
        <5> HIDE DEF ops, new, name, j
        <5> QED BY <3>1, <3>2, <4>1, <4>3, TurnedEarly
      <4> QED BY <2>1, <4>2, <4>3 DEF Continues
    <3> QED BY <1>a, <3>1, <3>3, <3>4
  <2>2. CASE Begins(b)
    <3>1. ASSUME NEW kind \in RequestKinds, NEW j \in Jobs, UNCHANGED <<queueVars, jobVars>>,
                 script'[b].job = j, script'[b].name = kind,
                 script'[b].ops = RequestOps(kind, j)
          PROVE  /\ ~ HasRow(task', j) => EarlyOnly(script'[b].ops, state'[j])
                 /\ script'[b].name \notin TASK_KINDS \cup {"exhausted"}
      <4>1. \A t \in DOMAIN task : task[t] \in Row /\ t \in Int
        BY QueueAssumption DEF Types, WorkerTypeOK
      <4>2. ~ HasRow(task, j) => EarlyOnly(RequestOps(kind, j), state[j])
        BY <4>1, Requested
      <4>3. kind \notin TASK_KINDS \cup {"exhausted"}
        BY OrchestratorAssumption DEF TASK_KINDS
      <4>4. state'[j] = state[j] /\ (HasRow(task, j) => HasRow(task', j))
        BY <1>a, <3>1 DEF jobVars
      <4> QED BY <3>1, <4>2, <4>3, <4>4
    <3>2. ASSUME NEW t \in DOMAIN task, script'[b].job = task[t].job
          PROVE  HasRow(task', script'[b].job)
      <4>1. HasRow(task', task[t].job)
        BY <1>a, <1>c
      <4>2. \E u \in DOMAIN task' : task'[u].job = task[t].job
        BY <4>1 DEF HasRow
      <4> QED BY <3>2, <4>2 DEF HasRow
    <3> QED BY <2>2, <3>1, <3>2 DEF Begins
  <2> QED BY <1>0, <2>1, <2>2
<1>4. ASSUME NEW x \in expired' PROVE x.task \in DOMAIN task'
  <2>1. \A t \in DOMAIN task : t \in DOMAIN task'
    BY <1>0 DEF RowsKept
  <2>2. \A y \in expired : y.task \in DOMAIN task /\ y \in Escalation
    BY DEF Rowless, Types, WorkerTypeOK
  <2>3. CASE TickExpire
    BY <2>1, <2>3 DEF TickExpire, ExpiredRows
  <2>4. ASSUME NEW y \in expired, TickEscalate(y) PROVE x.task \in DOMAIN task
    <3>1. [y EXCEPT !.pc = "notify"].task = y.task
      BY <2>2 DEF Escalation
    <3> QED BY <2>2, <2>4, <3>1 DEF TickEscalate
  <2>5. CASE expired' \subseteq expired
    BY <2>1, <2>2, <2>5
  <2> QED
    BY <1>0, <2>1, <2>3, <2>4, <2>5
    DEF WorkerNext, RunStep, queueVars, TickEscalated, TickClaim, HandlerReturns, HandlerThrows,
        Complete, FailRead, FailRetry, FailSettle, Escalate, Escalated, Heartbeat,
        BackoffElapses, LockLapses, CrashRestart, EnqueueFind, EnqueueCreate, CancelForJob
<1> QED BY <1>2, <1>3, <1>4 DEF Rowless

\* The inductive invariant of the human gate.
Gate == Types /\ Newest /\ Round /\ Rowless

\* Every step keeps the gate.
LEMMA GateStep == Gate /\ [Next]_vars => Gate'
<1> SUFFICES ASSUME Gate, [Next]_vars PROVE Gate'
  OBVIOUS
<1>1. Types /\ Newest /\ Round /\ Rowless
  BY DEF Gate
<1>2. Types' /\ RowsKept
  BY <1>1, TypesStep
<1> QED BY <1>1, <1>2, NewestStep, RoundStep, RowlessStep DEF Gate

\* The tables the jobs may be in at first: one settled row each, or none.
LEMMA InitialTable ==
  ASSUME Init
  PROVE  \E s \in Starts :
           /\ state = [j \in Jobs |-> s]
           /\ cycle = [j \in Jobs |-> IF s = "AWAITING_PR_APPROVAL" THEN 1 ELSE 0]
           /\ \E n \in 0..MaxTasks : task \in [1..n -> Row]
           /\ \A t \in DOMAIN task :
                /\ s # "ABSENT" /\ (task[t].kind # "PLAN" => s = "AWAITING_PR_APPROVAL")
                /\ task[t].status = "DONE" /\ task[t].attempts = 1 /\ task[t].lock = "none"
           /\ s # "ABSENT" =>
                \A j \in Jobs : \E t \in DOMAIN task : \A u \in DOMAIN task : task[u].job = j <=> u = t
<1>1. PICK s \in Starts : StartedAt(s)
  BY DEF Init
<1>2. s \in {"ABSENT", "AWAITING_PLAN_APPROVAL", "AWAITING_PR_APPROVAL"}
  BY OrchestratorAssumption
<1>3. ASSUME NEW k \in TASK_KINDS, NEW q \in Seeded(k)
      PROVE  /\ \E n \in 0..MaxTasks : q \in [1..n -> Row]
             /\ \A t \in DOMAIN q :
                  q[t].kind = k /\ q[t].status = "DONE" /\ q[t].attempts = 1 /\ q[t].lock = "none"
             /\ \A j \in Jobs : \E t \in DOMAIN q : \A u \in DOMAIN q : q[u].job = j <=> u = t
  <2>1. PICK n \in 0..MaxTasks : q \in [1..n -> {Seed(j, k) : j \in Jobs}]
    BY DEF Seeded
  <2>2. ASSUME NEW j \in Jobs
        PROVE  /\ Seed(j, k) \in Row /\ Seed(j, k).kind = k /\ Seed(j, k).status = "DONE"
               /\ Seed(j, k).attempts = 1 /\ Seed(j, k).lock = "none"
    <3>1. k \in Kinds /\ "DONE" \in Statuses /\ 1 \in Nat
      BY OrchestratorAssumption DEF Statuses
    <3> QED BY <3>1 DEF Seed, Row
  <2>3. \A t \in 1..n : \E j \in Jobs : q[t] = Seed(j, k)
    BY <2>1
  <2>4. q \in [1..n -> Row]
    BY <2>1, <2>2, <2>3
  <2>5. \A t \in DOMAIN q :
          q[t].kind = k /\ q[t].status = "DONE" /\ q[t].attempts = 1 /\ q[t].lock = "none"
    BY <2>1, <2>2, <2>3
  <2> QED BY <2>4, <2>5 DEF Seeded
<1>4. CASE s = "ABSENT"
  <2>1. task = <<>>
    BY <1>1, <1>4 DEF StartedAt
  <2>2. 0 \in 0..MaxTasks /\ task \in [1..0 -> Row] /\ DOMAIN task = {}
    BY <2>1, QueueAssumption
  <2> QED BY <1>1, <1>4, <2>2 DEF StartedAt
<1>5. CASE s = "AWAITING_PLAN_APPROVAL"
  <2>1. task \in Seeded("PLAN") /\ "PLAN" \in TASK_KINDS
    BY <1>1, <1>5 DEF StartedAt, TASK_KINDS
  <2>2. /\ state = [j \in Jobs |-> s]
        /\ cycle = [j \in Jobs |-> IF s = "AWAITING_PR_APPROVAL" THEN 1 ELSE 0]
    BY <1>1 DEF StartedAt
  <2>3. /\ \E n \in 0..MaxTasks : task \in [1..n -> Row]
        /\ \A t \in DOMAIN task : /\ task[t].kind = "PLAN" /\ task[t].status = "DONE"
                                 /\ task[t].attempts = 1 /\ task[t].lock = "none"
        /\ \A j \in Jobs : \E t \in DOMAIN task : \A u \in DOMAIN task : task[u].job = j <=> u = t
    BY <1>3, <2>1
  <2> QED BY <1>5, <2>2, <2>3
<1>6. CASE s = "AWAITING_PR_APPROVAL"
  <2>1. task \in Seeded("OPEN_PR") /\ "OPEN_PR" \in TASK_KINDS
    BY <1>1, <1>6 DEF StartedAt, TASK_KINDS
  <2>2. /\ state = [j \in Jobs |-> s]
        /\ cycle = [j \in Jobs |-> IF s = "AWAITING_PR_APPROVAL" THEN 1 ELSE 0]
    BY <1>1 DEF StartedAt
  <2>3. /\ \E n \in 0..MaxTasks : task \in [1..n -> Row]
        /\ \A t \in DOMAIN task :
             task[t].status = "DONE" /\ task[t].attempts = 1 /\ task[t].lock = "none"
        /\ \A j \in Jobs : \E t \in DOMAIN task : \A u \in DOMAIN task : task[u].job = j <=> u = t
    BY <1>3, <2>1
  <2> QED BY <1>6, <2>2, <2>3
<1> QED BY <1>2, <1>4, <1>5, <1>6

\* At first the gate holds, and nothing has been spent.
LEMMA GateInit == Init => Gate /\ RunningIsExecuted /\ LapseFree /\ Bounded
<1> SUFFICES ASSUME Init PROVE Gate /\ RunningIsExecuted /\ LapseFree /\ Bounded
  OBVIOUS
<1>1. PICK s \in Starts :
        /\ state = [j \in Jobs |-> s]
        /\ cycle = [j \in Jobs |-> IF s = "AWAITING_PR_APPROVAL" THEN 1 ELSE 0]
        /\ \E n \in 0..MaxTasks : task \in [1..n -> Row]
        /\ \A t \in DOMAIN task :
             /\ s # "ABSENT" /\ (task[t].kind # "PLAN" => s = "AWAITING_PR_APPROVAL")
             /\ task[t].status = "DONE" /\ task[t].attempts = 1 /\ task[t].lock = "none"
        /\ s # "ABSENT" =>
             \A j \in Jobs : \E t \in DOMAIN task : \A u \in DOMAIN task : task[u].job = j <=> u = t
  BY InitialTable
<1>2. /\ runs = {} /\ finding = {} /\ expired = {} /\ restarts = 0 /\ lapses = 0
      /\ unaddressed = [j \in Jobs |-> FALSE] /\ script = <<>> /\ arrived = 0
  BY DEF Init
<1>3. s \in {"ABSENT", "AWAITING_PLAN_APPROVAL", "AWAITING_PR_APPROVAL"} /\ DOMAIN script = {}
  BY <1>2, OrchestratorAssumption
<1>a. \A t \in DOMAIN task : t \in Int
  BY <1>1, QueueAssumption
<1>4. WorkerTypeOK
  BY <1>1, <1>2 DEF WorkerTypeOK
<1>5. Paid
  <2>1. IsFiniteSet(runs)
    BY <1>2, FS_EmptySet
  <2>2. ASSUME NEW t \in DOMAIN task PROVE RowPaid(task[t], runs, t, restarts, lapses)
    <3>1. Active(runs, t) = {} /\ Retriers(runs, t) = {}
      BY <1>2 DEF Active, Retriers, Held
    <3>2. Cardinality(Active(runs, t)) = 0 /\ Cardinality(Retriers(runs, t)) = 0
      BY <3>1, FS_EmptySet
    <3>3. task[t].status = "DONE" /\ task[t].attempts = 1
      BY <1>1
    <3>4. ~ Waits(task[t])
      BY <3>3 DEF Waits
    <3> QED BY <1>2, <3>2, <3>3, <3>4, QueueAssumption DEF RowPaid
  <2> QED BY <1>2, <2>1, <2>2 DEF Paid
<1>6. JobTypes
  <2>1. PICK z \in Starts : StartedAt(z)
    BY DEF Init
  <2>2. z \in {"ABSENT", "AWAITING_PLAN_APPROVAL", "AWAITING_PR_APPROVAL"}
    BY OrchestratorAssumption
  <2>3. plans \in [Jobs -> Seq({"PROPOSED", "APPROVED", "SUPERSEDED"})]
    <3>1. /\ <<>> \in Seq({"PROPOSED", "APPROVED", "SUPERSEDED"})
          /\ <<"PROPOSED">> \in Seq({"PROPOSED", "APPROVED", "SUPERSEDED"})
          /\ <<"APPROVED">> \in Seq({"PROPOSED", "APPROVED", "SUPERSEDED"})
      OBVIOUS
    <3> QED BY <2>1, <2>2, <3>1 DEF StartedAt
  <2>4. hasPr \in [Jobs -> BOOLEAN]
    BY <2>1 DEF StartedAt
  <2> QED BY <1>1, <1>2, <1>3, <2>3, <2>4 DEF JobTypes, JOB_STATES
<1>7. Bounds /\ ScriptTypes
  <2>1. MaxRequests \in Nat /\ MaxRestarts \in Nat /\ MaxLapses \in Nat
    BY OrchestratorAssumption, WorkerAssumption
  <2>2. Bounds
    BY <1>2, <2>1 DEF Bounds
  <2>3. script \in [DOMAIN script -> Script]
    BY <1>2, <1>3
  <2> QED BY <1>3, <2>2, <2>3 DEF ScriptTypes
<1>8. Newest
  <2>1. ASSUME NEW j \in Jobs, HasRow(task, j)
        PROVE  \E t \in DOMAIN task :
                 task[t].job = j /\ \A u \in DOMAIN task : task[u].job = j => u <= t
    <3>1. s # "ABSENT"
      BY <1>1, <2>1 DEF HasRow
    <3>2. PICK t \in DOMAIN task : \A u \in DOMAIN task : task[u].job = j <=> u = t
      BY <1>1, <3>1
    <3> QED BY <1>a, <3>2
  <2> QED BY <2>1 DEF Newest
<1>9. Round
  <2>1. RoundOpened
    BY <1>1, <1>3 DEF RoundOpened, PostPlan
  <2>2. \A t \in DOMAIN task : task[t].job \in Jobs
    BY <1>4 DEF WorkerTypeOK, Row
  <2>3. \A t \in DOMAIN task : task[t].kind # "PLAN" => cycle[task[t].job] >= 1
    BY <1>1, <2>2
  <2> QED BY <1>2, <1>3, <2>1, <2>3 DEF Round
<1>10. Rowless
  <2>1. ASSUME NEW j \in Jobs, ~ HasRow(task, j) PROVE s = "ABSENT"
    BY <1>1, <2>1 DEF HasRow
  <2> QED BY <1>1, <1>2, <1>3, <2>1 DEF Rowless
<1>11. RunningIsExecuted /\ LapseFree
  <2>1. MaxAttempts \in Nat \ {0}
    BY QueueAssumption
  <2> QED BY <1>1, <1>2, <2>1 DEF RunningIsExecuted, LapseFree, RowOK
<1>12. Bounded
  BY <1>2, FS_EmptySet, WorkerAssumption DEF Bounded
<1> QED BY <1>4, <1>5, <1>6, <1>7, <1>8, <1>9, <1>10, <1>11, <1>12 DEF Gate, Types

\* The gate holds of every behaviour.
LEMMA GateAlways == Spec => []Gate
BY GateInit, GateStep, PTL DEF Spec

\* The pipeline uses the queue only as Worker says: each of its steps is one of
\* the worker's, or leaves the queue alone.
THEOREM RunsOnWorkerHolds == Spec => RunsOnWorker
<1>1. Gate /\ [Next]_vars => [WorkerNext]_queueVars
  BY OnWorker DEF Gate
<1> QED BY <1>1, GateAlways, PTL DEF Spec, RunsOnWorker

\* What is proved of the worker holds of it inside the pipeline: the retry
\* budget, the bound on executions in flight, an execution behind every RUNNING
\* row, and, until a lock goes stale, one execution per task.
THEOREM WorkerInPipeline ==
  Spec => [](AttemptBudget /\ InflightBound /\ RunningIsExecuted /\ OneExecutionPerTask)
<1> DEFINE Inv == Gate /\ RunningIsExecuted /\ LapseFree /\ Bounded
<1>1. Inv /\ [Next]_vars => Inv'
  <2> SUFFICES ASSUME Inv, [Next]_vars PROVE Inv'
    OBVIOUS
  <2>1. WorkerTypeOK /\ [WorkerNext]_queueVars
    BY OnWorker DEF Gate, Types
  <2> QED BY <2>1, GateStep, ExecutedStep, LapseFreeStep, BoundedStep
<1>2. Inv => AttemptBudget /\ InflightBound /\ RunningIsExecuted /\ OneExecutionPerTask
  <2> SUFFICES ASSUME Inv
               PROVE  AttemptBudget /\ InflightBound /\ RunningIsExecuted /\ OneExecutionPerTask
    OBVIOUS
  <2>1. WorkerTypeOK /\ Paid
    BY DEF Gate, Types
  <2>2. OneExecutionPerTask
    BY DEF LapseFree, OneExecutionPerTask
  <2>3. InflightBound
    BY DEF Bounded, InflightBound
  <2> QED BY <2>1, <2>2, <2>3, PaidBudget
<1>3. Init => Inv
  BY GateInit
<1> QED BY <1>1, <1>2, <1>3, PTL DEF Spec

\* The human gate: whatever the races, the crashes and the retries, a job past
\* the plan gate is in a revision round, which only an approval or requested
\* changes open.
THEOREM RoundOpenedHolds == Spec => []RoundOpened
<1>1. Gate => RoundOpened
  BY DEF Gate, Round
<1> QED BY <1>1, GateAlways, PTL

-------------------------------------------------------------------------------
(* What carries a job on, as long as the process has not been restarted    *)
(* and no lock has outlived its TTL.                                       *)

Calm == restarts = 0 /\ lapses = 0

\* Script a is of an execution that has come to pc.
OfRun(a, pc) ==
  \E r \in runs : RunActor(r) = a /\ r.pc = pc /\ task[r.task].job = script[a].job

\* Script a is a request's, an execution's or an escalation's.
LinkedTo(a) ==
  \/ script[a].name \in RequestKinds /\ a[1] = 0 /\ a[2] \in 1..arrived
  \/ script[a].name \in TASK_KINDS /\ OfRun(a, "working")
  \/ script[a].name = "exhausted" /\ OfRun(a, "notify")

\* Every script is of one of them.
Linked == \A a \in DOMAIN script : LinkedTo(a)

\* A call of enqueue that has found no row is the script's that is to insert it.
Called ==
  /\ \A c \in finding : c.by \in DOMAIN script /\ script[c.by].job = c.job /\ At(c.by, "insert")
  /\ \A c, d \in finding : c.by = d.by => c = d

\* A task's script ends by handing the job over; a request's hands over what
\* it makes Working.
ShapeOK(ops, name) ==
  /\ name \in TASK_KINDS /\ ops # <<>> => Ends(ops[Len(ops)])
  /\ name \in RequestKinds => RequestScript(ops)

\* Every script is so.
Shape == \A a \in DOMAIN script : ShapeOK(script[a].ops, script[a].name)

\* Script a will put a row in the queue, or end the job.
Carrying(a) ==
  LET ops == script[a].ops
  IN  /\ ops # <<>>
      /\ \/ script[a].name \in TASK_KINDS
         \/ Head(ops).op \in {"enqueue", "insert", "write"}
         \/ Head(ops).op = "transition" /\ Head(ops).to \in {"FAILED", "CANCELLED"}

Waiting(q, j) == \E t \in DOMAIN q : q[t].job = j /\ q[t].status = "PENDING"

\* The pcs of an execution whose handler threw, before its escalation.
Failing == {"fail", "retry", "settle", "escalate"}

\* Something carries job j on: a row waits for its claim, an execution is
\* failing and will put its row back or escalate, or a script is at it.
Carrier(j) ==
  \/ Waiting(task, j)
  \/ \E r \in runs : task[r.task].job = j /\ r.pc \in Failing
  \/ \E a \in DOMAIN script : script[a].job = j /\ Carrying(a)

\* Every job in a working state is carried on.
Carried == \A j \in Jobs : state[j] \in Working => Carrier(j)

\* The inductive invariant of NoStrandedJob.
CarriedOn ==
  /\ Shape
  /\ Calm => Linked /\ Called /\ expired = {} /\ Carried

\* The kinds of names are apart.
LEMMA NamesApart ==
  /\ RequestKinds \cap TASK_KINDS = {} /\ "exhausted" \notin RequestKinds \cup TASK_KINDS
BY OrchestratorAssumption DEF TASK_KINDS

\* A script that goes on keeps its shape.
LEMMA TurnedShape ==
  ASSUME NEW ops \in Seq(Ops), NEW new \in Seq(Ops), NEW name, NEW s,
         Turned(ops, new, name, s), ShapeOK(ops, name)
  PROVE  ShapeOK(new, name)
<1>0. /\ Len(ops) \in Nat /\ Len(new) \in Nat /\ 1 \in 1..Len(ops) /\ ops # <<>>
      /\ new # <<>> => Len(new) \in 1..Len(new)
  BY WaysOn
<1>1. ASSUME name \in TASK_KINDS, new # <<>> PROVE Ends(new[Len(new)])
  <2>0. Ends(ops[Len(ops)])
    BY <1>0, <1>1 DEF ShapeOK
  <2>1. CASE Shorter(ops, new)
    BY <1>0, <1>1, <2>0, <2>1 DEF Shorter
  <2>2. CASE GoesOn(ops, new, s)
    <3>1. CASE Len(ops) = 1
      BY <2>0, <2>2, <3>1 DEF GoesOn, Ends, Moves
    <3>2. CASE Len(ops) # 1
      <4>1. Len(ops) \in 2..Len(ops) /\ Len(new) = Len(ops)
        BY <1>0, <2>2, <3>2 DEF GoesOn
      <4> QED BY <2>0, <2>2, <4>1 DEF GoesOn
    <3> QED BY <3>1, <3>2
  <2>3. CASE \E kind : HandlerScript(new, kind)
    BY <2>3 DEF HandlerScript
  <2>4. CASE new \in {<<>>, <<Do("context")>>}
    BY <1>1, <2>4, ContextOnly DEF Ends
  <2> QED BY <2>1, <2>2, <2>3, <2>4, WaysOn
<1>2. ASSUME name \in RequestKinds PROVE RequestScript(new)
  <2>0. /\ RequestScript(ops) /\ ops[1].op \notin HandlersOnly
    BY <1>0, <1>2 DEF ShapeOK, RequestScript
  <2>1. CASE Shorter(ops, new)
    <3> SUFFICES ASSUME NEW k \in 1..Len(new)
                 PROVE  /\ new[k].op \notin HandlersOnly
                        /\ (Moves(new[k]) /\ new[k].to \in Working) \/ new[k].op = "create" =>
                             k < Len(new) /\ new[k + 1].op = "enqueue"
                        /\ new[k].op = "cancelTasks" =>
                             /\ k < Len(new) /\ new[k + 1].op = "transition"
                             /\ new[k + 1].to = "CANCELLED"
                        /\ new[k].op = "cycle" => Len(new) = k + 2
      BY DEF RequestScript
    <3>1. /\ Len(new) = Len(ops) - 1 /\ k + 1 \in 1..Len(ops) /\ new[k] = ops[k + 1]
          /\ k < Len(new) => k + 1 \in 1..Len(new)
      BY <1>0, <2>1 DEF Shorter
    <3>2. k < Len(new) => new[k + 1] = ops[k + 2]
      BY <1>0, <2>1, <3>1 DEF Shorter
    <3> DEFINE i == k + 1
    <3>3. /\ ops[i].op \notin HandlersOnly
          /\ (Moves(ops[i]) /\ ops[i].to \in Working) \/ ops[i].op = "create" =>
               i < Len(ops) /\ ops[i + 1].op = "enqueue"
          /\ ops[i].op = "cancelTasks" =>
               /\ i < Len(ops) /\ ops[i + 1].op = "transition"
               /\ ops[i + 1].to = "CANCELLED"
          /\ ops[i].op = "cycle" => Len(ops) = i + 2
      BY <2>0, <3>1 DEF RequestScript
    <3>4. /\ i + 1 = k + 2 /\ (i < Len(ops) => k < Len(new)) /\ new[k] = ops[i]
          /\ Len(ops) = i + 2 => Len(new) = k + 2
      BY <1>0, <3>1
    <3> HIDE DEF i
    <3> QED BY <3>2, <3>3, <3>4
  <2>2. CASE GoesOn(ops, new, s)
    <3>1. Len(new) = Len(ops) /\ \A k \in 2..Len(ops) : new[k] = ops[k]
      BY <2>2 DEF GoesOn
    <3> SUFFICES ASSUME NEW k \in 1..Len(new)
                 PROVE  /\ new[k].op \notin HandlersOnly
                        /\ (Moves(new[k]) /\ new[k].to \in Working) \/ new[k].op = "create" =>
                             k < Len(new) /\ new[k + 1].op = "enqueue"
                        /\ new[k].op = "cancelTasks" =>
                             /\ k < Len(new) /\ new[k + 1].op = "transition"
                             /\ new[k + 1].to = "CANCELLED"
                        /\ new[k].op = "cycle" => Len(new) = k + 2
      BY DEF RequestScript
    <3>2. /\ ops[k].op \notin HandlersOnly
          /\ (Moves(ops[k]) /\ ops[k].to \in Working) \/ ops[k].op = "create" =>
               k < Len(ops) /\ ops[k + 1].op = "enqueue"
          /\ ops[k].op = "cancelTasks" =>
               /\ k < Len(ops) /\ ops[k + 1].op = "transition"
               /\ ops[k + 1].to = "CANCELLED"
          /\ ops[k].op = "cycle" => Len(ops) = k + 2
      BY <2>0, <3>1 DEF RequestScript
    <3>3. k < Len(ops) => k + 1 \in 2..Len(ops)
      BY <1>0, <3>1
    <3>4. CASE k # 1
      <4>1. new[k] = ops[k]
        BY <1>0, <3>1, <3>4
      <4> QED BY <3>1, <3>2, <3>3, <4>1
    <3>5. CASE k = 1
      <4>1. /\ new[1].op \in {"write", "insert"}
            /\ new[1].op = "write" => Moves(ops[1]) /\ ops[1].to = new[1].to
        BY <2>0, <2>2 DEF GoesOn, HandlersOnly, Moves
      <4> QED BY <3>1, <3>2, <3>3, <3>5, <4>1 DEF HandlersOnly, Moves
    <3> QED BY <3>4, <3>5
  <2> QED BY <2>0, <2>1, <2>2, WaysOn DEF HandlersOnly
<1> QED BY <1>1, <1>2 DEF ShapeOK

\* Every step keeps the scripts' shapes.
LEMMA ShapeStep == Gate /\ Shape /\ [Next]_vars => Shape'
<1> SUFFICES ASSUME Gate, Shape, [Next]_vars, NEW b \in DOMAIN script'
             PROVE  ShapeOK(script'[b].ops, script'[b].name)
  BY DEF Shape
<1>0. /\ Types /\ Newest /\ Round /\ Rowless /\ Types'
      /\ \A c \in DOMAIN script' : Continues(c) \/ Begins(c)
  BY TypesStep, EveryScript DEF Gate
<1>1. \A t \in DOMAIN task : task[t] \in Row /\ t \in Int
  BY <1>0, QueueAssumption DEF Types, WorkerTypeOK
<1>2. CASE Continues(b)
  <2> DEFINE ops == script[b].ops
             new == script'[b].ops
             name == script[b].name
             s == state[script[b].job]
  <2>1. b \in DOMAIN script /\ ops \in Seq(Ops) /\ new \in Seq(Ops) /\ script'[b].name = name
    BY <1>0, <1>2 DEF Continues, Types, ScriptTypes, Script
  <2>2. ShapeOK(ops, name)
    BY <2>1 DEF Shape
  <2>3. new = ops \/ Turned(ops, new, name, s)
    BY <1>2 DEF Continues
  <2> HIDE DEF ops, new, name, s
  <2>4. ShapeOK(new, name)
    BY <2>1, <2>2, <2>3, TurnedShape
  <2> QED BY <2>1, <2>4 DEF new, name
<1>3. ASSUME NEW kind \in RequestKinds, NEW j \in Jobs,
             script'[b].name = kind, script'[b].ops = RequestOps(kind, j)
      PROVE  ShapeOK(script'[b].ops, script'[b].name)
  <2>1. RequestScript(RequestOps(kind, j))
    BY <1>0, <1>1, Requested
  <2> QED BY <1>3, <2>1, NamesApart DEF ShapeOK
<1>4. ASSUME NEW t \in DOMAIN task, script'[b].name = task[t].kind,
             script'[b].ops = <<Do("process")>>
      PROVE  ShapeOK(script'[b].ops, script'[b].name)
  <2>1. task[t].kind \in TASK_KINDS
    BY <1>1, OrchestratorAssumption DEF Row
  <2> QED BY <1>4, <2>1, NamesApart, BeginningOps DEF ShapeOK, Ends
<1>5. ASSUME script'[b].name = "exhausted" PROVE ShapeOK(script'[b].ops, script'[b].name)
  BY <1>5, NamesApart DEF ShapeOK
<1> QED BY <1>0, <1>2, <1>3, <1>4, <1>5 DEF Begins

\* As long as no lock has gone stale, executions are told apart by their actors
\* and nothing waits behind an execution in flight.
LEMMA Exclusive ==
  ASSUME Gate, LapseFree, lapses = 0
  PROVE  /\ \A r \in runs : /\ r.task \in DOMAIN task /\ r.task \in TaskIds /\ r.task # 0
                            /\ task[r.task].status # "PENDING"
         /\ \A r, s \in runs : RunActor(r) = RunActor(s) => r = s
         /\ \A r, s \in runs : r.task = s.task => r = s
         /\ ExpiredRows(task) = {}
         /\ \A t \in Claimable(task) : task[t].status = "PENDING"
<1>1. runs \subseteq Execution
  BY DEF Gate, Types, WorkerTypeOK
<1>2. /\ \A t \in DOMAIN task : task[t].lock # "stale"
      /\ \A r \in runs : r.task \in DOMAIN task /\ task[r.task].status # "PENDING"
      /\ \A r, s \in runs : r.task = s.task => r = s
  BY DEF LapseFree, RowOK, RunOK
<1>3. \A r \in runs : r.task \in TaskIds /\ r.task # 0
  BY <1>1, QueueAssumption DEF Execution, TaskIds
<1>4. \A r, s \in runs : RunActor(r) = RunActor(s) => r.task = s.task
  BY DEF RunActor
<1> QED BY <1>2, <1>3, <1>4 DEF ExpiredRows, Claimable

\* A script that stays is of what it was of, if that stays.
LEMMA LinkedKept ==
  ASSUME Gate, Gate', RowsKept, NEW b \in DOMAIN script, LinkedTo(b),
         script'[b].name = script[b].name, script'[b].job = script[b].job,
         arrived' >= arrived,
         \A r \in runs : RunActor(r) = b /\ r.pc \in {"working", "notify"} => r \in runs'
  PROVE  LinkedTo(b)'
<1>0. arrived \in Nat /\ arrived' \in Nat
  BY OrchestratorAssumption DEF Gate, Types, Bounds
<1>1. \A r \in runs : r.task \in DOMAIN task /\ task'[r.task].job = task[r.task].job
  BY DEF Gate, Types, Paid, RowsKept
<1>2. \A pc \in {"working", "notify"} : OfRun(b, pc) => OfRun(b, pc)'
  BY <1>1 DEF OfRun, RunActor
<1>3. CASE script[b].name \in RequestKinds /\ b[1] = 0 /\ b[2] \in 1..arrived
  BY <1>0, <1>3 DEF LinkedTo
<1> QED BY <1>2, <1>3 DEF LinkedTo

\* What a step does that is no script's: the scripts stay, and so does what
\* they are of, the calls and what carries the jobs.
Alongside ==
  /\ \A b \in DOMAIN script : b \in DOMAIN script' /\ script'[b] = script[b]
  /\ \A b \in DOMAIN script' \ DOMAIN script : LinkedTo(b)'
  /\ \A r \in runs : r.pc \in {"working", "notify"} => r \in runs'
  /\ finding' = finding /\ expired' = {} /\ state' = state /\ arrived' >= arrived
  /\ \A j \in Jobs : Carrier(j) => Carrier(j)'

\* Such a step keeps the links.
LEMMA AlongsideKeeps ==
  ASSUME Gate, Gate', RowsKept, Linked, Called, Carried, Alongside
  PROVE  Linked' /\ Called' /\ expired' = {} /\ Carried'
<1>1. ASSUME NEW b \in DOMAIN script' PROVE LinkedTo(b)'
  <2>1. CASE b \in DOMAIN script
    <3>1. LinkedTo(b)
      BY <2>1 DEF Linked
    <3>2. /\ script'[b] = script[b] /\ arrived' >= arrived
          /\ \A r \in runs : r.pc \in {"working", "notify"} => r \in runs'
      BY <2>1 DEF Alongside
    <3> QED BY <2>1, <3>1, <3>2, LinkedKept
  <2> QED BY <2>1 DEF Alongside
<1>2. Called'
  BY DEF Called, Alongside, At
<1>3. Carried'
  BY DEF Carried, Alongside
<1> QED BY <1>1, <1>2, <1>3 DEF Linked, Alongside

\* Scripts stay where no new one takes their place.
LEMMA Untouched ==
  ASSUME NEW started, script' = With(started), DOMAIN started \cap DOMAIN script = {}
  PROVE  /\ \A b \in DOMAIN script : b \in DOMAIN script' /\ script'[b] = script[b]
         /\ DOMAIN script' = DOMAIN script \cup DOMAIN started
         /\ \A b \in DOMAIN started : script'[b] = started[b]
BY DEF With

\* What carries a job still does, if the rows that wait and the executions
\* that fail do, or something else does.
LEMMA CarrierKept ==
  ASSUME Gate, RowsKept, NEW j \in Jobs, Carrier(j),
         \A b \in DOMAIN script : b \in DOMAIN script' /\ script'[b] = script[b],
         Waiting(task, j) => Carrier(j)',
         \A r \in runs : task[r.task].job = j /\ r.pc \in Failing => Carrier(j)'
  PROVE  Carrier(j)'
<1>1. ASSUME NEW a \in DOMAIN script, script[a].job = j, Carrying(a) PROVE Carrier(j)'
  BY <1>1 DEF Carrier, Carrying
<1> QED BY <1>1 DEF Carrier

\* A request is called by a number no other script has.
LEMMA ArriveAlongside ==
  ASSUME Gate, Gate', RowsKept, Linked, expired = {}, NEW kind \in RequestKinds, NEW j \in Jobs,
         Arrive(kind, j),
         \A r \in runs : r.task # 0
  PROVE  Alongside
<1> DEFINE a == <<0, arrived + 1>>
           e == [job |-> j, name |-> kind, ops |-> RequestOps(kind, j)]
           started == [c \in {a} |-> e]
<1>0. arrived \in Nat
  BY OrchestratorAssumption DEF Gate, Types, Bounds
<1>1. /\ script' = With(started) /\ DOMAIN started = {a} /\ started[a] = e /\ e.name = kind
      /\ arrived' = arrived + 1 /\ UNCHANGED <<queueVars, jobVars>>
  BY DEF Arrive
<1>2. a \notin DOMAIN script
  <2> SUFFICES ASSUME a \in DOMAIN script PROVE FALSE
    OBVIOUS
  <2>1. a[1] = 0 /\ a[2] = arrived + 1
    OBVIOUS
  <2>2. a[1] # 0 \/ a[2] \in 1..arrived
    BY DEF Linked, LinkedTo, OfRun, RunActor
  <2> QED BY <1>0, <2>1, <2>2
<1>3. a[1] = 0 /\ a[2] \in 1..arrived'
  BY <1>0, <1>1
<1> HIDE DEF a, e, started
<1>4. /\ \A b \in DOMAIN script : b \in DOMAIN script' /\ script'[b] = script[b]
      /\ DOMAIN script' = DOMAIN script \cup {a} /\ script'[a] = e
  BY <1>1, <1>2, Untouched
<1>5. \A b \in DOMAIN script' \ DOMAIN script : LinkedTo(b)'
  BY <1>1, <1>3, <1>4 DEF LinkedTo
<1>6. ASSUME NEW i \in Jobs, Carrier(i) PROVE Carrier(i)'
  <2>1. task' = task /\ runs' = runs
    BY <1>1 DEF queueVars
  <2>2. Waiting(task, i) => Carrier(i)'
    BY <2>1 DEF Carrier, Waiting
  <2>3. \A r \in runs : task[r.task].job = i /\ r.pc \in Failing => Carrier(i)'
    BY <2>1 DEF Carrier
  <2> QED BY <1>4, <1>6, <2>2, <2>3, CarrierKept
<1> QED BY <1>0, <1>1, <1>4, <1>5, <1>6 DEF Alongside, queueVars, jobVars

\* The scripts of the executions of batch S begin next to those there are.
Dispatched(S) ==
  /\ \A b \in DOMAIN script : b \in DOMAIN script' /\ script'[b] = script[b]
  /\ DOMAIN script' = DOMAIN script \cup {<<t, task[t].attempts + 1>> : t \in S}
  /\ \A t \in S :
       /\ t \in DOMAIN task /\ t \in TaskIds /\ t # 0 /\ task[t] \in Row
       /\ task[t].status = "PENDING" /\ task'[t].job = task[t].job
  /\ \A t \in S : \A b : b = <<t, task[t].attempts + 1>> =>
       /\ b \notin DOMAIN script /\ b \in DOMAIN script' /\ b[1] = t
       /\ script'[b].job = task[t].job /\ script'[b].name = task[t].kind
       /\ script'[b].ops = <<Do("process")>>

\* A claim starts them so.
LEMMA ClaimStarts ==
  ASSUME Gate, LapseFree, Linked, lapses = 0, NEW S \in SUBSET TaskIds, Claim(S)
  PROVE  Dispatched(S)
<1> DEFINE B == {<<t, task[t].attempts + 1>> : t \in S}
           e(c) == [job |-> task[c[1]].job, name |-> task[c[1]].kind, ops |-> <<Do("process")>>]
           started == [c \in B |-> e(c)]
<1>0. TickClaim(S) /\ WorkerTypeOK
  BY DEF Claim, Gate, Types
<1>1. /\ {RunActor(r) : r \in Started(S)} = B
      /\ \A t \in S : /\ t \in DOMAIN task /\ t \in TaskIds /\ task[t] \in Row
                      /\ task'[t].job = task[t].job
  BY <1>0, StartedActors
<1>2. script' = With(started) /\ DOMAIN started = B
  BY <1>1 DEF Claim
<1>3. \A t \in S : task[t].status = "PENDING" /\ t # 0
  BY <1>0, <1>1, Exclusive, QueueAssumption DEF TickClaim, TaskIds
<1>4. B \cap DOMAIN script = {}
  <2> SUFFICES ASSUME NEW t \in S, <<t, task[t].attempts + 1>> \in DOMAIN script PROVE FALSE
    OBVIOUS
  <2> DEFINE b == <<t, task[t].attempts + 1>>
  <2>1. b \in DOMAIN script /\ b[1] = t
    OBVIOUS
  <2> HIDE DEF b
  <2>2. b[1] # 0
    BY <1>3, <2>1
  <2>3. PICK r \in runs : RunActor(r) = b
    BY <2>1, <2>2 DEF Linked, LinkedTo, OfRun
  <2>4. r.task = t
    BY <2>1, <2>3 DEF RunActor
  <2> QED BY <1>3, <2>4, Exclusive
<1>5. /\ \A b \in DOMAIN script : b \in DOMAIN script' /\ script'[b] = script[b]
      /\ DOMAIN script' = DOMAIN script \cup B
      /\ \A b \in B : script'[b] = started[b]
  <2> HIDE DEF started, B
  <2> QED BY <1>2, <1>4, Untouched
<1>6. ASSUME NEW t \in S, NEW b, b = <<t, task[t].attempts + 1>>
      PROVE  /\ b \notin DOMAIN script /\ b \in DOMAIN script' /\ b[1] = t
             /\ script'[b].job = task[t].job /\ script'[b].name = task[t].kind
             /\ script'[b].ops = <<Do("process")>>
  <2>1. b \in B /\ b[1] = t
    BY <1>6
  <2>2. script'[b] = started[b] /\ started[b] = e(b) /\ b \in DOMAIN script' /\ b \notin DOMAIN script
    <3> HIDE DEF B, e
    <3> QED BY <1>4, <1>5, <2>1
  <2>3. e(b).job = task[t].job /\ e(b).name = task[t].kind /\ e(b).ops = <<Do("process")>>
    BY <2>1
  <2> HIDE DEF e, started, B
  <2> QED BY <2>1, <2>2, <2>3
<1> QED BY <1>1, <1>3, <1>5, <1>6 DEF Dispatched

\* And each carries the job its row did.
LEMMA ClaimAlongside ==
  ASSUME Gate, Gate', RowsKept, LapseFree, Linked, lapses = 0, expired = {},
         NEW S \in SUBSET TaskIds, Claim(S)
  PROVE  Alongside
<1>0. TickClaim(S) /\ UNCHANGED <<jobVars, arrived>>
  BY DEF Claim
<1>a. Dispatched(S)
  BY ClaimStarts
<1>5. /\ \A b \in DOMAIN script : b \in DOMAIN script' /\ script'[b] = script[b]
      /\ DOMAIN script' = DOMAIN script \cup {<<t, task[t].attempts + 1>> : t \in S}
  BY <1>a DEF Dispatched
<1>6. ASSUME NEW t \in S, NEW b, b = <<t, task[t].attempts + 1>>
      PROVE  /\ LinkedTo(b)' /\ b \in DOMAIN script' /\ Carrying(b)'
             /\ script'[b].job = task[t].job
  <2>1. /\ script'[b].job = task[t].job /\ script'[b].name = task[t].kind
        /\ script'[b].ops = <<Do("process")>> /\ b \in DOMAIN script'
        /\ task[t] \in Row /\ task'[t].job = task[t].job
    BY <1>a, <1>6 DEF Dispatched
  <2>3. task[t].kind \in TASK_KINDS
    BY <2>1, OrchestratorAssumption DEF Row
  <2> DEFINE r == [task |-> t, attempt |-> task[t].attempts + 1, pc |-> "working"]
  <2>4. r \in runs' /\ r.task = t /\ r.pc = "working" /\ <<r.task, r.attempt>> = b
    BY <1>0, <1>6 DEF TickClaim, Started
  <2> HIDE DEF r
  <2>5. OfRun(b, "working")'
    BY <2>1, <2>4 DEF OfRun, RunActor
  <2>6. LinkedTo(b)'
    BY <2>1, <2>3, <2>5 DEF LinkedTo
  <2>7. Carrying(b)'
    BY <2>1, <2>3, BeginningOps DEF Carrying
  <2> QED BY <2>1, <2>6, <2>7
<1>7. \A b \in DOMAIN script' \ DOMAIN script : LinkedTo(b)'
  BY <1>5, <1>6
<1>8. ASSUME NEW i \in Jobs, Carrier(i) PROVE Carrier(i)'
  <2>1. ASSUME NEW t \in DOMAIN task, task[t].job = i, task[t].status = "PENDING"
        PROVE  Carrier(i)'
    <3>1. CASE t \in S
      BY <1>6, <2>1, <3>1 DEF Carrier
    <3>2. CASE t \notin S
      <4>1. task' = Claimed(task, S)
        BY <1>0 DEF TickClaim
      <4>2. task'[t] = task[t] /\ t \in DOMAIN task'
        BY <2>1, <3>2, <4>1 DEF Claimed
      <4> QED BY <2>1, <4>2 DEF Carrier, Waiting
    <3> QED BY <3>1, <3>2
  <2>2. ASSUME NEW r \in runs, task[r.task].job = i, r.pc \in Failing PROVE Carrier(i)'
    <3>1. r \in runs' /\ task'[r.task].job = i
      BY <1>0, <2>2, Exclusive DEF TickClaim, RowsKept
    <3> QED BY <2>2, <3>1 DEF Carrier
  <2> QED BY <1>5, <1>8, <2>1, <2>2, CarrierKept DEF Waiting
<1>9. /\ \A r \in runs : r \in runs'
      /\ finding' = finding /\ expired' = {}
  BY <1>0 DEF TickClaim
<1>10. arrived \in Nat
  BY OrchestratorAssumption DEF Gate, Types, Bounds
<1> QED BY <1>0, <1>5, <1>7, <1>8, <1>9, <1>10 DEF Alongside, jobVars

\* The escalation of a task starts where its execution's script is over.
LEMMA EscalationAlongside ==
  ASSUME Gate, Gate', RowsKept, LapseFree, Linked, lapses = 0, expired = {},
         NEW r \in runs, RunExhausted(r)
  PROVE  Alongside
<1> DEFINE a == RunActor(r)
           e == [job |-> task[r.task].job, name |-> "exhausted", ops |-> <<T("FAILED")>>]
           started == [c \in {a} |-> e]
           s == [r EXCEPT !.pc = "notify"]
<1>0. /\ Escalate(r) /\ UNCHANGED <<jobVars, arrived>>
      /\ r \in Execution /\ r.task \in DOMAIN task /\ r.task # 0
  BY Exclusive DEF RunExhausted, Gate, Types, WorkerTypeOK
<1>1. /\ script' = With(started) /\ DOMAIN started = {a} /\ started[a] = e
      /\ e.name = "exhausted" /\ e.job = task[r.task].job /\ e.ops = <<T("FAILED")>>
  BY DEF RunExhausted, Exhaust
<1>2. /\ s.pc = "notify" /\ s.task = r.task /\ s.attempt = r.attempt
      /\ runs' = (runs \ {r}) \cup {s} /\ r.pc = "escalate"
      /\ task' = CancelledFor(task, task[r.task].job)
      /\ finding' = finding /\ expired' = expired
  BY <1>0 DEF Escalate, Goto, Execution
<1>3. a \notin DOMAIN script
  <2> SUFFICES ASSUME a \in DOMAIN script PROVE FALSE
    OBVIOUS
  <2>1. a[1] # 0
    BY <1>0 DEF RunActor
  <2>2. PICK x \in runs : RunActor(x) = a /\ x.pc \in {"working", "notify"}
    BY <2>1 DEF Linked, LinkedTo, OfRun
  <2>3. x = r
    BY <2>2, Exclusive
  <2> QED BY <1>2, <2>2, <2>3
<1> HIDE DEF e, started, s
<1>4. /\ \A b \in DOMAIN script : b \in DOMAIN script' /\ script'[b] = script[b]
      /\ DOMAIN script' = DOMAIN script \cup {a} /\ script'[a] = e
  <2> HIDE DEF a
  <2> QED BY <1>1, <1>3, Untouched
<1>5. task'[r.task].job = task[r.task].job
  BY <1>0 DEF RowsKept
<1>6. LinkedTo(a)'
  <2>1. s \in runs' /\ <<s.task, s.attempt>> = a /\ script'[a].job = task'[s.task].job
    BY <1>1, <1>2, <1>4, <1>5 DEF RunActor
  <2> HIDE DEF a
  <2>2. OfRun(a, "notify")'
    BY <1>2, <2>1 DEF OfRun, RunActor
  <2> QED BY <1>1, <1>4, <2>2 DEF LinkedTo
<1> HIDE DEF a
<1>7. ASSUME NEW i \in Jobs, Carrier(i) PROVE Carrier(i)'
  <2>1. CASE i = task[r.task].job
    <3>1. /\ script'[a].job = i /\ script'[a].ops = <<T("FAILED")>> /\ a \in DOMAIN script'
      BY <1>1, <1>4, <2>1
    <3>2. /\ Head(<<T("FAILED")>>).op = "transition" /\ Head(<<T("FAILED")>>).to = "FAILED"
          /\ <<T("FAILED")>> # <<>>
      BY BeginningOps
    <3>3. Carrying(a)'
      BY <3>1, <3>2 DEF Carrying
    <3> QED BY <3>1, <3>3 DEF Carrier
  <2>2. CASE i # task[r.task].job
    <3>1. Waiting(task, i) => Waiting(task', i)
      BY <1>2, <2>2 DEF Waiting, CancelledFor
    <3>2. ASSUME NEW x \in runs, task[x.task].job = i, x.pc \in Failing PROVE Carrier(i)'
      <4>1. x \in runs' /\ task'[x.task].job = i
        BY <1>2, <2>2, <3>2, Exclusive DEF RowsKept
      <4> QED BY <3>2, <4>1 DEF Carrier
    <3>3. Waiting(task, i) => Carrier(i)'
      BY <3>1 DEF Carrier
    <3> QED BY <1>4, <1>7, <3>2, <3>3, CarrierKept
  <2> QED BY <2>1, <2>2
<1>8. \A x \in runs : x.pc \in {"working", "notify"} => x \in runs'
  BY <1>2
<1>9. arrived \in Nat
  BY OrchestratorAssumption DEF Gate, Types, Bounds
<1> QED BY <1>0, <1>2, <1>4, <1>6, <1>7, <1>8, <1>9 DEF Alongside, jobVars

\* The worker on its own carries on what it carried.
LEMMA WorkerAlongside ==
  ASSUME Gate, Gate', RowsKept, LapseFree, Calm, Calm', expired = {}, WorkerAlone
  PROVE  Alongside
<1>0. /\ UNCHANGED <<jobVars, script, arrived>> /\ arrived \in Nat /\ runs \subseteq Execution
      /\ lapses = 0 /\ lapses' = 0
      /\ \A t \in DOMAIN task : t \in DOMAIN task' /\ task'[t].job = task[t].job
  BY OrchestratorAssumption
  DEF WorkerAlone, Gate, Types, Bounds, WorkerTypeOK, Calm, RowsKept
<1>a. /\ \A r \in runs : r.task \in DOMAIN task /\ task[r.task].status # "PENDING"
      /\ ExpiredRows(task) = {}
  BY <1>0, Exclusive
<1>b. DOMAIN task \subseteq TaskIds /\ \A t \in DOMAIN task : task[t] \in Row
  BY QueueAssumption DEF Gate, Types, WorkerTypeOK, TaskIds
<1>1. ASSUME \A r \in runs : r.pc \in {"working", "notify"} => r \in runs',
             finding' = finding, expired' = {},
             \A t \in DOMAIN task : task[t].status = "PENDING" => task'[t].status = "PENDING",
             \A r \in runs : r.pc \in Failing =>
               \/ \E s \in runs' : s.task = r.task /\ s.pc \in Failing
               \/ task'[r.task].status = "PENDING"
      PROVE  Alongside
  <2>1. ASSUME NEW j \in Jobs, Carrier(j) PROVE Carrier(j)'
    <3>1. Waiting(task, j) => Carrier(j)'
      BY <1>0, <1>1 DEF Carrier, Waiting
    <3>2. ASSUME NEW r \in runs, task[r.task].job = j, r.pc \in Failing PROVE Carrier(j)'
      <4>1. r.task \in DOMAIN task' /\ task'[r.task].job = j
        BY <1>0, <1>a, <3>2
      <4> QED BY <1>1, <3>2, <4>1 DEF Carrier, Waiting
    <3> QED BY <1>0, <2>1, <3>1, <3>2, CarrierKept
  <2> QED BY <1>0, <1>1, <2>1 DEF Alongside, jobVars
<1>2. CASE TickExpire
  BY <1>a, <1>2 DEF TickExpire
<1>3. ASSUME NEW r \in runs, Complete(r) PROVE Alongside
  <2>1. runs' = runs \ {r} /\ r.pc = "complete" /\ finding' = finding /\ expired' = {}
    BY <1>3 DEF Complete, End
  <2>2. \A t \in DOMAIN task : task[t].status = "PENDING" => task'[t].status = "PENDING"
    BY <1>3, <1>a DEF Complete, Completed
  <2> QED BY <1>1, <2>1, <2>2 DEF Failing
<1>4. ASSUME NEW r \in runs, NEW from \in Failing, NEW pc \in Failing, r.pc = from, Goto(r, pc),
             \A t \in DOMAIN task : task[t].status = "PENDING" => task'[t].status = "PENDING",
             finding' = finding, expired' = {}
      PROVE  Alongside
  <2> DEFINE s == [r EXCEPT !.pc = pc]
  <2>1. runs' = (runs \ {r}) \cup {s} /\ s.task = r.task /\ s.pc = pc
    BY <1>0, <1>4 DEF Goto, Execution
  <2> HIDE DEF s
  <2>2. \A x \in runs : x.pc \in {"working", "notify"} => x \in runs'
    BY <1>4, <2>1 DEF Failing
  <2>3. \A x \in runs : x.pc \in Failing => \E y \in runs' : y.task = x.task /\ y.pc \in Failing
    BY <1>4, <2>1
  <2> QED BY <1>1, <1>4, <2>2, <2>3
<1>5. ASSUME NEW r \in runs, FailRead(r) PROVE Alongside
  <2>1. PICK pc \in {"retry", "settle"} : Goto(r, pc)
    BY <1>5 DEF FailRead
  <2>2. r.pc = "fail" /\ pc \in Failing /\ task' = task /\ finding' = finding /\ expired' = {}
    BY <1>5 DEF FailRead, Failing
  <2> QED BY <1>4, <2>1, <2>2 DEF Failing
<1>6. ASSUME NEW r \in runs, FailRetry(r) PROVE Alongside
  <2>1. /\ runs' = runs \ {r} /\ r.pc = "retry" /\ finding' = finding /\ expired' = {}
        /\ task' = Retried(task, r.task)
    BY <1>6 DEF FailRetry, End
  <2>2. /\ task'[r.task].status = "PENDING"
        /\ \A t \in DOMAIN task : task[t].status = "PENDING" => task'[t].status = "PENDING"
    BY <1>a, <1>b, <2>1 DEF Retried, Row
  <2> QED BY <1>1, <2>1, <2>2
<1>7. ASSUME NEW r \in runs, FailSettle(r) PROVE Alongside
  <2>1. Goto(r, "escalate") /\ r.pc = "settle" /\ finding' = finding /\ expired' = {}
    BY <1>7 DEF FailSettle
  <2>2. \A t \in DOMAIN task : task[t].status = "PENDING" => task'[t].status = "PENDING"
    BY <1>7, <1>a DEF FailSettle, Settled
  <2> QED BY <1>4, <2>1, <2>2 DEF Failing
<1>8. ASSUME NEW r \in runs, Heartbeat(r) PROVE Alongside
  <2>1. \A t \in DOMAIN task : task[t].status = "PENDING" => task'[t].status = "PENDING"
    BY <1>8, <1>a, <1>b DEF Heartbeat, Refreshed, Row
  <2> QED BY <1>1, <1>8, <2>1 DEF Heartbeat
<1>9. ASSUME NEW t \in TaskIds, BackoffElapses(t) PROVE Alongside
  <2>1. \A u \in DOMAIN task : task[u].status = "PENDING" => task'[u].status = "PENDING"
    BY <1>9, <1>b DEF BackoffElapses, Row
  <2> QED BY <1>1, <1>9, <2>1 DEF BackoffElapses
<1>10. ASSUME NEW t \in TaskIds, LockLapses(t) PROVE FALSE
  BY <1>0, <1>10 DEF LockLapses
<1> QED BY <1>2, <1>3, <1>5, <1>6, <1>7, <1>8, <1>9, <1>10 DEF WorkerAlone

\* A script's step is the one its next operation asks for.
LEMMA StepAt ==
  ASSUME NEW a \in DOMAIN script, ScriptStep(a)
  PROVE  /\ At(a, "transition") => TransitionRead(a)
         /\ At(a, "write") => TransitionWrite(a)
         /\ At(a, "enqueue") => EnqueueStart(a)
         /\ At(a, "insert") => EnqueueInsert(a)
         /\ At(a, "cancelTasks") => CancelTasks(a)
         /\ At(a, "create") => CreateJob(a)
         /\ At(a, "process") => ProcessTask(a)
<1>1. /\ ProcessTask(a) => At(a, "process")
      /\ Context(a) => At(a, "context")
      /\ TransitionRead(a) => At(a, "transition")
      /\ TransitionWrite(a) => At(a, "write")
      /\ EnqueueStart(a) => At(a, "enqueue")
      /\ EnqueueInsert(a) => At(a, "insert")
      /\ CancelTasks(a) => At(a, "cancelTasks")
      /\ AgentStart(a) => At(a, "agent")
      /\ AgentSucceeds(a) => At(a, "await")
      /\ AgentFails(a) => At(a, "await")
      /\ Decide(a) => At(a, "verified") \/ At(a, "reviewed")
      /\ OpenPrGuard(a) => At(a, "guard")
      /\ CreateJob(a) => At(a, "create")
      /\ PlanStatement(a) => At(a, "propose") \/ At(a, "approvePlans") \/ At(a, "supersede")
      /\ JobStatement(a) => At(a, "cycle") \/ At(a, "savePr") \/ At(a, "feedback")
  BY DEF ProcessTask, Context, TransitionRead, TransitionWrite, EnqueueStart, EnqueueInsert,
         CancelTasks, AgentStart, AgentSucceeds, AgentFails, Decide, OpenPrGuard, CreateJob,
         PlanStatement, JobStatement
<1>2. Return(a) => \A x : ~ At(a, x)
  BY DEF Return, At
<1>3. \A x, y : At(a, x) /\ At(a, y) => x = y
  BY OneOp
<1> QED BY <1>1, <1>2, <1>3, ZenonT(60) DEF ScriptStep

\* A script ends where its method returns or throws.
LEMMA Departs ==
  ASSUME NEW a \in DOMAIN script, ScriptStep(a), script' = Without(a)
  PROVE  \/ Return(a)
         \/ Throw(a) /\ (\E x \in {"await", "create", "transition"} : At(a, x))
<1>1. \A ops : ~ Become(a, ops)
  BY DEF Become, Without
<1> QED
  BY <1>1
  DEF ScriptStep, Advance, ProcessTask, Context, TransitionRead, TransitionWrite, EnqueueStart,
      EnqueueInsert, CancelTasks, AgentStart, AgentSucceeds, AgentFails, Decide, OpenPrGuard,
      CreateJob, PlanStatement, JobStatement

\* What a script's step does to the executions and to the rows that wait.
LEMMA QueueAfter ==
  ASSUME Types, expired = {}, NEW a \in DOMAIN script, Acts(a)
  PROVE  /\ \A r \in runs : r.pc \in Failing => r \in runs'
         /\ \A r \in runs : RunActor(r) # a => r \in runs'
         /\ Turns(a) => runs' = runs
         /\ expired' = {}
         /\ \A j \in Jobs :
              Waiting(task, j) /\ (j # script[a].job \/ ~ At(a, "cancelTasks"))
                => Waiting(task', j)
<1>0. QueueMoves(a) /\ (Turns(a) => script' # Without(a))
  <2>1. \A ops : Become(a, ops) => script' # Without(a)
    BY DEF Become, Without
  <2> QED BY <2>1 DEF Acts, Turns
<1>1. ASSUME NEW r \in runs, HandlerReturns(r) \/ HandlerThrows(r) \/ Escalated(r), RunActor(r) = a
      PROVE  /\ \A s \in runs : s # r => s \in runs'
             /\ r.pc \notin Failing /\ task' = task /\ expired' = expired
  BY <1>1 DEF HandlerReturns, HandlerThrows, Escalated, Goto, End, Failing
<1>2. ASSUME \/ task' = task
             \/ task' = CancelledFor(task, script[a].job) /\ At(a, "cancelTasks")
             \/ \E c \in finding, t \in TaskIds : EnqueueCreate(c, t)
      PROVE  \A j \in Jobs :
               Waiting(task, j) /\ (j # script[a].job \/ ~ At(a, "cancelTasks"))
                 => Waiting(task', j)
  <2>1. CASE task' = task
    BY <2>1
  <2>2. CASE task' = CancelledFor(task, script[a].job) /\ At(a, "cancelTasks")
    BY <2>2 DEF CancelledFor, Waiting
  <2>3. ASSUME NEW c \in finding, NEW t \in TaskIds, EnqueueCreate(c, t)
        PROVE  \A j \in Jobs : Waiting(task, j) => Waiting(task', j)
    <3>1. t \notin DOMAIN task /\ task' = Created(task, t, c.job, c.kind)
      BY <2>3, QueueAssumption DEF EnqueueCreate, IsNextId, TaskIds
    <3>2. \A u \in DOMAIN task : u \in DOMAIN task' /\ task'[u] = task[u]
      BY <3>1 DEF Created
    <3> QED BY <3>2 DEF Waiting
  <2> QED BY <1>2, <2>1, <2>2, <2>3
<1>3. CASE /\ script' = Without(a)
           /\ \E r \in RunOf(a) : HandlerReturns(r) \/ HandlerThrows(r) \/ Escalated(r)
  <2>1. PICK r \in runs : RunActor(r) = a /\ (HandlerReturns(r) \/ HandlerThrows(r) \/ Escalated(r))
    BY <1>3 DEF RunOf
  <2> QED BY <1>0, <1>1, <1>3, <2>1
<1>4. CASE \E x \in ExpiredOf(a) : TickEscalated(x)
  BY <1>4 DEF ExpiredOf
<1>5. CASE \/ UNCHANGED queueVars
           \/ EnqueueFind(a, script[a].job, Op(a).kind)
           \/ \E c \in finding, t \in TaskIds : c.by = a /\ EnqueueCreate(c, t)
           \/ At(a, "cancelTasks") /\ CancelForJob(script[a].job)
  <2>1. runs' = runs /\ expired' = expired
    BY <1>5 DEF queueVars, EnqueueFind, EnqueueCreate, CancelForJob
  <2>2. \/ task' = task
        \/ task' = CancelledFor(task, script[a].job) /\ At(a, "cancelTasks")
        \/ \E c \in finding, t \in TaskIds : EnqueueCreate(c, t)
    BY <1>5 DEF queueVars, EnqueueFind, CancelForJob
  <2> QED BY <1>2, <2>1, <2>2
<1> QED BY <1>0, <1>3, <1>4, <1>5 DEF QueueMoves

\* After a script's step every script is still of what it was of.
LEMMA ScriptLinked ==
  ASSUME Gate, Gate', RowsKept, Linked, expired = {}, NEW a \in DOMAIN script, ScriptStep(a)
  PROVE  Linked'
<1>0. Types /\ Acts(a) /\ arrived' = arrived /\ arrived \in Nat
  BY Acting, OrchestratorAssumption DEF Gate, Types, Bounds
<1>1. /\ \A r \in runs : RunActor(r) # a => r \in runs'
      /\ Turns(a) => runs' = runs
  BY <1>0, QueueAfter
<1>2. ASSUME NEW b \in DOMAIN script'
      PROVE  /\ b \in DOMAIN script /\ script'[b].name = script[b].name
             /\ script'[b].job = script[b].job
             /\ \A r \in runs : RunActor(r) = b => r \in runs'
  <2>1. CASE script' = Without(a)
    <3>1. b \in DOMAIN script /\ b # a /\ script'[b] = script[b]
      BY <1>0, <2>1, Removed DEF Types, ScriptTypes
    <3> QED BY <1>1, <3>1
  <2>2. CASE Turns(a)
    <3>1. PICK new \in Seq(Ops) : Become(a, new)
      BY <2>2 DEF Turns
    <3>2. /\ b \in DOMAIN script /\ script'[a].name = script[a].name
          /\ script'[a].job = script[a].job /\ (b # a => script'[b] = script[b])
      BY <1>0, <3>1, Replaced DEF Types, ScriptTypes
    <3> QED BY <1>1, <2>2, <3>2
  <2> QED BY <1>0, <2>1, <2>2 DEF Acts
<1>3. ASSUME NEW b \in DOMAIN script' PROVE LinkedTo(b)'
  <2>1. LinkedTo(b)
    BY <1>2 DEF Linked
  <2> QED BY <1>0, <1>2, <2>1, LinkedKept
<1> QED BY <1>3 DEF Linked

\* So is every call of enqueue.
LEMMA ScriptCalled ==
  ASSUME Gate, Gate', Called, NEW a \in DOMAIN script, ScriptStep(a), [Next]_vars
  PROVE  Called'
<1>0. Types /\ Acts(a) /\ FindingsAfter
  BY Acting, EveryFinding DEF Gate
<1>a. \A b \in DOMAIN script : b # a => b \in DOMAIN script' /\ script'[b] = script[b]
  <2>1. CASE script' = Without(a)
    BY <2>1 DEF Without
  <2>2. CASE Turns(a)
    BY <1>0, <2>2, Replaced DEF Turns, Types, ScriptTypes
  <2> QED BY <1>0, <2>1, <2>2 DEF Acts
<1>1. ASSUME NEW c \in finding, c \in finding'
      PROVE  /\ c.by # a /\ c.by \in DOMAIN script' /\ script'[c.by] = script[c.by]
  <2>1. CASE c.by = a
    <3>1. At(a, "insert")
      BY <2>1 DEF Called
    <3>2. EnqueueInsert(a)
      BY <3>1, StepAt
    <3>3. PICK d \in finding, t \in TaskIds : d.by = a /\ EnqueueCreate(d, t)
      BY <3>2 DEF EnqueueInsert
    <3>4. d = c
      BY <2>1, <3>3 DEF Called
    <3> QED BY <1>1, <3>3, <3>4 DEF EnqueueCreate
  <2>2. CASE c.by # a
    BY <1>a, <2>2 DEF Called
  <2> QED BY <2>1, <2>2
<1>2. ASSUME NEW c \in finding', c \notin finding
      PROVE  /\ c.by = a /\ a \in DOMAIN script' /\ script'[a].job = c.job
             /\ script'[a].ops # <<>> /\ Head(script'[a].ops).op = "insert"
  <2>1. At(a, "enqueue") /\ EnqueueStart(a)
    <3>1. ~ At(a, "enqueue") => finding' \subseteq finding
      <4> SUFFICES ASSUME ~ At(a, "enqueue") PROVE finding' \subseteq finding
        OBVIOUS
      <4> QED BY <1>0
          DEF Acts, QueueMoves, queueVars, HandlerReturns, HandlerThrows, Escalated,
              TickEscalated, EnqueueCreate, CancelForJob
    <3> QED BY <1>2, <3>1, StepAt
  <2>2. /\ EnqueueFind(a, script[a].job, Op(a).kind)
        /\ Become(a, <<Do("insert")>> \o Rest(a))
    BY <1>2, <2>1 DEF EnqueueStart, queueVars
  <2>3. c = [by |-> a, job |-> script[a].job, kind |-> Op(a).kind]
    BY <1>2, <2>2 DEF EnqueueFind
  <2> DEFINE o == Do("insert")
             new == <<o>> \o Rest(a)
  <2>4. o \in Ops /\ o.op = "insert"
    BY OtherOps DEF Statements
  <2>5. new \in Seq(Ops) /\ Rest(a) = Tail(script[a].ops) /\ script[a].ops \in Seq(Ops)
        /\ script[a].ops # <<>>
    <3> HIDE DEF o
    <3> QED BY <1>0, <2>1, <2>4, NextOp
  <2>6. /\ Len(new) = Len(script[a].ops) /\ new[1] = o /\ Len(script[a].ops) # 0
    <3> HIDE DEF o
    <3> QED BY <2>4, <2>5, RestOps
  <2>7. new # <<>> /\ Head(new) = o
    <3> HIDE DEF new, o
    <3> QED BY <2>5, <2>6
  <2>8. script'[a].ops = new /\ script'[a].job = script[a].job /\ a \in DOMAIN script'
    <3>1. Become(a, new)
      BY <2>2
    <3> HIDE DEF new
    <3> QED BY <1>0, <2>5, <3>1, Replaced DEF Types, ScriptTypes
  <2> HIDE DEF new, o
  <2> QED BY <2>3, <2>4, <2>7, <2>8
<1>3. \A c \in finding' :
        c.by \in DOMAIN script' /\ script'[c.by].job = c.job /\ At(c.by, "insert")'
  BY <1>1, <1>2 DEF Called, At
<1>4. \A c, d \in finding' : c.by = d.by => c = d
  <2> SUFFICES ASSUME NEW c \in finding', NEW d \in finding', c.by = d.by PROVE c = d
    OBVIOUS
  <2>1. CASE c \in finding /\ d \in finding
    BY <2>1 DEF Called
  <2>2. CASE c \notin finding /\ d \notin finding
    BY <1>0, <1>2, <2>2 DEF FindingsAfter
  <2>3. CASE c \in finding /\ d \notin finding
    BY <1>1, <1>2, <2>3
  <2>4. CASE c \notin finding /\ d \in finding
    BY <1>1, <1>2, <2>4
  <2> QED BY <2>1, <2>2, <2>3, <2>4
<1> QED BY <1>3, <1>4 DEF Called

\* A task's script goes on until the operation that hands the job over.
LEMMA TaskGoesOn ==
  ASSUME NEW ops \in Seq(Ops), NEW new \in Seq(Ops), NEW name \in TASK_KINDS, NEW s,
         Turned(ops, new, name, s), ShapeOK(ops, name),
         Head(ops).op \notin {"enqueue", "insert", "process"},
         ~ (Moves(Head(ops)) /\ Head(ops).to \notin Working)
  PROVE  new # <<>>
<1> SUFFICES ASSUME new = <<>> PROVE FALSE
  OBVIOUS
<1>0. ops # <<>> /\ Len(ops) \in Nat /\ Len(new) = 0
  BY DEF Turned
<1>1. /\ Len(Tail(ops)) = Len(ops) - 1 /\ Head(ops) = ops[1]
      /\ \A o \in Ops : Len(<<o>> \o Tail(ops)) = Len(ops)
  BY <1>0, RestOps
<1>2. Len(ops) # 0
  BY <1>0
<1>3. /\ Head(ops).op \notin {"process", "context", "verified", "reviewed", "agent"}
      /\ new = Tail(ops)
  BY <1>0, <1>1, <1>2 DEF Turned, HandlerScript
<1>4. Len(ops) = 1
  <2>1. Len(new) = Len(ops) - 1
    BY <1>1, <1>3, Zenon
  <2> QED BY <1>0, <2>1
<1>5. Ends(ops[1])
  BY <1>0, <1>4 DEF ShapeOK
<1> QED BY <1>1, <1>3, <1>5 DEF Ends

\* A request that moves a job to a working state hands it over next, and one
\* that cancels its tasks cancels it next.
LEMMA RequestGoesOn ==
  ASSUME NEW ops \in Seq(Ops), ops # <<>>, RequestScript(ops),
         \/ Moves(Head(ops)) /\ Head(ops).to \in Working
         \/ Head(ops).op \in {"create", "cancelTasks"}
  PROVE  /\ Tail(ops) # <<>>
         /\ \/ Head(Tail(ops)).op = "enqueue"
            \/ Head(Tail(ops)).op = "transition" /\ Head(Tail(ops)).to = "CANCELLED"
<1>1. /\ 1 \in 1..Len(ops) /\ Head(ops) = ops[1] /\ Len(Tail(ops)) = Len(ops) - 1
      /\ \A k \in 1..Len(Tail(ops)) : Tail(ops)[k] = ops[k + 1]
      /\ Tail(ops) \in Seq(Ops) /\ Len(ops) \in Nat
  BY RestOps
<1>2. /\ 1 < Len(ops)
      /\ \/ ops[1 + 1].op = "enqueue"
         \/ ops[1 + 1].op = "transition" /\ ops[1 + 1].to = "CANCELLED"
  BY <1>1 DEF RequestScript
<1>3. 1 \in 1..Len(Tail(ops)) /\ Tail(ops)[1] = ops[1 + 1]
  BY <1>1, <1>2
<1>4. Tail(ops) # <<>> /\ Head(Tail(ops)) = Tail(ops)[1]
  <2> DEFINE rest == Tail(ops)
  <2>1. rest \in Seq(Ops) /\ 1 \in 1..Len(rest)
    BY <1>1, <1>3
  <2> HIDE DEF rest
  <2>2. rest # <<>> /\ Head(rest) = rest[1]
    BY <2>1
  <2> QED BY <2>2 DEF rest
<1> QED BY <1>2, <1>3, <1>4

\* What carries a job besides a script's own step goes on doing so.
LEMMA OthersCarry ==
  ASSUME Gate, RowsKept, expired = {}, NEW a \in DOMAIN script, Acts(a), NEW j \in Jobs,
         \/ Waiting(task, j) /\ (j # script[a].job \/ ~ At(a, "cancelTasks"))
         \/ \E r \in runs : task[r.task].job = j /\ r.pc \in Failing
         \/ \E b \in DOMAIN script : b # a /\ script[b].job = j /\ Carrying(b)
  PROVE  Carrier(j)'
<1>0. Types
  BY DEF Gate
<1>1. /\ \A r \in runs : r.pc \in Failing => r \in runs'
      /\ Waiting(task, j) /\ (j # script[a].job \/ ~ At(a, "cancelTasks")) => Waiting(task', j)
  BY <1>0, QueueAfter
<1>2. CASE Waiting(task, j) /\ (j # script[a].job \/ ~ At(a, "cancelTasks"))
  BY <1>1, <1>2 DEF Carrier
<1>3. CASE \E r \in runs : task[r.task].job = j /\ r.pc \in Failing
  <2>1. PICK r \in runs : task[r.task].job = j /\ r.pc \in Failing
    BY <1>3
  <2>2. r \in runs' /\ task'[r.task].job = j
    BY <1>0, <1>1, <2>1 DEF Types, Paid, RowsKept
  <2> QED BY <2>1, <2>2 DEF Carrier
<1>4. CASE \E b \in DOMAIN script : b # a /\ script[b].job = j /\ Carrying(b)
  <2>1. PICK b \in DOMAIN script : b # a /\ script[b].job = j /\ Carrying(b)
    BY <1>4
  <2>2. b \in DOMAIN script' /\ script'[b] = script[b]
    <3>1. CASE script' = Without(a)
      BY <2>1, <3>1 DEF Without
    <3>2. CASE Turns(a)
      BY <1>0, <2>1, <3>2, Replaced DEF Turns, Types, ScriptTypes
    <3> QED BY <3>1, <3>2 DEF Acts
  <2>3. Carrying(b)'
    BY <2>1, <2>2 DEF Carrying
  <2> QED BY <2>1, <2>2, <2>3 DEF Carrier
<1> QED BY <1>2, <1>3, <1>4

\* A handler that throws leaves its execution failing.
LEMMA ThrowCarries ==
  ASSUME Gate, Gate', RowsKept, LapseFree, lapses = 0, Linked, NEW a \in DOMAIN script,
         script[a].name \in TASK_KINDS, Throw(a), NEW j, j = script[a].job
  PROVE  Carrier(j)'
<1>1. OfRun(a, "working")
  BY NamesApart DEF Linked, LinkedTo
<1>2. PICK r \in runs : RunActor(r) = a /\ r.pc = "working" /\ task[r.task].job = script[a].job
  BY <1>1 DEF OfRun
<1>3. PICK s \in RunOf(a) : HandlerThrows(s)
  BY <1>2 DEF Throw, RunOf
<1>4. s = r
  BY <1>2, <1>3, Exclusive DEF RunOf
<1> DEFINE e == [r EXCEPT !.pc = "fail"]
<1>5. r \in Execution /\ r.task \in DOMAIN task
  BY Exclusive DEF Gate, Types, WorkerTypeOK
<1>6. e \in runs' /\ e.pc = "fail" /\ e.task = r.task
  BY <1>3, <1>4, <1>5 DEF HandlerThrows, Goto, Execution
<1>7. task'[r.task].job = task[r.task].job
  BY <1>5 DEF RowsKept
<1> HIDE DEF e
<1>8. task'[e.task].job = j
  BY <1>2, <1>6, <1>7
<1> QED BY <1>6, <1>8 DEF Carrier, Failing

\* After a script's step every job is still carried on.
LEMMA ScriptCarried ==
  ASSUME Gate, Gate', RowsKept, LapseFree, Calm, Shape, Linked, Called, expired = {}, Carried,
         NEW a \in DOMAIN script, ScriptStep(a)
  PROVE  Carried'
<1> DEFINE ja == script[a].job
           ops == script[a].ops
           name == script[a].name
<1>0. Types /\ Acts(a) /\ JobMoves(a) /\ lapses = 0
  BY Acting DEF Gate, Acts, Calm
<1>a. /\ script[a] \in Script /\ ja \in Jobs /\ ops \in Seq(Ops) /\ name \in Names
      /\ OpsOK(ops, name) /\ state \in [Jobs -> JOB_STATES \cup {"ABSENT"}]
  BY <1>0 DEF Types, ScriptTypes, ScriptOK, Script, JobTypes
<1>b. ShapeOK(ops, name)
  BY DEF Shape
<1>c. name \in RequestKinds \/ name = "exhausted" \/ name \in TASK_KINDS
  BY <1>a DEF Names
<1>1. ASSUME NEW j \in Jobs, j # ja, state'[j] \in Working PROVE Carrier(j)'
  <2>1. state'[j] = state[j]
    BY <1>0, <1>a, <1>1 DEF JobMoves
  <2>2. Carrier(j)
    BY <1>1, <2>1 DEF Carried
  <2> QED BY <1>0, <1>1, <2>2, OthersCarry DEF Carrier
<1>2. ASSUME NEW i \in Jobs, i = ja, state'[i] \in Working PROVE Carrier(i)'
  <2>1. ASSUME ops # <<>>, Turns(a),
               \A new \in Seq(Ops) : Turned(ops, new, name, state[ja]) /\ Become(a, new) =>
                 /\ new # <<>>
                 /\ \/ name \in TASK_KINDS
                    \/ Head(new).op \in {"enqueue", "insert", "write"}
                    \/ Head(new).op = "transition" /\ Head(new).to \in {"FAILED", "CANCELLED"}
        PROVE  Carrier(i)'
    <3>1. PICK new \in Seq(Ops) : Become(a, new) /\ Turned(ops, new, name, state[ja])
      BY <2>1 DEF Turns
    <3>2. /\ a \in DOMAIN script' /\ script'[a].ops = new /\ script'[a].job = ja
          /\ script'[a].name = name
      BY <1>0, <3>1, Replaced DEF Types, ScriptTypes
    <3>3. Carrying(a)'
      BY <2>1, <3>1, <3>2 DEF Carrying
    <3> QED BY <1>2, <3>2, <3>3 DEF Carrier
  <2>2. ASSUME Advance(a), ops # <<>>, name # "exhausted", Turns(a),
               \/ Moves(Head(ops)) /\ Head(ops).to \in Working
               \/ Head(ops).op \in {"create", "cancelTasks"}
        PROVE  Carrier(i)'
    <3> SUFFICES ASSUME NEW new \in Seq(Ops), Turned(ops, new, name, state[ja]), Become(a, new)
                 PROVE  /\ new # <<>>
                        /\ \/ name \in TASK_KINDS
                           \/ Head(new).op \in {"enqueue", "insert", "write"}
                           \/ /\ Head(new).op = "transition"
                              /\ Head(new).to \in {"FAILED", "CANCELLED"}
      BY <2>1, <2>2
    <3>1. new = Tail(ops)
      <4>1. script'[a].ops = new
        BY <1>0, Replaced DEF Types, ScriptTypes
      <4>2. Tail(ops) \in Seq(Ops)
        BY <1>a, <2>2
      <4>3. script'[a].ops = Tail(ops)
        BY <1>0, <2>2, <4>2, Replaced DEF Types, ScriptTypes, Advance, Rest
      <4> QED BY <4>1, <4>3
    <3>2. CASE name \in TASK_KINDS
      <4>1. /\ Head(ops).op \notin {"enqueue", "insert", "process"}
            /\ ~ (Moves(Head(ops)) /\ Head(ops).to \notin Working)
        BY <2>2 DEF Moves
      <4> HIDE DEF ops, name, ja
      <4> QED BY <1>a, <1>b, <3>2, <4>1, TaskGoesOn
    <3>3. CASE name \in RequestKinds
      <4>1. RequestScript(ops)
        BY <1>b, <3>3 DEF ShapeOK
      <4> HIDE DEF ops, name, ja
      <4> QED BY <1>a, <2>2, <3>1, <4>1, RequestGoesOn
    <3> QED BY <1>c, <2>2, <3>2, <3>3
  <2>3. ASSUME name = "exhausted", ops # <<>> PROVE Moves(Head(ops)) /\ Head(ops).to = "FAILED"
    <3>1. 1 \in 1..Len(ops) /\ Head(ops) = ops[1]
      BY <1>a, <2>3
    <3> QED BY <1>a, <2>3, <3>1 DEF OpsOK
  <2>4. ASSUME state'[ja] = state[ja], ~ At(a, "cancelTasks"), ~ Carrying(a) PROVE Carrier(i)'
    <3>1. Carrier(i)
      BY <1>2, <2>4 DEF Carried
    <3> QED BY <1>0, <1>2, <2>4, <3>1, OthersCarry DEF Carrier
  <2>5. CASE At(a, "write")
    <3>1. TransitionWrite(a) /\ ops # <<>> /\ Head(ops) = Op(a) /\ Head(ops).op = "write"
      BY <2>5, StepAt DEF At, Op
    <3>2. Head(ops).to \in Working /\ Advance(a)
      BY <1>2, <1>a, <3>1 DEF TransitionWrite
    <3>3. Turns(a)
      BY <1>0, <2>5, <3>2, Advanced
    <3>4. name # "exhausted"
      BY <2>3, <3>1, <3>2 DEF Working
    <3> QED BY <2>2, <3>1, <3>2, <3>3, <3>4 DEF Moves
  <2>6. CASE At(a, "create")
    <3>1. CreateJob(a) /\ ops # <<>> /\ Head(ops).op = "create"
      BY <2>6, StepAt DEF At
    <3>2. name # "exhausted"
      BY <2>3, <3>1 DEF Moves
    <3>3. CASE state[ja] = "ABSENT"
      <4>1. Advance(a) /\ Turns(a)
        BY <1>0, <2>6, <3>1, <3>3, Advanced DEF CreateJob
      <4> QED BY <2>2, <3>1, <3>2, <4>1
    <3>4. CASE state[ja] # "ABSENT"
      <4>1. Throw(a) /\ state' = state
        BY <3>1, <3>4 DEF CreateJob
      <4>2. CASE name \in TASK_KINDS
        BY <1>0, <1>2, <4>1, <4>2, ThrowCarries
      <4>3. CASE name \notin TASK_KINDS
        <5>1. ~ Carrying(a) /\ ~ At(a, "cancelTasks")
          BY <2>6, <3>1, <4>3, OneOp DEF Carrying
        <5> QED BY <2>4, <4>1, <5>1
      <4> QED BY <4>2, <4>3
    <3> QED BY <3>3, <3>4
  <2>7. CASE At(a, "cancelTasks")
    <3>1. CancelTasks(a) /\ ops # <<>> /\ Head(ops).op = "cancelTasks"
      BY <2>7, StepAt DEF At
    <3>2. name # "exhausted"
      BY <2>3, <3>1 DEF Moves
    <3>3. Advance(a) /\ Turns(a)
      BY <1>0, <2>7, <3>1, Advanced DEF CancelTasks
    <3> QED BY <2>2, <3>1, <3>2, <3>3
  <2>8. CASE ~ At(a, "write") /\ ~ At(a, "create") /\ ~ At(a, "cancelTasks")
    <3>1. state' = state /\ state[ja] \in Working
      BY <1>0, <1>2, <2>8 DEF JobMoves
    <3>2. CASE ~ Carrying(a)
      BY <2>4, <2>8, <3>1, <3>2
    <3>3. CASE Carrying(a)
      <4>1. ops # <<>> /\ Op(a) = Head(ops)
        BY <3>3 DEF Carrying, Op
      <4>2. ASSUME script' = Without(a) PROVE Throw(a)
        BY <4>1, <4>2, Departs DEF Return
      <4>3. CASE At(a, "transition")
        <5>1. TransitionRead(a) /\ Head(ops).op = "transition"
          BY <4>3, StepAt DEF At
        <5>2. name \notin TASK_KINDS => Head(ops).to \in {"FAILED", "CANCELLED"}
          BY <3>3, <5>1 DEF Carrying
        <5>3. CASE state[ja] = Op(a).to
          <6>1. Advance(a) /\ Turns(a)
            BY <1>0, <4>3, <5>1, <5>3, Advanced DEF TransitionRead
          <6>2. Head(ops).to \in Working /\ name \in TASK_KINDS
            BY <3>1, <4>1, <5>2, <5>3 DEF Working
          <6>3. name # "exhausted"
            BY <6>2, NamesApart
          <6> QED BY <2>2, <4>1, <5>1, <6>1, <6>2, <6>3 DEF Moves
        <5>4. CASE Become(a, <<[op |-> "write", to |-> Op(a).to]>> \o Rest(a))
          <6> DEFINE o == [op |-> "write", to |-> Op(a).to]
                     new == <<o>> \o Rest(a)
          <6>1. o \in Ops /\ o.op = "write" /\ Rest(a) = Tail(ops)
            <7>1. Op(a) \in Ops /\ Op(a).op = "transition" /\ Rest(a) = Tail(ops)
              BY <1>0, <4>3, NextOp
            <7>2. Op(a).to \in JOB_STATES
              BY <7>1, OpFields
            <7> QED BY <7>1, <7>2, MoveOps
          <6>2. new \in Seq(Ops) /\ Len(new) = Len(ops) /\ new[1] = o /\ Len(ops) # 0
            <7> HIDE DEF o, ops
            <7> QED BY <1>a, <4>1, <6>1, RestOps
          <6>3. new # <<>> /\ Head(new) = o
            <7> HIDE DEF new, o
            <7> QED BY <6>2
          <6>4. /\ a \in DOMAIN script' /\ script'[a].ops = new /\ script'[a].job = ja
            <7>1. Become(a, new)
              BY <5>4
            <7> HIDE DEF new
            <7> QED BY <1>0, <6>2, <7>1, Replaced DEF Types, ScriptTypes
          <6> HIDE DEF new, o
          <6>5. Carrying(a)'
            BY <6>1, <6>3, <6>4 DEF Carrying
          <6> QED BY <1>2, <6>4, <6>5 DEF Carrier
        <5>5. CASE Throw(a) /\ ~ canTransition(state[ja], Op(a).to)
          <6>1. canTransition(state[ja], "FAILED") /\ canTransition(state[ja], "CANCELLED")
            BY <3>1 DEF canTransition, Working, TERMINAL_STATES
          <6>2. name \in TASK_KINDS
            BY <4>1, <5>2, <5>5, <6>1
          <6> QED BY <1>0, <1>2, <5>5, <6>2, ThrowCarries
        <5> QED BY <5>1, <5>3, <5>4, <5>5 DEF TransitionRead
      <4>4. CASE At(a, "enqueue")
        <5>1. EnqueueStart(a)
          BY <4>4, StepAt
        <5>2. CASE HasPending(task, ja, Op(a).kind)
          <6>1. Waiting(task, i)
            BY <1>2, <5>2 DEF HasPending, Waiting
          <6> QED BY <1>0, <1>2, <2>8, <6>1, OthersCarry
        <5>3. CASE ~ HasPending(task, ja, Op(a).kind)
          <6> DEFINE o == Do("insert")
                     new == <<o>> \o Rest(a)
          <6>1. o \in Ops /\ o.op = "insert" /\ Rest(a) = Tail(ops)
            BY <1>0, <4>4, NextOp, OtherOps DEF Statements
          <6>2. new \in Seq(Ops) /\ Len(new) = Len(ops) /\ new[1] = o /\ Len(ops) # 0
            <7> HIDE DEF o, ops
            <7> QED BY <1>a, <4>1, <6>1, RestOps
          <6>3. new # <<>> /\ Head(new) = o
            <7> HIDE DEF new, o
            <7> QED BY <6>2
          <6>4. /\ a \in DOMAIN script' /\ script'[a].ops = new /\ script'[a].job = ja
            <7>1. Become(a, new)
              BY <5>1, <5>3 DEF EnqueueStart
            <7> HIDE DEF new
            <7> QED BY <1>0, <6>2, <7>1, Replaced DEF Types, ScriptTypes
          <6> HIDE DEF new, o
          <6>5. Carrying(a)'
            BY <6>1, <6>3, <6>4 DEF Carrying
          <6> QED BY <1>2, <6>4, <6>5 DEF Carrier
        <5> QED BY <5>2, <5>3
      <4>5. CASE At(a, "insert")
        <5>1. PICK c \in finding, t \in TaskIds : c.by = a /\ EnqueueCreate(c, t)
          BY <4>5, StepAt DEF EnqueueInsert
        <5>2. c.job = ja
          BY <5>1 DEF Called
        <5>3. t \in DOMAIN task' /\ task'[t] = NewRow(ja, c.kind)
          BY <5>1, <5>2 DEF EnqueueCreate, Created
        <5>4. task'[t].job = ja /\ task'[t].status = "PENDING"
          BY <5>3 DEF NewRow
        <5> QED BY <1>2, <5>3, <5>4 DEF Carrier, Waiting
      <4>6. CASE ~ At(a, "transition") /\ ~ At(a, "enqueue") /\ ~ At(a, "insert")
        <5>1. /\ Head(ops).op \notin {"transition", "enqueue", "insert", "write"}
          BY <2>8, <4>1, <4>6 DEF At
        <5>2. name \in TASK_KINDS
          BY <3>3, <5>1 DEF Carrying
        <5>3. CASE script' = Without(a)
          BY <1>0, <1>2, <4>2, <5>2, <5>3, ThrowCarries
        <5>4. CASE Turns(a)
          <6>1. ASSUME NEW new \in Seq(Ops), Turned(ops, new, name, state[ja]), Become(a, new)
                PROVE  new # <<>>
            <7>1. CASE Head(ops).op = "process"
              <8>1. ProcessTask(a)
                BY <4>1, <7>1, StepAt DEF At
              <8>2. Become(a, <<Do("context")>>)
                BY <3>1, <8>1 DEF ProcessTask, Working, TERMINAL_STATES
              <8>3. script'[a].ops = new
                BY <1>0, <6>1, Replaced DEF Types, ScriptTypes
              <8>4. script'[a].ops = <<Do("context")>>
                <9>1. <<Do("context")>> \in Seq(Ops)
                  BY OtherOps DEF Statements
                <9> QED BY <1>0, <8>2, <9>1, Replaced DEF Types, ScriptTypes
              <8> QED BY <8>3, <8>4, ContextOnly
            <7>2. CASE Head(ops).op # "process"
              <8>1. /\ Head(ops).op \notin {"enqueue", "insert", "process"}
                    /\ ~ (Moves(Head(ops)) /\ Head(ops).to \notin Working)
                BY <5>1, <7>2 DEF Moves
              <8> HIDE DEF ops, name, ja
              <8> QED BY <1>a, <1>b, <5>2, <6>1, <8>1, TaskGoesOn
            <7> QED BY <7>1, <7>2
          <6> QED BY <2>1, <4>1, <5>2, <5>4, <6>1
        <5> QED BY <1>0, <5>3, <5>4 DEF Acts
      <4> QED BY <4>3, <4>4, <4>5, <4>6
    <3> QED BY <3>2, <3>3
  <2> QED BY <2>5, <2>6, <2>7, <2>8
<1> QED BY <1>1, <1>2 DEF Carried

\* Every step carries the jobs on.
LEMMA CarriedStep == Gate /\ LapseFree /\ CarriedOn /\ [Next]_vars => CarriedOn'
<1> SUFFICES ASSUME Gate, LapseFree, CarriedOn, [Next]_vars PROVE CarriedOn'
  OBVIOUS
<1>1. Shape'
  BY ShapeStep DEF CarriedOn
<1>2. Gate' /\ RowsKept /\ [WorkerNext]_queueVars
  BY GateStep, TypesStep DEF Gate
<1>3. ASSUME Calm' PROVE Linked' /\ Called' /\ expired' = {} /\ Carried'
  <2>1. Calm /\ ~ Crash
    <3>1. restarts \in Nat /\ lapses \in Nat
      BY DEF Gate, Types, WorkerTypeOK
    <3>2. restarts' >= restarts /\ lapses' >= lapses
      BY <1>2, <3>1
      DEF WorkerNext, queueVars, TickExpire, TickEscalate, TickEscalated, TickClaim, RunStep,
          HandlerReturns, HandlerThrows, Complete, FailRead, FailRetry, FailSettle, Escalate,
          Escalated, Heartbeat, BackoffElapses, LockLapses, CrashRestart, EnqueueFind,
          EnqueueCreate, CancelForJob
    <3>3. ~ Crash
      BY <1>3, <3>1 DEF Crash, CrashRestart, Calm
    <3> QED BY <1>3, <3>1, <3>2, <3>3 DEF Calm
  <2>2. Shape /\ Linked /\ Called /\ expired = {} /\ Carried /\ lapses = 0
    BY <2>1 DEF CarriedOn, Calm
  <2>3. \A r \in runs : r.task # 0
    BY <2>2, Exclusive
  <2>4. Alongside => Linked' /\ Called' /\ expired' = {} /\ Carried'
    BY <1>2, <2>2, AlongsideKeeps
  <2>5. ASSUME NEW kind \in RequestKinds, NEW j \in Jobs, Arrive(kind, j) PROVE Alongside
    BY <1>2, <2>2, <2>3, <2>5, ArriveAlongside
  <2>6. ASSUME NEW S \in SUBSET TaskIds, Claim(S) PROVE Alongside
    BY <1>2, <2>2, <2>6, ClaimAlongside
  <2>7. ASSUME NEW r \in runs, RunExhausted(r) PROVE Alongside
    BY <1>2, <2>2, <2>7, EscalationAlongside
  <2>8. CASE WorkerAlone
    BY <1>2, <1>3, <2>1, <2>2, <2>4, <2>8, WorkerAlongside
  <2>9. ASSUME NEW a \in DOMAIN script, ScriptStep(a)
        PROVE  Linked' /\ Called' /\ expired' = {} /\ Carried'
    <3>1. Linked' /\ Called'
      BY <1>2, <2>2, <2>9, ScriptLinked, ScriptCalled
    <3>2. expired' = {}
      BY <2>2, <2>9, Acting, QueueAfter DEF Gate
    <3>3. Carried'
      BY <1>2, <2>1, <2>2, <2>9, ScriptCarried
    <3> QED BY <3>1, <3>2, <3>3
  <2>10. CASE UNCHANGED vars
    BY <2>2, <2>10
    DEF vars, queueVars, jobVars, Linked, LinkedTo, OfRun, RunActor, Called, At, Carried,
        Carrier, Waiting, Carrying
  <2> QED
    BY <2>1, <2>2, <2>4, <2>5, <2>6, <2>7, <2>8, <2>9, <2>10 DEF Next
<1> QED BY <1>1, <1>3 DEF CarriedOn

\* At first no job is in a working state.
LEMMA CarriedInit == Init => CarriedOn
<1> SUFFICES ASSUME Init PROVE CarriedOn
  OBVIOUS
<1>1. PICK s \in Starts : state = [j \in Jobs |-> s]
  BY InitialTable
<1>2. script = <<>> /\ finding = {} /\ expired = {} /\ DOMAIN script = {}
  BY DEF Init
<1>3. s \notin Working
  BY OrchestratorAssumption DEF Working
<1>4. Carried
  BY <1>1, <1>3 DEF Carried
<1> QED BY <1>2, <1>4 DEF CarriedOn, Shape, Linked, Called

\* No job is stranded: until a restart or a stale lock, through every race of
\* requests, retries and failures, a job in a working state has something that
\* carries it on.  (With one of them it is not so, see StrandedJobRecovers and
\* the comment on NoStrandedJob.)
THEOREM NoStrandedJobHolds == Spec => []NoStrandedJob
<1>1. Init => LapseFree /\ CarriedOn
  BY GateInit, CarriedInit
<1>2. Gate /\ LapseFree /\ CarriedOn /\ [Next]_vars => LapseFree' /\ CarriedOn'
  <2> SUFFICES ASSUME Gate, LapseFree, CarriedOn, [Next]_vars PROVE LapseFree' /\ CarriedOn'
    OBVIOUS
  <2>1. [WorkerNext]_queueVars /\ WorkerTypeOK
    BY OnWorker DEF Gate, Types
  <2> QED BY <2>1, LapseFreeStep, CarriedStep
<1>3. Gate /\ CarriedOn => NoStrandedJob
  <2> SUFFICES ASSUME Gate, CarriedOn, restarts = 0, lapses = 0,
                      NEW j \in Jobs, state[j] \in Working
               PROVE  Outstanding(j)
    BY DEF NoStrandedJob
  <2>1. Carrier(j)
    BY DEF CarriedOn, Calm, Carried
  <2> QED BY <2>1 DEF Carrier, Waiting, Outstanding
<1> QED BY <1>1, <1>2, <1>3, GateAlways, PTL DEF Spec

-------------------------------------------------------------------------------
(* One thing at a time: what holds while humans make one request of a job  *)
(* after the other and none cancels, the process is not restarted and no   *)
(* lock outlives its TTL.  TLC refutes each of the theorems with any one   *)
(* of the four dropped (but for the cancel in ImplementsApprovedPlan).     *)

\* A script that has more to do than to store feedback.
Busy(ops) == \E k \in 1..Len(ops) : ops[k].op # "feedback"

\* The hypothesis of the theorems at the end of the module.  Requests of other
\* jobs, and comments stored for the same one, come as they like.
Serialized ==
  /\ Calm
  /\ \A a \in Requests : script[a].name # "cancel"
  /\ \A a, b \in Requests :
       script[a].job = script[b].job /\ Busy(script[a].ops) /\ Busy(script[b].ops) => a = b

\* The statuses of a job's plan revisions.
Marks(j) == {plans[j][i] : i \in DOMAIN plans[j]}

Remarked(p, status) ==
  IF "PROPOSED" \in p THEN (p \ {"PROPOSED"}) \cup {status} ELSE p

\* A task of this kind fits a job in state s with plans p.
Fits(kind, s, p) ==
  IF kind = "PLAN" THEN s \in {"TRIAGED", "PLANNING"}
  ELSE s = retryStateMap[kind] /\ "APPROVED" \in p

\* The plans fit a job that waits for a human.
GateFits(s, p) ==
  /\ s = "AWAITING_PLAN_APPROVAL" => "PROPOSED" \in p
  /\ s = "AWAITING_PR_APPROVAL" => "APPROVED" \in p

Resumed == {retryStateMap[k] : k \in TASK_KINDS}

\* What an operation makes of the state, and of the plans.
StateAfter(o, s) ==
  IF Moves(o) THEN o.to ELSE IF o.op = "create" THEN "TRIAGED" ELSE s

MarksAfter(o, p) ==
  IF o.op = "propose" THEN p \cup {"PROPOSED"}
  ELSE IF o.op = "approvePlans" THEN Remarked(p, "APPROVED")
  ELSE IF o.op = "supersede" THEN Remarked(p, "SUPERSEDED")
  ELSE p

\* The operation is right for a job in state s with plans p.
Legal(o, name, s, p) ==
  /\ o.op = "transition" =>
       /\ s # "ABSENT"
       /\ IF o.force THEN s = "FAILED" /\ o.to \in Resumed
          ELSE s = o.to \/ s \in TERMINAL_STATES \/ canTransition(s, o.to)
  /\ o.op = "write" =>
       s # "ABSENT" /\ (canTransition(s, o.to) \/ (s = "FAILED" /\ o.to \in Resumed))
  /\ o.op = "create" => s = "ABSENT"
  /\ o.op = "enqueue" => Fits(o.kind, s, p)
  /\ o.op \in {"agent", "await"} =>
       /\ name \in TASK_KINDS /\ Fits(name, s, p) /\ s = StageOf[o.phase]
       /\ o.phase = "IMPLEMENT" => "APPROVED" \in p
  /\ o.op = "verified" => Fits("VERIFY", s, p)
  /\ o.op = "reviewed" => Fits("REVIEW", s, p)
  /\ o.op = "guard" => Fits("OPEN_PR", s, p)
  /\ o.op \in {"process", "context"} => name \in TASK_KINDS /\ Fits(name, s, p)
  /\ o.op # "cancelTasks"
  /\ name \notin RequestKinds => s \in Working

\* More operations follow it, or none: an enqueue hands the job on and is the last.
Onward(o, name, s, p) == Legal(o, name, s, p) /\ o.op \notin {"enqueue", "insert"}

Finally(o, name, s, p) ==
  /\ Legal(o, name, s, p) /\ o.op # "feedback"
  /\ GateFits(StateAfter(o, s), MarksAfter(o, p))

\* From a job in state s with plans p the operations lead through the states f
\* and the plans g, each right when its turn comes.
Leads(ops, name, f, g) ==
  \A k \in 1..Len(ops) :
    /\ f[k + 1] = StateAfter(ops[k], f[k]) /\ g[k + 1] = MarksAfter(ops[k], g[k])
    /\ IF k < Len(ops) THEN Onward(ops[k], name, f[k], g[k])
       ELSE Finally(ops[k], name, f[k], g[k])

Path(ops, name, s, p) ==
  /\ \E f, g : f[1] = s /\ g[1] = p /\ Leads(ops, name, f, g)
  /\ ops = <<>> => GateFits(s, p)

\* No operations.
LEMMA PathEmpty ==
  ASSUME NEW name, NEW s, NEW p, GateFits(s, p)
  PROVE  Path(<<>>, name, s, p)
<1> DEFINE f == [k \in {1} |-> s]
           g == [k \in {1} |-> p]
<1>1. f[1] = s /\ g[1] = p /\ Leads(<<>>, name, f, g)
  BY DEF Leads
<1> HIDE DEF f, g
<1> QED BY <1>1 DEF Path

\* The first operation, and what it leads to.
LEMMA PathHead ==
  ASSUME NEW ops \in Seq(Ops), ops # <<>>, NEW name, NEW s, NEW p, Path(ops, name, s, p)
  PROVE  /\ Legal(ops[1], name, s, p)
         /\ ops[1].op \in {"enqueue", "insert"} => Len(ops) = 1
         /\ Path(Tail(ops), name, StateAfter(ops[1], s), MarksAfter(ops[1], p))
<1>0. /\ Len(ops) \in Nat /\ 1 \in 1..Len(ops) /\ Len(Tail(ops)) = Len(ops) - 1
      /\ Tail(ops) \in Seq(Ops)
      /\ \A k \in 1..Len(Tail(ops)) : k + 1 \in 1..Len(ops) /\ Tail(ops)[k] = ops[k + 1]
  <2>1. Do("cycle") \in Ops
    BY OtherOps DEF Statements
  <2> QED BY <2>1, RestOps
<1>1. PICK f, g : f[1] = s /\ g[1] = p /\ Leads(ops, name, f, g)
  BY DEF Path
<1>2. /\ f[1 + 1] = StateAfter(ops[1], s) /\ g[1 + 1] = MarksAfter(ops[1], p)
      /\ IF 1 < Len(ops) THEN Onward(ops[1], name, s, p) ELSE Finally(ops[1], name, s, p)
  BY <1>0, <1>1 DEF Leads
<1>3. /\ Legal(ops[1], name, s, p)
      /\ ops[1].op \in {"enqueue", "insert"} => Len(ops) = 1
  BY <1>0, <1>2 DEF Onward, Finally
<1> DEFINE rest == Tail(ops)
           f2 == [k \in 1..Len(ops) |-> f[k + 1]]
           g2 == [k \in 1..Len(ops) |-> g[k + 1]]
<1>4. f2[1] = f[1 + 1] /\ g2[1] = g[1 + 1]
  BY <1>0
<1>5. ASSUME NEW k \in 1..Len(rest)
      PROVE  /\ k + 1 \in 1..Len(ops) /\ k \in 1..Len(ops) /\ rest[k] = ops[k + 1]
             /\ k < Len(rest) <=> k + 1 < Len(ops)
             /\ f2[k] = f[k + 1] /\ f2[k + 1] = f[(k + 1) + 1]
             /\ g2[k] = g[k + 1] /\ g2[k + 1] = g[(k + 1) + 1]
  BY <1>0
<1> HIDE DEF f2, g2, rest
<1>6. Leads(rest, name, f2, g2)
  BY <1>1, <1>5 DEF Leads
<1>7. rest = <<>> => GateFits(StateAfter(ops[1], s), MarksAfter(ops[1], p))
  <2> SUFFICES ASSUME rest = <<>> PROVE ~ (1 < Len(ops))
    BY <1>2 DEF Finally
  <2>1. Len(rest) = Len(ops) - 1 /\ Len(ops) \in Nat
    BY <1>0 DEF rest
  <2>2. Len(rest) = 0
    OBVIOUS
  <2>3. Len(ops) = 1
    BY ONLY <2>1, <2>2
  <2> QED BY <2>3
<1>8. Path(rest, name, StateAfter(ops[1], s), MarksAfter(ops[1], p))
  BY <1>2, <1>4, <1>6, <1>7 DEF Path
<1> QED BY <1>3, <1>8 DEF rest

\* An operation before others.
LEMMA PathBefore ==
  ASSUME NEW ops \in Seq(Ops), ops # <<>>, NEW name, NEW s, NEW p,
         Path(Tail(ops), name, StateAfter(ops[1], s), MarksAfter(ops[1], p)),
         IF 1 < Len(ops) THEN Onward(ops[1], name, s, p) ELSE Finally(ops[1], name, s, p)
  PROVE  Path(ops, name, s, p)
<1>0. /\ Len(ops) \in Nat /\ 1 \in 1..Len(ops) /\ Len(Tail(ops)) = Len(ops) - 1
      /\ \A k \in 1..Len(Tail(ops)) : k + 1 \in 1..Len(ops) /\ Tail(ops)[k] = ops[k + 1]
  <2>1. Do("cycle") \in Ops
    BY OtherOps DEF Statements
  <2> QED BY <2>1, RestOps
<1> DEFINE rest == Tail(ops)
<1>1. PICK f, g : /\ f[1] = StateAfter(ops[1], s) /\ g[1] = MarksAfter(ops[1], p)
                  /\ Leads(rest, name, f, g)
  BY DEF Path
<1> DEFINE f2 == [k \in 1..(Len(ops) + 1) |-> IF k = 1 THEN s ELSE f[k - 1]]
           g2 == [k \in 1..(Len(ops) + 1) |-> IF k = 1 THEN p ELSE g[k - 1]]
<1>2. f2[1] = s /\ g2[1] = p /\ f2[1 + 1] = f[1] /\ g2[1 + 1] = g[1]
  BY <1>0
<1>3. ASSUME NEW k \in 1..Len(ops), k # 1
      PROVE  /\ k - 1 \in 1..Len(rest) /\ ops[k] = rest[k - 1]
             /\ k < Len(ops) <=> k - 1 < Len(rest)
             /\ f2[k] = f[k - 1] /\ f2[k + 1] = f[(k - 1) + 1]
             /\ g2[k] = g[k - 1] /\ g2[k + 1] = g[(k - 1) + 1]
  <2>1. k \in Nat /\ k >= 2 /\ k <= Len(ops) /\ (k - 1) + 1 = k /\ (k + 1) - 1 = k
    BY <1>0, <1>3
  <2>2. k - 1 \in 1..Len(rest) /\ k \in 1..(Len(ops) + 1) /\ k + 1 \in 1..(Len(ops) + 1)
        /\ k + 1 # 1
    BY <1>0, <2>1
  <2>3. ops[k] = rest[k - 1]
    BY <1>0, <2>1, <2>2
  <2> QED BY <1>0, <1>3, <2>1, <2>2, <2>3
<1> HIDE DEF f2, g2, rest
<1>4. Leads(ops, name, f2, g2)
  <2> SUFFICES ASSUME NEW k \in 1..Len(ops)
               PROVE  /\ f2[k + 1] = StateAfter(ops[k], f2[k])
                      /\ g2[k + 1] = MarksAfter(ops[k], g2[k])
                      /\ IF k < Len(ops) THEN Onward(ops[k], name, f2[k], g2[k])
                         ELSE Finally(ops[k], name, f2[k], g2[k])
    BY DEF Leads
  <2>1. CASE k = 1
    BY <1>1, <1>2, <2>1
  <2>2. CASE k # 1
    <3> DEFINE i == k - 1
    <3>1. /\ i \in 1..Len(rest) /\ ops[k] = rest[i] /\ (k < Len(ops) <=> i < Len(rest))
          /\ f2[k] = f[i] /\ f2[k + 1] = f[i + 1] /\ g2[k] = g[i] /\ g2[k + 1] = g[i + 1]
      BY <1>3, <2>2
    <3> HIDE DEF i
    <3>2. /\ f[i + 1] = StateAfter(rest[i], f[i]) /\ g[i + 1] = MarksAfter(rest[i], g[i])
          /\ IF i < Len(rest) THEN Onward(rest[i], name, f[i], g[i])
             ELSE Finally(rest[i], name, f[i], g[i])
      BY <1>1, <3>1 DEF Leads
    <3> QED BY <3>1, <3>2
  <2> QED BY <2>1, <2>2
<1> QED BY <1>2, <1>4 DEF Path

\* One to four operations.
LEMMA Tails ==
  ASSUME NEW o1 \in Ops, NEW o2 \in Ops, NEW o3 \in Ops, NEW o4 \in Ops
  PROVE  /\ Tail(<<o1>>) = <<>> /\ Tail(<<o1, o2>>) = <<o2>>
         /\ Tail(<<o1, o2, o3>>) = <<o2, o3>> /\ Tail(<<o1, o2, o3, o4>>) = <<o2, o3, o4>>
OBVIOUS

LEMMA PathOne ==
  ASSUME NEW o \in Ops, NEW name, NEW s, NEW p, Finally(o, name, s, p)
  PROVE  Path(<<o>>, name, s, p)
<1>1. /\ <<o>> \in Seq(Ops) /\ <<o>> # <<>> /\ Len(<<o>>) = 1 /\ <<o>>[1] = o
      /\ Tail(<<o>>) = <<>>
  OBVIOUS
<1>2. Path(<<>>, name, StateAfter(o, s), MarksAfter(o, p))
  BY PathEmpty DEF Finally
<1> DEFINE ops == <<o>>
<1>3. /\ ops \in Seq(Ops) /\ ops # <<>> /\ ops[1] = o /\ ~ (1 < Len(ops))
      /\ Path(Tail(ops), name, StateAfter(ops[1], s), MarksAfter(ops[1], p))
  BY <1>1, <1>2
<1> HIDE DEF ops
<1>4. Path(ops, name, s, p)
  BY <1>3, PathBefore
<1> QED BY <1>4 DEF ops

LEMMA PathTwo ==
  ASSUME NEW o1 \in Ops, NEW o2 \in Ops, NEW name, NEW s, NEW p, Onward(o1, name, s, p),
         Path(<<o2>>, name, StateAfter(o1, s), MarksAfter(o1, p))
  PROVE  Path(<<o1, o2>>, name, s, p)
<1> DEFINE ops == <<o1, o2>>
<1>1. /\ ops \in Seq(Ops) /\ ops # <<>> /\ Len(ops) = 2 /\ ops[1] = o1
  BY Tuples
<1>2. Tail(ops) = <<o2>>
  BY Tails
<1> HIDE DEF ops
<1>a. Path(Tail(ops), name, StateAfter(ops[1], s), MarksAfter(ops[1], p))
  BY <1>1, <1>2
<1>b. 1 < Len(ops) /\ Onward(ops[1], name, s, p)
  BY <1>1
<1>4. Path(ops, name, s, p)
  BY ONLY <1>1, <1>a, <1>b, PathBefore
<1> QED BY <1>4 DEF ops

LEMMA PathThree ==
  ASSUME NEW o1 \in Ops, NEW o2 \in Ops, NEW o3 \in Ops, NEW name, NEW s, NEW p,
         Onward(o1, name, s, p),
         Path(<<o2, o3>>, name, StateAfter(o1, s), MarksAfter(o1, p))
  PROVE  Path(<<o1, o2, o3>>, name, s, p)
<1> DEFINE ops == <<o1, o2, o3>>
<1>1. /\ ops \in Seq(Ops) /\ ops # <<>> /\ Len(ops) = 3 /\ ops[1] = o1
  BY Tuples
<1>2. Tail(ops) = <<o2, o3>>
  BY Tails
<1> HIDE DEF ops
<1>a. Path(Tail(ops), name, StateAfter(ops[1], s), MarksAfter(ops[1], p))
  BY <1>1, <1>2
<1>b. 1 < Len(ops) /\ Onward(ops[1], name, s, p)
  BY <1>1
<1>4. Path(ops, name, s, p)
  BY ONLY <1>1, <1>a, <1>b, PathBefore
<1> QED BY <1>4 DEF ops

LEMMA PathFour ==
  ASSUME NEW o1 \in Ops, NEW o2 \in Ops, NEW o3 \in Ops, NEW o4 \in Ops,
         NEW name, NEW s, NEW p, Onward(o1, name, s, p),
         Path(<<o2, o3, o4>>, name, StateAfter(o1, s), MarksAfter(o1, p))
  PROVE  Path(<<o1, o2, o3, o4>>, name, s, p)
<1> DEFINE ops == <<o1, o2, o3, o4>>
<1>1. /\ ops \in Seq(Ops) /\ ops # <<>> /\ Len(ops) = 4 /\ ops[1] = o1
  BY Tuples
<1>2. Tail(ops) = <<o2, o3, o4>>
  BY Tails
<1> HIDE DEF ops
<1>a. Path(Tail(ops), name, StateAfter(ops[1], s), MarksAfter(ops[1], p))
  BY <1>1, <1>2
<1>b. 1 < Len(ops) /\ Onward(ops[1], name, s, p)
  BY <1>1
<1>4. Path(ops, name, s, p)
  BY ONLY <1>1, <1>a, <1>b, PathBefore
<1> QED BY <1>4 DEF ops

\* What the operations scripts are made of lead to, and where they are right.
LEMMA Transitions ==
  ASSUME NEW to \in JOB_STATES, NEW name, NEW s, NEW p, s # "ABSENT",
         name \notin RequestKinds => s \in Working
  PROVE  /\ StateAfter(T(to), s) = to /\ MarksAfter(T(to), p) = p
         /\ s = to \/ s \in TERMINAL_STATES \/ canTransition(s, to) =>
              /\ Onward(T(to), name, s, p)
              /\ GateFits(to, p) => Finally(T(to), name, s, p)
         /\ StateAfter(Forced(to), s) = to /\ MarksAfter(Forced(to), p) = p
         /\ s = "FAILED" /\ to \in Resumed => Onward(Forced(to), name, s, p)
<1>1. /\ T(to).op = "transition" /\ T(to).to = to /\ T(to).force = FALSE
      /\ Forced(to).op = "transition" /\ Forced(to).to = to /\ Forced(to).force = TRUE
  BY MoveOps
<1> DEFINE o == T(to)
           q == Forced(to)
<1>2. /\ o.op = "transition" /\ o.to = to /\ o.force = FALSE
      /\ q.op = "transition" /\ q.to = to /\ q.force = TRUE
  BY <1>1
<1> HIDE DEF o, q
<1>3. /\ StateAfter(o, s) = to /\ MarksAfter(o, p) = p
      /\ StateAfter(q, s) = to /\ MarksAfter(q, p) = p
  BY <1>2 DEF StateAfter, MarksAfter, Moves
<1>4. s = to \/ s \in TERMINAL_STATES \/ canTransition(s, to) => Legal(o, name, s, p)
  BY <1>2 DEF Legal
<1>5. s = "FAILED" /\ to \in Resumed => Legal(q, name, s, p)
  BY <1>2 DEF Legal
<1> QED BY <1>2, <1>3, <1>4, <1>5 DEF Onward, Finally, o, q

\* The enqueue a script ends with.
LEMMA LastEnqueue ==
  ASSUME NEW kind \in TASK_KINDS, NEW name, NEW s, NEW p, Fits(kind, s, p)
  PROVE  Path(<<Enqueue(kind)>>, name, s, p)
<1> DEFINE o == Enqueue(kind)
<1>1. o \in Ops /\ o.op = "enqueue" /\ o.kind = kind
  BY OtherOps
<1> HIDE DEF o
<1>2. s \in Working
  BY DEF Fits, retryStateMap, Working, TASK_KINDS
<1>3. Legal(o, name, s, p)
  BY <1>1, <1>2 DEF Legal
<1>4. StateAfter(o, s) = s /\ MarksAfter(o, p) = p
  BY <1>1 DEF StateAfter, MarksAfter, Moves
<1>5. Finally(o, name, s, p)
  BY <1>1, <1>2, <1>3, <1>4 DEF Finally, GateFits, Working
<1> QED BY <1>1, <1>5, PathOne DEF o

\* A job moves on to the state of the task that is enqueued for it.
LEMMA PathOnward ==
  ASSUME NEW kind \in TASK_KINDS, NEW to \in JOB_STATES, NEW name, NEW s, NEW p,
         s # "ABSENT", name \notin RequestKinds => s \in Working,
         s \in TERMINAL_STATES \/ canTransition(s, to), Fits(kind, to, p)
  PROVE  Path(MoveOn(to, kind), name, s, p)
<1>1. T(to) \in Ops /\ Enqueue(kind) \in Ops
  BY MoveOps, OtherOps
<1>2. Path(<<Enqueue(kind)>>, name, StateAfter(T(to), s), MarksAfter(T(to), p))
  BY LastEnqueue, Transitions
<1>3. Onward(T(to), name, s, p)
  BY Transitions
<1>4. Path(<<T(to), Enqueue(kind)>>, name, s, p)
  BY <1>1, <1>2, <1>3, PathTwo
<1> QED BY <1>4 DEF MoveOn

\* What the statements of one word leave, and when they are right.
LEMMA Stated ==
  ASSUME NEW w \in Statements, NEW name, NEW s, NEW p
  PROVE  /\ w # "create" => StateAfter(Do(w), s) = s
         /\ w \notin {"propose", "approvePlans", "supersede"} => MarksAfter(Do(w), p) = p
         /\ w = "propose" => MarksAfter(Do(w), p) = p \cup {"PROPOSED"}
         /\ w = "approvePlans" => MarksAfter(Do(w), p) = Remarked(p, "APPROVED")
         /\ w = "supersede" => MarksAfter(Do(w), p) = Remarked(p, "SUPERSEDED")
         /\ /\ name \notin RequestKinds => s \in Working
            /\ w \notin {"create", "cancelTasks", "insert"}
            /\ w = "verified" => Fits("VERIFY", s, p)
            /\ w = "reviewed" => Fits("REVIEW", s, p)
            /\ w = "guard" => Fits("OPEN_PR", s, p)
            /\ w \in {"process", "context"} => name \in TASK_KINDS /\ Fits(name, s, p)
            => Onward(Do(w), name, s, p)
<1> DEFINE o == Do(w)
<1>1. o \in Ops /\ o.op = w
  BY OtherOps
<1> HIDE DEF o
<1>2. /\ w # "create" => StateAfter(o, s) = s
      /\ w \notin {"propose", "approvePlans", "supersede"} => MarksAfter(o, p) = p
      /\ w = "propose" => MarksAfter(o, p) = p \cup {"PROPOSED"}
      /\ w = "approvePlans" => MarksAfter(o, p) = Remarked(p, "APPROVED")
      /\ w = "supersede" => MarksAfter(o, p) = Remarked(p, "SUPERSEDED")
  BY <1>1 DEF StateAfter, MarksAfter, Moves, Statements
<1>3. ASSUME name \notin RequestKinds => s \in Working,
             w \notin {"create", "cancelTasks", "insert"},
             w = "verified" => Fits("VERIFY", s, p), w = "reviewed" => Fits("REVIEW", s, p),
             w = "guard" => Fits("OPEN_PR", s, p),
             w \in {"process", "context"} => name \in TASK_KINDS /\ Fits(name, s, p)
      PROVE  Onward(o, name, s, p)
  BY <1>1, <1>3 DEF Onward, Legal, Statements
<1> QED BY <1>2, <1>3 DEF o

\* An agent's run for the stage the job is in.
LEMMA AgentRuns ==
  ASSUME NEW phase \in Phases, NEW name \in TASK_KINDS, NEW s, NEW p, Fits(name, s, p),
         s = StageOf[phase], phase = "IMPLEMENT" => "APPROVED" \in p
  PROVE  /\ Agent(phase) \in Ops /\ Onward(Agent(phase), name, s, p)
         /\ StateAfter(Agent(phase), s) = s /\ MarksAfter(Agent(phase), p) = p
<1> DEFINE o == Agent(phase)
<1>1. o \in Ops /\ o.op = "agent" /\ o.phase = phase
  BY OtherOps DEF Agent
<1> HIDE DEF o
<1>2. s \in Working
  BY DEF Fits, retryStateMap, Working, TASK_KINDS
<1>3. Onward(o, name, s, p) /\ StateAfter(o, s) = s /\ MarksAfter(o, p) = p
  BY <1>1, <1>2 DEF Onward, Legal, StateAfter, MarksAfter, Moves
<1> QED BY <1>1, <1>3 DEF o

\* A handler whose task fits the job takes it to the next stage.
LEMMA HandlerPath ==
  ASSUME NEW kind \in TASK_KINDS, NEW s, NEW p, Fits(kind, s, p)
  PROVE  Path(HandlerOps(kind, s), kind, s, p)
<1>0. s \in Working
  BY DEF Fits, retryStateMap, Working, TASK_KINDS
<1>1. CASE kind = "PLAN"
  <2> DEFINE o1 == T("PLANNING")
             o2 == Agent("PLAN")
             o3 == Do("propose")
             o4 == T("AWAITING_PLAN_APPROVAL")
             q  == p \cup {"PROPOSED"}
  <2>1. s \in {"TRIAGED", "PLANNING"}
    BY <1>1 DEF Fits
  <2>2. o1 \in Ops /\ o2 \in Ops /\ o3 \in Ops /\ o4 \in Ops
    BY MoveOps, OtherOps DEF JOB_STATES, Phases, TASK_KINDS, Statements
  <2>3. Onward(o1, kind, s, p) /\ StateAfter(o1, s) = "PLANNING" /\ MarksAfter(o1, p) = p
    <3>1. s = "PLANNING" \/ s \in TERMINAL_STATES \/ canTransition(s, "PLANNING")
      BY <2>1 DEF canTransition, ALLOWED_TRANSITIONS, TERMINAL_STATES
    <3>2. "PLANNING" \in JOB_STATES /\ s # "ABSENT" /\ s \in Working
      BY <1>0 DEF JOB_STATES, Working
    <3> QED BY ONLY <3>1, <3>2, Transitions
  <2>4. /\ Onward(o2, kind, "PLANNING", p) /\ StateAfter(o2, "PLANNING") = "PLANNING"
        /\ MarksAfter(o2, p) = p
    <3>1. /\ "PLAN" \in Phases /\ Fits(kind, "PLANNING", p) /\ "PLANNING" = StageOf["PLAN"]
      BY <1>1 DEF Phases, TASK_KINDS, Fits, StageOf, retryStateMap
    <3> QED BY <3>1, AgentRuns
  <2>5. /\ Onward(o3, kind, "PLANNING", p) /\ StateAfter(o3, "PLANNING") = "PLANNING"
        /\ MarksAfter(o3, p) = q
    BY Stated DEF Statements, Working
  <2>6. Path(<<o4>>, kind, "PLANNING", q)
    <3>1. canTransition("PLANNING", "AWAITING_PLAN_APPROVAL")
      BY DEF canTransition, ALLOWED_TRANSITIONS, TERMINAL_STATES
    <3>2. GateFits("AWAITING_PLAN_APPROVAL", q)
      BY DEF GateFits
    <3>3. "AWAITING_PLAN_APPROVAL" \in JOB_STATES /\ "PLANNING" \in Working
      BY DEF JOB_STATES, Working
    <3>4. Finally(o4, kind, "PLANNING", q)
      BY <3>1, <3>2, <3>3, Transitions
    <3> QED BY <2>2, <3>4, PathOne
  <2>7. HandlerOps(kind, s) = <<o1, o2, o3, o4>>
    BY <1>1 DEF HandlerOps, handlePlan
  <2> HIDE DEF o1, o2, o3, o4, q
  <2>8. Path(<<o3, o4>>, kind, "PLANNING", p)
    BY <2>2, <2>5, <2>6, PathTwo
  <2>9. Path(<<o2, o3, o4>>, kind, "PLANNING", p)
    BY <2>2, <2>4, <2>8, PathThree
  <2> QED BY <2>2, <2>3, <2>7, <2>9, PathFour
<1>2. ASSUME NEW phase \in TASK_KINDS, phase = kind, kind \in {"IMPLEMENT", "REVISE"}
      PROVE  Path(<<Agent(phase), T("VERIFYING"), Enqueue("VERIFY")>>, kind, s, p)
  <2>1. s = retryStateMap[kind] /\ "APPROVED" \in p
    BY <1>2 DEF Fits
  <2>2. /\ Onward(Agent(phase), kind, s, p) /\ StateAfter(Agent(phase), s) = s
        /\ MarksAfter(Agent(phase), p) = p /\ Agent(phase) \in Ops
    <3>1. phase \in Phases /\ s = StageOf[phase]
      BY <1>2, <2>1 DEF Phases, StageOf, TASK_KINDS
    <3> QED BY <2>1, <3>1, AgentRuns
  <2>3. T("VERIFYING") \in Ops /\ Enqueue("VERIFY") \in Ops
    BY MoveOps, OtherOps DEF JOB_STATES, TASK_KINDS
  <2>4. Path(MoveOn("VERIFYING", "VERIFY"), kind, s, p)
    <3>1. canTransition(s, "VERIFYING")
      BY <1>2, <2>1
      DEF canTransition, ALLOWED_TRANSITIONS, TERMINAL_STATES, retryStateMap, TASK_KINDS
    <3>2. /\ "VERIFYING" \in JOB_STATES /\ "VERIFY" \in TASK_KINDS /\ s # "ABSENT"
          /\ Fits("VERIFY", "VERIFYING", p)
      BY <1>0, <2>1 DEF JOB_STATES, TASK_KINDS, Working, Fits, retryStateMap
    <3> QED BY <1>0, <3>1, <3>2, PathOnward
  <2> QED BY <2>2, <2>3, <2>4, PathThree DEF MoveOn
<1>3. CASE kind = "IMPLEMENT"
  <2>1. s = "IMPLEMENTING"
    BY <1>3 DEF Fits, retryStateMap, TASK_KINDS
  <2>2. HandlerOps(kind, s) = <<>> \o <<Agent("IMPLEMENT")>> \o <<T("VERIFYING"), Enqueue("VERIFY")>>
    BY <1>3, <2>1 DEF HandlerOps, handleImplement, MoveOn
  <2> DEFINE o1 == Agent("IMPLEMENT")
             o2 == T("VERIFYING")
             o3 == Enqueue("VERIFY")
  <2>3. o1 \in Ops /\ o2 \in Ops /\ o3 \in Ops
    BY MoveOps, OtherOps DEF JOB_STATES, Phases, TASK_KINDS
  <2>4. Path(<<o1, o2, o3>>, kind, s, p)
    BY <1>2, <1>3
  <2>5. HandlerOps(kind, s) = <<>> \o <<o1>> \o <<o2, o3>>
    BY <2>2
  <2> HIDE DEF o1, o2, o3
  <2>6. <<>> \o <<o1>> \o <<o2, o3>> = <<o1, o2, o3>>
    <3>1. <<o1>> \o <<o2, o3>> = <<o1, o2, o3>>
      BY <2>3, JoinThree, ZenonT(30)
    <3>2. <<>> \o <<o1>> = <<o1>>
      OBVIOUS
    <3> QED BY <3>1, <3>2, Zenon
  <2> QED BY <2>4, <2>5, <2>6
<1>4. CASE kind = "VERIFY"
  <2> DEFINE o1 == Agent("VERIFY")
             o2 == Do("verified")
  <2>1. s = "VERIFYING"
    BY <1>4 DEF Fits, retryStateMap, TASK_KINDS
  <2>2. HandlerOps(kind, s) = <<>> \o <<o1, o2>>
    BY <1>4, <2>1 DEF HandlerOps, handleVerify
  <2>3. /\ o1 \in Ops /\ Onward(o1, kind, s, p) /\ StateAfter(o1, s) = s /\ MarksAfter(o1, p) = p
    <3>1. "VERIFY" \in Phases /\ s = StageOf["VERIFY"]
      BY <2>1 DEF Phases, StageOf, TASK_KINDS, retryStateMap
    <3> QED BY <3>1, AgentRuns
  <2>4. o2 \in Ops /\ Finally(o2, kind, s, p)
    <3>1. o2 \in Ops /\ o2.op = "verified"
      BY OtherOps DEF Statements
    <3>2. Onward(o2, kind, s, p) /\ StateAfter(o2, s) = s /\ MarksAfter(o2, p) = p
      BY <1>0, <1>4, Stated DEF Statements
    <3>3. GateFits(s, p)
      BY <2>1 DEF GateFits
    <3> QED BY <3>1, <3>2, <3>3 DEF Onward, Finally
  <2> HIDE DEF o1, o2
  <2>5. Path(<<o1, o2>>, kind, s, p)
    BY <2>3, <2>4, PathOne, PathTwo
  <2>6. <<>> \o <<o1, o2>> = <<o1, o2>>
    BY <2>3, <2>4, JoinThree, ZenonT(30)
  <2> QED BY <2>2, <2>5, <2>6
<1>5. CASE kind = "REVIEW"
  <2> DEFINE o1 == T("SELF_REVIEWING")
             o2 == Agent("REVIEW")
             o3 == Do("reviewed")
  <2>1. s = "SELF_REVIEWING"
    BY <1>5 DEF Fits, retryStateMap, TASK_KINDS
  <2>2. HandlerOps(kind, s) = <<o1, o2, o3>>
    BY <1>5 DEF HandlerOps, handleReview
  <2>3. /\ o1 \in Ops /\ Onward(o1, kind, s, p) /\ StateAfter(o1, s) = s /\ MarksAfter(o1, p) = p
    <3>1. s \in JOB_STATES /\ s # "ABSENT"
      BY <2>1 DEF JOB_STATES
    <3>2. o1 = T(s) /\ o1 \in Ops
      BY <2>1, <3>1, MoveOps
    <3> HIDE DEF o1
    <3>3. Onward(T(s), kind, s, p) /\ StateAfter(T(s), s) = s /\ MarksAfter(T(s), p) = p
      BY <1>0, <3>1, Transitions
    <3> QED BY <3>2, <3>3
  <2>4. /\ o2 \in Ops /\ Onward(o2, kind, s, p) /\ StateAfter(o2, s) = s /\ MarksAfter(o2, p) = p
    <3>1. "REVIEW" \in Phases /\ s = StageOf["REVIEW"]
      BY <2>1 DEF Phases, StageOf, TASK_KINDS, retryStateMap
    <3> QED BY <3>1, AgentRuns
  <2>5. o3 \in Ops /\ Finally(o3, kind, s, p)
    <3>1. o3 \in Ops /\ o3.op = "reviewed"
      BY OtherOps DEF Statements
    <3>2. Onward(o3, kind, s, p) /\ StateAfter(o3, s) = s /\ MarksAfter(o3, p) = p
      BY <1>0, <1>5, Stated DEF Statements
    <3>3. GateFits(s, p)
      BY <2>1 DEF GateFits
    <3> QED BY <3>1, <3>2, <3>3 DEF Onward, Finally
  <2> HIDE DEF o1, o2, o3
  <2>6. Path(<<o2, o3>>, kind, s, p)
    BY <2>4, <2>5, PathOne, PathTwo
  <2> QED BY <2>2, <2>3, <2>4, <2>5, <2>6, PathThree
<1>6. CASE kind = "REVISE"
  <2> DEFINE o1 == Agent("REVISE")
             o2 == T("VERIFYING")
             o3 == Enqueue("VERIFY")
  <2>1. HandlerOps(kind, s) = <<o1>> \o <<o2, o3>>
    BY <1>6 DEF HandlerOps, handleRevise, MoveOn
  <2>2. o1 \in Ops /\ o2 \in Ops /\ o3 \in Ops
    BY MoveOps, OtherOps DEF JOB_STATES, Phases, TASK_KINDS
  <2>3. Path(<<o1, o2, o3>>, kind, s, p)
    BY <1>2, <1>6
  <2> HIDE DEF o1, o2, o3
  <2>4. <<o1>> \o <<o2, o3>> = <<o1, o2, o3>>
    BY <2>2, JoinThree, ZenonT(30)
  <2> QED BY <2>1, <2>3, <2>4
<1>7. CASE kind = "OPEN_PR"
  <2> DEFINE o1 == Do("guard")
             o2 == Agent("SUMMARY")
             o3 == Do("savePr")
             o4 == T("AWAITING_PR_APPROVAL")
  <2>1. s = "OPENING_PR" /\ "APPROVED" \in p
    BY <1>7 DEF Fits, retryStateMap, TASK_KINDS
  <2>2. HandlerOps(kind, s) = <<o1, o2, o3, o4>>
    BY <1>7 DEF HandlerOps, handleOpenPr
  <2>3. o1 \in Ops /\ o2 \in Ops /\ o3 \in Ops /\ o4 \in Ops
    BY MoveOps, OtherOps DEF JOB_STATES, Phases, TASK_KINDS, Statements
  <2>4. Onward(o1, kind, s, p) /\ StateAfter(o1, s) = s /\ MarksAfter(o1, p) = p
    BY <1>0, <1>7, Stated DEF Statements
  <2>5. Onward(o2, kind, s, p) /\ StateAfter(o2, s) = s /\ MarksAfter(o2, p) = p
    <3>1. "SUMMARY" \in Phases /\ s = StageOf["SUMMARY"]
      BY <2>1 DEF Phases, StageOf, TASK_KINDS, retryStateMap
    <3> QED BY <3>1, AgentRuns
  <2>6. Onward(o3, kind, s, p) /\ StateAfter(o3, s) = s /\ MarksAfter(o3, p) = p
    BY <1>0, Stated DEF Statements
  <2>7. Path(<<o4>>, kind, s, p)
    <3>1. canTransition(s, "AWAITING_PR_APPROVAL")
      BY <2>1 DEF canTransition, ALLOWED_TRANSITIONS, TERMINAL_STATES
    <3>2. /\ GateFits("AWAITING_PR_APPROVAL", p) /\ "AWAITING_PR_APPROVAL" \in JOB_STATES
          /\ s # "ABSENT"
      BY <2>1 DEF GateFits, JOB_STATES
    <3>3. Finally(o4, kind, s, p)
      BY <1>0, <3>1, <3>2, Transitions
    <3> QED BY <2>3, <3>3, PathOne
  <2> HIDE DEF o1, o2, o3, o4
  <2>8. Path(<<o3, o4>>, kind, s, p)
    BY <2>3, <2>6, <2>7, PathTwo
  <2>9. Path(<<o2, o3, o4>>, kind, s, p)
    BY <2>3, <2>5, <2>8, PathThree
  <2> QED BY <2>2, <2>3, <2>4, <2>9, PathFour
<1> QED BY <1>1, <1>3, <1>4, <1>5, <1>6, <1>7 DEF TASK_KINDS

\* What VERIFY and REVIEW decide on, and what OPEN_PR turns to, fits as well.
LEMMA DecisionPath ==
  ASSUME NEW name, NEW s, NEW p, NEW ops,
         \/ Fits("VERIFY", s, p) /\ ops \in AfterVerify
         \/ Fits("REVIEW", s, p) /\ ops \in AfterReview
         \/ Fits("OPEN_PR", s, p) /\ ops = MoveOn("REVISING", "REVISE")
  PROVE  Path(ops, name, s, p)
<1>0. /\ "APPROVED" \in p /\ s \in Working
      /\ s \in {"VERIFYING", "SELF_REVIEWING", "OPENING_PR"}
      /\ ops \in AfterVerify => s = "VERIFYING" \/ ops \in AfterReview
           \/ ops = MoveOn("REVISING", "REVISE")
  BY DEF Fits, retryStateMap, TASK_KINDS, Working
<1>1. ASSUME NEW kind \in {"REVIEW", "REVISE", "OPEN_PR"}, NEW to, to = retryStateMap[kind],
             canTransition(s, to)
      PROVE  Path(MoveOn(to, kind), name, s, p)
  <2>1. kind \in TASK_KINDS /\ to \in JOB_STATES /\ Fits(kind, to, p) /\ s # "ABSENT"
    BY <1>0, <1>1 DEF Fits, retryStateMap, TASK_KINDS, JOB_STATES
  <2> QED BY <1>0, <1>1, <2>1, PathOnward
<1>2. CASE Fits("VERIFY", s, p) /\ ops \in AfterVerify
  <2>1. s = "VERIFYING"
    BY <1>2 DEF Fits, retryStateMap, TASK_KINDS
  <2>2. \E kind \in {"REVIEW", "REVISE", "OPEN_PR"} :
          ops = MoveOn(retryStateMap[kind], kind) /\ canTransition(s, retryStateMap[kind])
    BY <1>2, <2>1
    DEF AfterVerify, retryStateMap, TASK_KINDS, canTransition, ALLOWED_TRANSITIONS,
        TERMINAL_STATES
  <2> QED BY <1>1, <2>2
<1>3. CASE Fits("REVIEW", s, p) /\ ops \in AfterReview
  <2>1. s = "SELF_REVIEWING"
    BY <1>3 DEF Fits, retryStateMap, TASK_KINDS
  <2>2. CASE ops = <<Enqueue("REVIEW")>>
    <3>1. "REVIEW" \in TASK_KINDS
      BY DEF TASK_KINDS
    <3> QED BY <1>3, <2>2, <3>1, LastEnqueue
  <2>3. CASE ops # <<Enqueue("REVIEW")>>
    <3>1. \E kind \in {"REVISE", "OPEN_PR"} :
            ops = MoveOn(retryStateMap[kind], kind) /\ canTransition(s, retryStateMap[kind])
      BY <1>3, <2>1, <2>3
      DEF AfterReview, retryStateMap, TASK_KINDS, canTransition, ALLOWED_TRANSITIONS,
          TERMINAL_STATES
    <3> QED BY <1>1, <3>1
  <2> QED BY <2>2, <2>3
<1>4. CASE Fits("OPEN_PR", s, p) /\ ops = MoveOn("REVISING", "REVISE")
  <2>1. s = "OPENING_PR" /\ "REVISING" = retryStateMap["REVISE"]
    BY <1>4 DEF Fits, retryStateMap, TASK_KINDS
  <2>2. canTransition(s, "REVISING")
    BY <2>1 DEF canTransition, ALLOWED_TRANSITIONS, TERMINAL_STATES
  <2> QED BY <1>1, <1>4, <2>1, <2>2
<1> QED BY <1>2, <1>3, <1>4

-------------------------------------------------------------------------------
(* Who has a job in hand, and that there is one at most.                   *)

\* Row t is to be executed: it waits for its claim, or its execution is failing.
Queued(t) ==
  /\ t \in DOMAIN task
  /\ task[t].status = "PENDING" \/ \E r \in runs : r.task = t /\ r.pc \in Failing

\* Row k, an execution of it, or its escalation has job j in hand; 0 stands for
\* the request.
HeldBy(k, j) ==
  \/ Queued(k) /\ task[k].job = j
  \/ \E a \in DOMAIN script : a[1] = k /\ script[a].job = j /\ Busy(script[a].ops)

\* Job j is in one hand at a time, and what that hand is to do fits the job.
InOrder(j) ==
  /\ \A k, l : HeldBy(k, j) /\ HeldBy(l, j) => k = l
  /\ (\A k : ~ HeldBy(k, j)) => GateFits(state[j], Marks(j))
  /\ \A t : Queued(t) /\ task[t].job = j => Fits(task[t].kind, state[j], Marks(j))
  /\ \A a \in DOMAIN script : script[a].job = j /\ Busy(script[a].ops) =>
       Path(script[a].ops, script[a].name, state[j], Marks(j))
  /\ \A c \in finding : c.job = j => Fits(c.kind, state[j], Marks(j))
  /\ \A t \in DOMAIN task : task[t].job = j /\ task[t].kind # "PLAN" => "APPROVED" \in Marks(j)

\* An execution's script is called by its row, of its kind.
Numbered ==
  \A a \in DOMAIN script :
    script[a].name \in TASK_KINDS => a[1] \in DOMAIN task /\ task[a[1]].kind = script[a].name

\* The inductive invariant of the theorems below.
Ordered == Numbered /\ OneTaskPerJob /\ \A j \in Jobs : InOrder(j)

\* What else holds of serialized requests.
Steady ==
  /\ Gate /\ LapseFree /\ lapses = 0 /\ restarts = 0 /\ Serialized
  /\ Linked /\ Called /\ expired = {}

-------------------------------------------------------------------------------
\* A statement before a move and an enqueue.
LEMMA PathStatedOnward ==
  ASSUME NEW w \in Statements, NEW kind \in TASK_KINDS, NEW to \in JOB_STATES, NEW name, NEW s,
         NEW p, NEW q, q = MarksAfter(Do(w), p), name \in RequestKinds, s # "ABSENT",
         w \in {"supersede", "cycle"},
         s \in TERMINAL_STATES \/ canTransition(s, to), Fits(kind, to, q)
  PROVE  Path(<<Do(w)>> \o MoveOn(to, kind), name, s, p)
<1> DEFINE o1 == Do(w)
           o2 == T(to)
           o3 == Enqueue(kind)
<1>1. o1 \in Ops /\ o2 \in Ops /\ o3 \in Ops
  BY MoveOps, OtherOps
<1>2. Onward(o1, name, s, p) /\ StateAfter(o1, s) = s /\ MarksAfter(o1, p) = q
  BY Stated
<1>3. Path(<<o2, o3>>, name, s, q)
  <2>1. Path(MoveOn(to, kind), name, s, q)
    BY PathOnward
  <2> QED BY <2>1 DEF MoveOn
<1>4. <<Do(w)>> \o MoveOn(to, kind) = <<o1>> \o <<o2, o3>>
  BY DEF MoveOn
<1> HIDE DEF o1, o2, o3
<1>5. Path(<<o1, o2, o3>>, name, s, p)
  BY <1>1, <1>2, <1>3, PathThree
<1>6. <<o1>> \o <<o2, o3>> = <<o1, o2, o3>>
  BY <1>1, JoinThree, ZenonT(30)
<1> QED BY <1>4, <1>5, <1>6

\* Two statements, the second of which opens the round.
LEMMA PathRoundOnward ==
  ASSUME NEW w \in Statements, NEW kind \in TASK_KINDS, NEW to \in JOB_STATES, NEW name, NEW s,
         NEW p, NEW q, q = MarksAfter(Do(w), p), name \in RequestKinds, s # "ABSENT",
         w \in {"approvePlans", "feedback"},
         s \in TERMINAL_STATES \/ canTransition(s, to), Fits(kind, to, q)
  PROVE  Path(<<Do(w), Do("cycle")>> \o MoveOn(to, kind), name, s, p)
<1> DEFINE o1 == Do(w)
           o2 == Do("cycle")
           o3 == T(to)
           o4 == Enqueue(kind)
<1>1. o1 \in Ops /\ o2 \in Ops /\ o3 \in Ops /\ o4 \in Ops
  BY MoveOps, OtherOps DEF Statements
<1>2. Onward(o1, name, s, p) /\ StateAfter(o1, s) = s /\ MarksAfter(o1, p) = q
  BY Stated
<1>3. Onward(o2, name, s, q) /\ StateAfter(o2, s) = s /\ MarksAfter(o2, q) = q
  BY Stated DEF Statements
<1>4. Path(<<o3, o4>>, name, s, q)
  <2>1. Path(MoveOn(to, kind), name, s, q)
    BY PathOnward
  <2> QED BY <2>1 DEF MoveOn
<1>5. <<Do(w), Do("cycle")>> \o MoveOn(to, kind) = <<o1, o2>> \o <<o3, o4>>
  BY DEF MoveOn
<1> HIDE DEF o1, o2, o3, o4
<1>6. Path(<<o2, o3, o4>>, name, s, q)
  BY <1>1, <1>3, <1>4, PathThree
<1>7. Path(<<o1, o2, o3, o4>>, name, s, p)
  BY <1>1, <1>2, <1>6, PathFour
<1>8. <<o1, o2>> \o <<o3, o4>> = <<o1, o2, o3, o4>>
  BY <1>1, JoinFour, ZenonT(60)
<1> QED BY <1>5, <1>7, <1>8, ZenonT(30)

\* A request that does more than to store feedback finds the job at rest, and
\* what it does fits.
LEMMA RequestPath ==
  ASSUME NEW kind \in RequestKinds, NEW j \in Jobs, kind # "cancel",
         GateFits(state[j], Marks(j)),
         state[j] = "FAILED" =>
           /\ RetryKind(j) \in TASK_KINDS
           /\ RetryKind(j) # "PLAN" => "APPROVED" \in Marks(j),
         Busy(RequestOps(kind, j))
  PROVE  Path(RequestOps(kind, j), kind, state[j], Marks(j)) /\ state[j] \notin Working
<1> DEFINE s == state[j]
           p == Marks(j)
           Fine(ops) == Busy(ops) => Path(ops, kind, s, p) /\ s \notin Working
<1>0. ~ Busy(<<>>) /\ ~ Busy(<<Do("feedback")>>)
  <2>1. Do("feedback").op = "feedback" /\ Len(<<Do("feedback")>>) = 1
        /\ <<Do("feedback")>>[1] = Do("feedback")
    BY OtherOps DEF Statements
  <2> QED BY <2>1 DEF Busy
<1>1. Fine(<<>>) /\ Fine(<<Do("feedback")>>)
  BY <1>0
<1> HIDE DEF Fine
<1>a. /\ {"PLANNING", "IMPLEMENTING", "REVISING", "DONE", "FAILED"} \subseteq JOB_STATES
      /\ {"PLAN", "IMPLEMENT", "REVISE"} \subseteq TASK_KINDS
  BY DEF JOB_STATES, TASK_KINDS
<1>b. /\ "ABSENT" \notin Working /\ "FAILED" \notin Working /\ "CANCELLED" \notin Working
      /\ "AWAITING_PLAN_APPROVAL" \notin Working /\ "AWAITING_PR_APPROVAL" \notin Working
      /\ "FAILED" \in TERMINAL_STATES /\ "CANCELLED" \in TERMINAL_STATES
      /\ canTransition("AWAITING_PLAN_APPROVAL", "IMPLEMENTING")
      /\ canTransition("AWAITING_PLAN_APPROVAL", "PLANNING")
      /\ canTransition("AWAITING_PLAN_APPROVAL", "FAILED")
      /\ canTransition("AWAITING_PR_APPROVAL", "REVISING")
      /\ canTransition("AWAITING_PR_APPROVAL", "DONE")
  BY DEF Working, TERMINAL_STATES, canTransition, ALLOWED_TRANSITIONS
<1>c. /\ \A q : Fits("PLAN", "PLANNING", q) /\ Fits("PLAN", "TRIAGED", q)
      /\ \A q : "APPROVED" \in q =>
           Fits("IMPLEMENT", "IMPLEMENTING", q) /\ Fits("REVISE", "REVISING", q)
  BY DEF Fits, retryStateMap, TASK_KINDS
<1>2. Fine(onIssueLabeled(s))
  <2>1. CASE s = "ABSENT"
    <3> DEFINE o1 == Do("create")
               o2 == Enqueue("PLAN")
    <3>1. o1 \in Ops /\ o2 \in Ops /\ o1.op = "create"
      BY <1>a, OtherOps DEF Statements
    <3>2. Path(<<o2>>, kind, "TRIAGED", p)
      BY <1>a, <1>c, LastEnqueue
    <3>3. onIssueLabeled(s) = <<o1, o2>>
      BY <2>1 DEF onIssueLabeled
    <3> HIDE DEF o1, o2
    <3>4. Onward(o1, kind, s, p) /\ StateAfter(o1, s) = "TRIAGED" /\ MarksAfter(o1, p) = p
      BY <2>1, <3>1 DEF Onward, Legal, StateAfter, MarksAfter, Moves
    <3>5. Path(<<o1, o2>>, kind, s, p)
      BY <3>1, <3>2, <3>4, PathTwo
    <3> QED BY <1>b, <2>1, <3>3, <3>5 DEF Fine
  <2>2. CASE s \in {"FAILED", "CANCELLED"}
    <3>1. Path(MoveOn("PLANNING", "PLAN"), kind, s, p)
      BY <1>a, <1>b, <1>c, <2>2, PathOnward
    <3> QED BY <1>b, <2>2, <3>1 DEF Fine, onIssueLabeled
  <2>3. CASE s \notin {"ABSENT", "FAILED", "CANCELLED"}
    BY <1>1, <2>3 DEF onIssueLabeled
  <2> QED BY <2>1, <2>2, <2>3
<1>3. Fine(approvePlan(s))
  <2>1. CASE s = "AWAITING_PLAN_APPROVAL"
    <3>1. "approvePlans" \in Statements /\ "PROPOSED" \in p
      BY <2>1 DEF Statements, GateFits
    <3>2. MarksAfter(Do("approvePlans"), p) = Remarked(p, "APPROVED")
      BY <3>1, Stated
    <3>3. "APPROVED" \in Remarked(p, "APPROVED")
      BY <3>1 DEF Remarked
    <3>4. Path(<<Do("approvePlans"), Do("cycle")>> \o MoveOn("IMPLEMENTING", "IMPLEMENT"),
               kind, s, p)
      BY <1>a, <1>b, <1>c, <2>1, <3>1, <3>2, <3>3, PathRoundOnward
    <3> QED BY <1>b, <2>1, <3>4 DEF Fine, approvePlan
  <2> QED BY <1>1, <2>1 DEF approvePlan
<1>4. Fine(submitPlanFeedback(s))
  <2>1. CASE s = "AWAITING_PLAN_APPROVAL"
    <3>1. Path(<<Do("supersede")>> \o MoveOn("PLANNING", "PLAN"), kind, s, p)
      BY <1>a, <1>b, <1>c, <2>1, PathStatedOnward DEF Statements
    <3> QED BY <1>b, <2>1, <3>1 DEF Fine, submitPlanFeedback
  <2> QED BY <1>1, <2>1 DEF submitPlanFeedback
<1>5. ASSUME NEW to \in {"FAILED", "DONE"}, s \in {"AWAITING_PLAN_APPROVAL", "AWAITING_PR_APPROVAL"},
             canTransition(s, to)
      PROVE  Fine(<<T(to)>>)
  <2>1. to \in JOB_STATES /\ GateFits(to, p) /\ s # "ABSENT"
    BY <1>a, <1>5 DEF GateFits
  <2>2. T(to) \in Ops /\ Finally(T(to), kind, s, p)
    BY <1>5, <2>1, MoveOps, Transitions
  <2>3. Path(<<T(to)>>, kind, s, p)
    BY <2>2, PathOne
  <2> QED BY <1>b, <1>5, <2>3 DEF Fine
<1>6. Fine(onIssueComment(j, s))
  <2>1. CASE s = "AWAITING_PLAN_APPROVAL" /\ Len(plans[j]) >= MaxPlanRevisions
    BY <1>b, <1>5, <2>1 DEF onIssueComment
  <2>2. CASE ~ (s = "AWAITING_PLAN_APPROVAL" /\ Len(plans[j]) >= MaxPlanRevisions)
    BY <1>4, <2>2 DEF onIssueComment
  <2> QED BY <2>1, <2>2
<1>7. Fine(acceptResult(s))
  <2>1. CASE s = "AWAITING_PR_APPROVAL"
    BY <1>b, <1>5, <2>1 DEF acceptResult
  <2> QED BY <1>1, <2>1 DEF acceptResult
<1>8. Fine(retryJob(j, s))
  <2>1. CASE s = "FAILED"
    <3> DEFINE k == RetryKind(j)
               to == retryStateMap[k]
    <3>1. k \in TASK_KINDS /\ to \in JOB_STATES /\ to \in Resumed /\ Fits(k, to, p)
      BY <2>1 DEF retryStateMap, TASK_KINDS, JOB_STATES, Resumed, Fits
    <3>2. retryJob(j, s) = <<Forced(to), Enqueue(k)>>
      BY <2>1 DEF retryJob
    <3> HIDE DEF k, to
    <3>3. Path(<<Enqueue(k)>>, kind, to, p)
      BY <3>1, LastEnqueue
    <3>4. Onward(Forced(to), kind, s, p) /\ StateAfter(Forced(to), s) = to
          /\ MarksAfter(Forced(to), p) = p
      BY <2>1, <3>1, Transitions
    <3> DEFINE o1 == Forced(to)
               o2 == Enqueue(k)
    <3>6. o1 \in Ops /\ o2 \in Ops
      BY <3>1, MoveOps, OtherOps
    <3>7. Onward(o1, kind, s, p) /\ StateAfter(o1, s) = to /\ MarksAfter(o1, p) = p
      BY <3>4
    <3>8. Path(<<o2>>, kind, StateAfter(o1, s), MarksAfter(o1, p))
      BY <3>3, <3>7
    <3> HIDE DEF o1, o2
    <3>9. Path(<<o1, o2>>, kind, s, p)
      BY ONLY <3>6, <3>7, <3>8, PathTwo
    <3>5. Path(<<Forced(to), Enqueue(k)>>, kind, s, p)
      BY <3>9 DEF o1, o2
    <3> QED BY <1>b, <2>1, <3>2, <3>5 DEF Fine
  <2> QED BY <1>1, <2>1 DEF retryJob
<1>9. Fine(onPullRequestReview(j, s))
  <2>1. CASE s = "AWAITING_PR_APPROVAL" /\ hasPr[j]
    <3>1. "feedback" \in Statements /\ "APPROVED" \in p
      BY <2>1 DEF Statements, GateFits
    <3>2. MarksAfter(Do("feedback"), p) = p
      BY <3>1, Stated
    <3>3. Path(<<Do("feedback"), Do("cycle")>> \o MoveOn("REVISING", "REVISE"), kind, s, p)
      BY <1>a, <1>b, <1>c, <2>1, <3>1, <3>2, PathRoundOnward
    <3>4. onPullRequestReview(j, s) = <<Do("feedback"), Do("cycle")>> \o MoveOn("REVISING", "REVISE")
      BY <2>1 DEF onPullRequestReview, TERMINAL_STATES
    <3> QED BY <1>b, <2>1, <3>3, <3>4 DEF Fine
  <2>2. CASE ~ (s = "AWAITING_PR_APPROVAL" /\ hasPr[j])
    <3>1. onPullRequestReview(j, s) = <<>> \/ onPullRequestReview(j, s) = <<Do("feedback")>>
      BY <2>2 DEF onPullRequestReview
    <3> QED BY <1>1, <3>1
  <2> QED BY <2>1, <2>2
<1>10. Fine(onPrReviewComment(j, s))
  BY <1>1 DEF onPrReviewComment
<1>11. Fine(RequestOps(kind, j))
  <2>1. kind \in {"label", "approve", "comment", "feedback", "retry", "changes", "inline", "accept"}
    BY OrchestratorAssumption
  <2> QED BY <2>1, <1>2, <1>3, <1>4, <1>6, <1>7, <1>8, <1>9, <1>10 DEF RequestOps
<1> QED BY <1>11 DEF Fine

\* What has only feedback to store leaves the job at rest: a request's script
\* that ends with feedback does nothing else.
LEMMA PathIdle ==
  ASSUME NEW ops \in Seq(Ops), NEW name, NEW s, NEW p, Path(ops, name, s, p), ~ Busy(ops)
  PROVE  ops = <<>> /\ GateFits(s, p)
<1>1. ops = <<>>
  <2> SUFFICES ASSUME ops # <<>> PROVE FALSE
    OBVIOUS
  <2>1. Len(ops) \in 1..Len(ops) /\ ~ (Len(ops) < Len(ops))
    OBVIOUS
  <2>2. PICK f, g : Leads(ops, name, f, g)
    BY DEF Path
  <2>3. Finally(ops[Len(ops)], name, f[Len(ops)], g[Len(ops)])
    BY <2>1, <2>2 DEF Leads
  <2>4. ops[Len(ops)].op # "feedback"
    BY <2>3 DEF Finally
  <2> QED BY <2>1, <2>4 DEF Busy
<1> QED BY <1>1 DEF Path

\* The first operation goes on as another one.
LEMMA PathGoesOn ==
  ASSUME NEW ops \in Seq(Ops), ops # <<>>, NEW o \in Ops, NEW name, NEW s, NEW p,
         Path(ops, name, s, p), Legal(o, name, s, p),
         StateAfter(o, s) = StateAfter(ops[1], s), MarksAfter(o, p) = MarksAfter(ops[1], p),
         o.op \notin {"feedback", "enqueue"}, o.op = "insert" => ops[1].op = "enqueue"
  PROVE  Path(<<o>> \o Tail(ops), name, s, p)
<1> DEFINE new == <<o>> \o Tail(ops)
<1>1. /\ new \in Seq(Ops) /\ Len(new) = Len(ops) /\ new[1] = o /\ Len(ops) \in Nat
      /\ 1 \in 1..Len(ops) /\ Tail(ops) \in Seq(Ops) /\ Len(Tail(ops)) = Len(ops) - 1
  BY RestOps
<1>2. Tail(new) = Tail(ops)
  OBVIOUS
<1>3. /\ ops[1].op \in {"enqueue", "insert"} => Len(ops) = 1
      /\ Path(Tail(ops), name, StateAfter(o, s), MarksAfter(o, p))
  BY PathHead
<1> HIDE DEF new
<1>4. new # <<>>
  BY <1>1
<1>5. CASE 1 < Len(new)
  <2>1. Len(ops) # 1
    BY ONLY <1>1, <1>5
  <2>2. Onward(o, name, s, p)
    BY <1>3, <2>1 DEF Onward
  <2>3. Path(Tail(new), name, StateAfter(new[1], s), MarksAfter(new[1], p))
        /\ Onward(new[1], name, s, p)
    BY <1>1, <1>2, <1>3, <2>2
  <2> QED BY <1>1, <1>4, <1>5, <2>3, PathBefore DEF new
<1>6. CASE ~ (1 < Len(new))
  <2>1. Len(Tail(ops)) = 0 /\ Tail(ops) \in Seq(Ops)
    BY ONLY <1>1, <1>6
  <2>2. Tail(ops) = <<>>
    <3> DEFINE rest == Tail(ops)
    <3>1. rest \in Seq(Ops) /\ Len(rest) = 0
      BY <2>1
    <3> HIDE DEF rest
    <3>2. rest = <<>>
      BY ONLY <3>1
    <3> QED BY <3>2 DEF rest
  <2>3. Finally(o, name, s, p)
    BY <1>3, <2>2 DEF Finally, Path
  <2>4. Path(Tail(new), name, StateAfter(new[1], s), MarksAfter(new[1], p))
        /\ Finally(new[1], name, s, p)
    BY <1>1, <1>2, <1>3, <2>3
  <2> QED BY <1>1, <1>4, <1>6, <2>4, PathBefore DEF new
<1> QED BY <1>5, <1>6

\* What a statement on the plans makes of them.
LEMMA PlansRead ==
  ASSUME JobTypes, NEW a, NEW j \in Jobs, j = script[a].job, PlanStatement(a)
  PROVE  /\ Marks(j)' = MarksAfter(Op(a), Marks(j))
         /\ \A i \in Jobs : i # j => plans'[i] = plans[i]
<1>0. /\ plans \in [Jobs -> Seq({"PROPOSED", "APPROVED", "SUPERSEDED"})]
      /\ plans[j] \in Seq({"PROPOSED", "APPROVED", "SUPERSEDED"})
      /\ Len(plans[j]) \in Nat /\ DOMAIN plans[j] = 1..Len(plans[j])
  BY DEF JobTypes
<1>1. CASE At(a, "propose") /\ plans' = [plans EXCEPT ![j] = Append(@, "PROPOSED")]
  <2>1. plans'[j] = Append(plans[j], "PROPOSED") /\ \A i \in Jobs : i # j => plans'[i] = plans[i]
    BY <1>0, <1>1
  <2>2. /\ DOMAIN Append(plans[j], "PROPOSED") = 1..(Len(plans[j]) + 1)
        /\ Append(plans[j], "PROPOSED")[Len(plans[j]) + 1] = "PROPOSED"
        /\ \A i \in 1..Len(plans[j]) : Append(plans[j], "PROPOSED")[i] = plans[j][i]
    BY <1>0
  <2>3. 1..(Len(plans[j]) + 1) = 1..Len(plans[j]) \cup {Len(plans[j]) + 1}
    BY <1>0
  <2>4. Marks(j)' = Marks(j) \cup {"PROPOSED"}
    BY <1>0, <2>1, <2>2, <2>3 DEF Marks
  <2>5. Op(a).op = "propose"
    BY <1>1 DEF At, Op
  <2> QED BY <2>1, <2>4, <2>5 DEF MarksAfter
<1>2. ASSUME NEW status, Restatus(j, status)
      PROVE  /\ Marks(j)' = Remarked(Marks(j), status)
             /\ \A i \in Jobs : i # j => plans'[i] = plans[i]
  <2>1. /\ plans'[j] = [i \in DOMAIN plans[j] |->
                          IF plans[j][i] = "PROPOSED" THEN status ELSE plans[j][i]]
        /\ \A i \in Jobs : i # j => plans'[i] = plans[i]
    BY <1>0, <1>2 DEF Restatus
  <2>2. Marks(j)' = Remarked(Marks(j), status)
    BY <2>1 DEF Marks, Remarked
  <2> QED BY <2>1, <2>2
<1>3. CASE At(a, "approvePlans") /\ Restatus(j, "APPROVED")
  BY <1>2, <1>3 DEF At, Op, MarksAfter
<1>4. CASE At(a, "supersede") /\ Restatus(j, "SUPERSEDED")
  BY <1>2, <1>4 DEF At, Op, MarksAfter
<1> QED BY <1>1, <1>3, <1>4 DEF PlanStatement

\* An approval stays.
LEMMA ApprovedStays ==
  ASSUME NEW o, NEW p, "APPROVED" \in p
  PROVE  "APPROVED" \in MarksAfter(o, p)
BY DEF MarksAfter, Remarked

\* Nothing else touches the plans.
LEMMA PlansAfter ==
  ASSUME NEW a, ScriptStep(a)
  PROVE  plans' = plans \/ PlanStatement(a)
BY DEF ScriptStep, ProcessTask, Context, TransitionRead, TransitionWrite, EnqueueStart,
       EnqueueInsert, CancelTasks, AgentStart, AgentSucceeds, AgentFails, Decide, OpenPrGuard,
       CreateJob, JobStatement, Return, jobVars

\* A script that has more to do than to store feedback has its job alone.
LEMMA Sole ==
  ASSUME Steady, Ordered, NEW a \in DOMAIN script, NEW j \in Jobs, j = script[a].job,
         Busy(script[a].ops)
  PROVE  /\ \A b \in DOMAIN script : script[b].job = j /\ Busy(script[b].ops) => b = a
         /\ \A t : ~ (Queued(t) /\ task[t].job = j)
         /\ \A c \in finding : c.job = j => c.by = a
<1>0. /\ Gate /\ LapseFree /\ lapses = 0 /\ Linked /\ Called /\ InOrder(j) /\ Numbered
      /\ Types /\ \A t \in DOMAIN task : t # 0
  <2>1. WorkerTypeOK
    BY DEF Steady, Gate, Types
  <2>2. \A t \in DOMAIN task : t # 0
    BY <2>1, QueueAssumption DEF WorkerTypeOK
  <2> QED BY <2>2 DEF Steady, Ordered, Gate
<1>1. HeldBy(a[1], j)
  BY DEF HeldBy
<1>2. LinkedTo(a)
  BY <1>0 DEF Linked
<1>3. ASSUME NEW b \in DOMAIN script, script[b].job = j, Busy(script[b].ops) PROVE b = a
  <2>1. b[1] = a[1] /\ LinkedTo(b)
    BY <1>0, <1>1, <1>3 DEF HeldBy, InOrder, Linked
  <2>2. CASE a[1] = 0
    BY <1>3, <2>1, <2>2 DEF Steady, Serialized, Requests
  <2>3. CASE a[1] # 0
    <3>1. PICK r \in runs : RunActor(r) = a
      BY <1>2, <2>3 DEF LinkedTo, OfRun
    <3>2. PICK s \in runs : RunActor(s) = b
      BY <2>1, <2>3 DEF LinkedTo, OfRun
    <3>3. r.task = s.task
      BY <2>1, <3>1, <3>2 DEF RunActor
    <3> QED BY <1>0, <3>1, <3>2, <3>3, Exclusive
  <2> QED BY <2>2, <2>3
<1>4. ASSUME NEW t, Queued(t), task[t].job = j PROVE FALSE
  <2>1. t = a[1] /\ t # 0
    BY <1>0, <1>1, <1>4 DEF HeldBy, InOrder, Queued
  <2>2. PICK r \in runs : RunActor(r) = a /\ r.pc \in {"working", "notify"}
    BY <1>2, <2>1 DEF LinkedTo, OfRun
  <2>3. r.task = t
    BY <2>1, <2>2 DEF RunActor
  <2>4. task[t].status # "PENDING" /\ \A s \in runs : s.task = t => s = r
    BY <1>0, <2>3, Exclusive
  <2> QED BY <1>4, <2>2, <2>4 DEF Queued, Failing
<1>5. ASSUME NEW c \in finding, c.job = j PROVE c.by = a
  <2>1. c.by \in DOMAIN script /\ script[c.by].job = j /\ At(c.by, "insert")
    BY <1>0, <1>5 DEF Called
  <2>2. Busy(script[c.by].ops)
    <3> DEFINE ops == script[c.by].ops
    <3>1. ops \in Seq(Ops) /\ ops # <<>> /\ Head(ops).op = "insert"
      BY <1>0, <2>1 DEF Types, ScriptTypes, Script, At
    <3> HIDE DEF ops
    <3>2. 1 \in 1..Len(ops) /\ Head(ops) = ops[1]
      BY <3>1
    <3>3. Busy(ops)
      BY <3>1, <3>2 DEF Busy
    <3> QED BY <3>3 DEF ops
  <2> QED BY <1>3, <2>1, <2>2
<1> QED BY <1>3, <1>4, <1>5

\* The rows past the plan are those of a job whose plan was approved.
LEMMA RowsApproved ==
  ASSUME RowsKept, NEW j \in Jobs, InOrder(j), "APPROVED" \in Marks(j) => "APPROVED" \in Marks(j)'
  PROVE  \A t \in DOMAIN task' :
           task'[t].job = j /\ task'[t].kind # "PLAN" => "APPROVED" \in Marks(j)'
<1> SUFFICES ASSUME NEW t \in DOMAIN task', task'[t].job = j, task'[t].kind # "PLAN"
             PROVE  "APPROVED" \in Marks(j)
  OBVIOUS
<1>1. CASE t \in DOMAIN task
  BY <1>1 DEF RowsKept, InOrder
<1>2. CASE t \notin DOMAIN task
  <2>1. PICK c \in finding : task'[t].job = c.job /\ task'[t].kind = c.kind
    BY <1>2 DEF RowsKept
  <2>2. Fits(c.kind, state[j], Marks(j)) /\ c.kind # "PLAN"
    BY <2>1 DEF InOrder
  <2> QED BY <2>2 DEF Fits
<1> QED BY <1>1, <1>2

\* The job stays in the hands that have it.
LEMMA HandsKept ==
  ASSUME RowsKept, NEW j \in Jobs, InOrder(j), state'[j] = state[j], Marks(j)' = Marks(j),
         \A k : HeldBy(k, j)' <=> HeldBy(k, j),
         \A t : Queued(t)' /\ task'[t].job = j => Fits(task'[t].kind, state[j], Marks(j)),
         \A b \in DOMAIN script' : script'[b].job = j /\ Busy(script'[b].ops) =>
           Path(script'[b].ops, script'[b].name, state[j], Marks(j)),
         \A c \in finding' : c.job = j => Fits(c.kind, state[j], Marks(j))
  PROVE  InOrder(j)'
<1>1. \A t \in DOMAIN task' :
        task'[t].job = j /\ task'[t].kind # "PLAN" => "APPROVED" \in Marks(j)'
  BY RowsApproved
<1>2. /\ \A k, l : HeldBy(k, j)' /\ HeldBy(l, j)' => k = l
      /\ (\A k : ~ HeldBy(k, j)') => GateFits(state'[j], Marks(j)')
  BY DEF InOrder
<1> QED BY <1>1, <1>2 DEF InOrder

\* The script that has the job goes on to what fits.
LEMMA HandTurns ==
  ASSUME Types, RowsKept, NEW a \in DOMAIN script, NEW j \in Jobs, j = script[a].job, InOrder(j),
         \A b \in DOMAIN script : script[b].job = j /\ Busy(script[b].ops) => b = a,
         \A t : ~ (Queued(t) /\ task[t].job = j),
         NEW new \in Seq(Ops), Become(a, new), task' = task, runs' = runs,
         \A c \in finding' : c.job = j => Fits(c.kind, state'[j], Marks(j)'),
         "APPROVED" \in Marks(j) => "APPROVED" \in Marks(j)',
         Path(new, script[a].name, state'[j], Marks(j)')
  PROVE  InOrder(j)'
<1>1. \A t \in DOMAIN task' :
        task'[t].job = j /\ task'[t].kind # "PLAN" => "APPROVED" \in Marks(j)'
  BY RowsApproved
<1>2. /\ DOMAIN script' = DOMAIN script
      /\ script'[a].ops = new /\ script'[a].job = j /\ script'[a].name = script[a].name
      /\ \A b \in DOMAIN script : b # a => script'[b] = script[b]
  BY Replaced DEF Types, ScriptTypes
<1>3. \A b \in DOMAIN script' : script'[b].job = j /\ Busy(script'[b].ops) => b = a
  BY <1>2
<1>4. \A t : ~ (Queued(t)' /\ task'[t].job = j)
  BY DEF Queued
<1>5. \A k : HeldBy(k, j)' => k = a[1]
  BY <1>3, <1>4 DEF HeldBy
<1>6. Busy(new) => HeldBy(a[1], j)'
  BY <1>2 DEF HeldBy
<1>7. ~ Busy(new) => GateFits(state'[j], Marks(j)')
  BY PathIdle
<1>8. \A b \in DOMAIN script' : script'[b].job = j /\ Busy(script'[b].ops) =>
        Path(script'[b].ops, script'[b].name, state'[j], Marks(j)')
  BY <1>2, <1>3
<1> QED BY <1>1, <1>4, <1>5, <1>6, <1>7, <1>8 DEF InOrder

\* The job stays as it is, in the same scripts' hands and with the same rows.
LEMMA HandsSame ==
  ASSUME RowsKept, NEW j \in Jobs, InOrder(j), state'[j] = state[j], Marks(j)' = Marks(j),
         \A t : (Queued(t)' /\ task'[t].job = j) <=> (Queued(t) /\ task[t].job = j),
         \A b \in DOMAIN script : script[b].job = j /\ Busy(script[b].ops) =>
           b \in DOMAIN script' /\ script'[b] = script[b],
         \A b \in DOMAIN script' : script'[b].job = j /\ Busy(script'[b].ops) =>
           b \in DOMAIN script /\ script'[b] = script[b],
         \A c \in finding' : c.job = j => c \in finding
  PROVE  InOrder(j)'
<1>1. \A k : HeldBy(k, j)' <=> HeldBy(k, j)
  BY DEF HeldBy
<1>2. ASSUME NEW t, Queued(t)', task'[t].job = j
      PROVE  Fits(task'[t].kind, state[j], Marks(j))
  <2>1. Queued(t) /\ task[t].job = j
    BY <1>2
  <2>2. task'[t].kind = task[t].kind
    BY <2>1 DEF Queued, RowsKept
  <2> QED BY <2>1, <2>2 DEF InOrder
<1>3. \A b \in DOMAIN script' : script'[b].job = j /\ Busy(script'[b].ops) =>
        Path(script'[b].ops, script'[b].name, state[j], Marks(j))
  BY DEF InOrder
<1>4. \A c \in finding' : c.job = j => Fits(c.kind, state[j], Marks(j))
  BY DEF InOrder
<1> QED BY <1>1, <1>2, <1>3, <1>4, HandsKept

\* A script's execution runs the row of the script's job.
LEMMA RunsOwn ==
  ASSUME Steady, NEW a \in DOMAIN script, NEW r \in runs, RunActor(r) = a
  PROVE  /\ r.task \in DOMAIN task /\ task[r.task].job = script[a].job /\ a[1] = r.task
         /\ a[1] # 0 /\ r \in Execution
         /\ \A s \in runs : s.task = r.task => s = r
         /\ task[r.task].status # "PENDING"
<1>0. /\ Gate /\ LapseFree /\ lapses = 0 /\ LinkedTo(a) /\ r \in Execution
  BY DEF Steady, Linked, Gate, Types, WorkerTypeOK
<1>1. /\ r.task \in DOMAIN task /\ r.task # 0 /\ task[r.task].status # "PENDING"
      /\ \A s \in runs : s.task = r.task => s = r
  BY <1>0, Exclusive
<1>2. a[1] = r.task
  BY DEF RunActor
<1>3. PICK s \in runs : RunActor(s) = a /\ task[s.task].job = script[a].job
  BY <1>0, <1>1, <1>2 DEF LinkedTo, OfRun
<1>4. s = r
  BY <1>0, <1>3, Exclusive
<1> QED BY <1>0, <1>1, <1>2, <1>3, <1>4

\* What a script does to the queue concerns its own job.
LEMMA QueueElsewhere ==
  ASSUME Steady, NEW a \in DOMAIN script, QueueMoves(a), NEW j \in Jobs, j # script[a].job
  PROVE  /\ \A t : (Queued(t)' /\ task'[t].job = j) <=> (Queued(t) /\ task[t].job = j)
         /\ \A c \in finding' : c.job = j => c \in finding
<1>0. expired = {}
  BY DEF Steady
<1>1. CASE UNCHANGED queueVars
  BY <1>1 DEF queueVars, Queued
<1>2. ASSUME NEW r \in RunOf(a), HandlerReturns(r) \/ HandlerThrows(r) \/ Escalated(r)
      PROVE  /\ \A t : (Queued(t)' /\ task'[t].job = j) <=> (Queued(t) /\ task[t].job = j)
             /\ \A c \in finding' : c.job = j => c \in finding
  <2>1. /\ r \in runs /\ task[r.task].job = script[a].job /\ r \in Execution
    BY <1>2, RunsOwn DEF RunOf
  <2>2. /\ task' = task /\ finding' = finding /\ \A s \in runs : s # r => s \in runs'
        /\ \A s \in runs' : s \in runs \/ s.task = r.task
    BY <1>2, <2>1 DEF HandlerReturns, HandlerThrows, Escalated, Goto, End, Execution
  <2> QED BY <2>1, <2>2 DEF Queued
<1>3. ASSUME NEW x \in ExpiredOf(a), TickEscalated(x) PROVE FALSE
  BY <1>0, <1>3 DEF ExpiredOf
<1>4. CASE EnqueueFind(a, script[a].job, Op(a).kind)
  BY <1>4 DEF EnqueueFind, Queued
<1>5. ASSUME NEW c \in finding, NEW t \in TaskIds, c.by = a, EnqueueCreate(c, t)
      PROVE  /\ \A u : (Queued(u)' /\ task'[u].job = j) <=> (Queued(u) /\ task[u].job = j)
             /\ \A d \in finding' : d.job = j => d \in finding
  <2>1. c.job # j
    BY <1>5 DEF Steady, Called
  <2>2. /\ t \notin DOMAIN task /\ task' = Created(task, t, c.job, c.kind) /\ runs' = runs
        /\ finding' = finding \ {c}
    BY <1>5, QueueAssumption DEF EnqueueCreate, IsNextId, TaskIds
  <2>3. /\ DOMAIN task' = DOMAIN task \cup {t} /\ task'[t].job = c.job
        /\ \A u \in DOMAIN task : task'[u] = task[u]
    BY <2>2 DEF Created, NewRow
  <2> QED BY <2>1, <2>2, <2>3 DEF Queued
<1>6. CASE CancelForJob(script[a].job)
  <2>1. /\ DOMAIN task' = DOMAIN task /\ runs' = runs /\ finding' = finding
        /\ \A u \in DOMAIN task :
             task'[u].job = task[u].job /\ (task[u].job = j => task'[u] = task[u])
    BY <1>6 DEF CancelForJob, CancelledFor
  <2> QED BY <2>1 DEF Queued
<1> QED BY <1>1, <1>2, <1>3, <1>4, <1>5, <1>6 DEF QueueMoves

\* A script does nothing to another job.
LEMMA OthersOrder ==
  ASSUME Steady, RowsKept, NEW a \in DOMAIN script, ScriptStep(a),
         NEW j \in Jobs, j # script[a].job, InOrder(j)
  PROVE  InOrder(j)'
<1>0. Types /\ JobTypes /\ Acts(a) /\ script[a].job \in Jobs
  <2>1. Types
    BY DEF Steady, Gate
  <2> QED BY <2>1, Acting DEF Types, ScriptTypes, Script
<1>1. state'[j] = state[j]
  BY <1>0 DEF Acts, JobMoves, JobTypes
<1>2. Marks(j)' = Marks(j)
  <2>1. plans'[j] = plans[j]
    BY <1>0, PlansAfter, PlansRead
  <2> QED BY <2>1 DEF Marks
<1>3. /\ \A t : (Queued(t)' /\ task'[t].job = j) <=> (Queued(t) /\ task[t].job = j)
      /\ \A c \in finding' : c.job = j => c \in finding
  BY <1>0, QueueElsewhere DEF Acts
<1>4. /\ \A b \in DOMAIN script : b # a => b \in DOMAIN script' /\ script'[b] = script[b]
      /\ \A b \in DOMAIN script' : b \in DOMAIN script /\ script'[b].job = script[b].job
  <2>1. CASE script' = Without(a)
    BY <2>1 DEF Without
  <2>2. CASE Turns(a)
    BY <1>0, <2>2, Replaced DEF Turns, Types, ScriptTypes
  <2> QED BY <1>0, <2>1, <2>2 DEF Acts
<1> QED BY <1>1, <1>2, <1>3, <1>4, HandsSame

\* Feedback alone, and what is left of it.
LEMMA IdleOps ==
  ASSUME NEW ops \in Seq(Ops), ops # <<>>, ~ Busy(ops)
  PROVE  Head(ops).op = "feedback" /\ ~ Busy(Tail(ops))
<1>1. Do("cycle") \in Ops
  BY OtherOps DEF Statements
<1>2. /\ 1 \in 1..Len(ops) /\ Head(ops) = ops[1]
      /\ \A k \in 1..Len(Tail(ops)) : k + 1 \in 1..Len(ops) /\ Tail(ops)[k] = ops[k + 1]
  BY <1>1, RestOps
<1> QED BY <1>2 DEF Busy

\* A script that is over, or has only feedback to store, does nothing to the
\* order of its job.
LEMMA IdleOrder ==
  ASSUME Steady, RowsKept, NEW a \in DOMAIN script, ScriptStep(a), ~ Busy(script[a].ops),
         NEW j \in Jobs, j = script[a].job, InOrder(j)
  PROVE  InOrder(j)'
<1> DEFINE ops == script[a].ops
<1>0. Types /\ JobTypes /\ Acts(a) /\ ops \in Seq(Ops) /\ expired = {}
  <2>1. Types
    BY DEF Steady, Gate
  <2> QED BY <2>1, Acting DEF Types, ScriptTypes, Script, Steady
<1>a. ops # <<>> => Head(ops).op = "feedback" /\ ~ Busy(Tail(ops))
  <2> HIDE DEF ops
  <2> QED BY <1>0, IdleOps DEF ops
<1>b. \A x : At(a, x) => x = "feedback"
  BY <1>a DEF At
<1>c. \A x : Become(a, x) => script' # Without(a)
  BY DEF Become, Without
<1>1. state' = state
  BY <1>0, <1>b DEF Acts, JobMoves
<1>2. Marks(j)' = Marks(j)
  <2>1. plans' = plans
    BY <1>b, PlansAfter DEF PlanStatement
  <2> QED BY <2>1 DEF Marks
<1>3. CASE script' = Without(a)
  <2>1. Return(a)
    BY <1>3, <1>b, Departs
  <2>2. /\ \A t : (Queued(t)' /\ task'[t].job = j) <=> (Queued(t) /\ task[t].job = j)
        /\ finding' = finding
    <3>1. CASE UNCHANGED queueVars
      BY <3>1 DEF queueVars, Queued
    <3>2. ASSUME NEW r \in RunOf(a), HandlerReturns(r) \/ Escalated(r)
          PROVE  /\ \A t : (Queued(t)' /\ task'[t].job = j) <=> (Queued(t) /\ task[t].job = j)
                 /\ finding' = finding
      <4>1. r \in runs /\ r \in Execution /\ r.pc \notin Failing
        BY <3>2, RunsOwn DEF RunOf, HandlerReturns, Escalated, Failing
      <4>2. /\ task' = task /\ finding' = finding /\ \A s \in runs : s # r => s \in runs'
            /\ \A s \in runs' : s \in runs \/ s.pc = "complete"
        BY <3>2, <4>1 DEF HandlerReturns, Escalated, Goto, End, Execution
      <4> QED BY <4>1, <4>2 DEF Queued, Failing
    <3>3. ASSUME NEW x \in ExpiredOf(a) PROVE FALSE
      BY <1>0, <3>3 DEF ExpiredOf
    <3> QED BY <2>1, <3>1, <3>2, <3>3 DEF Return
  <2>3. /\ DOMAIN script' = DOMAIN script \ {a}
        /\ \A b \in DOMAIN script' : script'[b] = script[b]
    BY <1>3 DEF Without
  <2> QED BY <1>1, <1>2, <2>2, <2>3, HandsSame
<1>4. CASE Turns(a)
  <2>1. PICK new \in Seq(Ops) : Become(a, new) /\ Turned(ops, new, script[a].name, state[j])
    BY <1>4 DEF Turns
  <2>2. new = Tail(ops) /\ ops # <<>>
    BY <1>a, <2>1 DEF Turned
  <2>3. ~ Busy(new)
    BY <1>a, <2>2
  <2>4. UNCHANGED queueVars
    BY <1>0, <1>b, <1>c, <2>1 DEF Acts, QueueMoves
  <2>5. /\ DOMAIN script' = DOMAIN script /\ script'[a].ops = new
        /\ \A b \in DOMAIN script : b # a => script'[b] = script[b]
    BY <1>0, <2>1, Replaced DEF Types, ScriptTypes
  <2>6. /\ \A t : (Queued(t)' /\ task'[t].job = j) <=> (Queued(t) /\ task[t].job = j)
        /\ finding' = finding
    BY <2>4 DEF queueVars, Queued
  <2> QED BY <1>1, <1>2, <2>3, <2>5, <2>6, HandsSame
<1> QED BY <1>0, <1>3, <1>4 DEF Acts

\* What a script that is at it has next, and what that leads to.
LEMMA BusyHead ==
  ASSUME Steady, Ordered, NEW a \in DOMAIN script, NEW j \in Jobs, j = script[a].job,
         Busy(script[a].ops)
  PROVE  /\ Types /\ InOrder(j) /\ script[a].name \in Names
         /\ script[a].ops \in Seq(Ops) /\ script[a].ops # <<>>
         /\ Op(a) = script[a].ops[1] /\ Op(a) \in Ops /\ Rest(a) = Tail(script[a].ops)
         /\ Rest(a) \in Seq(Ops) /\ \A x : At(a, x) <=> Op(a).op = x
         /\ Path(script[a].ops, script[a].name, state[j], Marks(j))
         /\ Legal(Op(a), script[a].name, state[j], Marks(j))
         /\ Op(a).op \in {"enqueue", "insert"} => Rest(a) = <<>>
         /\ Path(Rest(a), script[a].name, StateAfter(Op(a), state[j]), MarksAfter(Op(a), Marks(j)))
<1> DEFINE ops == script[a].ops
<1>0. Types /\ InOrder(j) /\ ops \in Seq(Ops) /\ script[a].name \in Names
  <2>1. Types
    BY DEF Steady, Gate
  <2> QED BY <2>1 DEF Types, ScriptTypes, Script, Ordered
<1>1. ops # <<>>
  BY DEF Busy
<1>2. Path(ops, script[a].name, state[j], Marks(j))
  BY <1>0 DEF InOrder
<1>3. /\ Op(a) = Head(ops) /\ Rest(a) = Tail(ops) /\ \A x : At(a, x) <=> Op(a).op = x
  BY <1>1 DEF Op, Rest, At
<1> HIDE DEF ops
<1>4. /\ Head(ops) = ops[1] /\ Head(ops) \in Ops /\ Tail(ops) \in Seq(Ops)
      /\ Len(ops) = 1 => Tail(ops) = <<>>
  <2>1. /\ Head(ops) = ops[1] /\ Head(ops) \in Ops /\ Tail(ops) \in Seq(Ops)
        /\ Len(Tail(ops)) = Len(ops) - 1
    BY <1>0, <1>1
  <2> DEFINE rest == Tail(ops)
  <2>2. rest \in Seq(Ops) /\ (Len(ops) = 1 => Len(rest) = 0)
    BY <2>1
  <2> HIDE DEF rest
  <2>3. Len(ops) = 1 => rest = <<>>
    BY ONLY <2>2
  <2> QED BY <2>1, <2>3 DEF rest
<1>5. /\ Legal(ops[1], script[a].name, state[j], Marks(j))
      /\ ops[1].op \in {"enqueue", "insert"} => Len(ops) = 1
      /\ Path(Tail(ops), script[a].name, StateAfter(ops[1], state[j]),
              MarksAfter(ops[1], Marks(j)))
  BY <1>0, <1>1, <1>2, PathHead
<1> QED BY <1>0, <1>1, <1>2, <1>3, <1>4, <1>5 DEF ops

\* It goes on to what fits.
LEMMA BusyTurns ==
  ASSUME Steady, Ordered, RowsKept, NEW a \in DOMAIN script, NEW j \in Jobs, j = script[a].job,
         Busy(script[a].ops), ~ At(a, "insert"),
         NEW new \in Seq(Ops), Become(a, new), task' = task, runs' = runs,
         \A c \in finding' : c \in finding \/ Fits(c.kind, state'[j], Marks(j)'),
         "APPROVED" \in Marks(j) => "APPROVED" \in Marks(j)',
         Path(new, script[a].name, state'[j], Marks(j)')
  PROVE  InOrder(j)'
<1>1. /\ \A b \in DOMAIN script : script[b].job = j /\ Busy(script[b].ops) => b = a
      /\ \A t : ~ (Queued(t) /\ task[t].job = j)
      /\ \A c \in finding : c.job = j => c.by = a
  BY Sole
<1>2. \A c \in finding' : c.job = j => Fits(c.kind, state'[j], Marks(j)')
  BY <1>1 DEF Steady, Called
<1>3. Types /\ InOrder(j)
  BY DEF Steady, Gate, Ordered
<1> QED BY <1>1, <1>2, <1>3, HandTurns

\* It has done what was next.
LEMMA BusyAdvances ==
  ASSUME Steady, Ordered, RowsKept, NEW a \in DOMAIN script, NEW j \in Jobs, j = script[a].job,
         Busy(script[a].ops), ~ At(a, "insert"), Advance(a),
         task' = task, runs' = runs, finding' = finding,
         state'[j] = StateAfter(Op(a), state[j]), Marks(j)' = MarksAfter(Op(a), Marks(j))
  PROVE  InOrder(j)'
<1>1. /\ Rest(a) \in Seq(Ops) /\ Become(a, Rest(a))
      /\ Path(Rest(a), script[a].name, state'[j], Marks(j)')
  BY BusyHead DEF Advance
<1>2. "APPROVED" \in Marks(j) => "APPROVED" \in Marks(j)'
  BY ApprovedStays
<1> QED BY <1>1, <1>2, BusyTurns

\* What is next goes on as another operation.
LEMMA BusyGoesOn ==
  ASSUME Steady, Ordered, RowsKept, NEW a \in DOMAIN script, NEW j \in Jobs, j = script[a].job,
         Busy(script[a].ops), ~ At(a, "insert"), NEW o \in Ops, Become(a, <<o>> \o Rest(a)),
         task' = task, runs' = runs, state' = state, plans' = plans,
         \A c \in finding' : c \in finding \/ Fits(c.kind, state[j], Marks(j)),
         Legal(o, script[a].name, state[j], Marks(j)),
         StateAfter(o, state[j]) = StateAfter(Op(a), state[j]),
         MarksAfter(o, Marks(j)) = MarksAfter(Op(a), Marks(j)),
         o.op \notin {"feedback", "enqueue"}, o.op = "insert" => Op(a).op = "enqueue"
  PROVE  InOrder(j)'
<1> DEFINE new == <<o>> \o Rest(a)
           ops == script[a].ops
<1>1. /\ ops \in Seq(Ops) /\ ops # <<>> /\ Op(a) = ops[1] /\ Rest(a) = Tail(ops)
      /\ Path(ops, script[a].name, state[j], Marks(j))
  BY BusyHead
<1>2. new \in Seq(Ops)
  <2> HIDE DEF ops
  <2> QED BY <1>1, RestOps
<1>3. Path(new, script[a].name, state[j], Marks(j))
  <2> HIDE DEF ops
  <2> QED BY <1>1, PathGoesOn
<1>4. Marks(j)' = Marks(j)
  BY DEF Marks
<1>5. Become(a, new)
  OBVIOUS
<1> HIDE DEF new, ops
<1> QED BY <1>2, <1>3, <1>4, <1>5, BusyTurns

\* It decides on what fits.
LEMMA BusyDecides ==
  ASSUME Steady, Ordered, RowsKept, NEW a \in DOMAIN script, NEW j \in Jobs, j = script[a].job,
         Busy(script[a].ops), ~ At(a, "insert"), NEW new \in Seq(Ops), Become(a, new),
         UNCHANGED <<queueVars, state, plans>>,
         Path(new, script[a].name, state[j], Marks(j))
  PROVE  InOrder(j)'
<1>1. Marks(j)' = Marks(j) /\ state' = state /\ task' = task /\ runs' = runs /\ finding' = finding
  BY DEF Marks, queueVars
<1> QED BY <1>1, BusyTurns

\* Where an execution of a row that fits begins.
LEMMA BeginningPath ==
  ASSUME NEW w \in {"process", "context"}, NEW name \in TASK_KINDS, NEW s, NEW p, Fits(name, s, p)
  PROVE  /\ s \in Working /\ s \notin TERMINAL_STATES
         /\ <<Do(w)>> \in Seq(Ops) /\ Path(<<Do(w)>>, name, s, p)
<1>1. s \in Working /\ s \notin TERMINAL_STATES
  BY DEF Fits, retryStateMap, Working, TASK_KINDS, TERMINAL_STATES
<1> DEFINE o == Do(w)
<1>2. o \in Ops /\ o.op = w
  BY OtherOps DEF Statements
<1>3. Onward(o, name, s, p) /\ StateAfter(o, s) = s /\ MarksAfter(o, p) = p
  BY <1>1, Stated DEF Statements
<1> HIDE DEF o
<1>4. GateFits(s, p)
  BY <1>1 DEF GateFits, Working
<1>5. Path(<<o>>, name, s, p) /\ <<o>> \in Seq(Ops)
  BY <1>2, <1>3, <1>4, PathOne DEF Onward, Finally
<1> QED BY <1>1, <1>5 DEF o

\* The escalation of a job that is in work.
LEMMA FailingPath ==
  ASSUME NEW s \in Working, NEW p
  PROVE  <<T("FAILED")>> \in Seq(Ops) /\ Path(<<T("FAILED")>>, "exhausted", s, p)
<1>1. /\ "FAILED" \in JOB_STATES /\ s # "ABSENT" /\ canTransition(s, "FAILED")
      /\ GateFits("FAILED", p)
  BY DEF JOB_STATES, Working, canTransition, TERMINAL_STATES, GateFits
<1> DEFINE o == T("FAILED")
<1>2. o \in Ops /\ Finally(o, "exhausted", s, p)
  BY <1>1, MoveOps, Transitions
<1> HIDE DEF o
<1>3. <<o>> \in Seq(Ops) /\ Path(<<o>>, "exhausted", s, p)
  BY <1>2, PathOne
<1> QED BY <1>3 DEF o

\* The steps of a script that is at it which ask nothing of the queue and of
\* the table of transitions.
LEMMA BusyWorks ==
  ASSUME Steady, Ordered, RowsKept, NEW a \in DOMAIN script, NEW j \in Jobs, j = script[a].job,
         Busy(script[a].ops),
         \/ ProcessTask(a) \/ Context(a) \/ TransitionWrite(a) \/ AgentStart(a)
         \/ AgentSucceeds(a) \/ Decide(a) \/ OpenPrGuard(a) \/ PlanStatement(a)
         \/ JobStatement(a)
  PROVE  InOrder(j)'
<1> DEFINE name == script[a].name
           s == state[j]
           p == Marks(j)
<1>0. /\ Types /\ JobTypes /\ Op(a) \in Ops /\ \A x : At(a, x) <=> Op(a).op = x
      /\ Legal(Op(a), name, s, p) /\ Rest(a) \in Seq(Ops)
  BY BusyHead DEF Types
<1> HIDE DEF name, s, p
<1>1. CASE ProcessTask(a)
  <2>1. Op(a).op = "process" /\ name \in TASK_KINDS /\ Fits(name, s, p)
    BY <1>0, <1>1 DEF ProcessTask, Legal
  <2> DEFINE new == <<Do("context")>>
  <2>2. s \notin TERMINAL_STATES /\ new \in Seq(Ops) /\ Path(new, name, s, p)
    BY <2>1, BeginningPath
  <2>3. Become(a, new) /\ UNCHANGED <<queueVars, state, plans>> /\ ~ At(a, "insert")
    BY <1>0, <1>1, <2>1, <2>2 DEF ProcessTask, jobVars, s
  <2> HIDE DEF new
  <2> QED BY <2>2, <2>3, BusyDecides DEF name, s, p
<1>2. CASE Context(a)
  <2>1. Op(a).op = "context" /\ name \in TASK_KINDS /\ Fits(name, s, p)
    BY <1>0, <1>2 DEF Context, Legal
  <2> DEFINE new == HandlerOps(name, s)
  <2>2. new \in Seq(Ops) /\ Path(new, name, s, p)
    BY <2>1, HandlerPath, Handlers DEF HandlerScript
  <2>3. Become(a, new) /\ UNCHANGED <<queueVars, state, plans>> /\ ~ At(a, "insert")
    BY <1>0, <1>2, <2>1 DEF Context, jobVars, s, name
  <2> HIDE DEF new
  <2> QED BY <2>2, <2>3, BusyDecides DEF name, s, p
<1>3. CASE TransitionWrite(a)
  <2>1. Op(a).op = "write" /\ ~ At(a, "insert") /\ Advance(a)
    BY <1>0, <1>3 DEF TransitionWrite
  <2>2. /\ state'[j] = StateAfter(Op(a), s) /\ Marks(j)' = p /\ MarksAfter(Op(a), p) = p
        /\ task' = task /\ runs' = runs /\ finding' = finding
    BY <1>0, <1>3, <2>1
    DEF TransitionWrite, JobTypes, StateAfter, MarksAfter, Moves, Marks, queueVars, s, p
  <2> QED BY <2>1, <2>2, BusyAdvances DEF s, p
<1>4. CASE AgentStart(a)
  <2>1. Op(a).op = "agent" /\ ~ At(a, "insert")
    BY <1>0, <1>4 DEF AgentStart
  <2> DEFINE o == [op |-> "await", phase |-> Op(a).phase]
  <2>2. o \in Ops /\ o.op = "await" /\ o.phase = Op(a).phase
    BY <1>0, <2>1, OpFields, OtherOps
  <2>3. /\ Become(a, <<o>> \o Rest(a)) /\ task' = task /\ runs' = runs /\ finding' = finding
        /\ state' = state /\ plans' = plans
    BY <1>4 DEF AgentStart, queueVars
  <2> HIDE DEF o
  <2>4. /\ Legal(o, name, s, p) /\ StateAfter(o, s) = StateAfter(Op(a), s)
        /\ MarksAfter(o, p) = MarksAfter(Op(a), p)
    BY <1>0, <2>1, <2>2 DEF Legal, StateAfter, MarksAfter, Moves
  <2> QED BY <2>1, <2>2, <2>3, <2>4, BusyGoesOn DEF name, s, p
<1>5. CASE AgentSucceeds(a)
  <2>1. Op(a).op = "await" /\ ~ At(a, "insert") /\ Advance(a)
    BY <1>0, <1>5 DEF AgentSucceeds
  <2>2. /\ state'[j] = StateAfter(Op(a), s) /\ Marks(j)' = MarksAfter(Op(a), p)
        /\ task' = task /\ runs' = runs /\ finding' = finding
    BY <1>5, <2>1
    DEF AgentSucceeds, StateAfter, MarksAfter, Moves, Marks, queueVars, jobVars, s, p
  <2> QED BY <2>1, <2>2, BusyAdvances DEF s, p
<1>6. CASE Decide(a)
  <2>1. PICK new : /\ Become(a, new)
                   /\ \/ At(a, "verified") /\ new \in AfterVerify
                      \/ At(a, "reviewed") /\ new \in AfterReview
    BY <1>6 DEF Decide
  <2>2. /\ \/ Fits("VERIFY", s, p) /\ new \in AfterVerify
           \/ Fits("REVIEW", s, p) /\ new \in AfterReview
        /\ ~ At(a, "insert")
    BY <1>0, <2>1 DEF Legal
  <2>3. new \in Seq(Ops) /\ Path(new, name, s, p)
    BY <2>2, Decisions, DecisionPath DEF HandlerScript
  <2>4. UNCHANGED <<queueVars, state, plans>>
    BY <1>6 DEF Decide, jobVars
  <2> QED BY <2>1, <2>2, <2>3, <2>4, BusyDecides DEF name, s, p
<1>7. CASE OpenPrGuard(a)
  <2>1. Op(a).op = "guard" /\ ~ At(a, "insert") /\ Fits("OPEN_PR", s, p)
    BY <1>0, <1>7 DEF OpenPrGuard, Legal
  <2>2. UNCHANGED <<queueVars, state, plans>>
    BY <1>7 DEF OpenPrGuard, jobVars
  <2>3. CASE Become(a, MoveOn("REVISING", "REVISE"))
    <3> DEFINE new == MoveOn("REVISING", "REVISE")
    <3>1. new \in Seq(Ops) /\ Path(new, name, s, p) /\ Become(a, new)
      BY <2>1, <2>3, Decisions, DecisionPath DEF HandlerScript
    <3> HIDE DEF new
    <3> QED BY <2>1, <2>2, <3>1, BusyDecides DEF name, s, p
  <2>4. CASE Advance(a)
    <3>1. /\ state'[j] = StateAfter(Op(a), s) /\ Marks(j)' = MarksAfter(Op(a), p)
          /\ task' = task /\ runs' = runs /\ finding' = finding
      BY <2>1, <2>2 DEF StateAfter, MarksAfter, Moves, Marks, queueVars, s, p
    <3> QED BY <2>1, <2>4, <3>1, BusyAdvances DEF s, p
  <2> QED BY <1>7, <2>3, <2>4 DEF OpenPrGuard
<1>8. CASE PlanStatement(a)
  <2>1. Op(a).op \in {"propose", "approvePlans", "supersede"} /\ ~ At(a, "insert") /\ Advance(a)
    BY <1>0, <1>8 DEF PlanStatement
  <2>2. Marks(j)' = MarksAfter(Op(a), p)
    BY <1>0, <1>8, PlansRead DEF p
  <2>3. /\ state'[j] = StateAfter(Op(a), s)
        /\ task' = task /\ runs' = runs /\ finding' = finding
    BY <1>8, <2>1 DEF PlanStatement, StateAfter, Moves, queueVars, s
  <2> QED BY <2>1, <2>2, <2>3, BusyAdvances DEF s, p
<1>9. CASE JobStatement(a)
  <2>1. Op(a).op \in {"cycle", "savePr", "feedback"} /\ ~ At(a, "insert") /\ Advance(a)
    BY <1>0, <1>9 DEF JobStatement
  <2>2. UNCHANGED <<queueVars, state, plans>>
    BY <1>9 DEF JobStatement
  <2>3. /\ state'[j] = StateAfter(Op(a), s) /\ Marks(j)' = MarksAfter(Op(a), p)
        /\ task' = task /\ runs' = runs /\ finding' = finding
    BY <2>1, <2>2 DEF StateAfter, MarksAfter, Moves, Marks, queueVars, s, p
  <2> QED BY <2>1, <2>3, BusyAdvances DEF s, p
<1> QED BY <1>1, <1>2, <1>3, <1>4, <1>5, <1>6, <1>7, <1>8, <1>9

\* No script has job j, and no call of enqueue for it is under way.
DoneWith(j) ==
  /\ \A b \in DOMAIN script : ~ (script[b].job = j /\ Busy(script[b].ops))
  /\ \A c \in finding : c.job # j

\* The only row of job j that waits, runs or fails is u, if any, and it fits the job.
LeftTo(u, j) ==
  \A t : Queued(t) /\ task[t].job = j => t = u /\ Fits(task[t].kind, state[j], Marks(j))

\* The script that had the job is over: a row has the job, or nobody.
LEMMA HandsOver ==
  ASSUME RowsKept, NEW j \in Jobs, InOrder(j), state'[j] = state[j], Marks(j)' = Marks(j),
         DoneWith(j)', NEW u, LeftTo(u, j)', GateFits(state[j], Marks(j))
  PROVE  InOrder(j)'
<1>1. \A t \in DOMAIN task' :
        task'[t].job = j /\ task'[t].kind # "PLAN" => "APPROVED" \in Marks(j)'
  BY RowsApproved
<1>2. \A k : HeldBy(k, j)' => k = u
  BY DEF HeldBy, DoneWith, LeftTo
<1>3. GateFits(state'[j], Marks(j)')
  OBVIOUS
<1> QED BY <1>1, <1>2, <1>3 DEF InOrder, DoneWith, LeftTo

\* A job that a task fits is not at a gate.
LEMMA FitsAtWork ==
  ASSUME NEW kind \in TASK_KINDS, NEW s, NEW p, Fits(kind, s, p)
  PROVE  s \in Working /\ GateFits(s, p) /\ s \notin TERMINAL_STATES
BY DEF Fits, retryStateMap, Working, TASK_KINDS, GateFits, TERMINAL_STATES

\* The exception of a request, and that of a handler.
LEMMA BusyThrows ==
  ASSUME Steady, Ordered, RowsKept, NEW a \in DOMAIN script, NEW j \in Jobs, j = script[a].job,
         Busy(script[a].ops), ~ At(a, "insert"), Throw(a), state' = state, plans' = plans,
         \/ script[a].name \in RequestKinds /\ GateFits(state[j], Marks(j))
         \/ script[a].name \in TASK_KINDS /\ Fits(script[a].name, state[j], Marks(j))
  PROVE  InOrder(j)'
<1>0. /\ InOrder(j) /\ Numbered /\ Called /\ LinkedTo(a) /\ expired = {}
      /\ Marks(j)' = Marks(j) /\ script' = Without(a)
  BY DEF Ordered, Steady, Linked, Marks, Throw
<1>1. /\ \A b \in DOMAIN script : script[b].job = j /\ Busy(script[b].ops) => b = a
      /\ \A t : ~ (Queued(t) /\ task[t].job = j)
      /\ \A c \in finding : c.job # j
  BY <1>0, Sole DEF Called
<1>2. \A b \in DOMAIN script' : ~ (script'[b].job = j /\ Busy(script'[b].ops))
  BY <1>0, <1>1 DEF Without
<1>3. CASE script[a].name \in RequestKinds /\ GateFits(state[j], Marks(j))
  <2>1. a[1] = 0
    BY <1>0, <1>3, NamesApart DEF LinkedTo
  <2>2. RunOf(a) = {} /\ ExpiredOf(a) = {}
    BY <1>0, <2>1, RunsOwn DEF RunOf, ExpiredOf
  <2>3. UNCHANGED queueVars
    BY <2>2 DEF Throw
  <2>4. /\ \A t : ~ (Queued(t)' /\ task'[t].job = j)
        /\ finding' = finding
    BY <1>1, <2>3 DEF queueVars, Queued
  <2>5. DoneWith(j)' /\ LeftTo(0, j)'
    BY <1>1, <1>2, <2>4 DEF DoneWith, LeftTo
  <2> QED BY <1>0, <1>3, <2>5, HandsOver
<1>4. CASE script[a].name \in TASK_KINDS /\ Fits(script[a].name, state[j], Marks(j))
  <2>1. PICK r \in runs : RunActor(r) = a /\ r.pc = "working"
    BY <1>0, <1>4, NamesApart DEF LinkedTo, OfRun
  <2>2. PICK x \in RunOf(a) : HandlerThrows(x)
    BY <2>1 DEF Throw, RunOf
  <2>3. /\ x \in runs /\ x.task \in DOMAIN task /\ task[x.task].job = j /\ a[1] = x.task
        /\ x \in Execution
    BY <2>2, RunsOwn DEF RunOf
  <2>4. /\ task' = task /\ finding' = finding /\ \A y \in runs' : y \in runs \/ y.task = x.task
    BY <2>2, <2>3 DEF HandlerThrows, Goto, Execution
  <2>5. task[x.task].kind = script[a].name
    BY <1>0, <1>4, <2>3 DEF Numbered
  <2>6. \A t : Queued(t)' /\ task'[t].job = j => t = x.task
    BY <1>1, <2>4 DEF Queued
  <2>7. \A t : Queued(t)' /\ task'[t].job = j =>
          t = x.task /\ Fits(task'[t].kind, state[j], Marks(j))
    BY <1>4, <2>4, <2>5, <2>6
  <2>8. GateFits(state[j], Marks(j))
    BY <1>4, FitsAtWork
  <2>9. DoneWith(j)'
    BY <1>1, <1>2, <2>4 DEF DoneWith
  <2>10. LeftTo(x.task, j)'
    BY <1>0, <2>7 DEF LeftTo
  <2> QED BY <1>0, <2>8, <2>9, <2>10, HandsOver
<1> QED BY <1>3, <1>4

\* A script that is at it moves its job along the table.
LEMMA BusyReads ==
  ASSUME Steady, Ordered, RowsKept, NEW a \in DOMAIN script, NEW j \in Jobs, j = script[a].job,
         Busy(script[a].ops), TransitionRead(a)
  PROVE  InOrder(j)'
<1> DEFINE name == script[a].name
           s == state[j]
           p == Marks(j)
           to == Op(a).to
           o == [op |-> "write", to |-> to]
<1>0. /\ Op(a) \in Ops /\ Op(a).op = "transition" /\ ~ At(a, "insert")
      /\ Legal(Op(a), name, s, p) /\ name \in Names
  BY BusyHead DEF TransitionRead
<1>1. to \in JOB_STATES /\ o \in Ops /\ o.op = "write" /\ o.to = to /\ Op(a).force \in BOOLEAN
  BY <1>0, OpFields, MoveOps
<1>2. /\ state' = state /\ plans' = plans /\ Marks(j)' = p
  BY DEF TransitionRead, jobVars, Marks
<1>3. /\ StateAfter(Op(a), s) = to /\ MarksAfter(Op(a), p) = p
      /\ StateAfter(o, s) = to /\ MarksAfter(o, p) = p
  BY <1>0, <1>1 DEF StateAfter, MarksAfter, Moves
<1>4. /\ s # "ABSENT" /\ (name \notin RequestKinds => s \in Working)
      /\ IF Op(a).force THEN s = "FAILED" /\ to \in Resumed
         ELSE s = to \/ s \in TERMINAL_STATES \/ canTransition(s, to)
  BY <1>0 DEF Legal
<1>a. \/ s = to /\ Advance(a) /\ UNCHANGED queueVars
      \/ /\ s # to /\ (Op(a).force \/ canTransition(s, to))
         /\ Become(a, <<o>> \o Rest(a)) /\ UNCHANGED queueVars
      \/ s # to /\ ~ Op(a).force /\ ~ canTransition(s, to) /\ Throw(a)
  BY DEF TransitionRead
<1> HIDE DEF name, s, p, to, o
<1>5. CASE s = to /\ Advance(a) /\ UNCHANGED queueVars
  <2>1. /\ state'[j] = StateAfter(Op(a), s) /\ Marks(j)' = MarksAfter(Op(a), p)
        /\ task' = task /\ runs' = runs /\ finding' = finding
    BY <1>2, <1>3, <1>5 DEF queueVars, s
  <2> QED BY <1>0, <1>5, <2>1, BusyAdvances DEF s, p
<1>6. CASE /\ s # to /\ (Op(a).force \/ canTransition(s, to))
           /\ Become(a, <<o>> \o Rest(a)) /\ UNCHANGED queueVars
  <2>1. canTransition(s, o.to) \/ (s = "FAILED" /\ o.to \in Resumed)
    BY <1>1, <1>4, <1>6
  <2>2. Legal(o, name, s, p)
    BY <1>1, <1>4, <2>1 DEF Legal
  <2>3. /\ StateAfter(o, s) = StateAfter(Op(a), s) /\ MarksAfter(o, p) = MarksAfter(Op(a), p)
        /\ task' = task /\ runs' = runs /\ finding' = finding
        /\ o.op \notin {"feedback", "enqueue", "insert"}
    BY <1>1, <1>3, <1>6 DEF queueVars
  <2> QED BY <1>0, <1>1, <1>2, <1>6, <2>2, <2>3, BusyGoesOn DEF name, s, p
<1>7. CASE s # to /\ ~ Op(a).force /\ ~ canTransition(s, to) /\ Throw(a)
  <2>1. s \in TERMINAL_STATES
    BY <1>4, <1>7
  <2>2. name \in RequestKinds /\ GateFits(s, p)
    BY <1>4, <2>1 DEF TERMINAL_STATES, Working, GateFits
  <2> QED BY <1>0, <1>2, <1>7, <2>2, BusyThrows DEF name, s, p
<1> QED BY <1>a, <1>5, <1>6, <1>7

\* It starts a job, or enqueues a task and so hands the job on.
LEMMA BusyHands ==
  ASSUME Steady, Ordered, RowsKept, NEW a \in DOMAIN script, NEW j \in Jobs, j = script[a].job,
         Busy(script[a].ops),
         AgentFails(a) \/ CreateJob(a) \/ EnqueueStart(a) \/ EnqueueInsert(a)
  PROVE  InOrder(j)'
<1> DEFINE name == script[a].name
           s == state[j]
           p == Marks(j)
<1>0. /\ Types /\ JobTypes /\ InOrder(j) /\ Op(a) \in Ops /\ \A x : At(a, x) <=> Op(a).op = x
      /\ Legal(Op(a), name, s, p) /\ Rest(a) \in Seq(Ops) /\ name \in Names
      /\ Op(a).op \in {"enqueue", "insert"} => Rest(a) = <<>>
  BY BusyHead DEF Types
<1>b. /\ \A b \in DOMAIN script : script[b].job = j /\ Busy(script[b].ops) => b = a
      /\ \A t : ~ (Queued(t) /\ task[t].job = j)
      /\ \A c \in finding : c.job = j => c.by = a
  BY Sole
<1> HIDE DEF name, s, p
<1>1. CASE AgentFails(a)
  <2>1. Op(a).op = "await" /\ ~ At(a, "insert") /\ Throw(a) /\ state' = state /\ plans' = plans
    BY <1>0, <1>1 DEF AgentFails, jobVars
  <2>2. name \in TASK_KINDS /\ Fits(name, s, p)
    BY <1>0, <2>1 DEF Legal
  <2> QED BY <2>1, <2>2, BusyThrows DEF name, s, p
<1>2. CASE CreateJob(a)
  <2>1. Op(a).op = "create" /\ ~ At(a, "insert") /\ s = "ABSENT"
    BY <1>0, <1>2 DEF CreateJob, Legal
  <2>2. /\ state' = [state EXCEPT ![j] = "TRIAGED"] /\ Advance(a) /\ UNCHANGED queueVars
        /\ plans' = plans
    BY <1>2, <2>1 DEF CreateJob, s
  <2>3. /\ state'[j] = StateAfter(Op(a), s) /\ Marks(j)' = MarksAfter(Op(a), p)
        /\ task' = task /\ runs' = runs /\ finding' = finding
    BY <1>0, <2>1, <2>2 DEF JobTypes, StateAfter, MarksAfter, Moves, Marks, queueVars, p
  <2> QED BY <2>1, <2>2, <2>3, BusyAdvances DEF s, p
<1>3. CASE EnqueueStart(a)
  <2>1. Op(a).op = "enqueue" /\ ~ At(a, "insert") /\ Fits(Op(a).kind, s, p)
    BY <1>0, <1>3 DEF EnqueueStart, Legal
  <2>2. ~ HasPending(task, j, Op(a).kind)
    BY <1>b DEF HasPending, Queued
  <2> DEFINE o == Do("insert")
  <2>3. /\ Become(a, <<o>> \o Rest(a)) /\ EnqueueFind(a, j, Op(a).kind)
        /\ state' = state /\ plans' = plans
    BY <1>3, <2>2 DEF EnqueueStart, jobVars
  <2>4. /\ task' = task /\ runs' = runs
        /\ \A c \in finding' : c \in finding \/ Fits(c.kind, s, p)
    BY <2>1, <2>3 DEF EnqueueFind
  <2>5. o \in Ops /\ o.op = "insert"
    BY OtherOps DEF Statements
  <2> HIDE DEF o
  <2>6. /\ Legal(o, name, s, p) /\ StateAfter(o, s) = StateAfter(Op(a), s)
        /\ MarksAfter(o, p) = MarksAfter(Op(a), p)
    BY <1>0, <2>1, <2>5 DEF Legal, StateAfter, MarksAfter, Moves
  <2> QED BY <2>1, <2>3, <2>4, <2>5, <2>6, BusyGoesOn DEF name, s, p
<1>4. CASE EnqueueInsert(a)
  <2>1. PICK c \in finding, t \in TaskIds : c.by = a /\ EnqueueCreate(c, t)
    BY <1>4 DEF EnqueueInsert
  <2>2. /\ c.job = j /\ \A d \in finding : d.by = a => d = c
    BY <2>1 DEF Steady, Called
  <2>3. Fits(c.kind, s, p) /\ c.kind \in TASK_KINDS
    <3>1. c.kind \in TASK_KINDS
      BY <1>0, OrchestratorAssumption DEF Types, WorkerTypeOK, Calls
    <3> QED BY <1>0, <2>2, <3>1 DEF InOrder, s, p
  <2>4. /\ t \notin DOMAIN task /\ task' = Created(task, t, c.job, c.kind) /\ runs' = runs
        /\ finding' = finding \ {c}
    BY <2>1, QueueAssumption DEF EnqueueCreate, IsNextId, TaskIds
  <2>5. /\ DOMAIN task' = DOMAIN task \cup {t} /\ task'[t].kind = c.kind
        /\ \A u \in DOMAIN task : task'[u] = task[u]
    BY <2>4 DEF Created, NewRow
  <2>6. \A u : Queued(u)' /\ task'[u].job = j => u = t
    BY <1>b, <2>4, <2>5 DEF Queued
  <2>7. \A u : Queued(u)' /\ task'[u].job = j => u = t /\ Fits(task'[u].kind, s, p)
    BY <2>3, <2>5, <2>6
  <2>8. \A d \in finding' : d.job # j
    BY <1>b, <2>2, <2>4
  <2>9. state' = state /\ plans' = plans /\ Become(a, <<>>) /\ Marks(j)' = p
    BY <1>0, <1>4 DEF EnqueueInsert, jobVars, Advance, Marks, p
  <2>10. \A b \in DOMAIN script' : ~ (script'[b].job = j /\ Busy(script'[b].ops))
    <3>1. <<>> \in Seq(Ops) /\ ~ Busy(<<>>)
      BY DEF Busy
    <3>2. /\ DOMAIN script' = DOMAIN script /\ script'[a].ops = <<>>
          /\ \A b \in DOMAIN script : b # a => script'[b] = script[b]
      BY <1>0, <2>9, <3>1, Replaced DEF Types, ScriptTypes
    <3> QED BY <1>b, <3>1, <3>2
  <2>11. GateFits(s, p)
    BY <2>3, FitsAtWork
  <2>12. /\ state'[j] = state[j] /\ Marks(j)' = Marks(j) /\ GateFits(state[j], Marks(j))
    BY <2>9, <2>11 DEF s, p
  <2>13. DoneWith(j)'
    BY <2>8, <2>10 DEF DoneWith
  <2>14. LeftTo(t, j)'
    BY <2>7, <2>9 DEF LeftTo, s
  <2> QED BY <1>0, <2>12, <2>13, <2>14, HandsOver
<1> QED BY <1>1, <1>2, <1>3, <1>4

\* A script's step keeps every job in order.
LEMMA ScriptOrder ==
  ASSUME Steady, Ordered, RowsKept, NEW a \in DOMAIN script, ScriptStep(a), NEW j \in Jobs
  PROVE  InOrder(j)'
<1>0. InOrder(j)
  BY DEF Ordered
<1>1. CASE j # script[a].job
  BY <1>0, <1>1, OthersOrder
<1>2. CASE j = script[a].job /\ ~ Busy(script[a].ops)
  BY <1>0, <1>2, IdleOrder
<1>3. CASE j = script[a].job /\ Busy(script[a].ops)
  <2>1. ~ Return(a) /\ ~ CancelTasks(a)
    <3>1. script[a].ops # <<>> /\ (At(a, "cancelTasks") <=> Op(a).op = "cancelTasks")
          /\ Legal(Op(a), script[a].name, state[j], Marks(j))
      BY <1>3, BusyHead
    <3> QED BY <3>1 DEF Return, CancelTasks, Legal
  <2> QED BY <1>3, <2>1, BusyWorks, BusyReads, BusyHands DEF ScriptStep
<1> QED BY <1>1, <1>2, <1>3

\* The worker's own steps neither queue a row nor take one out: what they do to
\* one is a stage of its execution.
LEMMA WorkerOrder ==
  ASSUME Steady, lapses' = 0, RowsKept, WorkerAlone, NEW j \in Jobs, InOrder(j)
  PROVE  InOrder(j)'
<1>0. /\ UNCHANGED <<jobVars, script>> /\ runs \subseteq Execution /\ lapses = 0
      /\ DOMAIN task \subseteq TaskIds /\ \A t \in DOMAIN task : task[t] \in Row
  <2>1. WorkerTypeOK
    BY DEF Steady, Gate, Types
  <2> QED BY <2>1, QueueAssumption DEF WorkerAlone, Steady, WorkerTypeOK, TaskIds
<1>a. /\ \A r \in runs : r.task \in DOMAIN task /\ task[r.task].status # "PENDING"
      /\ \A r, s \in runs : r.task = s.task => r = s
      /\ ExpiredRows(task) = {}
  BY Exclusive DEF Steady
<1>1. ASSUME \A t : Queued(t)' <=> Queued(t), finding' = finding PROVE InOrder(j)'
  <2>1. \A t : (Queued(t)' /\ task'[t].job = j) <=> (Queued(t) /\ task[t].job = j)
    BY <1>1 DEF Queued, RowsKept
  <2>2. state' = state /\ Marks(j)' = Marks(j) /\ script' = script
    BY <1>0 DEF jobVars, Marks
  <2> QED BY <1>1, <2>1, <2>2, HandsSame
<1>2. CASE TickExpire
  BY <1>a, <1>2 DEF TickExpire
<1>3. ASSUME NEW r \in runs, Complete(r) PROVE InOrder(j)'
  <2>1. /\ runs' = runs \ {r} /\ r.pc \notin Failing /\ finding' = finding
        /\ task' = Completed(task, r.task)
    BY <1>3 DEF Complete, End, Failing
  <2>2. /\ DOMAIN task' = DOMAIN task
        /\ \A t \in DOMAIN task : task'[t].status = "PENDING" <=> task[t].status = "PENDING"
    BY <1>0, <1>a, <2>1 DEF Completed, Row
  <2> QED BY <1>1, <2>1, <2>2 DEF Queued
<1>4. ASSUME NEW r \in runs, NEW pc \in Failing, r.pc \in Failing, Goto(r, pc),
             DOMAIN task' = DOMAIN task, finding' = finding,
             \A t \in DOMAIN task : task'[t].status = "PENDING" <=> task[t].status = "PENDING"
      PROVE  InOrder(j)'
  <2> DEFINE s == [r EXCEPT !.pc = pc]
  <2>1. runs' = (runs \ {r}) \cup {s} /\ s.task = r.task /\ s.pc = pc
    BY <1>0, <1>4 DEF Goto, Execution
  <2> HIDE DEF s
  <2>2. \A t : (\E x \in runs' : x.task = t /\ x.pc \in Failing)
                 <=> (\E x \in runs : x.task = t /\ x.pc \in Failing)
    BY <1>4, <2>1
  <2> QED BY <1>1, <1>4, <2>2 DEF Queued
<1>5. ASSUME NEW r \in runs, FailRead(r) PROVE InOrder(j)'
  <2>1. PICK pc \in {"retry", "settle"} : Goto(r, pc)
    BY <1>5 DEF FailRead
  <2>2. /\ r.pc \in Failing /\ pc \in Failing /\ task' = task /\ finding' = finding
    BY <1>5 DEF FailRead, Failing
  <2> QED BY <1>4, <2>1, <2>2
<1>6. ASSUME NEW r \in runs, FailRetry(r) PROVE InOrder(j)'
  <2>1. /\ runs' = runs \ {r} /\ r.pc \in Failing /\ finding' = finding
        /\ task' = Retried(task, r.task)
    BY <1>6 DEF FailRetry, End, Failing
  <2>2. /\ DOMAIN task' = DOMAIN task /\ task'[r.task].status = "PENDING"
        /\ \A t \in DOMAIN task : t # r.task => task'[t] = task[t]
    BY <1>0, <1>a, <2>1 DEF Retried, Row
  <2> QED BY <1>1, <1>a, <2>1, <2>2 DEF Queued
<1>7. ASSUME NEW r \in runs, FailSettle(r) PROVE InOrder(j)'
  <2>1. Goto(r, "escalate") /\ r.pc \in Failing /\ "escalate" \in Failing /\ finding' = finding
    BY <1>7 DEF FailSettle, Failing
  <2>2. /\ DOMAIN task' = DOMAIN task
        /\ \A t \in DOMAIN task : task'[t].status = "PENDING" <=> task[t].status = "PENDING"
    BY <1>7, <1>0, <1>a DEF FailSettle, Settled, Row
  <2> QED BY <1>4, <2>1, <2>2
<1>8. ASSUME NEW r \in runs, Heartbeat(r) PROVE InOrder(j)'
  <2>1. /\ DOMAIN task' = DOMAIN task /\ runs' = runs /\ finding' = finding
        /\ \A t \in DOMAIN task : task'[t].status = "PENDING" <=> task[t].status = "PENDING"
    BY <1>8, <1>0, <1>a DEF Heartbeat, Refreshed, Row
  <2> QED BY <1>1, <2>1 DEF Queued
<1>9. ASSUME NEW t \in TaskIds, BackoffElapses(t) PROVE InOrder(j)'
  <2>1. /\ DOMAIN task' = DOMAIN task /\ runs' = runs /\ finding' = finding
        /\ \A u \in DOMAIN task : task'[u].status = "PENDING" <=> task[u].status = "PENDING"
    BY <1>9, <1>0 DEF BackoffElapses, Row
  <2> QED BY <1>1, <2>1 DEF Queued
<1>10. ASSUME NEW t \in TaskIds, LockLapses(t) PROVE FALSE
  BY <1>0, <1>10 DEF LockLapses
<1> QED BY <1>2, <1>3, <1>5, <1>6, <1>7, <1>8, <1>9, <1>10 DEF WorkerAlone

\* A claimed row's execution has the job where the row had it.
LEMMA ClaimOrder ==
  ASSUME Steady, RowsKept, NEW S \in SUBSET TaskIds, Claim(S), NEW j \in Jobs, InOrder(j)
  PROVE  InOrder(j)'
<1>0. /\ Dispatched(S) /\ TickClaim(S) /\ UNCHANGED jobVars
      /\ Gate /\ LapseFree /\ lapses = 0
  BY ClaimStarts DEF Claim, Steady
<1>1. /\ finding' = finding /\ state' = state /\ Marks(j)' = Marks(j)
  BY <1>0 DEF TickClaim, jobVars, Marks
<1>2. /\ DOMAIN task' = DOMAIN task
      /\ \A t \in DOMAIN task : t \notin S => task'[t] = task[t]
      /\ \A t \in S : t \in DOMAIN task /\ task'[t].status = "RUNNING"
  <2>1. task' = Claimed(task, S)
    BY <1>0 DEF TickClaim
  <2>2. DOMAIN task' = DOMAIN task /\ \A t \in DOMAIN task : t \notin S => task'[t] = task[t]
    BY <2>1 DEF Claimed
  <2>3. WorkerTypeOK
    BY DEF Steady, Gate, Types
  <2> QED BY <1>0, <2>2, <2>3, StartedActors
<1>3. \A r \in runs' : r \in runs \/ (r.pc \notin Failing)
  BY <1>0 DEF TickClaim, Started, Failing
<1>4. \A r \in runs : r \in runs' /\ r.task \notin S
  BY <1>0, Exclusive DEF TickClaim, Dispatched
<1>5. \A t : Queued(t)' <=> Queued(t) /\ t \notin S
  BY <1>2, <1>3, <1>4 DEF Queued
<1>6. \A t \in S : Queued(t) /\ task[t].status = "PENDING"
  BY <1>0 DEF Queued, Dispatched
<1>7. ASSUME NEW b \in DOMAIN script'
      PROVE  \/ b \in DOMAIN script /\ script'[b] = script[b]
             \/ \E t \in S : /\ b[1] = t /\ script'[b].job = task[t].job
                             /\ script'[b].name = task[t].kind
                             /\ script'[b].ops = <<Do("process")>>
  BY <1>0 DEF Dispatched
<1>8. Busy(<<Do("process")>>)
  BY BeginningOps DEF Busy
<1>9. ASSUME NEW t \in S
      PROVE  \E b \in DOMAIN script' : /\ b[1] = t /\ script'[b].job = task[t].job
                                       /\ Busy(script'[b].ops)
  <2> DEFINE b == <<t, task[t].attempts + 1>>
  <2>1. /\ b \in DOMAIN script' /\ b[1] = t /\ script'[b].job = task[t].job
        /\ script'[b].ops = <<Do("process")>>
    BY <1>0 DEF Dispatched
  <2> QED BY <1>8, <2>1
<1>10. ASSUME NEW k PROVE HeldBy(k, j)' <=> HeldBy(k, j)
  <2>1. ASSUME HeldBy(k, j) PROVE HeldBy(k, j)'
    <3>1. CASE Queued(k) /\ task[k].job = j /\ k \in S
      BY <1>9, <3>1 DEF HeldBy
    <3>2. CASE Queued(k) /\ task[k].job = j /\ k \notin S
      BY <1>2, <1>5, <3>2 DEF HeldBy, Queued
    <3>3. CASE \E b \in DOMAIN script : b[1] = k /\ script[b].job = j /\ Busy(script[b].ops)
      BY <1>0, <3>3 DEF HeldBy, Dispatched
    <3> QED BY <2>1, <3>1, <3>2, <3>3 DEF HeldBy
  <2>2. ASSUME HeldBy(k, j)' PROVE HeldBy(k, j)
    <3>1. CASE Queued(k)' /\ task'[k].job = j
      BY <1>2, <1>5, <3>1 DEF HeldBy, Queued
    <3>2. CASE \E b \in DOMAIN script' : b[1] = k /\ script'[b].job = j /\ Busy(script'[b].ops)
      BY <1>6, <1>7, <3>2 DEF HeldBy
    <3> QED BY <2>2, <3>1, <3>2 DEF HeldBy
  <2> QED BY <2>1, <2>2
<1>11. \A t : Queued(t)' /\ task'[t].job = j => Fits(task'[t].kind, state[j], Marks(j))
  BY <1>2, <1>5 DEF InOrder, Queued
<1>12. ASSUME NEW b \in DOMAIN script', script'[b].job = j, Busy(script'[b].ops)
       PROVE  Path(script'[b].ops, script'[b].name, state[j], Marks(j))
  <2>1. CASE b \in DOMAIN script /\ script'[b] = script[b]
    BY <1>12, <2>1 DEF InOrder
  <2>2. ASSUME NEW t \in S, script'[b].job = task[t].job, script'[b].name = task[t].kind,
               script'[b].ops = <<Do("process")>>
        PROVE  Path(script'[b].ops, script'[b].name, state[j], Marks(j))
    <3>1. Fits(task[t].kind, state[j], Marks(j))
      BY <1>6, <1>12, <2>2 DEF InOrder
    <3>2. task[t].kind \in TASK_KINDS
      BY <1>0, OrchestratorAssumption DEF Dispatched, Row
    <3> QED BY <2>2, <3>1, <3>2, BeginningPath
  <2> QED BY <1>7, <2>1, <2>2
<1>13. \A c \in finding' : c.job = j => Fits(c.kind, state[j], Marks(j))
  BY <1>1 DEF InOrder
<1> QED BY <1>1, <1>10, <1>11, <1>12, <1>13, HandsKept

\* The escalation of a task has the job where its execution had it.
LEMMA EscalationOrder ==
  ASSUME Steady, Ordered, RowsKept, NEW r \in runs, RunExhausted(r), NEW j \in Jobs
  PROVE  InOrder(j)'
<1> DEFINE a == RunActor(r)
           u == r.task
           e == [job |-> task[u].job, name |-> "exhausted", ops |-> <<T("FAILED")>>]
           started == [b \in {a} |-> e]
           s == [r EXCEPT !.pc = "notify"]
<1>0. /\ Gate /\ LapseFree /\ lapses = 0 /\ InOrder(j) /\ Types /\ r \in Execution
      /\ u \in DOMAIN task /\ u # 0 /\ task[u].status # "PENDING"
      /\ \A x \in runs : x.task = u => x = r
      /\ \A x \in runs : RunActor(x) = a => x = r
  <2>1. Gate /\ LapseFree /\ lapses = 0
    BY DEF Steady
  <2> QED BY <2>1, Exclusive DEF Ordered, Gate, Types, WorkerTypeOK
<1>1. /\ r.pc = "escalate" /\ task' = CancelledFor(task, task[u].job) /\ finding' = finding
      /\ runs' = (runs \ {r}) \cup {s} /\ s.task = u /\ s.pc = "notify"
      /\ state' = state /\ Marks(j)' = Marks(j)
  BY <1>0 DEF RunExhausted, Escalate, Goto, Execution, jobVars, Marks
<1>2. a[1] = u /\ a \notin DOMAIN script
  <2>1. a[1] = u
    BY DEF RunActor
  <2>2. ASSUME a \in DOMAIN script PROVE FALSE
    <3>1. LinkedTo(a)
      BY <2>2 DEF Steady, Linked
    <3>2. PICK x \in runs : RunActor(x) = a /\ x.pc \in {"working", "notify"}
      BY <1>0, <2>1, <3>1 DEF LinkedTo, OfRun
    <3> QED BY <1>0, <1>1, <3>2
  <2> QED BY <2>1, <2>2
<1>3. /\ \A b \in DOMAIN script : b \in DOMAIN script' /\ script'[b] = script[b]
      /\ DOMAIN script' = DOMAIN script \cup {a} /\ script'[a] = e
  <2>1. script' = With(started) /\ DOMAIN started = {a} /\ started[a] = e
    BY DEF RunExhausted, Exhaust
  <2> HIDE DEF a, e, started
  <2> QED BY <1>2, <2>1, Untouched
<1>4. e.job = task[u].job /\ e.name = "exhausted" /\ e.ops = <<T("FAILED")>>
  OBVIOUS
<1>5. Queued(u)
  BY <1>0, <1>1 DEF Queued, Failing
<1>6. /\ DOMAIN task' = DOMAIN task
      /\ \A t \in DOMAIN task :
           /\ task'[t].job = task[t].job
           /\ task[t].job # task[u].job => task'[t] = task[t]
           /\ task[t].job = task[u].job => task'[t].status # "PENDING"
  <2>1. DOMAIN task' = DOMAIN task /\ \A t \in DOMAIN task : task[t] \in Row
    BY <1>0, <1>1 DEF CancelledFor, Types, WorkerTypeOK
  <2> QED BY <1>1, <2>1 DEF CancelledFor, Row
<1> HIDE DEF a, u, e, s, started
<1>7. CASE j # task[u].job
  <2>0. /\ \A x \in runs' : x.pc \in Failing => x \in runs
        /\ \A x \in runs : x.task # u => x \in runs'
    BY <1>0, <1>1 DEF Failing, u
  <2>a. ASSUME NEW t, Queued(t), task[t].job = j PROVE Queued(t)' /\ task'[t].job = j
    <3>1. t \in DOMAIN task' /\ task'[t] = task[t] /\ t # u
      BY <1>6, <1>7, <2>a DEF Queued
    <3> QED BY <2>0, <2>a, <3>1 DEF Queued
  <2>b. ASSUME NEW t, Queued(t)', task'[t].job = j PROVE Queued(t) /\ task[t].job = j
    <3>1. t \in DOMAIN task /\ task[t].job = j /\ task'[t] = task[t]
      BY <1>6, <1>7, <2>b DEF Queued
    <3> QED BY <2>0, <2>b, <3>1 DEF Queued
  <2>1. \A t : (Queued(t)' /\ task'[t].job = j) <=> (Queued(t) /\ task[t].job = j)
    BY <2>a, <2>b
  <2> QED BY <1>0, <1>1, <1>3, <1>4, <1>7, <2>1, HandsSame
<1>8. CASE j = task[u].job
  <2>1. \A k : HeldBy(k, j) <=> k = u
    BY <1>0, <1>5, <1>8 DEF HeldBy, InOrder
  <2>2. \A b \in DOMAIN script : ~ (script[b].job = j /\ Busy(script[b].ops))
    BY <1>5, <1>8, Sole
  <2>3. \A t : ~ (Queued(t)' /\ task'[t].job = j)
    <3> SUFFICES ASSUME NEW t, Queued(t)', task'[t].job = j PROVE FALSE
      OBVIOUS
    <3>1. t \in DOMAIN task /\ task[t].job = j /\ task'[t].status # "PENDING"
      BY <1>6, <1>8 DEF Queued
    <3>2. PICK x \in runs' : x.task = t /\ x.pc \in Failing
      BY <3>1 DEF Queued
    <3>3. x \in runs /\ x # r
      BY <1>1, <3>2 DEF Failing
    <3>4. HeldBy(t, j)
      BY <3>1, <3>2, <3>3 DEF HeldBy, Queued
    <3> QED BY <1>0, <2>1, <3>2, <3>3, <3>4
  <2>4. Fits(task[u].kind, state[j], Marks(j)) /\ task[u].kind \in TASK_KINDS
    <3>1. task[u].kind \in TASK_KINDS
      BY <1>0, OrchestratorAssumption DEF Types, WorkerTypeOK, Row
    <3> QED BY <1>0, <1>5, <1>8, <3>1 DEF InOrder
  <2>5. Path(e.ops, e.name, state[j], Marks(j)) /\ Busy(e.ops)
    <3>1. Path(<<T("FAILED")>>, "exhausted", state[j], Marks(j))
      BY <2>4, FitsAtWork, FailingPath
    <3>2. Busy(<<T("FAILED")>>)
      BY BeginningOps DEF Busy
    <3> QED BY <1>4, <3>1, <3>2
  <2>6. \A b \in DOMAIN script' : script'[b].job = j /\ Busy(script'[b].ops) => b = a
    BY <1>3, <2>2
  <2>7. \A k : HeldBy(k, j)' <=> HeldBy(k, j)
    BY <1>2, <1>3, <1>4, <1>8, <2>1, <2>3, <2>5, <2>6 DEF HeldBy
  <2>8. \A b \in DOMAIN script' : script'[b].job = j /\ Busy(script'[b].ops) =>
          Path(script'[b].ops, script'[b].name, state[j], Marks(j))
    BY <1>3, <2>5, <2>6
  <2>9. \A c \in finding' : c.job = j => Fits(c.kind, state[j], Marks(j))
    BY <1>0, <1>1 DEF InOrder
  <2> QED BY <1>0, <1>1, <2>3, <2>7, <2>8, <2>9, HandsKept
<1> QED BY <1>7, <1>8

\* While no request has the job in hand, whoever has finds it in a state of work.
LEMMA HeldAtWork ==
  ASSUME Steady, Ordered, NEW j \in Jobs, NEW k, HeldBy(k, j),
         \A b \in Requests : ~ (script[b].job = j /\ Busy(script[b].ops))
  PROVE  state[j] \in Working
<1>0. InOrder(j) /\ Linked /\ WorkerTypeOK
  BY DEF Ordered, Steady, Gate, Types
<1>1. CASE Queued(k) /\ task[k].job = j
  <2>1. Fits(task[k].kind, state[j], Marks(j)) /\ task[k].kind \in TASK_KINDS
    <3>1. task[k].kind \in TASK_KINDS
      BY <1>0, <1>1, OrchestratorAssumption DEF WorkerTypeOK, Row, Queued
    <3> QED BY <1>0, <1>1, <3>1 DEF InOrder
  <2> QED BY <2>1, FitsAtWork
<1>2. ASSUME NEW a \in DOMAIN script, script[a].job = j, Busy(script[a].ops)
      PROVE  state[j] \in Working
  <2>1. script[a].name \notin RequestKinds
    <3>1. LinkedTo(a) /\ a[1] # 0
      BY <1>0, <1>2 DEF Linked, Requests
    <3> QED BY <3>1, NamesApart DEF LinkedTo
  <2> QED BY <1>2, <2>1, BusyHead DEF Legal
<1> QED BY <1>1, <1>2 DEF HeldBy

\* A request's script has the job alone, or does nothing but store feedback.
LEMMA ArriveOrder ==
  ASSUME Steady, Ordered, RowsKept, Serialized',
         NEW kind \in RequestKinds, NEW i \in Jobs, Arrive(kind, i), NEW j \in Jobs
  PROVE  InOrder(j)'
<1> DEFINE a == <<0, arrived + 1>>
           ops == RequestOps(kind, i)
           e == [job |-> i, name |-> kind, ops |-> ops]
           started == [b \in {a} |-> e]
<1>0. /\ Gate /\ Types /\ InOrder(j) /\ LapseFree /\ lapses = 0 /\ Linked
  BY DEF Steady, Gate, Ordered
<1>1. /\ task' = task /\ runs' = runs /\ finding' = finding /\ state' = state
      /\ Marks(j)' = Marks(j)
  BY DEF Arrive, queueVars, jobVars, Marks
<1>2. a \notin DOMAIN script /\ a[1] = 0
  <2>1. a[1] = 0 /\ a[2] = arrived + 1 /\ arrived \in Nat
    BY <1>0, OrchestratorAssumption DEF Types, Bounds
  <2>2. \A r \in runs : r.task # 0
    BY <1>0, Exclusive
  <2>3. ASSUME a \in DOMAIN script PROVE FALSE
    <3>1. LinkedTo(a) /\ \A r \in runs : RunActor(r)[1] # 0
      BY <1>0, <2>2, <2>3 DEF Linked, RunActor
    <3>2. a[2] \in 1..arrived
      BY <2>1, <3>1 DEF LinkedTo, OfRun
    <3> QED BY <2>1, <3>2
  <2> QED BY <2>1, <2>3
<1>3. /\ \A b \in DOMAIN script : b \in DOMAIN script' /\ script'[b] = script[b]
      /\ DOMAIN script' = DOMAIN script \cup {a} /\ script'[a] = e
  <2>1. script' = With(started) /\ DOMAIN started = {a} /\ started[a] = e
    BY DEF Arrive
  <2> HIDE DEF a, e, started
  <2> QED BY <1>2, <2>1, Untouched
<1>4. e.job = i /\ e.name = kind /\ e.ops = ops
  OBVIOUS
<1>5. \A t : (Queued(t)' /\ task'[t].job = j) <=> (Queued(t) /\ task[t].job = j)
  BY <1>1 DEF Queued
<1> HIDE DEF a, ops, e, started
<1>6. CASE ~ (j = i /\ Busy(ops))
  BY <1>0, <1>1, <1>3, <1>4, <1>5, <1>6, HandsSame
<1>7. CASE j = i /\ Busy(ops)
  <2>a. kind # "cancel" /\ \A b \in Requests : ~ (script[b].job = j /\ Busy(script[b].ops))
    <3>1. /\ a \in Requests' /\ script'[a].job = j /\ script'[a].name = kind /\ Busy(script'[a].ops)
          /\ \A b \in Requests : b \in Requests' /\ script'[b] = script[b] /\ b # a
      BY <1>2, <1>3, <1>4, <1>7 DEF Requests
    <3> QED BY <3>1 DEF Serialized
  <2>1. GateFits(state[j], Marks(j))
    <3>1. ASSUME NEW k, HeldBy(k, j) PROVE GateFits(state[j], Marks(j))
      <4>1. state[j] \in Working
        BY <2>a, <3>1, HeldAtWork
      <4> QED BY <4>1 DEF GateFits, Working
    <3> QED BY <1>0, <3>1 DEF InOrder
  <2>2. ASSUME state[j] = "FAILED"
        PROVE  RetryKind(j) \in TASK_KINDS /\ (RetryKind(j) # "PLAN" => "APPROVED" \in Marks(j))
    <3>1. HasRow(task, j) /\ Newest
      BY <1>0, <2>2 DEF Gate, Rowless
    <3>2. \A t \in DOMAIN task : task[t] \in Row /\ t \in Int
      BY <1>0, QueueAssumption DEF Types, WorkerTypeOK
    <3> QED BY <1>0, <3>1, <3>2, RetryKinds DEF InOrder
  <2>3. Path(ops, kind, state[j], Marks(j)) /\ state[j] \notin Working
    BY <1>7, <2>a, <2>1, <2>2, RequestPath DEF ops
  <2>4. \A k : ~ HeldBy(k, j)
    BY <2>a, <2>3, HeldAtWork
  <2>5. /\ \A t : ~ (Queued(t)' /\ task'[t].job = j)
        /\ \A b \in DOMAIN script' : script'[b].job = j /\ Busy(script'[b].ops) => b = a
    BY <1>3, <1>5, <2>4 DEF HeldBy
  <2>6. HeldBy(0, j)' /\ \A k : HeldBy(k, j)' => k = 0
    BY <1>2, <1>3, <1>4, <1>7, <2>5 DEF HeldBy
  <2>7. \A b \in DOMAIN script' : script'[b].job = j /\ Busy(script'[b].ops) =>
          Path(script'[b].ops, script'[b].name, state'[j], Marks(j)')
    BY <1>1, <1>3, <1>4, <2>3, <2>5
  <2>8. /\ \A c \in finding' : c.job = j => Fits(c.kind, state'[j], Marks(j)')
        /\ \A t \in DOMAIN task' :
             task'[t].job = j /\ task'[t].kind # "PLAN" => "APPROVED" \in Marks(j)'
    BY <1>0, <1>1 DEF InOrder
  <2> QED BY <2>5, <2>6, <2>7, <2>8 DEF InOrder
<1> QED BY <1>6, <1>7

\* Only a claim makes a row RUNNING.
LEMMA OnlyClaimed ==
  ASSUME WorkerTypeOK, WorkerNext, RowsKept, NEW t \in DOMAIN task',
         task'[t].status = "RUNNING"
  PROVE  \/ t \in DOMAIN task /\ task[t].status = "RUNNING"
         \/ \E S \in SUBSET TaskIds : TickClaim(S)
<1>0. \A u \in DOMAIN task : task[u] \in Row
  BY DEF WorkerTypeOK
<1>1. t \in DOMAIN task
  BY DEF RowsKept
<1>2. ASSUME NEW r \in runs, RunStep(r) PROVE task[t].status = "RUNNING"
  BY <1>0, <1>1, <1>2
  DEF RunStep, HandlerReturns, HandlerThrows, Complete, FailRead, FailRetry, FailSettle, Escalate,
      Escalated, Heartbeat, Completed, Retried, Settled, CancelledFor, Refreshed, Row
<1>3. ASSUME NEW u \in TaskIds, BackoffElapses(u) \/ LockLapses(u)
      PROVE  task[t].status = "RUNNING"
  BY <1>0, <1>1, <1>3 DEF BackoffElapses, LockLapses, Row
<1>4. ASSUME NEW x \in expired, TickEscalate(x) \/ TickEscalated(x)
      PROVE  task[t].status = "RUNNING"
  BY <1>0, <1>1, <1>4 DEF TickEscalate, TickEscalated, CancelledFor, Row
<1>5. CASE TickExpire
  BY <1>0, <1>1, <1>5 DEF TickExpire, Expired, Row
<1>6. CASE CrashRestart
  BY <1>0, <1>1, <1>6 DEF CrashRestart, Reclaimed, Row
<1>7. ASSUME NEW c \in finding, NEW u \in TaskIds, EnqueueCreate(c, u)
      PROVE  task[t].status = "RUNNING"
  BY <1>1, <1>7, QueueAssumption DEF EnqueueCreate, Created, IsNextId, TaskIds
<1>8. ASSUME NEW j \in Jobs, CancelForJob(j) PROVE task[t].status = "RUNNING"
  BY <1>0, <1>1, <1>8 DEF CancelForJob, CancelledFor, Row
<1>9. ASSUME NEW p, NEW j, NEW k, EnqueueFind(p, j, k) PROVE task[t].status = "RUNNING"
  BY <1>1, <1>9 DEF EnqueueFind
<1> QED BY <1>1, <1>2, <1>3, <1>4, <1>5, <1>6, <1>7, <1>8, <1>9 DEF WorkerNext

\* The rows of a batch are of different jobs: only one of a job's is in the queue.
LEMMA OneTaskStep ==
  ASSUME Steady, Ordered, RowsKept, [WorkerNext]_queueVars, lapses' = 0, LapseFree'
  PROVE  OneTaskPerJob'
<1>0. /\ WorkerTypeOK /\ OneTaskPerJob /\ LapseFree /\ lapses = 0 /\ Gate
      /\ \A t \in DOMAIN task : task[t].lock # "stale" /\ task[t].job \in Jobs
  <2>1. Gate /\ LapseFree /\ lapses = 0 /\ OneTaskPerJob
    BY DEF Steady, Ordered
  <2>2. WorkerTypeOK
    BY <2>1 DEF Gate, Types
  <2>3. \A t \in DOMAIN task : task[t].job \in Jobs
    BY <2>2 DEF WorkerTypeOK, Row
  <2> QED BY <2>1, <2>2, <2>3 DEF LapseFree, RowOK
<1> SUFFICES ASSUME NEW t \in DOMAIN task', NEW u \in DOMAIN task', t # u,
                    task'[t].status = "RUNNING", task'[u].status = "RUNNING",
                    task'[t].job = task'[u].job
             PROVE  FALSE
  BY DEF OneTaskPerJob, Healthy
<1>1. t \in DOMAIN task /\ u \in DOMAIN task /\ task[t].job = task[u].job
  BY DEF RowsKept
<1>2. ~ (task[t].status = "RUNNING" /\ task[u].status = "RUNNING")
  BY <1>0, <1>1 DEF OneTaskPerJob, Healthy
<1>3. CASE UNCHANGED queueVars
  BY <1>2, <1>3 DEF queueVars
<1>4. ASSUME NEW S \in SUBSET TaskIds, TickClaim(S) PROVE FALSE
  <2>1. S \subseteq Claimable(task) /\ task' = Claimed(task, S)
    BY <1>4 DEF TickClaim
  <2>2. \A v \in S : task[v].status = "PENDING"
    BY <1>0, <2>1, Exclusive
  <2>3. \A v \in DOMAIN task : v \notin S => task'[v] = task[v]
    BY <2>1 DEF Claimed
  <2>4. \A v \in S : ~ (Healthy(task[t]) /\ task[t].job = task[v].job)
                     /\ ~ (Healthy(task[u]) /\ task[u].job = task[v].job)
    BY <1>1, <2>1 DEF Claimable
  <2>5. CASE t \in S /\ u \in S
    <3>1. Queued(t) /\ Queued(u)
      BY <1>1, <2>2, <2>5 DEF Queued
    <3>2. InOrder(task[t].job) /\ HeldBy(t, task[t].job) /\ HeldBy(u, task[t].job)
      BY <1>0, <1>1, <3>1 DEF HeldBy, Ordered
    <3> QED BY <3>2 DEF InOrder
  <2>6. CASE t \notin S
    <3>1. Healthy(task[t]) /\ u \in S
      BY <1>0, <1>1, <1>2, <2>3, <2>6 DEF Healthy
    <3> QED BY <1>1, <2>4, <3>1
  <2>7. CASE u \notin S
    <3>1. Healthy(task[u]) /\ t \in S
      BY <1>0, <1>1, <1>2, <2>3, <2>7 DEF Healthy
    <3> QED BY <1>1, <2>4, <3>1
  <2> QED BY <2>5, <2>6, <2>7
<1>5. CASE WorkerNext
  BY <1>0, <1>2, <1>4, <1>5, OnlyClaimed
<1> QED BY <1>3, <1>5

\* A script that starts is called by its row, and rows keep their kind.
LEMMA NumberedStep ==
  ASSUME Steady, Numbered, RowsKept, [Next]_vars
  PROVE  Numbered'
<1>0. /\ Gate /\ LapseFree /\ lapses = 0 /\ expired = {} /\ restarts = 0 /\ Linked
      /\ Types /\ Rowless
  BY DEF Steady, Gate
<1> SUFFICES ASSUME NEW a \in DOMAIN script', script'[a].name \in TASK_KINDS
             PROVE  a[1] \in DOMAIN task' /\ task'[a[1]].kind = script'[a].name
  BY DEF Numbered
<1>1. CASE Continues(a)
  BY <1>1 DEF Continues, Numbered, RowsKept
<1>2. CASE Begins(a)
  BY <1>2, NamesApart DEF Begins, RowsKept
<1> QED BY <1>0, <1>1, <1>2, EveryScript

\* At first every job rests, with the plans that go with it.
LEMMA OrderedInit == Init => Ordered
<1> SUFFICES ASSUME Init PROVE Ordered
  OBVIOUS
<1>1. PICK s \in Starts : StartedAt(s)
  BY DEF Init
<1>2. script = <<>> /\ DOMAIN script = {} /\ runs = {} /\ finding = {}
  BY DEF Init
<1>3. \A t \in DOMAIN task :
        task[t].status = "DONE"
        /\ \A j \in Jobs : task[t].kind # "PLAN" => state[j] = "AWAITING_PR_APPROVAL"
  BY InitialTable
<1>4. Numbered
  BY <1>2 DEF Numbered
<1>5. OneTaskPerJob
  BY <1>3 DEF OneTaskPerJob, Healthy
<1>6. ASSUME NEW j \in Jobs PROVE InOrder(j)
  <2>1. \A k : ~ HeldBy(k, j)
    BY <1>2, <1>3 DEF HeldBy, Queued
  <2>2. s \in {"ABSENT", "AWAITING_PLAN_APPROVAL", "AWAITING_PR_APPROVAL"} /\ state[j] = s
    BY <1>1, OrchestratorAssumption DEF StartedAt
  <2>3. /\ s = "AWAITING_PLAN_APPROVAL" => "PROPOSED" \in Marks(j)
        /\ s = "AWAITING_PR_APPROVAL" => "APPROVED" \in Marks(j)
    <3>1. CASE s = "AWAITING_PLAN_APPROVAL"
      <4>1. plans[j] = <<"PROPOSED">>
        BY <1>1, <3>1 DEF StartedAt
      <4>2. 1 \in DOMAIN plans[j] /\ plans[j][1] = "PROPOSED"
        BY <4>1
      <4> QED BY <3>1, <4>2 DEF Marks
    <3>2. CASE s = "AWAITING_PR_APPROVAL"
      <4>1. plans[j] = <<"APPROVED">>
        BY <1>1, <3>2 DEF StartedAt
      <4>2. 1 \in DOMAIN plans[j] /\ plans[j][1] = "APPROVED"
        BY <4>1
      <4> QED BY <3>2, <4>2 DEF Marks
    <3> QED BY <3>1, <3>2
  <2> QED BY <1>2, <1>3, <2>1, <2>2, <2>3 DEF InOrder, GateFits, HeldBy
<1> QED BY <1>4, <1>5, <1>6 DEF Ordered

\* Every step keeps the order, as long as the process is up and the locks are
\* fresh.
LEMMA OrderedStep ==
  ASSUME Steady, Steady', Ordered, [Next]_vars
  PROVE  Ordered'
<1>1. /\ Types' /\ [WorkerNext]_queueVars /\ RowsKept /\ lapses' = 0 /\ LapseFree' /\ expired = {}
      /\ restarts = 0 /\ restarts' = 0 /\ Serialized'
  BY TypesStep DEF Steady, Gate
<1>3. Numbered'
  BY <1>1, NumberedStep DEF Ordered
<1>4. OneTaskPerJob'
  BY <1>1, OneTaskStep
<1>5. ASSUME NEW j \in Jobs PROVE InOrder(j)'
  <2>0. InOrder(j)
    BY DEF Ordered
  <2>1. ASSUME NEW kind \in RequestKinds, NEW i \in Jobs, Arrive(kind, i) PROVE InOrder(j)'
    BY <1>1, <2>1, ArriveOrder
  <2>2. ASSUME NEW S \in SUBSET TaskIds, Claim(S) PROVE InOrder(j)'
    BY <1>1, <2>0, <2>2, ClaimOrder
  <2>3. ASSUME NEW a \in DOMAIN script, ScriptStep(a) PROVE InOrder(j)'
    BY <1>1, <2>3, ScriptOrder
  <2>4. ASSUME NEW r \in runs, RunExhausted(r) PROVE InOrder(j)'
    BY <1>1, <2>4, EscalationOrder
  <2>5. CASE WorkerAlone
    BY <1>1, <2>0, <2>5, WorkerOrder
  <2>6. CASE UNCHANGED vars
    <3>1. /\ task' = task /\ runs' = runs /\ finding' = finding /\ script' = script
          /\ state' = state /\ plans' = plans
      BY <2>6 DEF vars, queueVars, jobVars
    <3>2. \A t : Queued(t)' <=> Queued(t)
      BY <3>1 DEF Queued
    <3> QED BY <1>1, <2>0, <3>1, <3>2, HandsSame DEF Marks
  <2>7. ~ Crash /\ ~ \E x \in expired : RowExhausted(x)
    BY <1>1 DEF Crash, CrashRestart
  <2> QED BY <2>1, <2>2, <2>3, <2>4, <2>5, <2>6, <2>7 DEF Next
<1> QED BY <1>3, <1>4, <1>5 DEF Ordered

\* While requests are serialized the rest holds.
LEMMA SerializedSteady ==
  ASSUME Serialized, Gate, LapseFree, CarriedOn
  PROVE  Steady
BY DEF Steady, CarriedOn, Serialized, Calm

\* Both hold of every behaviour whose requests are serialized.
LEMMA OrderedAlways == Spec /\ []Serialized => [](Steady /\ Ordered)
<1> DEFINE Inv == Gate /\ LapseFree /\ CarriedOn /\ Ordered
<1>1. Init => Inv
  BY GateInit, CarriedInit, OrderedInit
<1>2. Inv /\ Serialized /\ Serialized' /\ [Next]_vars => Inv'
  <2> SUFFICES ASSUME Inv, Serialized, Serialized', [Next]_vars PROVE Inv'
    OBVIOUS
  <2>1. [WorkerNext]_queueVars /\ WorkerTypeOK
    BY OnWorker DEF Gate, Types
  <2>2. Gate' /\ LapseFree' /\ CarriedOn'
    BY <2>1, GateStep, LapseFreeStep, CarriedStep
  <2>3. Steady
    BY SerializedSteady
  <2>4. Steady'
    BY <2>2 DEF Steady, CarriedOn, Serialized, Calm
  <2> QED BY <2>2, <2>3, <2>4, OrderedStep
<1>3. Inv /\ Serialized => Steady /\ Ordered
  BY SerializedSteady
<1> QED BY <1>1, <1>2, <1>3, PTL DEF Spec

\* What a script has next is more than feedback.
LEMMA HeadBusy ==
  ASSUME Types, NEW a \in DOMAIN script, NEW what, At(a, what), what # "feedback"
  PROVE  Busy(script[a].ops)
<1> DEFINE ops == script[a].ops
<1>1. ops \in Seq(Ops) /\ ops # <<>> /\ Head(ops).op = what
  BY DEF Types, ScriptTypes, Script, At
<1> HIDE DEF ops
<1>2. 1 \in 1..Len(ops) /\ Head(ops) = ops[1]
  BY <1>1
<1>3. Busy(ops)
  BY <1>1, <1>2 DEF Busy
<1> QED BY <1>3 DEF ops

\* And is right when its turn comes.
LEMMA HeadLegal ==
  ASSUME Steady, Ordered, NEW a \in DOMAIN script, NEW what, At(a, what), what # "feedback"
  PROVE  /\ Legal(Op(a), script[a].name, state[script[a].job], Marks(script[a].job))
         /\ Op(a) \in Ops /\ Op(a).op = what /\ script[a].job \in Jobs
<1>1. Types
  BY DEF Steady, Gate
<1>2. Busy(script[a].ops) /\ script[a].job \in Jobs
  BY <1>1, HeadBusy DEF Types, ScriptTypes, Script
<1> QED BY <1>2, BusyHead DEF At, Op

\* "Never run two tasks for the same job concurrently": with one request of the
\* job at a time, no cancel, no restart and fresh locks, no batch, no retry and no
\* race of a request with the worker gives a job a second RUNNING row.
THEOREM OneTaskPerJobHolds == Spec /\ []Serialized => []OneTaskPerJob
<1>1. Steady /\ Ordered => OneTaskPerJob
  BY DEF Ordered
<1> QED BY <1>1, OrderedAlways, PTL

\* On the same terms no agent works for a stage its job has left.
THEOREM StageMatchesStateHolds == Spec /\ []Serialized => []StageMatchesState
<1>1. Steady /\ Ordered => StageMatchesState
  <2> SUFFICES ASSUME Steady, Ordered, NEW a \in DOMAIN script, At(a, "await")
               PROVE  state[script[a].job] = StageOf[Op(a).phase]
    BY DEF StageMatchesState
  <2> QED BY HeadLegal DEF Legal
<1> QED BY <1>1, OrderedAlways, PTL

\* On the same terms no agent implements a plan nobody approved: approvedPlan
\* never falls back on the latest revision.
THEOREM ImplementsApprovedPlanHolds == Spec /\ []Serialized => []ImplementsApprovedPlan
<1>1. Steady /\ Ordered => ImplementsApprovedPlan
  <2> SUFFICES ASSUME Steady, Ordered, NEW a \in DOMAIN script, At(a, "await"),
                      Op(a).phase = "IMPLEMENT"
               PROVE  Approved(script[a].job)
    BY DEF ImplementsApprovedPlan
  <2>1. "APPROVED" \in Marks(script[a].job)
    BY HeadLegal DEF Legal
  <2> QED BY <2>1 DEF Marks, Approved
<1> QED BY <1>1, OrderedAlways, PTL

\* JobLifecycle reads the same tables.
LEMMA SameTables ==
  /\ Lifecycle!JOB_STATES = JOB_STATES /\ Lifecycle!TASK_KINDS = TASK_KINDS
  /\ Lifecycle!retryStateMap = retryStateMap
  /\ \A s, to : Lifecycle!canTransition(s, to) <=> canTransition(s, to)
<1>1. Lifecycle!TERMINAL_STATES = TERMINAL_STATES
  BY DEF Lifecycle!TERMINAL_STATES, TERMINAL_STATES
<1>2. Lifecycle!ALLOWED_TRANSITIONS = ALLOWED_TRANSITIONS
  BY DEF Lifecycle!ALLOWED_TRANSITIONS, ALLOWED_TRANSITIONS
<1>3. Lifecycle!TASK_KINDS = TASK_KINDS
  BY DEF Lifecycle!TASK_KINDS, TASK_KINDS
<1>4. Lifecycle!retryStateMap = retryStateMap
  BY <1>3 DEF Lifecycle!retryStateMap, retryStateMap
<1>5. Lifecycle!JOB_STATES = JOB_STATES
  BY DEF Lifecycle!JOB_STATES, JOB_STATES
<1>6. \A s, to : Lifecycle!canTransition(s, to) <=> canTransition(s, to)
  BY <1>1, <1>2 DEF Lifecycle!canTransition, canTransition
<1> QED BY <1>3, <1>4, <1>5, <1>6

\* On the same terms the pipeline implements JobLifecycle: a transition that was
\* checked is still allowed when it is written.
THEOREM LegalMovesHold == Spec /\ []Serialized => LegalMoves
<1>1. Init => Lifecycle!LifecycleInit
  BY GateInit, SameTables DEF Gate, Types, JobTypes, Lifecycle!LifecycleInit
<1>2. Steady /\ Ordered /\ [Next]_vars => [Lifecycle!LifecycleNext]_state
  <2> SUFFICES ASSUME Steady, Ordered, Next, state' # state
               PROVE  Lifecycle!LifecycleNext
    BY DEF vars, jobVars
  <2>1. PICK a \in DOMAIN script : ScriptStep(a)
    BY DEF Next, Arrive, Claim, RunExhausted, RowExhausted, WorkerAlone, Crash, jobVars
  <2>2. JobMoves(a)
    BY <2>1, Acting DEF Steady, Gate, Acts
  <2> DEFINE j == script[a].job
  <2>3. CASE At(a, "write") /\ state' = [state EXCEPT ![j] = Op(a).to]
    <3>1. /\ Legal(Op(a), script[a].name, state[j], Marks(j)) /\ j \in Jobs
          /\ Op(a) \in Ops /\ Op(a).op = "write"
      BY <2>3, HeadLegal
    <3>2. Op(a).to \in JOB_STATES
      BY <3>1, OpFields
    <3>3. CASE state[j] # "ABSENT" /\ canTransition(state[j], Op(a).to)
      BY <2>3, <3>1, <3>2, <3>3, SameTables DEF Lifecycle!LifecycleNext, Lifecycle!Transition
    <3>4. CASE state[j] = "FAILED" /\ Op(a).to \in Resumed
      <4>1. PICK k \in TASK_KINDS : Op(a).to = retryStateMap[k]
        BY <3>4 DEF Resumed
      <4>2. Lifecycle!ForcedRetry(j, k)
        BY <2>3, <3>4, <4>1, SameTables DEF Lifecycle!ForcedRetry
      <4> QED BY <3>1, <4>2, SameTables DEF Lifecycle!LifecycleNext
    <3> QED BY <3>1, <3>3, <3>4 DEF Legal
  <2>4. CASE At(a, "create") /\ state[j] = "ABSENT" /\ state' = [state EXCEPT ![j] = "TRIAGED"]
    <3>1. j \in Jobs
      BY <2>4, HeadLegal
    <3> QED BY <2>4, <3>1 DEF Lifecycle!LifecycleNext, Lifecycle!Create
  <2> QED BY <2>2, <2>3, <2>4 DEF JobMoves
<1> QED BY <1>1, <1>2, OrderedAlways, PTL DEF Spec, LegalMoves, Lifecycle!LifecycleSpec

-------------------------------------------------------------------------------
(* Every script has its owner, whatever was restarted or has gone stale.   *)

\* Executions are told apart by their actors: each is one of its row's attempts.
Apart ==
  /\ \A r \in runs : r.attempt \in 1..task[r.task].attempts
  /\ \A r, s \in runs : RunActor(r) = RunActor(s) => r = s

\* a is an execution at pc, or the escalation of an expired row.
OfExecution(a, pc) == \E r \in runs : RunActor(r) = a /\ r.pc = pc

OfRow(a) == \E x \in expired : a = <<x.task, 0>> /\ x.pc = "notify"

\* Script a is a request's, an execution's, or the escalation's of either.
HasOwner(a) ==
  \/ script[a].name \in RequestKinds /\ a[1] = 0 /\ a[2] \in 1..arrived
  \/ script[a].name \in TASK_KINDS /\ OfExecution(a, "working")
  \/ script[a].name = "exhausted" /\ (OfExecution(a, "notify") \/ OfRow(a))

\* Every script is of one of them; so is every call of enqueue of a script.
Owned == Apart /\ (\A a \in DOMAIN script : HasOwner(a)) /\ Called

\* The worker's steps keep its executions apart.
LEMMA ApartStep ==
  ASSUME WorkerTypeOK, WorkerTypeOK', Paid, RowsKept, Apart, [WorkerNext]_queueVars
  PROVE  Apart'
<1>0. runs \subseteq Execution /\ RunsKept
  BY ActorsKept DEF WorkerTypeOK
<1>a. \A t \in DOMAIN task : task[t] \in Row /\ task[t].attempts \in Nat
  BY DEF WorkerTypeOK, Row
<1>1. ASSUME NEW r \in runs' PROVE r.attempt \in 1..task'[r.task].attempts
  <2>1. ASSUME NEW s \in runs, r.task = s.task, r.attempt = s.attempt
        PROVE  r.attempt \in 1..task'[r.task].attempts
    <3>1. s.task \in DOMAIN task /\ s.attempt \in 1..task[s.task].attempts
      BY DEF Paid, Apart
    <3>2. task'[s.task].attempts >= task[s.task].attempts
      BY <3>1 DEF RowsKept
    <3>3. task'[s.task].attempts \in Int
      BY <3>1 DEF RowsKept, WorkerTypeOK, Row
    <3> QED BY <1>a, <2>1, <3>1, <3>2, <3>3
  <2>2. ASSUME NEW S \in SUBSET TaskIds, TickClaim(S), r \in Started(S)
        PROVE  r.attempt \in 1..task'[r.task].attempts
    <3>1. PICK t \in S : r.task = t /\ r.attempt = task[t].attempts + 1
      BY <2>2 DEF Started
    <3>2. t \in DOMAIN task /\ task'[t].attempts = task[t].attempts + 1
      BY <2>2, StartedActors
    <3> QED BY <1>a, <3>1, <3>2
  <2> QED BY <1>0, <2>1, <2>2 DEF RunsKept
<1>2. ASSUME NEW r \in runs', NEW s \in runs', RunActor(r) = RunActor(s) PROVE r = s
  <2>1. CASE runs' \subseteq runs
    BY <1>2, <2>1 DEF Apart
  <2>2. ASSUME NEW x \in runs, NEW pc, Goto(x, pc) PROVE r = s
    <3> DEFINE e == [x EXCEPT !.pc = pc]
    <3>1. RunActor(e) = RunActor(x)
      BY <1>0 DEF Execution, RunActor
    <3>2. runs' = (runs \ {x}) \cup {e}
      BY <2>2 DEF Goto
    <3> HIDE DEF e
    <3> QED BY <1>2, <3>1, <3>2 DEF Apart
  <2>3. ASSUME NEW S \in SUBSET TaskIds, TickClaim(S) PROVE r = s
    <3>1. runs' = runs \cup Started(S)
      BY <2>3 DEF TickClaim
    <3>2. r.task = s.task /\ r.attempt = s.attempt
      BY <1>2 DEF RunActor
    <3>3. \A t \in S : t \in DOMAIN task /\ task[t].attempts \in Nat
      BY <1>a, <2>3, StartedActors
    <3>4. \A x \in runs, y \in Started(S) : x.task = y.task => x.attempt # y.attempt
      BY <3>3 DEF Apart, Started
    <3>5. \A x, y \in Started(S) : x.task = y.task => x = y
      BY DEF Started
    <3>6. CASE r \in runs /\ s \in runs
      BY <1>2, <3>6 DEF Apart
    <3> QED BY <3>1, <3>2, <3>4, <3>5, <3>6
  <2> QED
    BY <2>1, <2>2, <2>3
    DEF WorkerNext, RunStep, queueVars, TickExpire, TickEscalate, TickEscalated, HandlerReturns,
        HandlerThrows, Complete, FailRead, FailRetry, FailSettle, Escalate, Escalated, Heartbeat,
        End, BackoffElapses, LockLapses, CrashRestart, EnqueueFind, EnqueueCreate, CancelForJob
<1> QED BY <1>1, <1>2 DEF Apart

\* A script that stays has the owner it had, if that stays.
LEMMA OwnerKept ==
  ASSUME Types, Types', NEW b \in DOMAIN script, HasOwner(b), script'[b].name = script[b].name,
         arrived' >= arrived,
         \A r \in runs : RunActor(r) = b /\ r.pc \in {"working", "notify"} => r \in runs',
         \A x \in expired : b = <<x.task, 0>> /\ x.pc = "notify" => x \in expired'
  PROVE  HasOwner(b)'
<1>1. arrived \in Nat /\ arrived' \in Nat
  BY OrchestratorAssumption DEF Types, Bounds
<1>2. \A pc \in {"working", "notify"} : OfExecution(b, pc) => OfExecution(b, pc)'
  BY DEF OfExecution, RunActor
<1>3. OfRow(b) => OfRow(b)'
  BY DEF OfRow
<1> QED BY <1>1, <1>2, <1>3 DEF HasOwner

\* What a step does that is no script's: the scripts stay, and so do their owners
\* and the calls of enqueue; new scripts have one.
Beside ==
  /\ \A b \in DOMAIN script : b \in DOMAIN script' /\ script'[b] = script[b]
  /\ \A b \in DOMAIN script' \ DOMAIN script : HasOwner(b)'
  /\ \A r \in runs : r.pc \in {"working", "notify"} => r \in runs'
  /\ \A x \in expired : x.pc = "notify" => x \in expired'
  /\ finding' = finding /\ arrived' >= arrived

\* Such a step keeps the owners.
LEMMA BesideKeeps ==
  ASSUME Types, Types', Owned, Apart', Beside
  PROVE  Owned'
<1>1. ASSUME NEW b \in DOMAIN script' PROVE HasOwner(b)'
  <2>1. CASE b \in DOMAIN script
    <3>1. HasOwner(b)
      BY <2>1 DEF Owned
    <3>2. /\ script'[b] = script[b] /\ arrived' >= arrived
          /\ \A r \in runs : r.pc \in {"working", "notify"} => r \in runs'
          /\ \A x \in expired : x.pc = "notify" => x \in expired'
      BY <2>1 DEF Beside
    <3> QED BY <2>1, <3>1, <3>2, OwnerKept
  <2> QED BY <2>1 DEF Beside
<1>2. Called'
  BY DEF Owned, Called, Beside, At
<1> QED BY <1>1, <1>2 DEF Owned

\* Who owns a script: no request is a task's, and no execution an escalation's.
LEMMA OwnersApart ==
  ASSUME Types, Apart, NEW b, HasOwner(b)
  PROVE  /\ b[1] = 0 => b[2] \in 1..arrived
         /\ b[1] # 0 /\ b[2] # 0 =>
              \E r \in runs : RunActor(r) = b /\ r.pc \in {"working", "notify"}
         /\ b[1] # 0 /\ b[2] = 0 => \E x \in expired : x.pc = "notify"
<1>1. \A r \in runs : /\ r.task # 0 /\ r.attempt # 0
                      /\ RunActor(r)[1] = r.task /\ RunActor(r)[2] = r.attempt
  <2>1. ASSUME NEW r \in runs PROVE r.task # 0 /\ r.attempt # 0
    <3>1. r \in Execution /\ r.attempt \in 1..task[r.task].attempts
      BY DEF Types, WorkerTypeOK, Apart
    <3>2. r.task # 0
      BY <3>1, QueueAssumption DEF Execution, TaskIds
    <3> QED BY <3>1, <3>2
  <2> QED BY <2>1 DEF RunActor
<1>2. \A x \in expired : x.task # 0
  BY QueueAssumption DEF Types, WorkerTypeOK, Escalation, TaskIds
<1>3. CASE b[1] = 0 /\ b[2] \in 1..arrived
  BY <1>3
<1>4. CASE OfExecution(b, "working") \/ OfExecution(b, "notify")
  BY <1>1, <1>4 DEF OfExecution
<1>5. CASE OfRow(b)
  <2>1. PICK x \in expired : b = <<x.task, 0>> /\ x.pc = "notify"
    BY <1>5 DEF OfRow
  <2>2. b[1] = x.task /\ b[2] = 0
    BY <2>1
  <2> QED BY <1>2, <2>1, <2>2
<1> QED BY <1>3, <1>4, <1>5 DEF HasOwner

\* A request is called by a number no script has.
LEMMA ArriveBeside ==
  ASSUME Types, Owned, NEW kind \in RequestKinds, NEW j \in Jobs, Arrive(kind, j)
  PROVE  Beside
<1> DEFINE a == <<0, arrived + 1>>
           e == [job |-> j, name |-> kind, ops |-> RequestOps(kind, j)]
           started == [c \in {a} |-> e]
<1>0. arrived \in Nat
  BY OrchestratorAssumption DEF Types, Bounds
<1>1. /\ script' = With(started) /\ DOMAIN started = {a} /\ started[a] = e /\ e.name = kind
      /\ arrived' = arrived + 1 /\ UNCHANGED queueVars
  BY DEF Arrive
<1>2. a[1] = 0 /\ a[2] = arrived + 1
  OBVIOUS
<1> HIDE DEF a, e, started
<1>3. a \notin DOMAIN script
  <2> SUFFICES ASSUME a \in DOMAIN script PROVE FALSE
    OBVIOUS
  <2>1. a[2] \in 1..arrived
    BY <1>2, OwnersApart DEF Owned
  <2> QED BY <1>0, <1>2, <2>1
<1>4. /\ \A b \in DOMAIN script : b \in DOMAIN script' /\ script'[b] = script[b]
      /\ DOMAIN script' = DOMAIN script \cup {a} /\ script'[a] = e
  BY <1>1, <1>3, Untouched
<1>5. a[2] \in 1..arrived'
  BY <1>0, <1>1, <1>2
<1>6. \A b \in DOMAIN script' \ DOMAIN script : HasOwner(b)'
  BY <1>1, <1>2, <1>4, <1>5 DEF HasOwner
<1> QED BY <1>0, <1>1, <1>4, <1>6 DEF Beside, queueVars

\* An execution that begins is an attempt no script was of, nor any request.
LEMMA ClaimBeside ==
  ASSUME Types, Types', Owned, NEW S \in SUBSET TaskIds, Claim(S)
  PROVE  Beside /\ Requests' \subseteq Requests
<1> DEFINE B == {<<t, task[t].attempts + 1>> : t \in S}
           e(c) == [job |-> task[c[1]].job, name |-> task[c[1]].kind, ops |-> <<Do("process")>>]
           started == [c \in B |-> e(c)]
<1>0. TickClaim(S) /\ WorkerTypeOK /\ arrived' = arrived /\ arrived \in Nat
  BY OrchestratorAssumption DEF Claim, Types, Bounds
<1>1. /\ {RunActor(r) : r \in Started(S)} = B
      /\ \A t \in S : t \in DOMAIN task /\ t \in TaskIds /\ t # 0 /\ task[t] \in Row
  BY <1>0, StartedActors, QueueAssumption DEF TaskIds
<1>2. script' = With(started) /\ DOMAIN started = B
  BY <1>1 DEF Claim
<1>3. ASSUME NEW b \in B
      PROVE  /\ b \notin DOMAIN script /\ b[1] # 0 /\ started[b].name \in TASK_KINDS
             /\ \E r \in Started(S) : RunActor(r) = b /\ r.pc = "working"
  <2>1. PICK t \in S : b = <<t, task[t].attempts + 1>>
    OBVIOUS
  <2>2. b[1] = t /\ b[2] = task[t].attempts + 1 /\ t # 0 /\ task[t].attempts \in Nat
    BY <1>1, <2>1 DEF Row
  <2>3. started[b].name \in TASK_KINDS
    BY <1>1, <2>2, OrchestratorAssumption DEF Row
  <2> HIDE DEF B, started
  <2>4. b \notin DOMAIN script
    <3> SUFFICES ASSUME b \in DOMAIN script PROVE FALSE
      OBVIOUS
    <3>1. PICK r \in runs : RunActor(r) = b
      BY <2>2, OwnersApart DEF Owned
    <3>2. r.task = t /\ r.attempt = task[t].attempts + 1
      BY <2>2, <3>1 DEF RunActor
    <3>3. r.attempt \in 1..task[r.task].attempts
      BY DEF Owned, Apart
    <3> QED BY <2>2, <3>2, <3>3
  <2>5. \E r \in Started(S) : RunActor(r) = b /\ r.pc = "working"
    <3> DEFINE r == [task |-> t, attempt |-> task[t].attempts + 1, pc |-> "working"]
    <3>1. r \in Started(S) /\ r.pc = "working"
      BY DEF Started
    <3>2. RunActor(r) = b
      BY <2>1 DEF RunActor
    <3> QED BY <3>1, <3>2
  <2> QED BY <2>2, <2>3, <2>4, <2>5
<1> HIDE DEF started, B
<1>4. /\ \A b \in DOMAIN script : b \in DOMAIN script' /\ script'[b] = script[b]
      /\ DOMAIN script' = DOMAIN script \cup B
      /\ \A b \in B : script'[b] = started[b]
  <2>1. B \cap DOMAIN script = {}
    BY <1>3
  <2> QED BY <1>2, <2>1, Untouched
<1>5. runs' = runs \cup Started(S) /\ finding' = finding /\ expired' = expired
  BY <1>0 DEF TickClaim
<1>6. ASSUME NEW b \in B PROVE HasOwner(b)'
  <2>1. script'[b].name \in TASK_KINDS /\ OfExecution(b, "working")'
    BY <1>3, <1>4, <1>5 DEF OfExecution, RunActor
  <2> QED BY <2>1 DEF HasOwner
<1>7. Beside
  BY <1>0, <1>4, <1>5, <1>6 DEF Beside
<1>8. Requests' \subseteq Requests
  BY <1>3, <1>4 DEF Requests
<1> QED BY <1>7, <1>8

\* An escalation begins where no script is: its execution's is over, and no
\* other row's is under way.
LEMMA EscalationBeside ==
  ASSUME Types, Types', Owned, Rowless,
         (\E r \in runs : RunExhausted(r)) \/ (\E x \in expired : RowExhausted(x))
  PROVE  Beside /\ Requests' \subseteq Requests
<1>0. arrived \in Nat
  BY OrchestratorAssumption DEF Types, Bounds
<1>1. ASSUME NEW a, NEW t \in DOMAIN task, Exhaust(a, t), a \notin DOMAIN script, a[1] # 0,
             arrived' = arrived, finding' = finding,
             \A r \in runs : r.pc \in {"working", "notify"} => r \in runs',
             \A x \in expired : x.pc = "notify" => x \in expired',
             OfExecution(a, "notify")' \/ OfRow(a)'
      PROVE  Beside /\ Requests' \subseteq Requests
  <2> DEFINE e == [job |-> task[t].job, name |-> "exhausted", ops |-> <<T("FAILED")>>]
             started == [c \in {a} |-> e]
  <2>1. script' = With(started) /\ DOMAIN started = {a} /\ started[a] = e /\ e.name = "exhausted"
    BY <1>1 DEF Exhaust
  <2> HIDE DEF e, started
  <2>2. /\ \A b \in DOMAIN script : b \in DOMAIN script' /\ script'[b] = script[b]
        /\ DOMAIN script' = DOMAIN script \cup {a} /\ script'[a] = e
    BY <1>1, <2>1, Untouched
  <2>3. HasOwner(a)'
    BY <1>1, <2>1, <2>2 DEF HasOwner
  <2>4. Beside
    BY <1>0, <1>1, <2>2, <2>3 DEF Beside
  <2>5. Requests' \subseteq Requests
    BY <1>1, <2>2 DEF Requests
  <2> QED BY <2>4, <2>5
<1>2. ASSUME NEW r \in runs, RunExhausted(r) PROVE Beside /\ Requests' \subseteq Requests
  <2> DEFINE a == RunActor(r)
             s == [r EXCEPT !.pc = "notify"]
  <2>1. /\ r \in Execution /\ r.task \in DOMAIN task /\ r.task # 0
        /\ r.attempt \in 1..task[r.task].attempts /\ r.pc = "escalate"
    BY <1>2, QueueAssumption
    DEF Types, WorkerTypeOK, Paid, Owned, Apart, Execution, TaskIds, RunExhausted, Escalate
  <2>2. a[1] = r.task /\ a[2] = r.attempt
    BY DEF RunActor
  <2>3. s \in runs' /\ RunActor(s) = a /\ s.pc = "notify" /\ runs \ {r} \subseteq runs'
    BY <1>2, <2>1 DEF RunExhausted, Escalate, Goto, Execution, RunActor
  <2> HIDE DEF s
  <2>4. a \notin DOMAIN script
    <3> SUFFICES ASSUME a \in DOMAIN script PROVE FALSE
      OBVIOUS
    <3>1. a[1] # 0 /\ a[2] # 0
      BY <2>1, <2>2
    <3>2. PICK x \in runs : RunActor(x) = a /\ x.pc \in {"working", "notify"}
      BY <3>1, OwnersApart DEF Owned
    <3>3. x = r
      BY <3>2 DEF Owned, Apart
    <3> QED BY <2>1, <3>2, <3>3
  <2>5. OfExecution(a, "notify")'
    BY <2>3 DEF OfExecution, RunActor
  <2>6. /\ Exhaust(a, r.task) /\ arrived' = arrived /\ finding' = finding /\ expired' = expired
    BY <1>2 DEF RunExhausted, Escalate
  <2> HIDE DEF a
  <2> QED BY <1>1, <2>1, <2>2, <2>3, <2>4, <2>5, <2>6
<1>3. ASSUME NEW x \in expired, RowExhausted(x) PROVE Beside /\ Requests' \subseteq Requests
  <2> DEFINE a == <<x.task, 0>>
             y == [x EXCEPT !.pc = "notify"]
  <2>1. /\ x \in Escalation /\ x.task \in DOMAIN task /\ x.task # 0
        /\ \A z \in expired : z.pc = "escalate"
    BY <1>3, QueueAssumption
    DEF Types, WorkerTypeOK, Rowless, Escalation, TaskIds, RowExhausted, TickEscalate
  <2>2. a[1] = x.task /\ a[2] = 0
    OBVIOUS
  <2>3. y \in expired' /\ y.task = x.task /\ y.pc = "notify" /\ runs' = runs
    BY <1>3, <2>1 DEF RowExhausted, TickEscalate, Escalation
  <2> HIDE DEF y
  <2>4. OfRow(a)'
    BY <2>3 DEF OfRow
  <2>5. Exhaust(a, x.task) /\ arrived' = arrived /\ finding' = finding
    BY <1>3 DEF RowExhausted, TickEscalate
  <2> HIDE DEF a
  <2>6. a \notin DOMAIN script
    BY <2>1, <2>2, OwnersApart DEF Owned
  <2> QED BY <1>1, <2>1, <2>2, <2>3, <2>4, <2>5, <2>6
<1> QED BY <1>2, <1>3

\* The worker on its own ends no execution and no escalation that a script is of.
LEMMA WorkerBeside ==
  ASSUME Types, WorkerAlone
  PROVE  Beside /\ Requests' \subseteq Requests
<1>1. /\ UNCHANGED <<script, arrived>> /\ arrived \in Nat
  BY OrchestratorAssumption DEF WorkerAlone, Types, Bounds
<1>2. /\ finding' = finding
      /\ \A x \in expired : x.pc = "notify" => x \in expired'
  BY DEF WorkerAlone, TickExpire, Complete, FailRead, FailRetry, FailSettle, Heartbeat,
         BackoffElapses, LockLapses
<1>3. \A r \in runs : r.pc \in {"working", "notify"} => r \in runs'
  <2>1. ASSUME NEW r \in runs, NEW pc, r.pc \notin {"working", "notify"}, Goto(r, pc) \/ End(r)
        PROVE  \A s \in runs : s.pc \in {"working", "notify"} => s \in runs'
    BY <2>1 DEF Goto, End
  <2>2. ASSUME NEW r \in runs, Complete(r) \/ FailRead(r) \/ FailRetry(r) \/ FailSettle(r)
        PROVE  \A s \in runs : s.pc \in {"working", "notify"} => s \in runs'
    BY <2>1, <2>2 DEF Complete, FailRead, FailRetry, FailSettle
  <2> QED BY <2>2 DEF WorkerAlone, TickExpire, Heartbeat, BackoffElapses, LockLapses
<1> QED BY <1>1, <1>2, <1>3 DEF Beside, Requests

\* A script's own step ends no execution and no escalation but its own.
LEMMA ScriptOwners ==
  ASSUME Types, Types', NEW a \in DOMAIN script, ScriptStep(a),
         \A b \in DOMAIN script : HasOwner(b)
  PROVE  \A b \in DOMAIN script' : HasOwner(b)'
<1>0. Acts(a) /\ arrived' = arrived /\ arrived \in Nat
  BY Acting, OrchestratorAssumption DEF Types, Bounds
<1>1. ASSUME NEW b \in DOMAIN script'
      PROVE  /\ b \in DOMAIN script /\ script'[b].name = script[b].name
             /\ script' = Without(a) => b # a
  <2>1. CASE script' = Without(a)
    BY <2>1, Removed DEF Types, ScriptTypes
  <2>2. CASE Turns(a)
    <3>1. PICK new \in Seq(Ops) : Become(a, new)
      BY <2>2 DEF Turns
    <3>2. /\ b \in DOMAIN script /\ script'[a].name = script[a].name
          /\ b # a => script'[b] = script[b]
      BY <3>1, Replaced DEF Types, ScriptTypes
    <3>3. script' # Without(a)
      BY <3>1 DEF Become, Without
    <3> QED BY <3>2, <3>3
  <2> QED BY <1>0, <2>1, <2>2 DEF Acts
<1>2. \/ runs' = runs /\ expired' = expired
      \/ /\ script' = Without(a)
         /\ \A r \in runs : RunActor(r) # a => r \in runs'
         /\ \A x \in expired : a # <<x.task, 0>> => x \in expired'
  <2>1. CASE /\ script' = Without(a)
             /\ \E r \in RunOf(a) : HandlerReturns(r) \/ HandlerThrows(r) \/ Escalated(r)
    BY <2>1 DEF RunOf, HandlerReturns, HandlerThrows, Escalated, Goto, End
  <2>2. CASE script' = Without(a) /\ \E x \in ExpiredOf(a) : TickEscalated(x)
    BY <2>2 DEF ExpiredOf, TickEscalated
  <2> QED BY <1>0, <2>1, <2>2 DEF Acts, QueueMoves, queueVars, EnqueueFind, EnqueueCreate, CancelForJob
<1>3. ASSUME NEW b \in DOMAIN script' PROVE HasOwner(b)'
  <2>1. HasOwner(b) /\ b \in DOMAIN script /\ script'[b].name = script[b].name
    BY <1>1
  <2>2. /\ \A r \in runs : RunActor(r) = b => r \in runs'
        /\ \A x \in expired : b = <<x.task, 0>> => x \in expired'
    BY <1>1, <1>2
  <2> QED BY <1>0, <2>1, <2>2, OwnerKept
<1> QED BY <1>3

\* Every step keeps the owners.
LEMMA OwnedStep == Gate /\ Owned /\ [Next]_vars => Owned'
<1> SUFFICES ASSUME Gate, Owned, [Next]_vars PROVE Owned'
  OBVIOUS
<1>1. Types /\ Rowless /\ Gate' /\ Types' /\ RowsKept /\ [WorkerNext]_queueVars
  BY GateStep, TypesStep DEF Gate
<1>2. Apart'
  BY <1>1, ApartStep DEF Types, Owned
<1>3. Beside => Owned'
  BY <1>1, <1>2, BesideKeeps
<1>4. ASSUME NEW kind \in RequestKinds, NEW j \in Jobs, Arrive(kind, j) PROVE Beside
  BY <1>1, <1>4, ArriveBeside
<1>5. ASSUME NEW S \in SUBSET TaskIds, Claim(S) PROVE Beside
  BY <1>1, <1>5, ClaimBeside
<1>6. CASE (\E r \in runs : RunExhausted(r)) \/ (\E x \in expired : RowExhausted(x))
  BY <1>1, <1>3, <1>6, EscalationBeside
<1>7. CASE WorkerAlone
  BY <1>1, <1>3, <1>7, WorkerBeside
<1>8. ASSUME NEW a \in DOMAIN script, ScriptStep(a) PROVE Owned'
  <2>1. Called'
    BY <1>1, <1>8, ScriptCalled DEF Owned
  <2> QED BY <1>1, <1>2, <1>8, <2>1, ScriptOwners DEF Owned
<1>9. CASE Crash
  <2>1. script' = <<>> /\ finding' = {}
    BY <1>9 DEF Crash, CrashRestart
  <2>2. DOMAIN script' = {}
    BY <2>1
  <2> QED BY <1>2, <2>1, <2>2 DEF Owned, Called
<1>10. CASE UNCHANGED vars
  BY <1>10
  DEF vars, queueVars, Owned, Apart, HasOwner, OfExecution, OfRow, RunActor, Called, At
<1> QED BY <1>3, <1>4, <1>5, <1>6, <1>7, <1>8, <1>9, <1>10 DEF Next

\* Operations among which one opens a round.
Opening(ops) == \E k \in 1..Len(ops) : ops[k].op = "cycle"

\* The requests that have not yet opened the round they are to open.
Openers ==
  {i \in 1..arrived : \E a \in DOMAIN script : a = <<0, i>> /\ Opening(script[a].ops)}

\* A job's rounds are the one it may have been in at first and, at most, one for
\* each request that has opened its own.
RoundsCounted == \A j \in Jobs : cycle[j] + Cardinality(Openers) <= arrived + 1

\* A request opens its round once.
LEMMA OpensOnce ==
  ASSUME NEW ops \in Seq(Ops), NEW new \in Seq(Ops), NEW name \in RequestKinds, NEW s,
         Turned(ops, new, name, s), RequestScript(ops), Opening(new)
  PROVE  Opening(ops) /\ ops[1].op # "cycle"
<1>0. /\ Len(ops) \in Nat /\ Len(new) \in Nat /\ 1 \in 1..Len(ops)
      /\ ops[1].op \notin HandlersOnly
      /\ \A k \in 1..Len(ops) : ops[k].op = "cycle" => Len(ops) = k + 2
  BY WaysOn DEF RequestScript
<1>1. PICK k \in 1..Len(new) : new[k].op = "cycle"
  BY DEF Opening
<1>2. CASE Shorter(ops, new)
  <2>1. Len(new) = Len(ops) - 1 /\ k + 1 \in 1..Len(ops) /\ ops[k + 1].op = "cycle"
    BY <1>1, <1>2 DEF Shorter
  <2>2. ops[1].op = "cycle" => Len(ops) = 3 /\ Len(ops) = k + 3
    BY <1>0, <2>1
  <2> QED BY <1>1, <2>1, <2>2 DEF Opening
<1>3. CASE GoesOn(ops, new, s)
  <2>1. new[1].op # "cycle" /\ ops[1].op # "cycle" /\ Len(new) = Len(ops)
    BY <1>3 DEF GoesOn
  <2>2. k \in 2..Len(ops) /\ k \in 1..Len(ops)
    BY <1>0, <1>1, <2>1
  <2>3. ops[k].op = "cycle"
    BY <1>1, <1>3, <2>2 DEF GoesOn
  <2> QED BY <2>1, <2>2, <2>3 DEF Opening
<1> QED BY <1>0, <1>2, <1>3, WaysOn DEF HandlersOnly

\* The numbers of requests are finitely many.
LEMMA OpenersFinite ==
  ASSUME Types
  PROVE  IsFiniteSet(Openers) /\ Cardinality(Openers) \in Nat
<1>1. arrived \in Nat
  BY OrchestratorAssumption DEF Types, Bounds
<1>2. IsFiniteSet(1..arrived)
  BY <1>1, FS_Interval
<1>3. IsFiniteSet(Openers)
  BY <1>2, FS_Subset DEF Openers
<1> QED BY <1>3, FS_CardinalityType

\* A request that opens a round is called by its number.
LEMMA OpenerNumber ==
  ASSUME Types, Owned, NEW a \in DOMAIN script, Opening(script[a].ops)
  PROVE  /\ script[a].name \in RequestKinds /\ a[2] \in 1..arrived /\ a = <<0, a[2]>>
         /\ a[2] \in Openers
<1>1. script[a].name \in RequestKinds
  BY DEF Opening, Types, ScriptTypes, ScriptOK, OpsOK
<1>2. a[1] = 0 /\ a[2] \in 1..arrived
  BY <1>1, NamesApart DEF Owned, HasOwner
<1>3. a = <<a[1], a[2]>>
  BY DEF Types, ScriptTypes, Callers
<1> QED BY <1>1, <1>2, <1>3 DEF Openers

\* After a step that is not a request's arrival no other request is to open a round,
\* and who has opened one is not to open another.
LEMMA RoundsScript ==
  ASSUME Gate, Gate', Shape, Owned, RoundsCounted, NEW a \in DOMAIN script, ScriptStep(a)
  PROVE  RoundsCounted'
<1>0. Types /\ Types' /\ Acts(a) /\ arrived' = arrived /\ arrived \in Nat
  BY Acting, OrchestratorAssumption DEF Gate, Types, Bounds
<1>a. \A j \in Jobs : cycle[j] \in Nat /\ cycle'[j] \in Nat
  BY <1>0 DEF Types, JobTypes
<1>b. script[a] \in Script /\ script[a].job \in Jobs /\ script[a].ops \in Seq(Ops)
  BY <1>0 DEF Types, ScriptTypes, Script
<1>1. ASSUME NEW b \in DOMAIN script', Opening(script'[b].ops), b[1] = 0, b[2] \in 1..arrived
      PROVE  b \in DOMAIN script /\ Opening(script[b].ops) /\ (b = a => ~ At(a, "cycle"))
  <2>1. CASE script' = Without(a)
    BY <1>0, <1>1, <2>1, Removed DEF Types, ScriptTypes
  <2>2. CASE Turns(a)
    <3>1. PICK new \in Seq(Ops) :
            /\ Become(a, new)
            /\ Turned(script[a].ops, new, script[a].name, state[script[a].job])
      BY <2>2 DEF Turns
    <3>2. /\ b \in DOMAIN script /\ script'[a].ops = new /\ script'[a].name = script[a].name
          /\ b # a => script'[b] = script[b]
      BY <1>0, <3>1, Replaced DEF Types, ScriptTypes
    <3>3. CASE b = a
      <4>1. script[a].name \in RequestKinds
        BY <1>0, <1>1, <3>2, <3>3 DEF Opening, Types, ScriptTypes, ScriptOK, OpsOK
      <4>2. RequestScript(script[a].ops)
        BY <4>1 DEF Shape, ShapeOK
      <4>3. Opening(script[a].ops) /\ script[a].ops[1].op # "cycle"
        BY <1>1, <1>b, <3>1, <3>2, <3>3, <4>1, <4>2, OpensOnce
      <4>4. ~ At(a, "cycle")
        BY <1>b, <4>3 DEF At
      <4> QED BY <3>3, <4>3, <4>4
    <3>4. CASE b # a
      BY <1>1, <3>2, <3>4
    <3> QED BY <3>3, <3>4
  <2> QED BY <1>0, <2>1, <2>2 DEF Acts
<1>2. Openers' \subseteq Openers
  BY <1>0, <1>1 DEF Openers
<1>3. /\ IsFiniteSet(Openers) /\ Cardinality(Openers) \in Nat /\ Cardinality(Openers') \in Nat
      /\ Cardinality(Openers') <= Cardinality(Openers)
  <2>1. IsFiniteSet(Openers) /\ Cardinality(Openers) \in Nat
    BY <1>0, OpenersFinite
  <2> QED BY <1>2, <2>1, FS_Subset, FS_CardinalityType
<1>4. CASE cycle' = cycle
  BY <1>0, <1>3, <1>4, <1>a DEF RoundsCounted
<1>5. CASE At(a, "cycle") /\ cycle' = [cycle EXCEPT ![script[a].job] = @ + 1]
  <2>1. Opening(script[a].ops)
    <3>1. 1 \in 1..Len(script[a].ops) /\ script[a].ops[1].op = "cycle"
      BY <1>5, <1>b DEF At
    <3> QED BY <3>1 DEF Opening
  <2>2. a = <<0, a[2]>> /\ a[2] \in Openers
    BY <1>0, <2>1, OpenerNumber
  <2>3. a[2] \notin Openers'
    <3> SUFFICES ASSUME a[2] \in Openers' PROVE FALSE
      OBVIOUS
    <3>1. a \in DOMAIN script' /\ Opening(script'[a].ops) /\ a[1] = 0 /\ a[2] \in 1..arrived
      BY <1>0, <2>2 DEF Openers
    <3> QED BY <1>1, <1>5, <3>1
  <2>4. Openers' \subseteq Openers \ {a[2]}
    BY <1>2, <2>3
  <2>5. Cardinality(Openers') <= Cardinality(Openers) - 1
    <3>1. /\ IsFiniteSet(Openers \ {a[2]})
          /\ Cardinality(Openers \ {a[2]}) = Cardinality(Openers) - 1
      BY <1>3, <2>2, FS_RemoveElement
    <3> QED BY <2>4, <3>1, FS_Subset
  <2>6. \A j \in Jobs : cycle'[j] <= cycle[j] + 1
    BY <1>0, <1>5, <1>a, <1>b DEF Types, JobTypes
  <2> QED BY <1>0, <1>3, <1>a, <2>5, <2>6 DEF RoundsCounted
<1> QED BY <1>0, <1>4, <1>5 DEF Acts, RoundMoves

\* Every step counts the rounds.
LEMMA RoundsStep ==
  Gate /\ Shape /\ Owned /\ RoundsCounted /\ [Next]_vars => RoundsCounted'
<1> SUFFICES ASSUME Gate, Shape, Owned, RoundsCounted, [Next]_vars PROVE RoundsCounted'
  OBVIOUS
<1>0. Types /\ Rowless /\ Gate' /\ Types' /\ arrived \in Nat
  BY GateStep, OrchestratorAssumption DEF Gate, Types, Bounds
<1>a. /\ \A j \in Jobs : cycle[j] \in Nat
      /\ IsFiniteSet(Openers) /\ Cardinality(Openers) \in Nat
      /\ IsFiniteSet(Openers') /\ Cardinality(Openers') \in Nat
  <2>1. IsFiniteSet(Openers') /\ Cardinality(Openers') \in Nat
    <3>1. (Types => IsFiniteSet(Openers) /\ Cardinality(Openers) \in Nat)'
      BY OpenersFinite, PTL
    <3> QED BY <1>0, <3>1
  <2> QED BY <1>0, <2>1, OpenersFinite DEF Types, JobTypes
<1>1. ASSUME cycle' = cycle, arrived' = arrived, Openers' \subseteq Openers
      PROVE  RoundsCounted'
  <2>1. Cardinality(Openers') <= Cardinality(Openers)
    BY <1>1, <1>a, FS_Subset
  <2> QED BY <1>0, <1>1, <1>a, <2>1 DEF RoundsCounted
<1>2. ASSUME Beside, Requests' \subseteq Requests, cycle' = cycle, arrived' = arrived
      PROVE  RoundsCounted'
  <2>1. \A i \in 1..arrived, b \in DOMAIN script' : b = <<0, i>> => b \in DOMAIN script
    BY <1>2 DEF Requests
  <2>2. Openers' \subseteq Openers
    BY <1>2, <2>1 DEF Openers, Beside, Opening
  <2> QED BY <1>1, <1>2, <2>2
<1>3. ASSUME NEW kind \in RequestKinds, NEW j \in Jobs, Arrive(kind, j) PROVE RoundsCounted'
  <2>1. cycle' = cycle /\ arrived' = arrived + 1
    BY <1>3 DEF Arrive, jobVars
  <2>2. DOMAIN script' = DOMAIN script \cup {<<0, arrived + 1>>}
    BY <1>3 DEF Arrive, With
  <2>3. Beside
    BY <1>0, <1>3, ArriveBeside
  <2>4. ASSUME NEW i \in Openers', i # arrived + 1 PROVE i \in Openers
    <3>1. i \in 1..arrived
      BY <1>0, <2>1, <2>4 DEF Openers
    <3>2. PICK b \in DOMAIN script' : b = <<0, i>> /\ Opening(script'[b].ops)
      BY <2>4 DEF Openers, Opening
    <3>3. b \in DOMAIN script
      BY <2>2, <2>4, <3>2
    <3> QED BY <2>3, <3>1, <3>2, <3>3 DEF Beside, Openers
  <2>5. Openers' \subseteq Openers \cup {arrived + 1}
    BY <2>4
  <2>6. Cardinality(Openers') <= Cardinality(Openers) + 1
    <3>0. PICK n : n = arrived + 1
      OBVIOUS
    <3>4. /\ IsFiniteSet(Openers \cup {n})
          /\ Cardinality(Openers \cup {n})
               = IF n \in Openers THEN Cardinality(Openers) ELSE Cardinality(Openers) + 1
      BY <1>a, FS_AddElement, Zenon
    <3>1. /\ IsFiniteSet(Openers \cup {arrived + 1})
          /\ Cardinality(Openers \cup {arrived + 1}) <= Cardinality(Openers) + 1
      BY <1>a, <3>0, <3>4
    <3>2. Cardinality(Openers') <= Cardinality(Openers \cup {arrived + 1})
      BY <2>5, <3>1, FS_Subset
    <3>3. Cardinality(Openers \cup {arrived + 1}) \in Nat
      BY <3>1, FS_CardinalityType
    <3> QED BY <1>a, <3>1, <3>2, <3>3
  <2> QED BY <1>0, <1>a, <2>1, <2>6 DEF RoundsCounted
<1>4. ASSUME NEW S \in SUBSET TaskIds, Claim(S) PROVE RoundsCounted'
  BY <1>0, <1>2, <1>4, ClaimBeside DEF Claim, jobVars
<1>5. CASE (\E r \in runs : RunExhausted(r)) \/ (\E x \in expired : RowExhausted(x))
  BY <1>0, <1>2, <1>5, EscalationBeside DEF RunExhausted, RowExhausted, jobVars
<1>6. CASE WorkerAlone
  BY <1>0, <1>2, <1>6, WorkerBeside DEF WorkerAlone, jobVars
<1>7. ASSUME NEW a \in DOMAIN script, ScriptStep(a) PROVE RoundsCounted'
  BY <1>0, <1>7, RoundsScript
<1>8. CASE Crash
  <2>1. cycle' = cycle /\ arrived' = arrived /\ script' = <<>>
    BY <1>8 DEF Crash, jobVars
  <2>2. Openers' = {}
    BY <2>1 DEF Openers
  <2> QED BY <1>1, <2>1, <2>2
<1>9. CASE UNCHANGED vars
  <2>1. cycle' = cycle /\ arrived' = arrived /\ script' = script
    BY <1>9 DEF vars, jobVars
  <2> QED BY <1>1, <2>1 DEF Openers
<1> QED BY <1>3, <1>4, <1>5, <1>6, <1>7, <1>8, <1>9 DEF Next

\* At first there is no script, and a job is in round 1 at most.
LEMMA OwnedInit == Init => Shape /\ Owned /\ RoundsCounted
<1> SUFFICES ASSUME Init PROVE Shape /\ Owned /\ RoundsCounted
  OBVIOUS
<1>1. PICK s \in Starts : cycle = [j \in Jobs |-> IF s = "AWAITING_PR_APPROVAL" THEN 1 ELSE 0]
  BY InitialTable
<1>2. /\ runs = {} /\ finding = {} /\ script = <<>> /\ DOMAIN script = {} /\ arrived = 0
  BY DEF Init
<1>3. Cardinality(Openers) = 0
  <2>1. Openers = {}
    BY <1>2 DEF Openers
  <2> QED BY <2>1, FS_EmptySet
<1> QED BY <1>1, <1>2, <1>3 DEF Shape, Owned, Apart, Called, RoundsCounted

\* The types of the pipeline's variables, with an owner for every script and every
\* call of enqueue, and no more rounds than requests: whatever is restarted,
\* goes stale, throws or is cancelled while the others are under way.
THEOREM PipelineTypeCorrect == Spec => []TypeOK
<1>1. Gate /\ Shape /\ Owned /\ RoundsCounted /\ [Next]_vars
        => Shape' /\ Owned' /\ RoundsCounted'
  BY ShapeStep, OwnedStep, RoundsStep
<1>2. Gate /\ Owned /\ RoundsCounted => TypeOK
  <2> SUFFICES ASSUME Gate, Owned, RoundsCounted PROVE TypeOK
    OBVIOUS
  <2>1. WorkerTypeOK /\ JobTypes /\ Types
    BY DEF Gate, Types
  <2>2. cycle \in [Jobs -> 0..MaxRequests + 1]
    <3>1. arrived \in Nat /\ arrived <= MaxRequests /\ MaxRequests \in Nat
      BY <2>1, OrchestratorAssumption DEF Types, Bounds
    <3>2. Cardinality(Openers) \in Nat
      BY <2>1, OpenersFinite
    <3>3. \A j \in Jobs : cycle[j] \in 0..MaxRequests + 1
      BY <2>1, <3>1, <3>2 DEF JobTypes, RoundsCounted
    <3> QED BY <2>1, <3>3 DEF JobTypes
  <2>3. \A c \in finding : c.by \in DOMAIN script
    BY DEF Owned, Called
  <2>4. ASSUME NEW a \in DOMAIN script PROVE a[1] = 0 \/ RunOf(a) # {} \/ ExpiredOf(a) # {}
    BY DEF Owned, HasOwner, OfExecution, OfRow, RunOf, ExpiredOf
  <2>5. \A j \in Jobs : plans[j] \in Seq({"PROPOSED", "APPROVED", "SUPERSEDED"})
    BY <2>1 DEF JobTypes
  <2> QED BY <2>1, <2>2, <2>3, <2>4, <2>5 DEF TypeOK, WorkerTypeOK, JobTypes
<1> QED BY <1>1, <1>2, OwnedInit, GateAlways, PTL DEF Spec
===============================================================================

----------------------------- MODULE Orchestrator -----------------------------
(***************************************************************************)
(* The pipeline of api/src/orchestrator/orchestrator.service.ts on top of  *)
(* the worker: stage handlers, the requests of humans (webhooks and        *)
(* dashboard), and onTaskExhausted, all running interleaved in one         *)
(* process.                                                                *)
(*                                                                         *)
(* A method of the service is a script: the database statements and agent  *)
(* runs it has left, in the order of its awaits.  Whatever a method reads  *)
(* it reads in a step of its own; what it does later, it does on that      *)
(* reading, however stale.  An actor is <<t, n>> for the execution of task *)
(* t on attempt n, <<t, 0>> for the escalation of expired row t, <<0, i>>  *)
(* for the i-th request.                                                   *)
(*                                                                         *)
(* Abstracted: workspaces, prompts, comments and reactions, the verdicts   *)
(* of agents (open; RevisionRound counts the budgets), database errors.    *)
(***************************************************************************)
EXTENDS Worker, JobStates, Sequences

CONSTANTS
  MaxPlanRevisions,  \* MAX_PLAN_REVISIONS
  RequestKinds,      \* the requests humans make in this instance
  MaxRequests,       \* bound: requests ever made
  MaxConcurrent,     \* bound: requests in progress at once
  Starts             \* the states the jobs may be in at first

\* Everybody who may call enqueue: the requests, and the executions.
Callers ==
  ({0} \X (1..MaxRequests))
    \cup (TaskIds \X (1..(MaxAttempts + MaxRestarts + MaxLapses)))

ASSUME OrchestratorAssumption ==
  /\ Kinds = TASK_KINDS
  /\ Callers \subseteq Producers
  /\ MaxPlanRevisions \in Nat
  /\ RequestKinds \subseteq {"label", "approve", "comment", "feedback",
                             "cancel", "retry", "changes", "inline", "accept"}
  /\ MaxRequests \in Nat
  /\ MaxConcurrent \in Nat
  /\ Starts \subseteq {"ABSENT", "AWAITING_PLAN_APPROVAL", "AWAITING_PR_APPROVAL"}

VARIABLES
  state,        \* JobRecords.state, "ABSENT" before the row exists
  plans,        \* the status of each PlanRevision, in revision order
  cycle,        \* JobRecords.revisionCycle
  hasPr,        \* JobRecords.prNumber is set
  unaddressed,  \* some PullRequestFeedback is newer than the last work run
  script,       \* actor -> [job, name, ops]
  arrived       \* ghost: requests so far

jobVars == <<state, plans, cycle, hasPr, unaddressed>>
vars == <<queueVars, jobVars, script, arrived>>

-------------------------------------------------------------------------------
(* Operations of scripts.                                                  *)

T(to) == [op |-> "transition", to |-> to, force |-> FALSE]
Forced(to) == [op |-> "transition", to |-> to, force |-> TRUE]
Enqueue(k) == [op |-> "enqueue", kind |-> k]
Agent(phase) == [op |-> "agent", phase |-> phase]
Do(what) == [op |-> what]

MoveOn(to, k) == <<T(to), Enqueue(k)>>

(* Stage handlers.  s is the state context() read.                         *)

handlePlan(s) ==
  <<T("PLANNING"), Agent("PLAN"), Do("propose"), T("AWAITING_PLAN_APPROVAL")>>

handleImplement(s) ==
  (IF s # "IMPLEMENTING" THEN <<T("IMPLEMENTING")>> ELSE <<>>)
    \o <<Agent("IMPLEMENT")>> \o MoveOn("VERIFYING", "VERIFY")

handleVerify(s) ==
  (IF s # "VERIFYING" THEN <<T("VERIFYING")>> ELSE <<>>)
    \o <<Agent("VERIFY"), Do("verified")>>

handleReview(s) ==
  <<T("SELF_REVIEWING"), Agent("REVIEW"), Do("reviewed")>>

handleRevise(s) == <<Agent("REVISE")>> \o MoveOn("VERIFYING", "VERIFY")

handleOpenPr(s) ==
  <<Do("guard"), Agent("SUMMARY"), Do("savePr"), T("AWAITING_PR_APPROVAL")>>

HandlerOps(k, s) ==
  CASE k = "PLAN"      -> handlePlan(s)
    [] k = "IMPLEMENT" -> handleImplement(s)
    [] k = "VERIFY"    -> handleVerify(s)
    [] k = "REVIEW"    -> handleReview(s)
    [] k = "REVISE"    -> handleRevise(s)
    [] k = "OPEN_PR"   -> handleOpenPr(s)

\* What a handler may do once VERIFY's command or REVIEW's verdict is in:
\* the budgets that choose are the subject of RevisionRound.
AfterVerify ==
  {MoveOn("SELF_REVIEWING", "REVIEW"), MoveOn("REVISING", "REVISE"),
   MoveOn("OPENING_PR", "OPEN_PR")}

AfterReview ==
  {MoveOn("OPENING_PR", "OPEN_PR"), MoveOn("REVISING", "REVISE"),
   <<Enqueue("REVIEW")>>}

-------------------------------------------------------------------------------
(* Requests: what each does, given the state it read.                      *)

onIssueLabeled(s) ==
  IF s = "ABSENT" THEN <<Do("create"), Enqueue("PLAN")>>
  ELSE IF s \in {"FAILED", "CANCELLED"} THEN MoveOn("PLANNING", "PLAN")
  ELSE <<>>

\* Fault: the revision is not marked APPROVED.
approvePlanUnmarked(s) ==
  IF s = "AWAITING_PLAN_APPROVAL"
  THEN <<Do("cycle")>> \o MoveOn("IMPLEMENTING", "IMPLEMENT")
  ELSE <<>>

\* Fault: the round is opened after the job has moved on.
approvePlanLateRound(s) ==
  IF s = "AWAITING_PLAN_APPROVAL"
  THEN <<Do("approvePlans")>> \o MoveOn("IMPLEMENTING", "IMPLEMENT") \o <<Do("cycle")>>
  ELSE <<>>

approvePlan(s) ==
  IF s = "AWAITING_PLAN_APPROVAL"
  THEN <<Do("approvePlans"), Do("cycle")>> \o MoveOn("IMPLEMENTING", "IMPLEMENT")
  ELSE <<>>

submitPlanFeedback(s) ==
  IF s = "AWAITING_PLAN_APPROVAL"
  THEN <<Do("supersede")>> \o MoveOn("PLANNING", "PLAN")
  ELSE <<>>

\* A comment on the issue, before submitPlanFeedback: the revision limit.
onIssueComment(j, s) ==
  IF s = "AWAITING_PLAN_APPROVAL" /\ Len(plans[j]) >= MaxPlanRevisions
  THEN <<T("FAILED")>>
  ELSE submitPlanFeedback(s)

cancelJob(s) ==
  IF s \in TERMINAL_STATES \cup {"ABSENT"} THEN <<>>
  ELSE <<Do("cancelTasks"), T("CANCELLED")>>

\* The kind of the job's newest task row, whatever became of it.
RetryKind(j) ==
  LET rows == {t \in DOMAIN task : task[t].job = j}
  IN  IF rows = {} THEN "REVIEW"
      ELSE task[CHOOSE t \in rows : \A u \in rows : u <= t].kind

\* Fault: a retry starts the job over instead of resuming its stage.
retryJobFromTriage(j, s) ==
  IF s = "FAILED" THEN <<Forced("TRIAGED"), Enqueue(RetryKind(j))>> ELSE <<>>

retryJob(j, s) ==
  IF s = "FAILED"
  THEN <<Forced(retryStateMap[RetryKind(j)]), Enqueue(RetryKind(j))>>
  ELSE <<>>

\* Fault: a review in the middle of a round starts another REVISE.
onPullRequestReviewAlways(j, s) ==
  IF ~ hasPr[j] \/ s \in TERMINAL_STATES THEN <<>>
  ELSE <<Do("feedback"), Do("cycle")>> \o MoveOn("REVISING", "REVISE")

\* A review of the PR.  /hermes revise does the same, except that it stores the
\* comment of a terminal job as well, which nobody reads before a retry.
onPullRequestReview(j, s) ==
  IF ~ hasPr[j] \/ s \in TERMINAL_STATES THEN <<>>
  ELSE IF s = "AWAITING_PR_APPROVAL"
  THEN <<Do("feedback"), Do("cycle")>> \o MoveOn("REVISING", "REVISE")
  ELSE <<Do("feedback")>>

onPrReviewComment(j, s) ==
  IF ~ hasPr[j] \/ s \in TERMINAL_STATES THEN <<>> ELSE <<Do("feedback")>>

acceptResult(s) == IF s = "AWAITING_PR_APPROVAL" THEN <<T("DONE")>> ELSE <<>>

RequestOps(kind, j) ==
  LET s == state[j]
  IN CASE kind = "label"    -> onIssueLabeled(s)
       [] kind = "approve"  -> approvePlan(s)
       [] kind = "comment"  -> onIssueComment(j, s)
       [] kind = "feedback" -> submitPlanFeedback(s)
       [] kind = "cancel"   -> cancelJob(s)
       [] kind = "retry"    -> retryJob(j, s)
       [] kind = "changes"  -> onPullRequestReview(j, s)
       [] kind = "inline"   -> onPrReviewComment(j, s)
       [] kind = "accept"   -> acceptResult(s)

-------------------------------------------------------------------------------
(* Actors.                                                                 *)

RunActor(r) == <<r.task, r.attempt>>

RunOf(a) == {r \in runs : RunActor(r) = a}

ExpiredOf(a) == {x \in expired : a = <<x.task, 0>>}

Requests == {a \in DOMAIN script : a[1] = 0}

Without(a) == [b \in DOMAIN script \ {a} |-> script[b]]

\* The scripts, with new ones.
With(started) ==
  [b \in DOMAIN script \cup DOMAIN started |->
     IF b \in DOMAIN started THEN started[b] ELSE script[b]]

At(a, what) ==
  a \in DOMAIN script /\ script[a].ops # <<>> /\ Head(script[a].ops).op = what

Op(a) == Head(script[a].ops)

Become(a, ops) == script' = [script EXCEPT ![a].ops = ops]

Rest(a) == Tail(script[a].ops)

Advance(a) == Become(a, Rest(a))

\* An exception leaves the method: process() takes it to queue.fail, the
\* escalation and the requests log it and are over.
Throw(a) ==
  /\ script' = Without(a)
  /\ IF \E r \in RunOf(a) : r.pc = "working"
     THEN \E r \in RunOf(a) : HandlerThrows(r)
     ELSE IF RunOf(a) # {}
     THEN \E r \in RunOf(a) : Escalated(r)
     ELSE IF ExpiredOf(a) # {}
     THEN \E x \in ExpiredOf(a) : TickEscalated(x)
     ELSE UNCHANGED queueVars

\* The method is over.
Return(a) ==
  /\ a \in DOMAIN script /\ script[a].ops = <<>>
  /\ script' = Without(a)
  /\ IF \E r \in RunOf(a) : r.pc = "working"
     THEN \E r \in RunOf(a) : HandlerReturns(r)
     ELSE IF RunOf(a) # {}
     THEN \E r \in RunOf(a) : Escalated(r)
     ELSE IF ExpiredOf(a) # {}
     THEN \E x \in ExpiredOf(a) : TickEscalated(x)
     ELSE UNCHANGED queueVars
  /\ UNCHANGED <<jobVars, arrived>>

-------------------------------------------------------------------------------
(* JobService.transition: a read with the check, then the write.           *)

TransitionRead(a) ==
  LET j == script[a].job
      to == Op(a).to
  IN /\ At(a, "transition")
     /\ IF state[j] = to
        THEN Advance(a) /\ UNCHANGED queueVars
        ELSE IF Op(a).force \/ canTransition(state[j], to)
        THEN /\ Become(a, <<[op |-> "write", to |-> to]>> \o Rest(a))
             /\ UNCHANGED queueVars
        ELSE Throw(a)
     /\ UNCHANGED <<jobVars, arrived>>

TransitionWrite(a) ==
  /\ At(a, "write")
  /\ state' = [state EXCEPT ![script[a].job] = Op(a).to]
  /\ Advance(a)
  /\ UNCHANGED <<queueVars, plans, cycle, hasPr, unaddressed, arrived>>

(* QueueService.enqueue: the find, then the insert.                        *)

EnqueueStart(a) ==
  /\ At(a, "enqueue")
  /\ IF HasPending(task, script[a].job, Op(a).kind)
     THEN Advance(a) /\ UNCHANGED queueVars
     ELSE /\ EnqueueFind(a, script[a].job, Op(a).kind)
          /\ Become(a, <<Do("insert")>> \o Rest(a))
  /\ UNCHANGED <<jobVars, arrived>>

EnqueueInsert(a) ==
  /\ At(a, "insert")
  /\ \E c \in finding, t \in TaskIds : c.by = a /\ EnqueueCreate(c, t)
  /\ Advance(a)
  /\ UNCHANGED <<jobVars, arrived>>

CancelTasks(a) ==
  /\ At(a, "cancelTasks")
  /\ CancelForJob(script[a].job)
  /\ Advance(a)
  /\ UNCHANGED <<jobVars, arrived>>

-------------------------------------------------------------------------------
(* Agent runs.  A run's AgentRun row is created when it starts; IMPLEMENT  *)
(* and REVISE rows are what "newer than the last work run" refers to.      *)

AgentStart(a) ==
  /\ At(a, "agent")
  /\ unaddressed' =
       IF Op(a).phase \in {"IMPLEMENT", "REVISE"}
       THEN [unaddressed EXCEPT ![script[a].job] = FALSE]
       ELSE unaddressed
  /\ Become(a, <<[op |-> "await", phase |-> Op(a).phase]>> \o Rest(a))
  /\ UNCHANGED <<queueVars, state, plans, cycle, hasPr, arrived>>

AgentSucceeds(a) ==
  /\ At(a, "await")
  /\ Advance(a)
  /\ UNCHANGED <<queueVars, jobVars, arrived>>

\* A failed run, a failed clone, push or API call, a killed container.
AgentFails(a) ==
  /\ At(a, "await")
  /\ Throw(a)
  /\ UNCHANGED <<jobVars, arrived>>

Decide(a) ==
  /\ \/ At(a, "verified") /\ \E ops \in AfterVerify : Become(a, ops)
     \/ At(a, "reviewed") /\ \E ops \in AfterReview : Become(a, ops)
  /\ UNCHANGED <<queueVars, jobVars, arrived>>

\* handleOpenPr's guard: feedback that arrived after the last work pass.
OpenPrGuard(a) ==
  /\ At(a, "guard")
  /\ IF unaddressed[script[a].job]
     THEN Become(a, MoveOn("REVISING", "REVISE"))
     ELSE Advance(a)
  /\ UNCHANGED <<queueVars, jobVars, arrived>>

-------------------------------------------------------------------------------
(* processTask: the row's job is read once to skip terminal jobs, and once *)
(* more by the handler's context().                                        *)

ProcessTask(a) ==
  /\ At(a, "process")
  /\ IF state[script[a].job] \in TERMINAL_STATES
     THEN Become(a, <<>>)
     ELSE Become(a, <<Do("context")>>)
  /\ UNCHANGED <<queueVars, jobVars, arrived>>

Context(a) ==
  /\ At(a, "context")
  /\ Become(a, HandlerOps(script[a].name, state[script[a].job]))
  /\ UNCHANGED <<queueVars, jobVars, arrived>>

-------------------------------------------------------------------------------
(* Single statements on the job and its rows.                              *)

CreateJob(a) ==
  LET j == script[a].job
  IN /\ At(a, "create")
     /\ IF state[j] = "ABSENT"
        THEN /\ state' = [state EXCEPT ![j] = "TRIAGED"]
             /\ Advance(a)
             /\ UNCHANGED queueVars
        ELSE UNCHANGED state /\ Throw(a)  \* unique (repoFullName, issueNumber)
     /\ UNCHANGED <<plans, cycle, hasPr, unaddressed, arrived>>

\* updateMany on the revisions that are PROPOSED.
Restatus(j, status) ==
  plans' = [plans EXCEPT ![j] =
    [i \in DOMAIN plans[j] |->
       IF plans[j][i] = "PROPOSED" THEN status ELSE plans[j][i]]]

PlanStatement(a) ==
  LET j == script[a].job
  IN /\ \/ At(a, "propose") /\ plans' = [plans EXCEPT ![j] = Append(@, "PROPOSED")]
        \/ At(a, "approvePlans") /\ Restatus(j, "APPROVED")
        \/ At(a, "supersede") /\ Restatus(j, "SUPERSEDED")
     /\ Advance(a)
     /\ UNCHANGED <<queueVars, state, cycle, hasPr, unaddressed, arrived>>

JobStatement(a) ==
  LET j == script[a].job
  IN /\ \/ /\ At(a, "cycle")
           /\ cycle' = [cycle EXCEPT ![j] = @ + 1]
           /\ UNCHANGED <<hasPr, unaddressed>>
        \/ /\ At(a, "savePr")
           /\ hasPr' = [hasPr EXCEPT ![j] = TRUE]
           /\ UNCHANGED <<cycle, unaddressed>>
        \/ /\ At(a, "feedback")
           /\ unaddressed' = [unaddressed EXCEPT ![j] = TRUE]
           /\ UNCHANGED <<cycle, hasPr>>
     /\ Advance(a)
     /\ UNCHANGED <<queueVars, state, plans, arrived>>

-------------------------------------------------------------------------------
(* The worker's steps, and the scripts they start.                         *)

\* A request reads the job and leaves what it will do on that reading.
Arrive(kind, j) ==
  LET a == <<0, arrived + 1>>
  IN /\ arrived < MaxRequests
     /\ Cardinality(Requests) < MaxConcurrent
     /\ RequestOps(kind, j) # <<>>
     /\ arrived' = arrived + 1
     /\ script' = With([b \in {a} |->
                   [job |-> j, name |-> kind, ops |-> RequestOps(kind, j)]])
     /\ UNCHANGED <<queueVars, jobVars>>

Claim(S) ==
  /\ TickClaim(S)
  /\ script' = With([b \in {RunActor(r) : r \in Started(S)} |->
                   [job |-> task[b[1]].job, name |-> task[b[1]].kind,
                    ops |-> <<Do("process")>>]])
  /\ UNCHANGED <<jobVars, arrived>>

\* onTaskExhausted: cancelForJob, then jobs.fail.
Exhaust(a, t) ==
  script' = With([b \in {a} |->
                   [job |-> task[t].job, name |-> "exhausted",
                    ops |-> <<T("FAILED")>>]])

RunExhausted(r) ==
  /\ Escalate(r)
  /\ Exhaust(RunActor(r), r.task)
  /\ UNCHANGED <<jobVars, arrived>>

RowExhausted(x) ==
  /\ TickEscalate(x)
  /\ Exhaust(<<x.task, 0>>, x.task)
  /\ UNCHANGED <<jobVars, arrived>>

WorkerAlone ==
  /\ \/ TickExpire
     \/ \E r \in runs :
          \/ Complete(r) \/ FailRead(r) \/ FailRetry(r) \/ FailSettle(r)
          \/ Heartbeat(r)
     \/ \E t \in TaskIds : BackoffElapses(t) \/ LockLapses(t)
  /\ UNCHANGED <<jobVars, script, arrived>>

\* Scripts in progress are lost; requests are not served until the restart.
Crash ==
  /\ CrashRestart
  /\ script' = <<>>
  /\ UNCHANGED <<jobVars, arrived>>

-------------------------------------------------------------------------------
Seed(j, k) == [job |-> j, kind |-> k, status |-> "DONE", attempts |-> 1,
               due |-> TRUE, lock |-> "none"]

\* The tables in which each job has one settled row, of kind k.
Seeded(k) ==
  {q \in UNION {[1..n -> {Seed(j, k) : j \in Jobs}] : n \in 0..MaxTasks} :
     \A j \in Jobs : \E t \in DOMAIN q : \A u \in DOMAIN q : q[u].job = j <=> u = t}

\* Jobs as they are in state s.  Of the rows that led there only the last
\* one is kept: the earlier ones are settled, and nothing reads them.
StartedAt(s) ==
  /\ task \in CASE s = "ABSENT" -> {<<>>}
                [] s = "AWAITING_PLAN_APPROVAL" -> Seeded("PLAN")
                [] s = "AWAITING_PR_APPROVAL" -> Seeded("OPEN_PR")
  /\ state = [j \in Jobs |-> s]
  /\ plans = [j \in Jobs |->
                CASE s = "ABSENT" -> <<>>
                  [] s = "AWAITING_PLAN_APPROVAL" -> <<"PROPOSED">>
                  [] s = "AWAITING_PR_APPROVAL" -> <<"APPROVED">>]
  /\ cycle = [j \in Jobs |-> IF s = "AWAITING_PR_APPROVAL" THEN 1 ELSE 0]
  /\ hasPr = [j \in Jobs |-> s = "AWAITING_PR_APPROVAL"]

Init ==
  /\ \E s \in Starts : StartedAt(s)
  /\ runs = {} /\ finding = {} /\ expired = {} /\ restarts = 0 /\ lapses = 0
  /\ unaddressed = [j \in Jobs |-> FALSE]
  /\ script = <<>>
  /\ arrived = 0

ScriptStep(a) ==
  \/ ProcessTask(a)
  \/ Context(a)
  \/ TransitionRead(a)
  \/ TransitionWrite(a)
  \/ EnqueueStart(a)
  \/ EnqueueInsert(a)
  \/ CancelTasks(a)
  \/ AgentStart(a)
  \/ AgentSucceeds(a)
  \/ AgentFails(a)
  \/ Decide(a)
  \/ OpenPrGuard(a)
  \/ CreateJob(a)
  \/ PlanStatement(a)
  \/ JobStatement(a)
  \/ Return(a)

Next ==
  \/ \E kind \in RequestKinds, j \in Jobs : Arrive(kind, j)
  \/ \E S \in SUBSET TaskIds : Claim(S)
  \/ \E a \in DOMAIN script : ScriptStep(a)
  \/ \E r \in runs : RunExhausted(r)
  \/ \E x \in expired : RowExhausted(x)
  \/ WorkerAlone
  \/ Crash

Spec == Init /\ [][Next]_vars
================================================================================

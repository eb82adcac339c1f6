# A verification project for olympian

olympian takes a GitHub issue, has an agent plan it, waits for a human to
approve the plan, has agents implement, verify, review and revise the code in a
sandboxed container, and opens a pull request that humans may send back. One
NestJS process (`api/src`) does all of it over one SQLite database: a polling
worker, a webhook endpoint, a dashboard API, a chat, and the ingestion of the
traces agents export. Plugins run inside the agents' containers, and a dashboard
(`app/src`) in the browser. This directory holds TLA+ models of that process, the TLC
configurations that check them on small instances, and proofs checked by TLAPS.

Paths below are relative to `api/src/` unless they say otherwise.

## 1. Inventory

| component | state it keeps | operations | hard behaviour |
|---|---|---|---|
| **Task queue** `queue/queue.service.ts` | `QueueTask` rows: job, kind, status, attempts, runAt, lock | enqueue, claimBatch, complete, fail, refreshLock, expireExhaustedStale, cancelForJob, reclaimOrphaned | enqueue and fail are two statements each; locks go stale under live executions; a restart finds RUNNING rows |
| **Worker** `worker/worker.service.ts` | executions in flight, one timer | tick (expire, claim, dispatch), process (handler, heartbeat, settle, escalate), start | up to WORKER_CONCURRENCY handlers interleave; exhaustion is escalated in two places |
| **Jobs** `job/` | `JobRecords.state`, its table of allowed transitions | create, transition, fail | transition reads, checks and writes in separate statements |
| **Orchestrator** `orchestrator/orchestrator.service.ts` | plan revisions, revision round, PR number, feedback | six stage handlers, onTaskExhausted, nine kinds of human request | every `await` is a point where a request, another handler or a crash comes in between |
| **Verify, review, judge** | `VerifyRun`, `ReviewPass` records, completion retries | record, count, decide | budgets are counted from records that re-run handlers add to |
| **Chat** `chat/chat.service.ts` | sessions, messages, a semaphore | sendMessage, dispatchRun, generateTitle, deleteSession | background runs outlive the request and the session; slots change hands by callback |
| **Agent runs** `agent/agent.service.ts` | the `AgentRun` row, the event persister, the child process | run, flush, drain, spawnProcess, extractJsonBlock | writes overlap with new events, fail, and must end before the run is over; timeout, exit and inherited stdout race; verdicts are read out of free text |
| **Traces** `langfuse/` | subject, buffer and retirement mark per run | ingest, observe, complete, sweep, streamRun | events arrive late; viewers subscribe at any time |
| **Webhooks** `webhook/` | `WebhookEvent` rows | record, dispatch, route | duplicate and repeated deliveries, a crash or failure while processing |
| **Workspaces** `workspace/` | a git directory per job, the branch on the remote, the pull request | prepare, commitAll, push, branchDiff, cleanup, createDraftPullRequest | the directory outlives crashes; tasks, diffs and setRepo share it |
| **Agent plugins** `api/.hermes/plugins/` | notes of a unit of work, who is the primary agent | hooks around every tool call | calls of parent and children interleave, processes die and resume, builds remove files |
| **Chat page** `app/src/components/Chat.tsx` | the shown run, its events, the fetched session | send, poll, reattach, stream | answers overtake each other, streams drop, the page is reloaded |
| others | none of their own | configuration, metrics, health, prompts, the other pages, setup | none that a model would show |

How they interact: webhooks and the dashboard call the orchestrator's request
methods; these write the job and enqueue tasks. The worker claims tasks and
calls `processTask`, which runs a stage handler; a handler moves the job on and
enqueues its successor. A task that used its attempts is escalated to
`onTaskExhausted`, which fails the job. Handlers and the chat call
`HermesAgentService.run`; its container posts traces, which the trace service
buffers, streams to viewers and hands to the run's persister. Handlers read
verdicts out of an agent's stdout, and share the job's directory with the agent,
whose plugins keep notes there from pass to pass. Everything in the server shares
one event loop: code between two awaits is atomic, a database statement is
atomic, and nothing else is.

What makes each part correct: a task is executed once at a time, within its
budget, and settles (queue, worker); a job moves along its table, is carried on
by something, builds only what was approved and is worked on by one agent at a
time (orchestrator); a round ends within its budget with every comment
addressed (review round); slots are neither lost nor idle and every turn is
answered (chat); the log of a run is complete and in order, and a viewer misses
nothing (events); a delivery is handled at least once and leaves its comment
once (webhooks); commits survive, and what is presented was pushed (workspaces);
the verdict that was asked for is the one that is read (agent output); the
primary delegates and its notes survive (plugins); the page shows what is stored
and starts one run at a time (chat page).

## 2. Modules

```
TaskQueue <- Worker <- WorkerProps <- OrchestratorProofs, MCWorker
                ^
   JobStates <- Orchestrator <- OrchestratorProps <- OrchestratorProofs, MCOrchestrator
        ^                        (INSTANCE JobLifecycle, Worker's WorkerNext)
   JobLifecycle
RevisionRound <- RevisionRoundProps <- RevisionRoundProofs, MCRevisionRound
Chat          <- ChatProps          <- ChatProofs, MCChat
AgentEvents   <- AgentEventsProps   <- AgentEventsProofs, MCAgentEvents
Delivery      <- DeliveryProps      <- DeliveryProofs, MCDelivery
                 (INSTANCE AtLeastOnce)
Workspace     <- WorkspaceProps     <- WorkspaceProofs, MCWorkspace
AgentText     <- AgentOutput  <- AgentOutputProps  <- AgentProofs, MCAgentOutput
AgentMemory, WorkerGuard <- AgentSession <- AgentSessionProps <- AgentProofs, MCAgentSession
ChatPage      <- ChatPageProps      <- ChatPageProofs, MCChatPage
```

* **TaskQueue** has no variables: a statement of `QueueService` is a function
  from tables to tables. A row's `runAt` is due or not, its lock is none, fresh
  or stale: what the statements compare times with. `lockedBy`, `priority` and
  `lastError` decide nothing and are left out.
* **Worker** adds `runs` (the `process()` executions in flight, each at the
  statement it issues next), `finding` (callers of `enqueue` between find and
  create), `expired` (rows a tick is escalating). The stage handler is left
  open: it returns or throws. `CrashRestart` loses everything but the table.
* **JobStates** is the table of `job/job.model.ts`; **JobLifecycle** is the
  abstract specification: a state moves along the table, and out of FAILED to
  the stage of a task by `retryJob`.
* **Orchestrator** extends Worker. An actor (an execution, an escalation or a
  request) owns a `script`: the database statements and agent runs its method
  still has to do, in the order of its awaits. What a method reads it reads in
  a step of its own (`Context`, `Arrive`, `TransitionRead`, `EnqueueStart`,
  `OpenPrGuard`) and acts on later. The verdicts of VERIFY and REVIEW are open
  here. It is built from Worker's actions and uses the queue in no other way
  (`RunsOnWorker`, a lemma of section 4), and implements JobLifecycle (`LegalMoves`).
* **RevisionRound** closes what Orchestrator leaves open: the counts of
  VerifyRun and ReviewPass records, the review threshold, the completion loop,
  the rule that selects feedback for a prompt, and the PR body. In exchange the
  transition, the enqueue and the end of a task are one step. One job is enough:
  every count is per job and round.
* **Chat** models a send statement by statement, the semaphore with its queue
  of waiters, the background run and the title run, deletion and a crash.
* **AgentEvents** models one run: `run()` from subscribing the persister to the
  settled row, the trace service's maps, the persister's pending events, its
  chain of writes, and viewers of `streamRun`. Runs share no key of any map.
  Events come in export requests: a span's session is the last value of the first
  of SESSION_ID_KEYS it has, else its resource's, and a request is decoded whole
  before any of it is ingested.
* **Delivery** follows a webhook from the request to the row an inline comment
  leaves, with sends of one delivery overlapping, statements and lookups that
  fail, and crashes. **AtLeastOnce** is the abstract specification: what the
  comment on `WebhookService` promises, without rows and handlers.
* **Workspace** is the directory of one job, its branch on the remote, and the
  pull request: each call of git, GitHub and the database of the handlers,
  `diff`, `setRepo` and `acceptResult` that can fail or be overtaken is a step.
  A branch is the set of its commits. The states of the job between these calls
  are Orchestrator's, along one path: PLAN, IMPLEMENT, VERIFY, OPEN_PR, with
  revisions, and retries by a human.
* **AgentText** reads characters: `extractJsonBlock` with its scanner, and the
  judge's regular expression. **AgentOutput** is the process that writes them,
  with its timeout, exit, cap and `close`, and the three callers that act on
  them. Words of the agent are short strings of the characters that the scanner
  tells apart.
* **AgentMemory** and **WorkerGuard** are the state of `persist_state` and
  `worker_guard`, as functions from the plugin's state to the plugin's state;
  **AgentSession** runs both, with `synchronous_delegate`, on the tool calls of
  a primary agent and its children, over passes, judges, retries, and the
  handlers that remove the notes between units of work. At most one agent
  process of a job runs at a time, which is Orchestrator's OneTaskPerJob.
* **ChatPage** is `Chat.tsx` against the chat service as it shows through its
  endpoints: every request is answered when the network likes. An answer is
  made in one step, `finish` causes one refresh where the code causes two, and
  an event of an open stream reaches the page at once.

Operators with a comment `Fault:` are not part of the models: each is a
definition with one plausible bug, used to see that a property notices it.

## 3. Runs and what they show

| run | instance | checks | states |
|---|---|---|---|
| **MCWorker** | 2 jobs, 2 rows, 2 attempts, 2 slots, 1 restart, 1 stale lock, with fairness | AttemptBudget, InflightBound, RunningIsExecuted, OneExecutionPerTask, ExhaustedStaysSettled, TasksSettle | 263k |
| **MCPipeline** | 1 job, from no job or from an open PR, 3 requests (all kinds but cancel) one at a time, 6 rows, 2 attempts | OneTaskPerJob, ImplementsApprovedPlan, StageMatchesState, LegalMoves (refinement of JobLifecycle) | 473k |
| **MCRaces** | 1 job at the plan gate, 2 requests at once (approve, feedback, cancel), 1 restart, 1 stale lock, 2 slots | NoStrandedJob, RoundOpened | 1.1M |
| **MCRound** | budgets 2 and 3, 1 comment, 2 crashes, 1 retry by a human, with fairness | RoundBudget, RedBuildAtCapOnly, RoundEnds | 318k |
| **MCChat** | 2 sessions, 2 sends (up to 4 runs), 2 slots, 1 crash, with fairness | SlotsAccounted, NoIdleSlot, PromptComplete, TurnsAnswered | 62k |
| **MCEvents** | 8 export requests with up to 3 events of the run, 4 events in all, a buffer of 2, 2 viewers, 1 crash | RowsInOrder, PaperTrail, ViewersMissNothing | 57k |
| **MCDelivery** | 1 delivery of any kind, sent 3 times, 1 crash | CommentKept, OneFirstSend, HandledAtLeastOnce (refinement of AtLeastOnce) | 33k |
| **MCWorkspace** | 2 remotes or none, 2 attempts, 2 passes, 2 commits, a diff, a setRepo, 2 failing calls, 1 crash, with fairness | WorkSurvives, PresentedIsPushed, DiffShowsResult, OpenPrEnds | 279k |
| **MCAgentSession** | 2 children, 2 units of work, 2 delegations, room for 1 report, a death, a cleaning build | GuardFitsAgent, ChecklistIsPrimarys, ReportsKept, NotesOfThisUnit | 1.2M |
| **MCChatPage** | 2 messages, 1 event, 2 GETs in flight, 1 fault, with fairness | OneRunFromOnePage, EventsInOrder, PageCatchesUp | 633k |
| **MCAgentOutput** | all outputs of up to 5 of 8 words, cut anywhere, with fairness | VerdictIsRead, ApprovalIsWhole, RunSettles | 1.2M |

Each module's type invariant (`TypeOK`, `WorkerTypeOK`, `ChatTypeOK`, `OutputTypeOK`)
holds on the same instances; it is not among the properties of the runs. It is a
theorem for every component (section 4).

One run is a refutation: it checks a statement the repository makes of itself, and
TLC finds a behaviour of the code that contradicts it. Others, which TLC refutes as
well, are in section 5.

| run | statement | what happens |
|---|---|---|
| **MCRoundPrompt** | "anything older was already incorporated by that pass" (`orchestrator/orchestrator.service.ts:1314`) | a REVISE run fails, or starts after feedback its handler had not read: the next prompt leaves that feedback out |

### Why the bounds are enough

Two of each thing that can race (jobs, slots, requests, viewers, sends), one of
each accident, and limits of two or three, so that each budget is reached, not
reached and passed. Two attempts give a first failure that retries and a second
that settles. MCPipeline's six rows carry a job from PLAN to its PR and into one
more round. MCRaces uses one attempt, so that the escalation races the requests
early, and three rows. MCEvents' buffer of 2 drops events while 4 arrive, and
one request alone overfills it; five of its requests leave events out or have none.
MCPipeline leaves cancel and restarts out, because under them OneTaskPerJob and
LegalMoves do not hold (section 5); what still holds is checked in MCRaces,
`NoStrandedJob` until the first restart or stale lock. OneExecutionPerTask
and ExhaustedStaysSettled are stated for as long as no lock goes stale under a
live execution: afterwards two executions of a row settle it independently.
AttemptBudget has no such condition, it counts restarts and stale locks.

MCDelivery sends a delivery three times, so that two race and a third finds what
they left; deliveries share nothing but the installation, and one is enough.
MCWorkspace's two failing calls meet two attempts, so that OPEN_PR succeeds at
its second, or is failed; WorkSurvives and PresentedIsPushed
hold until setRepo meets a running task or a crash (`raced`), DiffShowsResult
until a crash. In MCAgentSession two reports pass the room for one, a second
unit follows the first, and a process resumes after a death. A report of the
model is one entry of the notes: one whose text itself has a line like
`### 3.`, or a todo with a heading like `## Findings`, which the plugin's
splitting would take for its own, is not modelled. In MCAgentOutput five words
are a fence, an object of three words and what follows it, or an object in an
object with one member; a cap of 5 words is passed by the sixth. In MCChatPage
two messages are two turns whose streams, polls and answers overlap; a poll goes
out only while no other GET is under way.

Deadlock checking is off in all runs: all models stop when the bounded requests
are served, which for this service is its idle state.

### Fairness

* Worker: the tick reschedules itself in a `finally`, so expiry, escalation and
  each execution are weakly fair; an agent is killed at HERMES_TIMEOUT_MS, so a
  handler returns or throws; a backoff elapses. Claiming is strongly fair per
  row: a row can be unclaimable while a sibling runs, and `ORDER BY runAt`
  serves the row that has been due longest.
* RevisionRound: one weakly fair `Work`, the loop of the worker. Which outcome a
  step has stays open.
* Chat: each dispatched run proceeds (agents time out, the database answers).
  The order of waiters is the code's queue, so no strong fairness is needed.
* Workspace: the worker runs the job's task, step by step.
* AgentOutput: the timer fires, and `close` comes once it can. Nothing is assumed
  of the children of the agent that hold its stdout, to whose end the code does not
  see: `RunSettles` is conditional on it; what happens if one never ends is in section 5. Where the other components assume that agents end, they assume that
  no such child is left behind (with a sandbox, `docker rm -f` ends them).
* ChatPage: runs proceed, the service answers, the poll's timer fires.

Crashes, requests, stale locks, comments, deletions, sends and faults are never
fair.

## 4. Proofs

TLAPS checks these for every value of the constants, under the `ASSUME` of each
module (settings are naturals, and positive where the configuration schema says
so; any set of jobs, kinds, producers and comments, any number of crashes).

**OrchestratorProofs, the worker** (of `WorkerSpec`; the first part of the module)

* `TypeCorrect`: `WorkerSpec => []WorkerTypeOK`, by one lemma for statements
  that rewrite rows and one for insertion.
* `RunningRowsAreExecuted`: RunningIsExecuted is inductive with the types; the
  interesting steps are `FailRetry` and `Complete`, which end an execution and
  take the row out of RUNNING in the same step, and the crash.
* `OneExecution`, `LapseFreeBudget`, `ExhaustedSettles` rest on the inductive
  invariant `LapseFree`: while no lock has gone stale, a row's attempts are
  within MaxAttempts + restarts, and strictly below while it is PENDING; a row
  that has an execution is not PENDING; an execution that is about to retry
  saw a row with attempts left; and a row has one execution. One execution per
  row is not inductive without the second part, since a claim takes PENDING
  rows, and a settled row stays settled because of the third.
* `InflightBounded`: finiteness and cardinality of `runs`; a claim adds at most
  one execution per claimed row.
* `AttemptBudgetHolds`: with stale locks, `attempts` alone is not inductive, since
  `fail` puts a row back for the attempts it read some time ago. `Paid` counts,
  per row, the executions that may still put it back against the locks that went
  stale, and adds to an exhausted row's attempts those that have decided to do so
  and the claim still to come of a waiting row.

**RevisionRoundProofs**

* `TypeCorrect`.
* `RoundBudgetHolds`: RoundBudget is not inductive; `Paid` also counts the
  REVISE that is queued, running, or about to be queued by a recorded verdict,
  each paid for by a failure or pass recorded while its cap was not reached. Its
  second part, on records, needs `Headroom`: wherever a handler may still
  record, the count is below its cap, but for loops and crashes.
* `RedBuildHolds`: `RedAtCap` adds that the queue holds OPEN_PR with a failed
  build only at the cap, and that no later record lowers the count.

**DeliveryProofs**

* `TypeCorrect`, `CommentIsKept` and `FirstSendHolds` from one inductive
  invariant: what a send at each of its steps has already found or left, and
  that a row found missing is created at most once.
* `Refines`: the receiver implements AtLeastOnce; each step is one of the
  abstract actions, or none. `Complete` stands for the step in which the route
  returns, so that an acknowledgement always follows it.

**OrchestratorProofs, the pipeline** (of `Spec` of Orchestrator)

* `RunsOnWorkerHolds`: the step simulation of the queue. Every statement of a
  script that touches the queue is an action of Worker, for the caller that
  issues it; the rest leaves the queue alone. It needs `Types`: who owns a script
  is a caller of `enqueue`, and what its statements enqueue is a kind of task.
* `WorkerInPipeline`: so the invariants of the worker, whose steps are proved of
  `WorkerNext` alone, hold of the pipeline too.
* `RoundOpenedHolds` from `Gate`. RoundOpened says where a job is, `Round` what may
  still take it there: a script with an operation past the gate opens the round
  first, in the order of its awaits, or belongs to a job whose round is open
  (`GatedBy`, shown for each script the code has); so do rows and calls of
  `enqueue` for a later stage. A retry of a job without rows would resume REVIEW
  without any round; `Rowless` says that a job without rows is new, triaged or
  cancelled and its scripts can do no more to it, so that none is retried.
* `NoStrandedJobHolds` from `CarriedOn`. The property says that something of the
  job is left; the invariant, that it will carry the job on: `Carried` names a row
  that waits, an execution that failed and will put its row back or escalate, or
  a script that comes to an enqueue or ends the job. `Shape` says how scripts
  end, `Linked` that every script has its request or execution, `Called` that a
  call of `enqueue` that found no row still has the script that inserts one.
  `Linked` is false once a stale lock has let a row expire, whose escalation has
  no execution; hence the condition. After a restart the property itself is false,
  and after a stale lock as soon as there are three attempts: see section 5.
* `PipelineTypeCorrect` (the `TypeOK` of Orchestrator) holds through restarts and
  stale locks too, where `Linked` does not. Two of its parts are not about types and
  need an invariant each. Every script has an owner, which may still be told that it
  ended: `HasOwner` allows for the escalation of a row that went stale, and `Apart`
  keeps a new owner from being taken for another: an execution is one of its row's
  attempts, and a row's attempts only grow. A job has no more rounds than requests
  arrived, plus the one it may start in: `RoundsCounted` adds to its rounds the
  requests that have yet to open one, and `OpensOnce` shows that a request does so
  once, whatever throws in between. Only requests open rounds (`OpsOK`).
* `OneTaskPerJobHolds`, `StageMatchesStateHolds`, `ImplementsApprovedPlanHolds` and
  `LegalMovesHold` speak of the behaviours in which `Serialized` holds: the
  requests of a job one at a time, no cancel, no restart, no stale lock. It says
  nothing of the worker, nor of requests for other jobs, nor of comments that are
  only stored: any number of jobs share the slots, executions fail, are retried
  and escalate, and other jobs' requests proceed, between any two awaits of a
  request. MCPipeline, with one job and one request at a time, is such an
  instance; there it holds of every state. With any one of the four dropped TLC refutes each theorem on a small
  instance (section 5), but for ImplementsApprovedPlan with cancels, where it
  finds nothing in three requests. The four properties look at one moment
  of a script; the invariant `Ordered` has to know all that is left of it.
  `InOrder` says that a job is in one hand at most: a row that waits or fails, or a
  script that has more to do than to store feedback (`HeldBy`). What that hand is
  to do must fit the job: a row its state and plans (`Fits`); a script, operation
  by operation, the state and plans the ones before it leave (`Path`), up to the
  enqueue that hands the job on or to a state where a human has it, whose gate then
  finds the plans it needs (`GateFits`). Each handler and each request is
  shown to be such a path from where it starts (`HandlerPath`, `DecisionPath`,
  `RequestPath`), and each step of a script to go along it. Two rows of a job
  would be two hands, so a batch has one at most; what an agent runs for, and what
  a write writes, is right for the state at that moment, not only for the one the
  method read. A request finds the job at rest, or its script is feedback alone:
  `HeldAtWork` says that a job in hand is in a working state, where requests do
  nothing else.

**ChatProofs**

* `NoIdleSlotHolds` and `SlotsBounded` from `SemaphoreInv`: the count never
  passes the limit and equals it whenever somebody waits. Acquire, release and
  everything else are a lemma each.
* `ChatTypes`.
* `SlotsAccountedHolds`: the slots are counted, so every
  step that changes the set of holders must change the count as much. `Slotted`
  says so, and that the queue holds just the runs without a slot, each once;
  `Owned`, that a run's send was dispatched, so that a new run is not one of them.
* `PromptCompleteHolds` from `Talk`: what a send at each of its statements has
  already said and read, and for each message where its answer can stand. A
  history that was read stays a prefix of its session's messages, since messages
  are only ever appended.

**AgentEventsProofs**

* `TypeCorrect`, `RowsInOrderHolds` and `PaperTrailHolds` from one inductive
  invariant of three parts. `PendingNext`: what the persister holds are the
  numbers that follow `seq`, up to the last arrival. `ChainInOrder`: the batches
  of the write chain follow each other and the rows. `Logged`: every event that
  has a number is in a row, failed, or in a batch still to be written.
* `ViewersMissNothingHolds` adds `ViewInv`, which says of the buffer what the
  property says of the viewers: consecutive events up to the last arrival, or
  none. It is what a viewer starts from. `UpToDateConcat` and `UpToDateKept` say
  that a request of any length, and the buffer's limit, keep it.

**ChatPageProofs**

* `TypeCorrect`.
* `OneRunFromOnePageHolds`: the property speaks of two runs, the invariant
  `Watched` of one: a run under way is the one whose POST is unanswered, or the
  one that is shown, and a queued one is the former. That is what `send` looks at
  (`app/src/components/Chat.tsx:147`); the interesting step is the refresh that
  hands a run from the POST over to the stream.
* `EventsInOrderHolds`: with `LiveIsActive`, that the panel of an open stream has
  events of the run it shows and none later than the run's last, so that the next
  one fits behind them, and the whole panel fits the turn it is filed under.

**WorkspaceProofs**

* `TypeCorrect`, `WorkSurvivesHolds`, `PresentedIsPushedHolds` and
  `DiffShowsResultHolds` from one inductive invariant. `Control`, `Tries` and
  `RepoRead` say where the task and a diff can be and which repo they have read.
  `MadeInTime`: no commit is made before the plan is approved, and one before the
  first VERIFY. So setRepo, which removes the directory only while the plan can
  still be edited, removes none with commits; that is the heart of `TreeKept`,
  which also says whose code the directory holds. A crash in the middle of a
  removal, or a setRepo that meets a running task, breaks it, hence the exception.
* `HeadPushed` and `PrInOrder` follow the head and the pull request from the push
  to the approval. `BaseKept`: a repository without a base branch is still in the
  hands of the task that makes it, unless there was a crash; `BaseExists` in
  section 5 is about that crash.

**AgentProofs, the plugins** (of `Spec` of AgentSession; the first part of the module)

* `TypeCorrect`, with `Typed`: the types, that a process that is not there has no
  calls, and that a judge's plugins keep nothing.
* `GuardFitsAgentHolds`: the property is about what happened, `Known` about what
  is known when it happens. Both plugins count the delegations in flight, by
  the cardinality of their children, so that a call in flight that is not the
  primary's is taken for a child's; the primary's id is known as soon as there is
  a child, since `delegate_task` is a call of its own; and a child with a call
  under a forced delegation is among the guard's children already.
* `ChecklistIsPrimarysHolds` and `ReportsKeptHolds` from `NotesKept`. What the
  properties say of the file the invariant says of the memory too, since the
  memory is what a hook writes over the file, and it says when the file may be
  missing: nothing was noted, or a call that may have removed it has still to end and
  the memory has its notes. A memory seeded from a trimmed file has fewer reports than were
  made, so the invariant asks of it only that it ends in them and has at least as many
  as fit (`EndsIn`). `NumbersFit` has the numbers go on from the highest.
* `NotesOfThisUnitHolds` from `OfThisUnit`: it also holds of the memory and between the
  passes, and the notes are gone by OPEN_PR, on both paths to it, before a revision
  starts the next unit.

**AgentProofs, the output** (of `OutputSpec` of AgentOutput)

* `VerdictIsReadHolds` and `ApprovalIsWholeHolds`. The invariant of the process is
  simple (`OutputInv`: the types, and that what the caller read is what the parser or the
  expression finds in the output, which no step changes once the run has settled).
  What is hard is about texts of any length, and has three theorems of its own:
* `VerdictIsParsed`: extractJsonBlock yields the verdict that was asked for.
  `ParsedIsWhole`: the converse. What is parsed is one whole object of words, or the
  braces `{}` that a string quotes, found when the quote stands before the object or
  the object around it is cut off (`EmptyScanned`). That object says nothing
  (`EmptyParses`), names no command, and has no confidence, without which a review
  does not parse; so it is never approved. Both theorems read the text as words,
  and the code reads it as characters: `Lay` is the position each word ends at, and
  `Covered` finds the word of a character. Then, from the inside out:
  `ScanBoundary`: between two words of an object the scanner is outside of strings,
  and its counter is the depth; so it ends with the object (`ScanEnds`, `ScanEndIs`).
  Inside an object the parser, which calls itself with the rest of the characters,
  agrees with the words from the last member down to the first (`MembersAreRead`).
  The first fence, the first brace and the first candidate that parses are
  `IndexFrom` and `CHOOSE`, each shown to be the one the property speaks of.
* `JudgedIsTheVerdict`: the first match of the judge's expression.
* The scanner, the parser and `FlattenSeq` are recursive functions. That such an
  equation has a solution, and what the solution is, is proved by induction in the
  form of `LeastOf`: a set of naturals that is not empty has a least element. The
  library states it of a set (`NatLessThanWellFounded`, `WFMin`), where its induction
  theorems take a predicate, which none of the provers here can instantiate.

Only model-checked: the liveness properties (TasksSettle, RoundEnds, TurnsAnswered,
OpenPrEnds, PageCatchesUp, RunSettles), since liveness under fairness is out of this
prover's reach. The proofs concern the model. That the model is the code is
argued by the line numbers in `PROJECT.json` only.

## 5. Further disagreements

Stated in the modules, refuted by TLC, and not kept as runs. To see one, give the
named configuration its property alone, with the constants listed.

**Pipeline** (OrchestratorProps; MCRaces.cfg with MaxAttempts 2, MaxLapses 0 and
MaxRestarts 0 unless stated)

* `StrandedJobRecovers` (MaxTasks 3, Concurrency 1, MaxRestarts 1, all requests
  of RequestKinds `label approve comment feedback retry cancel`, 2 requests one
  at a time, Starts ABSENT): a crash between the transition and the enqueue
  leaves a working job without a task, and every request but `cancel` ignores a
  working job. Against "a mid-processing crash is safely retried"
  (`webhook/webhook.service.ts:17`).
* `OneTaskPerJob` under restarts (MaxTasks 3, MaxRestarts 1, 1 `approve`): the
  reclaimed handler runs again beside the successor it had enqueued. Against
  the reason given at `queue/queue.service.ts:71`.
* `LegalMoves` under races (MaxTasks 2, `approve` and `cancel` at once): the
  approval's `transition` read the job before the cancel and writes IMPLEMENTING
  over CANCELLED (`job/job.service.ts:96`).
* `RelabelRestarts` (MaxTasks 2, `label` and `cancel` in turn): a re-label of a
  CANCELLED job goes on to a transition the table refuses. Against
  `orchestrator/orchestrator.service.ts:121` and `:562`.
* `CancelledStaysCancelled` (MaxTasks 2, `approve` and `cancel` in turn):
  `cancelForJob` marks a RUNNING row FAILED, its execution fails later, and
  `fail` asks only for the attempts left and writes PENDING: the row is claimed
  again, and skipped, since its job is terminal. Against "Cancel all outstanding
  (PENDING/RUNNING) tasks for a job" (`queue/queue.service.ts:190`).
* After a restart the handler of a finished stage runs again on a job that moved
  on; StageMatchesState and ImplementsApprovedPlan do not survive that either,
  nor an approval racing feedback.
* What `Serialized` asks for in section 4 is needed: in MCPipeline.cfg, MaxRestarts
  1, MaxLapses 1, MaxConcurrent 2, or `cancel` among the RequestKinds each refute
  OneTaskPerJob, StageMatchesState and LegalMoves, and the first three also
  ImplementsApprovedPlan.
* `NoStrandedJob` is stated until the first stale lock. With three attempts
  (the default, `config/config.model.ts:71`) and a stale lock: a PLAN row's second
  execution has put the job back into PLANNING and fails, the row waits for its
  third attempt, and the first execution, alive all the while, ends and writes
  DONE over it; `complete` asks nothing (`queue/queue.service.ts:97`). The job
  stays in PLANNING without a task.
* Seen in the code, not stated: `onTaskExhausted` writes the job's error before
  `transition` refuses to move a terminal job
  (`orchestrator/orchestrator.service.ts:521`); `cancelJob` leaves the directory.

**Round** (RevisionRoundProps; MCRoundPrompt.cfg)

* `GateHolds` (`Feedback = {"f1", "f2"}`, since comments need a PR presented
  before): feedback left during the summary run is presented as addressed, since
  the gate looked before. Against `orchestrator/orchestrator.service.ts:459-462`.
* `PresentedAsBuilt`: when VERIFY runs out of attempts after a REVISE, the body
  repeats the verdict of a review of older code. Against
  `orchestrator/orchestrator.service.ts:1717-1719`.
* Not stated: the streak of unparsed reviews is counted by
  `issues.includes(title)` (`:1460-1466`), so a review that parses and quotes
  that title counts as one.

**Events** (AgentEventsProps; MCEvents.cfg without SYMMETRY, MaxEvents 2,
MaxCrashes 0)

* `BufferDropped` (`FairSpec`, no viewers): a span that arrives after `complete`
  takes the retirement mark away, and nothing sets it again. Against "sweepExpired()
  drops it" (`langfuse/langfuse.service.ts:113-118`).
* `RetainedUntilSwept` (one viewer): `observe` of a completed run replaces its
  buffer by an empty one, and leaves a Subject that nobody completes.
* Not stated: one field that cannot be decoded discards the whole request, the
  spans of other runs included, and the answer "signals full acceptance"
  (`langfuse/langfuse.controller.ts:66`), so nothing is exported again.

**Deliveries** (DeliveryProps; MCDelivery.cfg)

* `NoCommentLost`: a failed permission lookup counts as no permission
  (`github/github.service.ts:118-120`); the authorised comment is dropped and its
  delivery marked processed. Against "always record the feedback so it's never
  lost" (`orchestrator/orchestrator.service.ts:410`).

**Workspaces** (WorkspaceProps; MCWorkspace.cfg)

* `ResultOfItsRepoAlways`: `setRepo` while a planner runs, or a crash between its
  update and its cleanup, leaves a workspace of the old repository in use.
  Against `orchestrator/orchestrator.service.ts:729-731`.
* `BaseExists`: after a crash between `git init` or the clone and the base branch,
  no later `prepare` makes the base. Against "Idempotent across attempts"
  (`workspace/workspace.service.ts:39`, `:89-91`).
* `PrIsAdopted`: after a crash or a failing statement behind
  `createDraftPullRequest`, each retry asks GitHub for a second PR, is refused,
  and the job ends FAILED beside an open PR.

**Plugins** (AgentSessionProps; MCAgentSession.cfg)

* `NotesRestored`: the memory is seeded after the first call of a process, so what
  that call removes is not restored. Against "on the very next tool call"
  (`api/.hermes/plugins/persist_state/__init__.py:46-50`).
* `DetachedChildrenFree`: if `synchronous_delegate` finds no helper to patch,
  delegations are detached and the first call of a child is taken for the
  primary's.

**Chat page** (ChatPageProps; MCChatPage.cfg)

* `OneRunAlways`: across a reload or a failed POST a message that waits for its
  slot has no run to reattach to, and the page sends a second one into the same
  workspace (`app/src/components/Chat.tsx:97-98`, `chat/chat.service.ts:162`).
* `TurnsComplete` (MaxSends 1, MaxEvents 2, no faults): the answer to the POST
  empties a panel that a poll had attached already. Against `Chat.tsx:28-30`.
* `TurnsOwnTheirEvents`: a late answer reattaches the page to the run that ended,
  whose history the live panel then shows; if the stream of the new run fails
  before its own history arrives, these cards are filed under the new turn.
  Against "don't carry the prior turn's cards into the new run" (`Chat.tsx:168`).
* Not stated: after the browser gives a stream up the page is not reattached,
  since the session's `activeRunId` has not changed.

**Agent output** (AgentOutputProps; MCAgentOutput.cfg with StdoutCap 4)

* `RunAlwaysSettles` (StdoutCap 2): the timeout kills the agent only, and `close`
  waits for everybody who holds its stdout. Without a sandbox a child that the agent
  left behind delays it past the timeout for as long as it lives, and the run stays
  RUNNING. Against "hard-kills it after `timeoutMs`. Never rejects - failures surface
  in the result" (`agent/agent.utility.ts:416-417`).
* `NullOnlyIfNone`: a brace in the prose before a bare object hides it. Against
  `agent/agent.utility.ts:531-533`.
* `JudgeReadsTheBlockAlways`: an output that repeats the format before its block
  is taken at the format's word. Against `orchestrator/judge.utility.ts:10`.
* Not stated: a judge run that was killed after printing a verdict is used,
  though a failed judge should count as passed (`judge.service.ts:49-50`); a
  verdict out of the enumeration makes a review unparseable
  (`review.utility.ts:81-83`) where `verdictSchema` (`:45-58`) would derive one; an
  unfenced verdict that quotes a fenced example yields the example.

**Chat**: the semaphore "shares the WORKER_CONCURRENCY budget"
(`chat/chat.service.ts:280`), but compares the setting with a counter of its own:
worker and chat together run up to twice as many agents.

## 6. What is not modelled

* Attachments, the credentials put into remote URLs, the exclude file, the
  sandbox that runs the verification command, and the layout of its logs.
* Webhook signatures beyond accept or reject, and the choice of fields from
  payloads.
* `createSession`, read-only queries, and the wording of prompts and critiques.
* The plugins `capture_reasoning` and `web_fetch`, and the guard's ban of git
  commands: they decide on one call alone.
* The dashboard's other pages, metrics, health, configuration, the
  payload of a span, migrations and setup scripts: they keep no state that a
  property here would relate to another.
* Database errors in Worker and Orchestrator: a statement succeeds or the
  process crashes. A failing agent, clone, push or API call is modelled, and in
  Delivery and Workspace failing statements are.
* A restart is one step: the process does nothing between its death and
  `onModuleInit`.
* Within an output the cap drops whole words; the code slices the chunk that crosses it
  and appends a mark, so a cut inside a string or a key is not a state of the model.
* In Orchestrator, `/hermes revise` stores its comment for a terminal job too
  (`orchestrator/orchestrator.service.ts:280-295`), where a review does not; in
  Delivery a comment on a PR that no job has, or whose job has no ref, counts as one
  for a job that is over.
* In AgentSession one delegation has one child, whether there are checks is fixed
  per job, though `verifyCommandFor` may discover them later
  (`orchestrator/orchestrator.service.ts:1907`). The placeholders that a file has for
  its empty parts are empty, where `_seed` reads them back as text
  (`api/.hermes/plugins/persist_state/__init__.py:119-146`).
* A report whose text has a line like an entry's own `### 3.`, or a todo with a
  heading like `## Findings`.

## 7. Plan

Done: TaskQueue, Worker, JobLifecycle, Orchestrator, RevisionRound, Chat,
AgentEvents, Delivery with AtLeastOnce, Workspace, AgentText with AgentOutput,
AgentSession with AgentMemory and WorkerGuard, ChatPage; proofs about all of
them: every type invariant, every invariant and every action property of a run is
a theorem. What would come next, in order:

1. `OneTaskPerJob` for requests that come at once but for different stages: which
   part of `Serialized` (section 4) each of the properties can do without.
2. Failing statements in Worker and Orchestrator, as Delivery and Workspace have.

------------------------------- MODULE Workspace -------------------------------
(***************************************************************************)
(* The git workspace of one job and the pull request made of it:           *)
(* prepare, commitAll, push, branchDiff and cleanup of                     *)
(* api/src/workspace/workspace.service.ts as the stage handlers, setRepo,  *)
(* diff and acceptResult of api/src/orchestrator/orchestrator.service.ts   *)
(* use them, and the steps of handleOpenPr on GitHub and in the database.  *)
(*                                                                         *)
(* The directory is shared: the task of a stage works in it, the dashboard *)
(* asks for a diff, setRepo and an accepted result remove it.  An await on *)
(* git, GitHub or the database ends an action.  The directory survives a   *)
(* crash in whatever state it was.  A branch is the set of its commits,    *)
(* with 0 for the commit it starts from, and {} if there is no branch.     *)
(* VERIFY stands for VERIFY and REVIEW, which prepare the workspace and    *)
(* commit nothing.                                                         *)
(***************************************************************************)
EXTENDS Integers, FiniteSets

CONSTANTS
  Urls,          \* remotes; a dashboard job may also have none
  MaxTries,      \* QUEUE_MAX_ATTEMPTS
  MaxPasses,     \* MAX_COMPLETION_RETRIES + 1
  MaxCommits,    \* bound: commits of the job
  MaxDiffs,      \* bound: diffs asked for
  MaxRetargets,  \* bound: calls of setRepo
  MaxFailures,   \* bound: calls of GitHub, git's remote or the database that fail
  MaxCrashes     \* bound: process crashes

ASSUME WorkspaceAssumption ==
  /\ Urls # {} /\ "none" \notin Urls /\ "scratch" \notin Urls
  /\ MaxTries \in Nat \ {0} /\ MaxPasses \in Nat \ {0} /\ MaxCommits \in Nat
  /\ MaxDiffs \in Nat /\ MaxRetargets \in Nat /\ MaxFailures \in Nat /\ MaxCrashes \in Nat

VARIABLES
  origin,   \* JobRecords.origin
  job,      \* JobRecords: [state, repoUrl, head, prNumber], head for headSha
  prRow,    \* the PullRequest row is there
  queued,   \* the job's task: [kind, tries]
  tree,     \* the directory, see Trees
  remote,   \* url -> the job's branch there
  pr,       \* GitHub has a PR of the branch
  actor,    \* actor -> [pc, repo, pr, attempt]: where it is, what it has read
  removal,  \* cleanup was called and has not removed the directory yet
  made,     \* ghost: commits made so far, numbered
  blank,    \* ghost: a diff of a live job's work came out empty
  raced,    \* ghost: a setRepo met a running task or a crash
  spent     \* ghost: [diffs, retargets, failures, crashes]

jobVars == <<origin, job, prRow, queued>>
gitVars == <<tree, remote, pr>>
ghosts == <<made, blank, raced, spent>>
vars == <<jobVars, gitVars, actor, removal, ghosts>>

Repos == Urls \cup {"none"}
Actors == {"task", "diff"}

\* git: nothing, files without .git, a clone in progress or cut off, or a
\* repository.  from: whose code it holds.  base: there is a local base branch.
NoTree == [git |-> "absent", url |-> "none", from |-> "none", base |-> FALSE,
           branch |-> {}, dirty |-> FALSE]

HasGit == tree.git \in {"partial", "full"}

Idle == [pc |-> "idle", repo |-> "none", pr |-> FALSE, attempt |-> 1]

Init ==
  /\ origin \in {"GITHUB", "DASHBOARD"}
  /\ \E url \in Repos :
       /\ origin = "GITHUB" => url # "none"
       /\ job = [state |-> "PLANNING", repoUrl |-> url, head |-> {}, prNumber |-> FALSE]
  /\ prRow = FALSE /\ pr = FALSE
  /\ queued = [kind |-> "PLAN", tries |-> 0]
  /\ tree = NoTree
  /\ remote = [u \in Urls |-> {}]
  /\ actor = [a \in Actors |-> Idle]
  /\ removal = FALSE
  /\ made = 0 /\ blank = FALSE /\ raced = FALSE
  /\ spent = [diffs |-> 0, retargets |-> 0, failures |-> 0, crashes |-> 0]

At(a, pc) == actor[a].pc = pc
Move(a, pc) == actor' = [actor EXCEPT ![a].pc = pc]
RepoOf(a) == actor[a].repo

\* The stage the job moves to, with the task of that stage.
StageOf == [REVISE |-> "REVISING", VERIFY |-> "VERIFYING", IMPLEMENT |-> "IMPLEMENTING",
            OPEN_PR |-> "OPENING_PR", PLAN |-> "PLANNING"]

Advance(kind) ==
  /\ job' = [job EXCEPT !.state = StageOf[kind]]
  /\ queued' = [kind |-> kind, tries |-> 0]

\* The job waits for a human, with no task.
Park(state) ==
  /\ job' = [job EXCEPT !.state = state]
  /\ queued' = [kind |-> "none", tries |-> 0]

\* Fault: failures are not counted.
ThrowsUncounted(a) ==
  /\ actor' = [actor EXCEPT ![a] = Idle]
  /\ IF a = "task"
     THEN queued' = [queued EXCEPT !.tries = 0] /\ UNCHANGED job
     ELSE UNCHANGED <<job, queued>>
  /\ UNCHANGED <<origin, prRow>>

\* A throw: the task is tried again or the job fails; a diff answers 500.
Throws(a) ==
  /\ actor' = [actor EXCEPT ![a] = Idle]
  /\ IF a = "task" /\ queued.tries >= MaxTries
     THEN Park("FAILED")
     ELSE UNCHANGED <<job, queued>>
  /\ UNCHANGED <<origin, prRow>>

-------------------------------------------------------------------------------
(* A task starts: the handler reads the job.                               *)

Claim ==
  /\ queued.kind # "none" /\ At("task", "idle")
  /\ queued' = [queued EXCEPT !.tries = @ + 1]
  /\ actor' = [actor EXCEPT !["task"] =
       [pc |-> IF queued.kind = "OPEN_PR" THEN "push" ELSE "look",
        repo |-> job.repoUrl, pr |-> job.prNumber, attempt |-> 1]]
  /\ raced' = (raced \/ removal)
  /\ UNCHANGED <<origin, job, prRow, gitVars, removal, made, blank, spent>>

-------------------------------------------------------------------------------
(* prepare, for the task or for a diff.                                    *)

\* existsSync of .git.
Look(a) ==
  /\ At(a, "look")
  /\ Move(a, IF RepoOf(a) = "none" THEN (IF HasGit THEN "checkout" ELSE "init")
             ELSE (IF HasGit THEN "set-url" ELSE "clone"))
  /\ UNCHANGED <<jobVars, gitVars, removal, ghosts>>

\* remote set-url: there must be an origin.
SetUrl(a) ==
  /\ At(a, "set-url")
  /\ IF HasGit /\ tree.url # "none"
     THEN tree' = [tree EXCEPT !.url = RepoOf(a)] /\ Move(a, "fetch") /\ UNCHANGED jobVars
     ELSE Throws(a) /\ UNCHANGED tree
  /\ UNCHANGED <<remote, pr, removal, ghosts>>

Fetch(a) ==
  /\ At(a, "fetch")
  /\ IF HasGit
     THEN /\ tree' = [tree EXCEPT !.from = IF @ = "none" THEN tree.url ELSE @]
          /\ Move(a, "checkout")
          /\ UNCHANGED jobVars
     ELSE Throws(a) /\ UNCHANGED tree
  /\ UNCHANGED <<remote, pr, removal, ghosts>>

\* Fault: the branch is always made anew from the base.
CheckedOutFresh(a) == {0}

\* The branch as it is, or as the remote has it, or a new one.
CheckedOut(a) ==
  IF tree.branch # {} THEN tree.branch
  ELSE IF RepoOf(a) # "none" /\ tree.url # "none" /\ remote[tree.url] # {} THEN remote[tree.url]
  ELSE {0}

Checkout(a) ==
  /\ At(a, "checkout")
  /\ IF HasGit
     THEN tree' = [tree EXCEPT !.branch = CheckedOut(a)] /\ Move(a, "ready") /\ UNCHANGED jobVars
     ELSE Throws(a) /\ UNCHANGED tree
  /\ UNCHANGED <<remote, pr, removal, ghosts>>

\* clone creates .git first; it refuses a directory that is not empty.
Clone(a) ==
  /\ At(a, "clone")
  /\ IF tree.git = "absent"
     THEN /\ tree' = [NoTree EXCEPT !.git = "partial", !.url = RepoOf(a)]
          /\ Move(a, "cloning")
          /\ UNCHANGED jobVars
     ELSE Throws(a) /\ UNCHANGED tree
  /\ UNCHANGED <<remote, pr, removal, ghosts>>

Cloned(a) ==
  /\ At(a, "cloning")
  /\ IF tree.git = "partial"
     THEN /\ tree' = [tree EXCEPT !.git = "full", !.from = RepoOf(a), !.base = TRUE]
          /\ Move(a, "branch")
          /\ UNCHANGED jobVars
     ELSE Throws(a) /\ UNCHANGED tree
  /\ UNCHANGED <<remote, pr, removal, ghosts>>

\* checkoutLocalBranch: a new branch from HEAD.
Branch(a) ==
  /\ At(a, "branch")
  /\ IF HasGit /\ tree.branch = {}
     THEN tree' = [tree EXCEPT !.branch = {0}] /\ Move(a, "ready") /\ UNCHANGED jobVars
     ELSE Throws(a) /\ UNCHANGED tree
  /\ UNCHANGED <<remote, pr, removal, ghosts>>

\* prepareScratch without a repository: git init.
InitScratch(a) ==
  /\ At(a, "init")
  /\ tree' = IF HasGit THEN tree ELSE [NoTree EXCEPT !.git = "full", !.from = "scratch"]
  /\ Move(a, "base")
  /\ UNCHANGED <<jobVars, remote, pr, removal, ghosts>>

\* The empty commit, renamed to the base branch.
CommitBase(a) ==
  /\ At(a, "base")
  /\ IF HasGit
     THEN tree' = [tree EXCEPT !.base = TRUE] /\ Move(a, "branch") /\ UNCHANGED jobVars
     ELSE Throws(a) /\ UNCHANGED tree
  /\ UNCHANGED <<remote, pr, removal, ghosts>>

Prepare(a) ==
  \/ Look(a) \/ SetUrl(a) \/ Fetch(a) \/ Checkout(a) \/ Clone(a) \/ Cloned(a) \/ Branch(a)
  \/ InitScratch(a) \/ CommitBase(a)

-------------------------------------------------------------------------------
(* The stages, once the workspace is prepared.                             *)

Working(kinds) == At("task", "ready") /\ queued.kind \in kinds

TaskDone == actor' = [actor EXCEPT !["task"] = Idle]

Plan ==
  /\ Working({"PLAN"}) /\ HasGit
  /\ Park("AWAITING_PLAN_APPROVAL")
  /\ TaskDone
  /\ UNCHANGED <<origin, prRow, gitVars, removal, ghosts>>

\* The checks passed, or are out of budget; or there is something to revise.
Verify ==
  /\ Working({"VERIFY"})
  /\ \E kind \in {"REVISE", "OPEN_PR"} : Advance(kind)
  /\ TaskDone
  /\ UNCHANGED <<origin, prRow, gitVars, removal, ghosts>>

\* A pass of the agent over the code.
Work ==
  /\ Working({"IMPLEMENT", "REVISE"}) /\ HasGit
  /\ \E edits \in {FALSE, made < MaxCommits} : tree' = [tree EXCEPT !.dirty = @ \/ edits]
  /\ Move("task", "commit")
  /\ UNCHANGED <<jobVars, remote, pr, removal, ghosts>>

\* The agent fails, and what it has edited stays; or its directory is gone.
AgentFails ==
  /\ Working({"PLAN", "VERIFY", "IMPLEMENT", "REVISE"})
  /\ \E edits \in {FALSE, queued.kind \in {"IMPLEMENT", "REVISE"} /\ made < MaxCommits /\ HasGit} :
       tree' = [tree EXCEPT !.dirty = @ \/ edits]
  /\ Throws("task")
  /\ UNCHANGED <<remote, pr, removal, ghosts>>

\* Fault: a pass that edited nothing is taken for a success.
NoWorkTrusting == FALSE

\* hasCommitsAhead is false of a branch without commits, or without a base.
NoWork == actor["task"].attempt = 1 /\ (tree.branch \subseteq {0} \/ ~ tree.base)

Commit ==
  /\ At("task", "commit")
  /\ CASE ~ HasGit -> Throws("task") /\ UNCHANGED <<tree, made>>
       [] HasGit /\ tree.dirty ->
            /\ made' = made + 1
            /\ tree' = [tree EXCEPT !.branch = @ \cup {made + 1}, !.dirty = FALSE]
            /\ Move("task", "push-work")
            /\ UNCHANGED jobVars
       [] HasGit /\ ~ tree.dirty /\ NoWork -> Throws("task") /\ UNCHANGED <<tree, made>>
       [] OTHER -> Move("task", "judge") /\ UNCHANGED <<jobVars, tree, made>>
  /\ UNCHANGED <<remote, pr, removal, blank, raced, spent>>

\* push is not forced: the remote branch must be an ancestor.
Pushable(repo) ==
  HasGit /\ (repo # "none" => tree.url # "none" /\ remote[repo] \subseteq tree.branch)

Pushed(repo) ==
  /\ remote' = IF repo = "none" THEN remote ELSE [remote EXCEPT ![repo] = tree.branch]
  /\ tree' = IF repo = "none" THEN tree ELSE [tree EXCEPT !.url = repo]
  /\ job' = [job EXCEPT !.head = tree.branch]

\* pushBranch: what fails is logged.
PushWork ==
  /\ At("task", "push-work")
  /\ IF Pushable(RepoOf("task")) THEN Pushed(RepoOf("task")) ELSE UNCHANGED <<tree, remote, job>>
  /\ Move("task", "judge")
  /\ UNCHANGED <<origin, prRow, queued, pr, removal, ghosts>>

PushWorkFails ==
  /\ At("task", "push-work") /\ spent.failures < MaxFailures
  /\ spent' = [spent EXCEPT !.failures = @ + 1]
  /\ Move("task", "judge")
  /\ UNCHANGED <<jobVars, gitVars, removal, made, blank, raced>>

\* The judge asks for another pass, or the stage is over.
Judge ==
  /\ At("task", "judge")
  /\ \/ /\ actor["task"].attempt < MaxPasses
        /\ actor' = [actor EXCEPT !["task"].pc = "ready", !["task"].attempt = @ + 1]
        /\ UNCHANGED <<job, queued>>
     \/ TaskDone /\ Advance("VERIFY")
  /\ UNCHANGED <<origin, prRow, gitVars, removal, ghosts>>

-------------------------------------------------------------------------------
(* handleOpenPr.  Its guard against late feedback is in RevisionRound.     *)

\* push, the head, and the summary whose failure has a substitute.
PushFinal ==
  /\ At("task", "push")
  /\ IF Pushable(RepoOf("task"))
     THEN /\ Pushed(RepoOf("task"))
          /\ Move("task", IF origin = "DASHBOARD" THEN "present"
                          ELSE IF actor["task"].pr THEN "refresh" ELSE "create")
          /\ UNCHANGED <<origin, prRow, queued>>
     ELSE Throws("task") /\ UNCHANGED <<tree, remote>>
  /\ UNCHANGED <<pr, removal, ghosts>>

\* createDraftPullRequest: GitHub refuses a second PR of a branch.
CreatePr ==
  /\ At("task", "create")
  /\ pr' = TRUE
  /\ IF pr THEN Throws("task") ELSE Move("task", "row") /\ UNCHANGED jobVars
  /\ UNCHANGED <<tree, remote, removal, ghosts>>

\* Fault: the number of the PR is written first.
CreateRowLate ==
  /\ At("task", "row")
  /\ job' = [job EXCEPT !.prNumber = TRUE]
  /\ Move("task", "present")
  /\ UNCHANGED <<origin, prRow, queued, gitVars, removal, ghosts>>

\* pullRequest.create: jobId is unique.
CreateRow ==
  /\ At("task", "row")
  /\ IF prRow THEN Throws("task")
     ELSE prRow' = TRUE /\ Move("task", "number") /\ UNCHANGED <<origin, job, queued>>
  /\ UNCHANGED <<gitVars, removal, ghosts>>

SetPrNumber ==
  /\ At("task", "number")
  /\ job' = [job EXCEPT !.prNumber = TRUE]
  /\ Move("task", "present")
  /\ UNCHANGED <<origin, prRow, queued, gitVars, removal, ghosts>>

\* updatePullRequest and the row's head.
RefreshPr ==
  /\ At("task", "refresh")
  /\ Move("task", "present")
  /\ UNCHANGED <<jobVars, gitVars, removal, ghosts>>

Present ==
  /\ At("task", "present")
  /\ Park("AWAITING_PR_APPROVAL")
  /\ TaskDone
  /\ UNCHANGED <<origin, prRow, gitVars, removal, ghosts>>

\* A call out fails; clone removes what it has created.
CallFails(a) ==
  /\ actor[a].pc \in {"fetch", "cloning", "push", "create", "row", "number", "refresh", "present"}
  /\ spent.failures < MaxFailures
  /\ spent' = [spent EXCEPT !.failures = @ + 1]
  /\ tree' = IF At(a, "cloning") THEN NoTree ELSE tree
  /\ Throws(a)
  /\ UNCHANGED <<remote, pr, removal, made, blank, raced>>

-------------------------------------------------------------------------------
(* Requests.                                                               *)

ApprovePlan ==
  /\ job.state = "AWAITING_PLAN_APPROVAL"
  /\ \E kind \in {"PLAN", "IMPLEMENT"} : Advance(kind)
  /\ UNCHANGED <<origin, prRow, gitVars, actor, removal, ghosts>>

RequestChanges ==
  /\ job.state = "AWAITING_PR_APPROVAL"
  /\ Advance("REVISE")
  /\ UNCHANGED <<origin, prRow, gitVars, actor, removal, ghosts>>

\* acceptResult, or the PR's approval, up to the call of cleanup.
Accept ==
  /\ job.state = "AWAITING_PR_APPROVAL"
  /\ Park("DONE")
  /\ removal' = TRUE
  /\ UNCHANGED <<origin, prRow, gitVars, actor, ghosts>>

\* Fault: the repo may be replaced while the plan is implemented as well.
EditableLate == {"PLANNING", "AWAITING_PLAN_APPROVAL", "IMPLEMENTING", "VERIFYING"}

\* TRIAGED, the state before the first task, is left out.
Editable == {"PLANNING", "AWAITING_PLAN_APPROVAL"}

\* setRepo, up to the call of cleanup.
SetRepo ==
  /\ origin = "DASHBOARD" /\ job.state \in Editable
  /\ spent.retargets < MaxRetargets
  /\ \E url \in Repos \ {job.repoUrl} : job' = [job EXCEPT !.repoUrl = url]
  /\ removal' = TRUE
  /\ raced' = (raced \/ ~ At("task", "idle"))
  /\ spent' = [spent EXCEPT !.retargets = @ + 1]
  /\ UNCHANGED <<origin, prRow, queued, gitVars, actor, made, blank>>

Cleanup ==
  /\ removal
  /\ removal' = FALSE
  /\ tree' = NoTree
  /\ UNCHANGED <<jobVars, remote, pr, actor, ghosts>>

\* The dashboard shows the diff of a result that waits for its approval.
AskDiff ==
  /\ origin = "DASHBOARD" /\ job.state = "AWAITING_PR_APPROVAL" /\ At("diff", "idle")
  /\ spent.diffs < MaxDiffs
  /\ spent' = [spent EXCEPT !.diffs = @ + 1]
  /\ actor' = [actor EXCEPT !["diff"] = [Idle EXCEPT !.pc = "look", !.repo = job.repoUrl]]
  /\ UNCHANGED <<jobVars, gitVars, removal, made, blank, raced>>

\* Fault: the diff is taken against the remote's base.
DiffAgainstOrigin == tree.branch # {} /\ tree.url # "none"

\* git diff base...HEAD; branchDiff answers '' when it fails.
DiffWorks == tree.branch # {} /\ tree.base

AnswerDiff ==
  /\ At("diff", "ready")
  /\ blank' = (blank \/ (~ DiffWorks /\ job.state # "DONE"))
  /\ actor' = [actor EXCEPT !["diff"] = Idle]
  /\ UNCHANGED <<jobVars, gitVars, removal, made, raced, spent>>

-------------------------------------------------------------------------------

\* Restart: the task is queued again, whatever its attempts; a cleanup may have
\* removed nothing, .git, or all.
Crash ==
  /\ spent.crashes < MaxCrashes
  /\ spent' = [spent EXCEPT !.crashes = @ + 1]
  /\ actor' = [a \in Actors |-> Idle]
  /\ removal' = FALSE
  /\ tree' \in {tree} \cup (IF removal THEN {NoTree, [NoTree EXCEPT !.git = "litter"]} ELSE {})
  /\ raced' = (raced \/ removal)
  /\ UNCHANGED <<jobVars, remote, pr, made, blank>>

Stage ==
  \/ Plan \/ Verify \/ Work \/ AgentFails \/ Commit \/ PushWork \/ PushWorkFails \/ Judge
  \/ PushFinal \/ CreatePr \/ CreateRow \/ SetPrNumber \/ RefreshPr \/ Present

TaskSteps == Claim \/ Prepare("task") \/ Stage \/ CallFails("task")

Next ==
  \/ TaskSteps
  \/ Prepare("diff") \/ CallFails("diff") \/ AnswerDiff
  \/ ApprovePlan \/ RequestChanges \/ Accept \/ SetRepo \/ Cleanup \/ AskDiff
  \/ Crash

Spec == Init /\ [][Next]_vars
================================================================================

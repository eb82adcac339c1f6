---------------------------- MODULE WorkspaceProps ----------------------------
(***************************************************************************)
(* What the workspace and the pull request of a job promise.               *)
(***************************************************************************)
EXTENDS Workspace

Contents == SUBSET (0..MaxCommits)

\* The places of prepare, of a pass once the agent is done, and of handleOpenPr
\* once it has pushed.
PreparePcs == {"look", "set-url", "fetch", "checkout", "clone", "cloning", "branch",
               "init", "base"}
PassPcs == {"commit", "push-work", "judge"}
PushedPcs == {"create", "row", "number", "refresh", "present"}
Pcs == {"idle", "ready", "push"} \cup PreparePcs \cup PassPcs \cup PushedPcs

TaskKinds == {"PLAN", "IMPLEMENT", "VERIFY", "REVISE", "OPEN_PR"}

States == {"PLANNING", "AWAITING_PLAN_APPROVAL", "IMPLEMENTING", "VERIFYING", "REVISING",
           "OPENING_PR", "AWAITING_PR_APPROVAL", "DONE", "FAILED"}

\* Every variable has its type.
TypeOK ==
  /\ origin \in {"GITHUB", "DASHBOARD"}
  /\ job \in [state : States, repoUrl : Repos, head : Contents, prNumber : BOOLEAN]
  /\ queued \in [kind : TaskKinds \cup {"none"}, tries : 0..(MaxTries + MaxCrashes)]
  /\ tree \in [git : {"absent", "litter", "partial", "full"}, url : Repos,
               from : Repos \cup {"scratch"}, base : BOOLEAN, branch : Contents,
               dirty : BOOLEAN]
  /\ remote \in [Urls -> Contents]
  /\ actor \in [Actors -> [pc : Pcs, repo : Repos, pr : BOOLEAN, attempt : 1..MaxPasses]]
  /\ made \in 0..MaxCommits
  /\ prRow \in BOOLEAN /\ pr \in BOOLEAN /\ removal \in BOOLEAN
  /\ blank \in BOOLEAN /\ raced \in BOOLEAN
  /\ spent \in [diffs : 0..MaxDiffs, retargets : 0..MaxRetargets,
                failures : 0..MaxFailures, crashes : 0..MaxCrashes]

\* "Each attempt is an inspectable checkpoint" (runWithCompletionLoop): until
\* its result is accepted, every commit of the job is on the branch in its
\* workspace, through retries, crashes, failed pushes and diffs; unless a setRepo
\* met a running task or a crash.
WorkSurvives ==
  job.state # "DONE" /\ ~ raced => 1..made \subseteq tree.branch

\* What waits for approval is what was made: the head of the job is its whole
\* branch, the remote has it, a GitHub job has its PR, with row and number, and
\* it is made of the code of the job's repo ("the existing workspace is
\* discarded so the next prepare clones the new remote (or inits a scratch
\* tree)", setRepo), unless setRepo met a running task or a crash.
PresentedIsPushed ==
  job.state = "AWAITING_PR_APPROVAL" /\ ~ raced =>
    /\ 1..made \subseteq job.head /\ made > 0
    /\ job.repoUrl # "none" => remote[job.repoUrl] = job.head
    /\ origin = "GITHUB" => pr /\ prRow /\ job.prNumber
    /\ tree.from = IF job.repoUrl = "none" THEN "scratch" ELSE job.repoUrl

\* The last of it without the exception.  Does not hold: a planner that read
\* the old repo prepares its workspace after the cleanup.
ResultOfItsRepoAlways ==
  job.state = "AWAITING_PR_APPROVAL" =>
    tree.from = IF job.repoUrl = "none" THEN "scratch" ELSE job.repoUrl

\* A diff of a result shows it: the branch has a base to be compared with,
\* unless a crash cut the making of the workspace short.
DiffShowsResult == blank => spent.crashes > 0 \/ raced

\* "Idempotent across attempts" (prepareScratch).  Does not hold:
\* after a crash between git init and the base branch, no attempt makes the
\* base, and the diff of the result stays empty.
BaseExists == job.state = "AWAITING_PR_APPROVAL" /\ ~ raced => tree.base

\* The job of a PR that exists on GitHub gets to know it.  Does not hold:
\* after a crash, or a failing statement, between createDraftPullRequest and
\* the number in the job, every retry asks for a second PR, and is refused.
PrIsAdopted == pr ~> job.prNumber

\* Fairness: the worker runs the task.
FairSpec == Spec /\ WF_vars(TaskSteps)

\* However its calls fail, OPEN_PR ends with the result presented or the job
\* failed.
OpenPrEnds == (job.state = "OPENING_PR") ~> (job.state # "OPENING_PR")
================================================================================

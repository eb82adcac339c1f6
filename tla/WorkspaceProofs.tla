---------------------------- MODULE WorkspaceProofs ----------------------------
(***************************************************************************)
(* Theorems about Workspace, for any remotes, tries, passes, commits,      *)
(* diffs, retargets, failing calls and crashes.                            *)
(***************************************************************************)
EXTENDS WorkspaceProps, TLAPS, FiniteSetTheorems

-------------------------------------------------------------------------------
(* The inductive invariant.                                                *)

Waiting == {"AWAITING_PLAN_APPROVAL", "AWAITING_PR_APPROVAL", "DONE", "FAILED"}

\* The job's state, its task, and where the task and a diff can be.
Control ==
  /\ IF queued.kind = "none" THEN job.state \in Waiting /\ At("task", "idle")
     ELSE job.state = StageOf[queued.kind]
  /\ actor["task"].pc \in {"ready"} \cup PreparePcs => queued.kind # "OPEN_PR"
  /\ actor["task"].pc \in PassPcs => queued.kind \in {"IMPLEMENT", "REVISE"}
  /\ actor["task"].pc \in {"push"} \cup PushedPcs => queued.kind = "OPEN_PR"
  /\ actor["diff"].pc \in {"idle", "ready"} \cup PreparePcs
  /\ ~ At("diff", "idle") => job.state \notin Editable

\* An attempt of a task is paid for by MaxTries, or by a crash.
Tries ==
  /\ queued.tries <= MaxTries + spent.crashes
  /\ At("task", "idle") /\ queued.kind # "none" => queued.tries < MaxTries + spent.crashes

\* Whoever is at work has read the repo that the job has.
RepoRead ==
  \A a \in Actors :
    /\ ~ At(a, "idle") /\ (~ raced \/ job.state \notin Editable) => RepoOf(a) = job.repoUrl
    /\ actor[a].pc \in {"set-url", "fetch", "clone", "cloning"} => RepoOf(a) # "none"
    /\ actor[a].pc \in {"init", "base"} => RepoOf(a) = "none"

\* Commits are numbered in order, and edits wait for the next one.
Numbered ==
  /\ tree.dirty => made < MaxCommits
  /\ tree.branch \subseteq 0..made
  /\ \A u \in Urls : remote[u] \subseteq 0..made

\* Commits are made before the first VERIFY, and none without a plan.
MadeInTime ==
  /\ job.state \in Editable => made = 0
  /\ job.state \in {"VERIFYING", "REVISING", "OPENING_PR", "AWAITING_PR_APPROVAL"} => made > 0
  /\ actor["task"].pc \in {"push-work", "judge"} => made > 0
  /\ actor["task"].attempt > 1 => made > 0

\* The PR comes before its row, and the row before the number.
PrInOrder ==
  /\ prRow => pr
  /\ job.prNumber => prRow
  /\ At("task", "row") => pr
  /\ At("task", "number") => prRow
  /\ At("task", "refresh") => job.prNumber
  /\ actor["task"].pr => job.prNumber
  /\ origin = "GITHUB" /\ (At("task", "present") \/ job.state = "AWAITING_PR_APPROVAL") =>
       job.prNumber

\* What the job says was pushed.
HeadPushed ==
  actor["task"].pc \in PushedPcs \/ job.state = "AWAITING_PR_APPROVAL" =>
    /\ ~ raced => 1..made \subseteq job.head
    /\ job.repoUrl # "none" => remote[job.repoUrl] = job.head

Wanted == IF job.repoUrl = "none" THEN "scratch" ELSE job.repoUrl

\* Whose code is in the tree, once no removal is awaited.
FromInv ==
  /\ tree.git = "full" => tree.from = Wanted
  /\ tree.git = "partial" =>
       tree.url = job.repoUrl /\ job.repoUrl # "none" /\ tree.from \in {"none", job.repoUrl}
  /\ tree.branch # {} => tree.from = Wanted
  /\ \A a \in Actors :
       actor[a].pc \in {"checkout", "branch", "ready"} \cup PassPcs => tree.from = Wanted

\* Nothing removes a tree that has commits.
TreeKept ==
  /\ ~ HasGit => tree.branch = {} /\ tree.from = "none"
  /\ ~ raced /\ job.state # "DONE" =>
       /\ 1..made \subseteq tree.branch
       /\ removal => made = 0 /\ At("task", "idle") /\ At("diff", "idle")
       /\ ~ At("diff", "idle") => made > 0
       /\ \A a \in Actors : At(a, "cloning") => made = 0
       /\ ~ removal => FromInv

\* A repository is in use with its base, unless it is still being made.
BaseKept ==
  ~ raced /\ job.state # "DONE" /\ ~ removal /\ spent.crashes = 0 =>
    /\ HasGit => tree.base \/ (tree.branch = {} /\ actor["task"].pc \in {"cloning", "base"})
    /\ At("task", "cloning") => tree.git = "partial"

IInv ==
  /\ TypeOK /\ Control /\ Tries /\ RepoRead /\ Numbered /\ MadeInTime
  /\ PrInOrder /\ HeadPushed /\ TreeKept /\ BaseKept /\ DiffShowsResult

-------------------------------------------------------------------------------
(* Moves.                                                                  *)

Places == [pc : Pcs, repo : Repos, pr : BOOLEAN, attempt : 1..MaxPasses]

\* An actor that moves keeps what it has read.
LEMMA MoveParts ==
  ASSUME TypeOK, NEW a \in Actors, NEW pc \in Pcs, Move(a, pc)
  PROVE  /\ actor' \in [Actors -> Places]
         /\ actor'[a].pc = pc /\ actor'[a].repo = actor[a].repo
         /\ actor'[a].pr = actor[a].pr /\ actor'[a].attempt = actor[a].attempt
         /\ \A b \in Actors : b # a => actor'[b] = actor[b]
BY DEF TypeOK, Move, Places

\* The place of an idle actor.
LEMMA IdleParts ==
  /\ Idle \in Places /\ Idle.pc = "idle" /\ Idle.repo = "none" /\ Idle.pr = FALSE
  /\ Idle.attempt = 1
BY WorkspaceAssumption DEF Idle, Places, Pcs, Repos

\* Waiting jobs have no task.
LEMMA ParkParts ==
  ASSUME TypeOK, NEW state \in States, Park(state)
  PROVE  /\ job' \in [state : States, repoUrl : Repos, head : Contents, prNumber : BOOLEAN]
         /\ job'.state = state /\ job'.repoUrl = job.repoUrl /\ job'.head = job.head
         /\ job'.prNumber = job.prNumber
         /\ queued' \in [kind : TaskKinds \cup {"none"}, tries : 0..(MaxTries + MaxCrashes)]
         /\ queued'.kind = "none" /\ queued'.tries = 0
BY WorkspaceAssumption DEF TypeOK, Park

\* A job that moves on has the task of its stage.
LEMMA AdvanceParts ==
  ASSUME TypeOK, NEW kind \in TaskKinds, Advance(kind)
  PROVE  /\ job' \in [state : States, repoUrl : Repos, head : Contents, prNumber : BOOLEAN]
         /\ job'.state = StageOf[kind] /\ job'.repoUrl = job.repoUrl /\ job'.head = job.head
         /\ job'.prNumber = job.prNumber
         /\ queued' \in [kind : TaskKinds \cup {"none"}, tries : 0..(MaxTries + MaxCrashes)]
         /\ queued'.kind = kind /\ queued'.tries = 0
<1>1. StageOf[kind] \in States
  BY DEF StageOf, TaskKinds, States
<1> QED BY <1>1, WorkspaceAssumption DEF TypeOK, Advance

\* The state of a stage.
LEMMA Stages ==
  /\ StageOf["PLAN"] = "PLANNING" /\ StageOf["IMPLEMENT"] = "IMPLEMENTING"
  /\ StageOf["VERIFY"] = "VERIFYING" /\ StageOf["REVISE"] = "REVISING"
  /\ StageOf["OPEN_PR"] = "OPENING_PR"
BY DEF StageOf

\* A throw: the actor is idle, and the job as it was, or failed.
LEMMA ThrowsParts ==
  ASSUME TypeOK, NEW a \in Actors, Throws(a)
  PROVE  /\ actor' \in [Actors -> Places] /\ actor'[a] = Idle
         /\ \A b \in Actors : b # a => actor'[b] = actor[b]
         /\ UNCHANGED <<origin, prRow>>
         /\ job' \in [state : States, repoUrl : Repos, head : Contents, prNumber : BOOLEAN]
         /\ job'.repoUrl = job.repoUrl /\ job'.head = job.head
         /\ job'.prNumber = job.prNumber
         /\ queued' \in [kind : TaskKinds \cup {"none"}, tries : 0..(MaxTries + MaxCrashes)]
         /\ \/ UNCHANGED <<job, queued>> /\ (a = "task" => queued.tries < MaxTries)
            \/ a = "task" /\ job'.state = "FAILED" /\ queued'.kind = "none" /\ queued'.tries = 0
<1>1. /\ actor' \in [Actors -> Places] /\ actor'[a] = Idle
      /\ \A b \in Actors : b # a => actor'[b] = actor[b]
  BY IdleParts DEF TypeOK, Throws, Places
<1>2. CASE a = "task" /\ queued.tries >= MaxTries
  BY <1>1, <1>2, ParkParts DEF Throws, States
<1>3. CASE ~ (a = "task" /\ queued.tries >= MaxTries)
  BY <1>1, <1>3, WorkspaceAssumption DEF Throws, TypeOK
<1> QED BY <1>2, <1>3

-------------------------------------------------------------------------------
(* Preparing the workspace.                                                *)

\* What a step of prepare does to anything but the tree: it throws, or goes on.
LEMMA PrepareMoves ==
  ASSUME TypeOK, RepoRead, NEW a \in Actors, Prepare(a)
  PROVE  /\ UNCHANGED <<remote, pr, removal, made, blank, raced, spent>>
         /\ actor[a].pc \in PreparePcs
         /\ \/ UNCHANGED <<origin, job, prRow, queued>>
               /\ \E pc \in {"ready"} \cup PreparePcs :
                    /\ Move(a, pc)
                    /\ pc \in {"set-url", "fetch", "clone", "cloning"} => RepoOf(a) # "none"
                    /\ pc \in {"init", "base"} => RepoOf(a) = "none"
            \/ Throws(a) /\ tree' = tree
<1> USE DEF At, jobVars, ghosts, PreparePcs, RepoRead
<1>1. CASE Look(a)
  <2> DEFINE pc == IF RepoOf(a) = "none" THEN (IF HasGit THEN "checkout" ELSE "init")
                   ELSE (IF HasGit THEN "set-url" ELSE "clone")
  <2>1. /\ pc \in {"ready"} \cup PreparePcs /\ Move(a, pc) /\ actor[a].pc = "look"
        /\ pc \in {"set-url", "fetch", "clone", "cloning"} => RepoOf(a) # "none"
        /\ pc \in {"init", "base"} => RepoOf(a) = "none"
    BY <1>1 DEF Look
  <2> HIDE DEF pc
  <2>2. UNCHANGED <<origin, job, prRow, queued, remote, pr, removal, made, blank, raced, spent>>
    BY <1>1 DEF Look, gitVars
  <2> QED BY <2>1, <2>2
<1>2. CASE SetUrl(a)
  BY <1>2 DEF SetUrl
<1>3. CASE Fetch(a)
  BY <1>3 DEF Fetch
<1>4. CASE Checkout(a)
  BY <1>4 DEF Checkout
<1>5. CASE Clone(a)
  BY <1>5 DEF Clone
<1>6. CASE Cloned(a)
  BY <1>6 DEF Cloned
<1>7. CASE Branch(a)
  BY <1>7 DEF Branch
<1>8. CASE InitScratch(a)
  BY <1>8 DEF InitScratch
<1>9. CASE CommitBase(a)
  BY <1>9 DEF CommitBase
<1> QED BY <1>1, <1>2, <1>3, <1>4, <1>5, <1>6, <1>7, <1>8, <1>9 DEF Prepare

-------------------------------------------------------------------------------
(* Records, pushes, and what the tree goes through.                      *)

Trees == [git : {"absent", "litter", "partial", "full"}, url : Repos,
          from : Repos \cup {"scratch"}, base : BOOLEAN, branch : Contents, dirty : BOOLEAN]

\* The actors.
LEMMA Kinds == "task" \in Actors /\ "diff" \in Actors /\ \A b \in Actors : b \in {"task", "diff"}
BY DEF Actors

\* The records, without the bounds of their numbers.
LEMMA Shape ==
  ASSUME TypeOK
  PROVE  /\ origin \in {"GITHUB", "DASHBOARD"}
         /\ job \in [state : States, repoUrl : Repos, head : Contents, prNumber : BOOLEAN]
         /\ queued \in [kind : TaskKinds \cup {"none"}, tries : Nat]
         /\ actor \in [Actors -> [pc : Pcs, repo : Repos, pr : BOOLEAN, attempt : Nat \ {0}]]
         /\ spent \in [diffs : Nat, retargets : Nat, failures : Nat, crashes : Nat]
         /\ tree \in Trees /\ remote \in [Urls -> Contents]
         /\ made \in Nat /\ MaxTries \in Nat \ {0}
<1>1. queued.tries \in Nat /\ queued \in [kind : TaskKinds \cup {"none"}, tries : Nat]
  BY WorkspaceAssumption DEF TypeOK
<1>2. spent \in [diffs : Nat, retargets : Nat, failures : Nat, crashes : Nat]
  BY WorkspaceAssumption DEF TypeOK
<1>3. actor \in [Actors -> [pc : Pcs, repo : Repos, pr : BOOLEAN, attempt : Nat \ {0}]]
  BY WorkspaceAssumption DEF TypeOK
<1> QED BY <1>1, <1>2, <1>3, WorkspaceAssumption DEF TypeOK, Trees

\* An empty directory.
LEMMA NoTreeParts ==
  /\ NoTree \in Trees /\ NoTree.git = "absent" /\ NoTree.url = "none" /\ NoTree.from = "none"
  /\ NoTree.branch = {} /\ NoTree.dirty = FALSE /\ NoTree.base = FALSE
BY DEF NoTree, Trees, Repos, Contents

\* A push: the tree but its origin stays, the remote and the head have the branch.
LEMMA PushedParts ==
  ASSUME TypeOK, NEW repo \in Repos, Pushed(repo)
  PROVE  /\ tree' \in Trees /\ tree'.git = tree.git /\ tree'.from = tree.from
         /\ tree'.base = tree.base /\ tree'.branch = tree.branch /\ tree'.dirty = tree.dirty
         /\ tree'.url = IF repo = "none" THEN tree.url ELSE repo
         /\ remote' \in [Urls -> Contents]
         /\ \A u \in Urls : remote'[u] = IF u = repo THEN tree.branch ELSE remote[u]
         /\ job' \in [state : States, repoUrl : Repos, head : Contents, prNumber : BOOLEAN]
         /\ job'.head = tree.branch /\ job'.state = job.state
         /\ job'.repoUrl = job.repoUrl /\ job'.prNumber = job.prNumber
<1>1. tree \in Trees /\ tree.branch \in Contents /\ remote \in [Urls -> Contents]
  BY Shape DEF Trees
<1>2. job \in [state : States, repoUrl : Repos, head : Contents, prNumber : BOOLEAN]
  BY Shape
<1>3. /\ tree' \in Trees /\ tree'.git = tree.git /\ tree'.from = tree.from
      /\ tree'.base = tree.base /\ tree'.branch = tree.branch /\ tree'.dirty = tree.dirty
      /\ tree'.url = IF repo = "none" THEN tree.url ELSE repo
  BY <1>1 DEF Pushed, Trees
<1>4. /\ remote' \in [Urls -> Contents]
      /\ \A u \in Urls : remote'[u] = IF u = repo THEN tree.branch ELSE remote[u]
  BY <1>1, WorkspaceAssumption DEF Pushed, Repos
<1>5. /\ job' \in [state : States, repoUrl : Repos, head : Contents, prNumber : BOOLEAN]
      /\ job'.head = tree.branch /\ job'.state = job.state
      /\ job'.repoUrl = job.repoUrl /\ job'.prNumber = job.prNumber
  BY <1>1, <1>2 DEF Pushed
<1> QED BY <1>3, <1>4, <1>5

\* A throw leaves the tree to the others.
LEMMA ThrowsTree ==
  ASSUME TypeOK, Control, Numbered, TreeKept, NEW a \in Actors, Throws(a),
         ~ At(a, "idle"), UNCHANGED <<tree, remote, removal, made, raced>>
  PROVE  Numbered' /\ TreeKept'
<1>1. /\ actor'[a] = Idle /\ \A b \in Actors : b # a => actor'[b] = actor[b]
      /\ job'.repoUrl = job.repoUrl
      /\ (UNCHANGED job) \/ (a = "task" /\ job'.state = "FAILED")
  BY ThrowsParts
<1>2. a = "task" => job.state # "DONE"
  <2>1. a = "task" => queued.kind # "none"
    BY DEF Control, At
  <2> QED BY <2>1, Shape, Stages DEF Control, TaskKinds
<1>3. Numbered'
  BY DEF Numbered
<1>4. TreeKept'
  <2>1. ~ HasGit' => tree'.branch = {} /\ tree'.from = "none"
    BY DEF TreeKept, HasGit
  <2>2. ASSUME ~ raced', job'.state # "DONE"
        PROVE  /\ 1..made' \subseteq tree'.branch
               /\ removal' => made' = 0 /\ At("task", "idle")' /\ At("diff", "idle")'
               /\ ~ At("diff", "idle")' => made' > 0
               /\ \A b \in Actors : At(b, "cloning")' => made' = 0
               /\ ~ removal' => FromInv
    BY <1>1, <1>2, <2>2, IdleParts, Kinds DEF TreeKept, At
  <2>3. FromInv => FromInv'
    BY <1>1, IdleParts DEF FromInv, Wanted, PassPcs
  <2> QED BY <2>1, <2>2, <2>3 DEF TreeKept
<1> QED BY <1>3, <1>4

\* What a step of prepare that goes on may do to the tree.
LEMMA PreparedOn ==
  ASSUME TypeOK, Control, RepoRead, Numbered, TreeKept, NEW a \in Actors,
         NEW pc \in {"ready"} \cup PreparePcs, Move(a, pc), ~ At(a, "idle"),
         UNCHANGED <<job, remote, removal, made, raced>>,
         tree'.dirty => tree.dirty,
         tree'.branch \in {{}, {0}, tree.branch} \cup {remote[u] : u \in Urls},
         ~ HasGit' => tree'.branch = {} /\ tree'.from = "none",
         ~ raced /\ job.state # "DONE" /\ ~ removal =>
           /\ tree.branch = {} \/ (tree'.branch = tree.branch /\ tree'.from = tree.from)
           /\ pc = "cloning" => made = 0
           /\ tree'.git = "full" => tree'.from = Wanted
           /\ tree'.git = "partial" =>
                /\ tree'.url = job.repoUrl /\ job.repoUrl # "none"
                /\ tree'.from \in {"none", job.repoUrl}
           /\ tree'.branch # {} => tree'.from = Wanted
           /\ pc \in {"checkout", "branch", "ready"} => tree'.from = Wanted
           /\ tree.from = Wanted => tree'.from = Wanted
  PROVE  Numbered' /\ TreeKept'
<1>1. /\ actor'[a].pc = pc /\ \A b \in Actors : b # a => actor'[b] = actor[b]
  BY MoveParts DEF Pcs
<1>2. Numbered'
  <2>1. {} \subseteq 0..made /\ {0} \subseteq 0..made
    BY Shape
  <2> QED BY <2>1 DEF Numbered
<1>3. ASSUME ~ raced, job.state # "DONE"
      PROVE  /\ ~ removal /\ (made > 0 => tree.branch # {})
             /\ 1..made \subseteq tree'.branch
  <2>1. ~ removal /\ 1..made \subseteq tree.branch
    BY <1>3, Kinds DEF TreeKept, At
  <2>2. made > 0 => 1 \in tree.branch
    BY <2>1, Shape
  <2>3. ~ (made > 0) => 1..made = {}
    BY Shape
  <2> QED BY <2>1, <2>2, <2>3, <1>3
<1>4. ASSUME ~ raced, job.state # "DONE"
      PROVE  /\ ~ At("diff", "idle")' => made > 0
             /\ \A b \in Actors : At(b, "cloning")' => made = 0
    BY <1>1, <1>3, <1>4, Kinds DEF TreeKept, At
<1>5. ASSUME ~ raced, job.state # "DONE"
      PROVE  FromInv'
    BY <1>1, <1>3, <1>5 DEF TreeKept, FromInv, Wanted, PassPcs, PreparePcs
<1>6. TreeKept'
  BY <1>3, <1>4, <1>5 DEF TreeKept
<1> QED BY <1>2, <1>6

\* What prepare leaves: the job's code with its commits, and no more.
LEMMA PreparedTree ==
  ASSUME TypeOK, Control, RepoRead, Numbered, TreeKept, NEW a \in Actors, Prepare(a)
  PROVE  Numbered' /\ TreeKept' /\ tree' \in Trees
<1>1. /\ UNCHANGED <<remote, removal, made, raced>> /\ ~ At(a, "idle")
      /\ (Throws(a) /\ tree' = tree) \/ UNCHANGED job
  BY PrepareMoves DEF PreparePcs, At
<1>2. CASE Throws(a) /\ tree' = tree
  BY <1>1, <1>2, ThrowsTree, Shape
<1>3. ASSUME ~ raced, job.state # "DONE"
      PROVE  /\ FromInv /\ RepoOf(a) = job.repoUrl
             /\ ~ HasGit => tree.branch = {} /\ tree.from = "none"
             /\ made > 0 => tree.branch # {}
             /\ At(a, "cloning") => made = 0
  <2>1. ~ removal /\ FromInv /\ 1..made \subseteq tree.branch
    BY <1>1, <1>3, Kinds DEF TreeKept, At
  <2>2. made > 0 => 1 \in tree.branch
    BY <2>1, Shape
  <2> QED BY <1>1, <1>3, <2>1, <2>2 DEF TreeKept, RepoRead, At
<1>4. ~ HasGit => tree.branch = {} /\ tree.from = "none"
  BY DEF TreeKept
<1>5. RepoOf(a) \in Repos /\ "none" \notin Urls /\ tree \in Trees
  BY Shape, WorkspaceAssumption DEF RepoOf
<1>6. CASE ~ (Throws(a) /\ tree' = tree)
  <2> USE <1>1, <1>3, <1>4, <1>5, <1>6
      DEF At, ghosts, gitVars, jobVars, HasGit, Trees, Wanted, FromInv, RepoRead, PreparePcs
  <2>1. CASE Look(a)
    <3> DEFINE pc == IF RepoOf(a) = "none" THEN (IF HasGit THEN "checkout" ELSE "init")
                     ELSE (IF HasGit THEN "set-url" ELSE "clone")
    <3>1. pc \in {"ready"} \cup PreparePcs /\ Move(a, pc) /\ UNCHANGED tree
      BY <2>1 DEF Look
    <3>2. pc = "checkout" => RepoOf(a) = "none" /\ HasGit
      OBVIOUS
    <3>3. pc \in {"checkout", "init", "set-url", "clone"}
      OBVIOUS
    <3> HIDE DEF pc
    <3> QED BY <3>1, <3>2, <3>3, PreparedOn
  <2>2. CASE SetUrl(a)
    BY <2>2, PreparedOn DEF SetUrl
  <2>3. CASE Fetch(a)
    <3>1. HasGit /\ Move(a, "checkout") /\ At(a, "fetch")
          /\ tree' = [tree EXCEPT !.from = IF @ = "none" THEN tree.url ELSE @]
      BY <2>3 DEF Fetch
    <3>2. /\ tree' \in Trees /\ tree'.git = tree.git /\ tree'.branch = tree.branch
          /\ tree'.dirty = tree.dirty /\ tree'.url = tree.url
          /\ tree'.from = IF tree.from = "none" THEN tree.url ELSE tree.from
      BY <3>1
    <3> QED BY <3>1, <3>2, PreparedOn
  <2>4. CASE Checkout(a)
    <3>1. HasGit /\ Move(a, "ready") /\ At(a, "checkout")
          /\ tree' = [tree EXCEPT !.branch = CheckedOut(a)]
      BY <2>4 DEF Checkout
    <3>2. CheckedOut(a) \in {{0}, tree.branch} \cup {remote[u] : u \in Urls}
      BY DEF CheckedOut, Repos
    <3>3. tree.branch # {} => CheckedOut(a) = tree.branch
      BY DEF CheckedOut
    <3>4. CheckedOut(a) \in Contents
      BY <3>2, Shape, WorkspaceAssumption DEF Contents
    <3>5. /\ tree' \in Trees /\ tree'.git = tree.git /\ tree'.branch = CheckedOut(a)
          /\ tree'.dirty = tree.dirty /\ tree'.url = tree.url /\ tree'.from = tree.from
      BY <3>1, <3>4
    <3> QED BY <3>1, <3>2, <3>3, <3>5, PreparedOn
  <2>5. CASE Clone(a)
    <3>1. tree.git = "absent" /\ Move(a, "cloning") /\ At(a, "clone")
          /\ tree' = [NoTree EXCEPT !.git = "partial", !.url = RepoOf(a)]
      BY <2>5 DEF Clone
    <3>2. /\ tree' \in Trees /\ tree'.git = "partial" /\ tree'.branch = {}
          /\ tree'.dirty = FALSE /\ tree'.url = RepoOf(a) /\ tree'.from = "none"
      BY <3>1, NoTreeParts
    <3>3. RepoOf(a) # "none" /\ tree.branch = {} /\ tree.from = "none" /\ made \in Nat
      BY <3>1, Shape
    <3>4. ~ raced /\ job.state # "DONE" => RepoOf(a) = job.repoUrl /\ made = 0
      BY <3>3
    <3> QED BY <3>1, <3>2, <3>3, <3>4, PreparedOn
  <2>6. CASE Cloned(a)
    <3>1. tree.git = "partial" /\ Move(a, "branch") /\ At(a, "cloning")
          /\ tree' = [tree EXCEPT !.git = "full", !.from = RepoOf(a), !.base = TRUE]
      BY <2>6 DEF Cloned
    <3>2. /\ tree' \in Trees /\ tree'.git = "full" /\ tree'.branch = tree.branch
          /\ tree'.dirty = tree.dirty /\ tree'.from = RepoOf(a)
      BY <3>1
    <3> QED BY <3>1, <3>2, PreparedOn
  <2>7. CASE Branch(a)
    <3>1. HasGit /\ tree.branch = {} /\ Move(a, "ready") /\ At(a, "branch")
          /\ tree' = [tree EXCEPT !.branch = {0}]
      BY <2>7 DEF Branch
    <3>2. {0} \in Contents
      BY WorkspaceAssumption DEF Contents
    <3>3. /\ tree' \in Trees /\ tree'.git = tree.git /\ tree'.branch = {0}
          /\ tree'.dirty = tree.dirty /\ tree'.from = tree.from /\ tree'.url = tree.url
      BY <3>1, <3>2
    <3> QED BY <3>1, <3>3, PreparedOn
  <2>8. CASE InitScratch(a)
    <3>1. Move(a, "base") /\ At(a, "init")
          /\ tree' = IF HasGit THEN tree ELSE [NoTree EXCEPT !.git = "full", !.from = "scratch"]
      BY <2>8 DEF InitScratch
    <3>2. CASE HasGit
      BY <3>1, <3>2, PreparedOn
    <3>3. CASE ~ HasGit
      <4>1. /\ tree' \in Trees /\ tree'.git = "full" /\ tree'.branch = {}
            /\ tree'.dirty = FALSE /\ tree'.from = "scratch"
        BY <3>1, <3>3, NoTreeParts
      <4> QED BY <3>1, <3>3, <4>1, PreparedOn
    <3> QED BY <3>2, <3>3
  <2>9. CASE CommitBase(a)
    BY <2>9, PreparedOn DEF CommitBase
  <2> QED BY <2>1, <2>2, <2>3, <2>4, <2>5, <2>6, <2>7, <2>8, <2>9 DEF Prepare
<1> QED BY <1>2, <1>6

\* A task that starts finds the tree of its job, unless a removal is awaited.
LEMMA ClaimedTree ==
  ASSUME TypeOK, Control, TreeKept, Claim
  PROVE  TreeKept'
<1>1. /\ UNCHANGED <<job, tree, remote, removal, made>>
      /\ raced' = (raced \/ removal)
      /\ actor'["task"].pc \in {"push", "look"} /\ actor'["diff"] = actor["diff"]
      /\ queued.kind # "none"
  BY Kinds DEF Claim, gitVars, TypeOK
<1>2. FromInv => FromInv'
  BY <1>1, Kinds DEF FromInv, Wanted, PassPcs
<1>3. ASSUME ~ raced', job'.state # "DONE"
      PROVE  /\ 1..made \subseteq tree.branch /\ ~ removal /\ FromInv
             /\ ~ At("diff", "idle") => made > 0
             /\ At("diff", "cloning") => made = 0
  BY <1>1, <1>3, Kinds DEF TreeKept
<1>4. \A b \in Actors : At(b, "cloning")' => b = "diff" /\ At("diff", "cloning")
  BY <1>1, Kinds DEF At
<1>5. At("diff", "idle")' = At("diff", "idle") /\ HasGit' = HasGit
  BY <1>1 DEF At, HasGit
<1> QED BY <1>1, <1>2, <1>3, <1>4, <1>5 DEF TreeKept

\* A commit of the task.
Commits ==
  /\ HasGit /\ tree.dirty /\ made' = made + 1 /\ Move("task", "push-work") /\ UNCHANGED job
  /\ tree' = [tree EXCEPT !.branch = @ \cup {made + 1}, !.dirty = FALSE]

\* What may come of a pass: a throw, a commit, or nothing new.
LEMMA CommitParts ==
  ASSUME Commit
  PROVE  /\ At("task", "commit") /\ UNCHANGED <<remote, removal, raced>>
         /\ \/ Throws("task") /\ UNCHANGED <<tree, made>>
            \/ Commits
            \/ Move("task", "judge") /\ UNCHANGED <<job, tree, made>>
BY DEF Commit, Commits, jobVars

\* The tree with one commit more.
LEMMA CommitsParts ==
  ASSUME TypeOK, Commits
  PROVE  /\ tree'.git = tree.git /\ tree'.url = tree.url /\ tree'.from = tree.from
         /\ tree'.branch = tree.branch \cup {made + 1} /\ tree'.dirty = FALSE
         /\ HasGit'
         /\ 0..made \subseteq 0..made' /\ made + 1 \in 0..made'
         /\ 1..made' = 1..made \cup {made'}
<1>1. tree \in Trees /\ made \in Nat
  BY Shape
<1>2. /\ tree'.git = tree.git /\ tree'.url = tree.url /\ tree'.from = tree.from
      /\ tree'.branch = tree.branch \cup {made + 1} /\ tree'.dirty = FALSE
  BY <1>1 DEF Commits, Trees
<1>3. HasGit'
  BY <1>2 DEF Commits, HasGit
<1>4. made' = made + 1
  BY DEF Commits
<1>5. /\ 0..made \subseteq 0..made' /\ made + 1 \in 0..made'
      /\ 1..made' = 1..made \cup {made'}
  BY <1>1, <1>4
<1> QED BY <1>2, <1>3, <1>5

\* Commits are numbered as they are made.
LEMMA CommitNumbers ==
  ASSUME TypeOK, Numbered, Commit
  PROVE  Numbered'
<1>1. CASE UNCHANGED <<tree, made>>
  BY <1>1, CommitParts DEF Numbered
<1>2. CASE Commits
  BY <1>2, CommitParts, CommitsParts DEF Numbered
<1> QED BY <1>1, <1>2, CommitParts

\* A commit is added to the tree's branch, and nothing is lost.
LEMMA CommitKeeps ==
  ASSUME TypeOK, Control, Numbered, TreeKept, Commit
  PROVE  TreeKept'
<1>1. CASE Throws("task") /\ UNCHANGED <<tree, made>>
  BY <1>1, CommitParts, ThrowsTree, Kinds DEF At
<1>2. CASE Commits \/ (Move("task", "judge") /\ UNCHANGED <<job, tree, made>>)
  <2>1. /\ UNCHANGED <<job, removal, raced>> /\ At("task", "commit")
        /\ actor'["task"].pc \in {"push-work", "judge"} /\ actor'["diff"] = actor["diff"]
    BY <1>2, CommitParts, MoveParts, Kinds DEF Commits, Pcs, PassPcs
  <2>2. /\ tree'.git = tree.git /\ tree'.url = tree.url /\ tree'.from = tree.from
        /\ 1..made \subseteq tree.branch => 1..made' \subseteq tree'.branch
    BY <1>2, CommitsParts DEF Commits
  <2>3. made \in Nat /\ made' \in Nat /\ made' >= made
    BY <1>2, Shape DEF Commits
  <2>4. ~ HasGit' => tree'.branch = {} /\ tree'.from = "none"
    BY <1>2, CommitsParts DEF TreeKept, HasGit
  <2>5. FromInv => FromInv'
    <3>1. FromInv => tree.from = Wanted
      BY <2>1, Kinds DEF FromInv, At, PassPcs
    <3> QED BY <2>1, <2>2, <3>1, Kinds DEF FromInv, Wanted, PassPcs
  <2>6. ASSUME ~ raced', job'.state # "DONE"
        PROVE  /\ 1..made' \subseteq tree'.branch /\ ~ removal' /\ FromInv'
               /\ ~ At("diff", "idle")' => made' > 0
               /\ \A b \in Actors : At(b, "cloning")' => made' = 0
    <3>1. /\ ~ removal /\ 1..made \subseteq tree.branch /\ FromInv
          /\ ~ At("diff", "idle") => made > 0
          /\ At("diff", "cloning") => made = 0
      BY <2>1, <2>6, Kinds DEF TreeKept, At
    <3>2. ~ At("diff", "cloning")
      BY <3>1, <2>3 DEF At
    <3> QED BY <2>1, <2>2, <2>3, <2>5, <3>1, <3>2, Kinds DEF At
  <2> QED BY <2>4, <2>6 DEF TreeKept
<1> QED BY <1>1, <1>2, CommitParts

\* A crash leaves the tree, unless a removal was under way.
LEMMA CrashedTree ==
  ASSUME TypeOK, TreeKept, Crash
  PROVE  TreeKept'
<1>1. /\ UNCHANGED <<job, made>> /\ raced' = (raced \/ removal) /\ removal' = FALSE
      /\ \A b \in Actors : actor'[b].pc = "idle"
  BY IdleParts DEF Crash, jobVars
<1>2. CASE removal
  <2>1. tree' \in {tree, NoTree, [NoTree EXCEPT !.git = "litter"]}
    BY <1>2 DEF Crash
  <2>2. ~ HasGit' => tree'.branch = {} /\ tree'.from = "none"
    BY <2>1 DEF TreeKept, HasGit, NoTree
  <2> QED BY <1>1, <1>2, <2>2 DEF TreeKept
<1>3. CASE ~ removal
  <2>1. tree' = tree /\ raced' = raced
    <3>1. tree' \in {tree} \cup {}
      BY <1>3 DEF Crash
    <3> QED BY <3>1, <1>1, <1>3, Kinds DEF TypeOK
  <2>2. FromInv => FromInv'
    BY <1>1, <2>1 DEF FromInv, Wanted, PassPcs
  <2>3. /\ HasGit' = HasGit /\ At("diff", "idle")'
        /\ \A b \in Actors : ~ At(b, "cloning")'
    BY <1>1, <2>1, Kinds DEF HasGit, At
  <2> QED BY <1>1, <1>3, <2>1, <2>2, <2>3 DEF TreeKept
<1> QED BY <1>2, <1>3

\* A job with a task at work is not done.
LEMMA AtWork ==
  ASSUME TypeOK, Control, actor["task"].pc # "idle"
  PROVE  job.state # "DONE"
<1>1. queued.kind # "none" /\ job.state = StageOf[queued.kind]
  BY DEF Control, At
<1> QED BY <1>1, Shape, Stages DEF TaskKinds

\* A step of prepare leaves a repository without its base to the task that makes it.
LEMMA PreparedBase ==
  ASSUME TypeOK, Control, RepoRead, Numbered, TreeKept, BaseKept, NEW a \in Actors, Prepare(a)
  PROVE  BaseKept'
<1> DEFINE Made == /\ HasGit' => \/ tree'.base
                                 \/ tree'.branch = {} /\ actor'["task"].pc \in {"cloning", "base"}
                   /\ actor'["task"].pc = "cloning" => tree'.git = "partial"
<1> SUFFICES ASSUME ~ raced', job'.state # "DONE", ~ removal', spent'.crashes = 0
             PROVE  Made
  BY DEF BaseKept, At
<1>1. UNCHANGED <<removal, made, raced, spent>> /\ ~ At(a, "idle") /\ job.state # "DONE"
  <2>1. /\ UNCHANGED <<removal, made, raced, spent>> /\ ~ At(a, "idle")
        /\ UNCHANGED job \/ Throws(a)
    BY PrepareMoves DEF PreparePcs, At
  <2>2. CASE UNCHANGED job
    BY <2>1, <2>2
  <2>3. CASE Throws(a)
    <3>1. a = "task" => queued.kind # "none"
      BY <2>1 DEF Control, At
    <3>2. queued.kind # "none" => job.state # "DONE"
      BY Shape, Stages DEF Control, TaskKinds
    <3> QED BY <2>1, <2>3, <3>1, <3>2, ThrowsParts
  <2> QED BY <2>1, <2>2, <2>3
<1>2. /\ ~ HasGit => tree.branch = {}
      /\ HasGit => tree.base \/ (tree.branch = {} /\ actor["task"].pc \in {"cloning", "base"})
      /\ actor["task"].pc = "cloning" => tree.git = "partial"
  BY <1>1 DEF TreeKept, BaseKept, At
<1>3. a = "diff" => /\ HasGit /\ tree.base
                    /\ actor["task"].pc # "cloning" /\ actor["diff"].pc # "cloning"
  <2>1. a = "diff" => /\ made > 0 /\ 1..made \subseteq tree.branch
                      /\ actor["task"].pc # "cloning" /\ actor["diff"].pc # "cloning"
    BY <1>1, Kinds, Shape DEF TreeKept, At
  <2>2. a = "diff" => 1 \in tree.branch
    BY <2>1, Shape
  <2> QED BY <1>2, <2>1, <2>2
<1>4. ASSUME Throws(a), tree' = tree, HasGit => actor[a].pc \notin {"cloning", "base"}
      PROVE  Made
  BY <1>2, <1>3, <1>4, ThrowsParts, IdleParts, Kinds DEF HasGit
<1>5. ASSUME NEW pc \in Pcs, Move(a, pc)
      PROVE  actor'["task"].pc = IF a = "task" THEN pc ELSE actor["task"].pc
  BY <1>5, MoveParts, Kinds
<1>6. \A pc \in {"ready"} \cup PreparePcs : pc \in Pcs
  BY DEF Pcs
<1>7. tree \in Trees /\ a \in {"task", "diff"}
  BY Shape, Kinds
<1> HIDE DEF Made
<1>8. ASSUME NEW pc \in {"ready"} \cup PreparePcs, Move(a, pc), pc # "cloning",
             tree'.git = tree.git, tree'.base = tree.base, HasGit,
             tree'.branch = tree.branch \/ tree.base,
             actor[a].pc \notin {"cloning", "base"} \/ tree.base
      PROVE  Made
  <2>1. actor'["task"].pc = IF a = "task" THEN pc ELSE actor["task"].pc
    BY <1>5, <1>6, <1>8
  <2> QED BY <1>2, <1>3, <1>7, <1>8, <2>1 DEF Made, HasGit
<1>9. CASE Look(a)
  <2>1. CASE HasGit
    BY <1>8, <1>9, <2>1 DEF Look, At, PreparePcs, gitVars
  <2>2. CASE ~ HasGit
    <3>1. UNCHANGED tree /\ a = "task"
          /\ \E pc \in {"init", "clone"} : Move(a, pc)
      BY <1>3, <1>7, <1>9, <2>2 DEF Look, gitVars
    <3>2. actor'["task"].pc # "cloning"
      BY <1>5, <1>6, <3>1 DEF PreparePcs
    <3> QED BY <2>2, <3>1, <3>2 DEF Made, HasGit
  <2> QED BY <2>1, <2>2
<1>10. CASE SetUrl(a)
  <2>1. CASE Throws(a) /\ UNCHANGED tree
    BY <1>4, <1>10, <2>1 DEF SetUrl, At
  <2>2. CASE HasGit /\ tree' = [tree EXCEPT !.url = RepoOf(a)] /\ Move(a, "fetch")
    <3>1. tree'.git = tree.git /\ tree'.base = tree.base /\ tree'.branch = tree.branch
      BY <1>7, <2>2 DEF Trees
    <3> QED BY <1>8, <1>10, <2>2, <3>1 DEF SetUrl, At, PreparePcs
  <2> QED BY <1>10, <2>1, <2>2 DEF SetUrl
<1>11. CASE Fetch(a)
  <2>1. CASE Throws(a) /\ UNCHANGED tree
    BY <1>4, <1>11, <2>1 DEF Fetch, At
  <2>2. CASE /\ HasGit /\ Move(a, "checkout")
             /\ tree' = [tree EXCEPT !.from = IF @ = "none" THEN tree.url ELSE @]
    <3>1. tree'.git = tree.git /\ tree'.base = tree.base /\ tree'.branch = tree.branch
      BY <1>7, <2>2 DEF Trees
    <3> QED BY <1>8, <1>11, <2>2, <3>1 DEF Fetch, At, PreparePcs
  <2> QED BY <1>11, <2>1, <2>2 DEF Fetch
<1>12. CASE Checkout(a)
  <2>1. CASE Throws(a) /\ UNCHANGED tree
    BY <1>4, <1>12, <2>1 DEF Checkout, At
  <2>2. CASE HasGit /\ tree' = [tree EXCEPT !.branch = CheckedOut(a)] /\ Move(a, "ready")
    <3>1. tree'.git = tree.git /\ tree'.base = tree.base
      BY <1>7, <2>2 DEF Trees
    <3>2. tree.base
      BY <1>2, <1>3, <1>7, <1>12, <2>2 DEF Checkout, At
    <3> QED BY <1>8, <2>2, <3>1, <3>2
  <2> QED BY <1>12, <2>1, <2>2 DEF Checkout
<1>13. CASE Clone(a)
  <2>1. CASE Throws(a) /\ UNCHANGED tree
    BY <1>4, <1>13, <2>1 DEF Clone, At
  <2>2. CASE /\ tree.git = "absent" /\ Move(a, "cloning")
             /\ tree' = [NoTree EXCEPT !.git = "partial", !.url = RepoOf(a)]
    <3>1. tree'.git = "partial" /\ tree'.branch = {}
      BY <2>2, NoTreeParts DEF Trees
    <3>2. a = "task"
      BY <1>3, <1>7, <2>2 DEF HasGit
    <3>3. actor'["task"].pc = "cloning"
      BY <1>5, <1>6, <2>2, <3>2 DEF PreparePcs
    <3> QED BY <3>1, <3>3 DEF Made
  <2> QED BY <1>13, <2>1, <2>2 DEF Clone
<1>14. CASE Cloned(a)
  <2>1. a = "task" /\ tree.git = "partial"
    BY <1>2, <1>3, <1>7, <1>14 DEF Cloned, At
  <2>2. Move(a, "branch") /\ tree' = [tree EXCEPT !.git = "full", !.from = RepoOf(a), !.base = TRUE]
    BY <1>14, <2>1 DEF Cloned
  <2>3. tree'.base
    BY <1>7, <2>2 DEF Trees
  <2>4. actor'["task"].pc = "branch"
    BY <1>5, <1>6, <2>1, <2>2 DEF PreparePcs
  <2> QED BY <2>3, <2>4 DEF Made
<1>15. CASE Branch(a)
  <2>1. CASE Throws(a) /\ UNCHANGED tree
    BY <1>4, <1>15, <2>1 DEF Branch, At
  <2>2. CASE HasGit /\ tree' = [tree EXCEPT !.branch = {0}] /\ Move(a, "ready")
    <3>1. tree'.git = tree.git /\ tree'.base = tree.base
      BY <1>7, <2>2 DEF Trees
    <3>2. tree.base
      BY <1>2, <1>3, <1>7, <1>15, <2>2 DEF Branch, At
    <3> QED BY <1>8, <2>2, <3>1, <3>2
  <2> QED BY <1>15, <2>1, <2>2 DEF Branch
<1>16. CASE InitScratch(a)
  <2>1. /\ At(a, "init") /\ Move(a, "base")
        /\ tree' = IF HasGit THEN tree ELSE [NoTree EXCEPT !.git = "full", !.from = "scratch"]
    BY <1>16 DEF InitScratch
  <2>2. CASE HasGit
    BY <1>8, <2>1, <2>2 DEF At, PreparePcs
  <2>3. CASE ~ HasGit
    <3>1. tree'.branch = {} /\ a = "task"
      BY <1>3, <1>7, <2>1, <2>3, NoTreeParts DEF Trees
    <3>2. actor'["task"].pc = "base"
      BY <1>5, <1>6, <2>1, <3>1 DEF PreparePcs
    <3> QED BY <3>1, <3>2 DEF Made
  <2> QED BY <2>2, <2>3
<1>17. CASE CommitBase(a)
  <2>1. CASE HasGit
    <3>1. tree' = [tree EXCEPT !.base = TRUE] /\ Move(a, "branch")
      BY <1>17, <2>1 DEF CommitBase
    <3>2. tree'.base
      BY <1>7, <3>1 DEF Trees
    <3>3. actor'["task"].pc = IF a = "task" THEN "branch" ELSE actor["task"].pc
      BY <1>5, <1>6, <3>1 DEF PreparePcs
    <3> QED BY <1>3, <1>7, <3>2, <3>3 DEF Made
  <2>2. CASE ~ HasGit
    BY <1>4, <1>17, <2>2 DEF CommitBase
  <2> QED BY <2>1, <2>2
<1> QED
  BY <1>9, <1>10, <1>11, <1>12, <1>13, <1>14, <1>15, <1>16, <1>17 DEF Prepare

-------------------------------------------------------------------------------
(* One lemma per part of the invariant: every step preserves it.          *)

\* The state, the task and the places stay in step.
LEMMA ControlStep ==
  ASSUME TypeOK, Control, RepoRead, Next
  PROVE  Control'
<1> USE Kinds, IdleParts, Stages, Shape
    DEF At, Move, Throws, Park, Advance, TaskDone, Working, RepoOf, jobVars, gitVars,
        ghosts, Pushed, Control, Editable, Waiting, PreparePcs, PassPcs, PushedPcs,
        TaskKinds
<1>1. CASE Claim
  BY <1>1 DEF Claim
<1>2. ASSUME NEW a \in Actors, Prepare(a) PROVE Control'
  BY <1>2, PrepareMoves
<1>3. ASSUME NEW a \in Actors, CallFails(a) PROVE Control'
  BY <1>3 DEF CallFails
<1>4. CASE Plan
  BY <1>4 DEF Plan
<1>5. CASE Verify
  BY <1>5 DEF Verify
<1>6. CASE Work
  BY <1>6 DEF Work
<1>7. CASE AgentFails
  BY <1>7 DEF AgentFails
<1>8. CASE Commit
  BY <1>8 DEF Commit
<1>9. CASE PushWork
  BY <1>9 DEF PushWork
<1>10. CASE PushWorkFails
  BY <1>10 DEF PushWorkFails
<1>11. CASE Judge
  BY <1>11 DEF Judge
<1>12. CASE PushFinal
  BY <1>12 DEF PushFinal
<1>13. CASE CreatePr
  BY <1>13 DEF CreatePr
<1>14. CASE CreateRow
  BY <1>14 DEF CreateRow
<1>15. CASE SetPrNumber
  BY <1>15 DEF SetPrNumber
<1>16. CASE RefreshPr
  BY <1>16 DEF RefreshPr
<1>17. CASE Present
  BY <1>17 DEF Present
<1>18. CASE ApprovePlan
  BY <1>18 DEF ApprovePlan
<1>19. CASE RequestChanges
  BY <1>19 DEF RequestChanges
<1>20. CASE Accept
  BY <1>20 DEF Accept
<1>21. CASE SetRepo
  BY <1>21 DEF SetRepo
<1>22. CASE Cleanup
  BY <1>22 DEF Cleanup
<1>23. CASE AskDiff
  BY <1>23 DEF AskDiff
<1>24. CASE AnswerDiff
  BY <1>24 DEF AnswerDiff
<1>25. CASE Crash
  BY <1>25 DEF Crash
<1> QED
  BY <1>1, <1>2, <1>3, <1>4, <1>5, <1>6, <1>7, <1>8, <1>9, <1>10, <1>11,
     <1>12, <1>13, <1>14, <1>15, <1>16, <1>17, <1>18, <1>19, <1>20, <1>21,
     <1>22, <1>23, <1>24, <1>25
  DEF Next, TaskSteps, Stage

\* Attempts stay paid for.
LEMMA TriesStep ==
  ASSUME TypeOK, Control, RepoRead, Tries, Next
  PROVE  Tries'
<1> USE Kinds, IdleParts, Stages, Shape
    DEF At, Move, Throws, Park, Advance, TaskDone, Working, RepoOf, jobVars, gitVars,
        ghosts, Pushed, Control, Tries, Waiting, PreparePcs, PassPcs, PushedPcs, TaskKinds
<1>1. CASE Claim
  BY <1>1 DEF Claim
<1>2. ASSUME NEW a \in Actors, Prepare(a) PROVE Tries'
  BY <1>2, PrepareMoves
<1>3. ASSUME NEW a \in Actors, CallFails(a) PROVE Tries'
  BY <1>3 DEF CallFails
<1>4. CASE Plan
  BY <1>4 DEF Plan
<1>5. CASE Verify
  <2>1. PICK kind \in {"REVISE", "OPEN_PR"} : Advance(kind)
    BY <1>5 DEF Verify
  <2>2. queued'.tries = 0 /\ UNCHANGED spent
    BY <1>5, <2>1 DEF Verify
  <2> QED BY <2>2
<1>6. CASE Work
  BY <1>6 DEF Work
<1>7. CASE AgentFails
  BY <1>7 DEF AgentFails
<1>8. CASE Commit
  BY <1>8 DEF Commit
<1>9. CASE PushWork
  BY <1>9 DEF PushWork
<1>10. CASE PushWorkFails
  BY <1>10 DEF PushWorkFails
<1>11. CASE Judge
  BY <1>11 DEF Judge
<1>12. CASE PushFinal
  BY <1>12 DEF PushFinal
<1>13. CASE CreatePr
  BY <1>13 DEF CreatePr
<1>14. CASE CreateRow
  BY <1>14 DEF CreateRow
<1>15. CASE SetPrNumber
  BY <1>15 DEF SetPrNumber
<1>16. CASE RefreshPr
  BY <1>16 DEF RefreshPr
<1>17. CASE Present
  BY <1>17 DEF Present
<1>18. CASE ApprovePlan
  BY <1>18 DEF ApprovePlan
<1>19. CASE RequestChanges
  BY <1>19 DEF RequestChanges
<1>20. CASE Accept
  BY <1>20 DEF Accept
<1>21. CASE SetRepo
  BY <1>21 DEF SetRepo
<1>22. CASE Cleanup
  BY <1>22 DEF Cleanup
<1>23. CASE AskDiff
  BY <1>23 DEF AskDiff
<1>24. CASE AnswerDiff
  BY <1>24 DEF AnswerDiff
<1>25. CASE Crash
  BY <1>25 DEF Crash
<1> QED
  BY <1>1, <1>2, <1>3, <1>4, <1>5, <1>6, <1>7, <1>8, <1>9, <1>10, <1>11,
     <1>12, <1>13, <1>14, <1>15, <1>16, <1>17, <1>18, <1>19, <1>20, <1>21,
     <1>22, <1>23, <1>24, <1>25
  DEF Next, TaskSteps, Stage

\* The repo that was read stays the job's.
LEMMA RepoStep ==
  ASSUME TypeOK, Control, RepoRead, Next
  PROVE  RepoRead'
<1> USE Kinds, IdleParts, Stages, Shape
    DEF At, Move, Throws, Park, Advance, TaskDone, Working, RepoOf, jobVars, gitVars,
        ghosts, Pushed, Control, RepoRead, Editable, Waiting, PreparePcs, PassPcs,
        PushedPcs, TaskKinds
<1>1. CASE Claim
  BY <1>1 DEF Claim
<1>2. ASSUME NEW a \in Actors, Prepare(a) PROVE RepoRead'
  BY <1>2, PrepareMoves
<1>3. ASSUME NEW a \in Actors, CallFails(a) PROVE RepoRead'
  BY <1>3 DEF CallFails
<1>4. CASE Plan
  BY <1>4 DEF Plan
<1>5. CASE Verify
  BY <1>5 DEF Verify
<1>6. CASE Work
  BY <1>6 DEF Work
<1>7. CASE AgentFails
  BY <1>7 DEF AgentFails
<1>8. CASE Commit
  BY <1>8 DEF Commit
<1>9. CASE PushWork
  BY <1>9 DEF PushWork
<1>10. CASE PushWorkFails
  BY <1>10 DEF PushWorkFails
<1>11. CASE Judge
  BY <1>11 DEF Judge
<1>12. CASE PushFinal
  BY <1>12 DEF PushFinal
<1>13. CASE CreatePr
  BY <1>13 DEF CreatePr
<1>14. CASE CreateRow
  BY <1>14 DEF CreateRow
<1>15. CASE SetPrNumber
  BY <1>15 DEF SetPrNumber
<1>16. CASE RefreshPr
  BY <1>16 DEF RefreshPr
<1>17. CASE Present
  BY <1>17 DEF Present
<1>18. CASE ApprovePlan
  BY <1>18 DEF ApprovePlan
<1>19. CASE RequestChanges
  BY <1>19 DEF RequestChanges
<1>20. CASE Accept
  BY <1>20 DEF Accept
<1>21. CASE SetRepo
  BY <1>21 DEF SetRepo
<1>22. CASE Cleanup
  BY <1>22 DEF Cleanup
<1>23. CASE AskDiff
  BY <1>23 DEF AskDiff
<1>24. CASE AnswerDiff
  BY <1>24 DEF AnswerDiff
<1>25. CASE Crash
  BY <1>25 DEF Crash
<1> QED
  BY <1>1, <1>2, <1>3, <1>4, <1>5, <1>6, <1>7, <1>8, <1>9, <1>10, <1>11,
     <1>12, <1>13, <1>14, <1>15, <1>16, <1>17, <1>18, <1>19, <1>20, <1>21,
     <1>22, <1>23, <1>24, <1>25
  DEF Next, TaskSteps, Stage

\* The PR, its row and its number stay in order.
LEMMA PrStep ==
  ASSUME TypeOK, Control, RepoRead, PrInOrder, Next
  PROVE  PrInOrder'
<1> USE Kinds, IdleParts, Stages, Shape
    DEF At, Move, Throws, Park, Advance, TaskDone, Working, RepoOf, jobVars, gitVars,
        ghosts, Pushed, Control, PrInOrder, Waiting, PreparePcs, PassPcs, PushedPcs,
        TaskKinds
<1>1. CASE Claim
  BY <1>1 DEF Claim
<1>2. ASSUME NEW a \in Actors, Prepare(a) PROVE PrInOrder'
  BY <1>2, PrepareMoves
<1>3. ASSUME NEW a \in Actors, CallFails(a) PROVE PrInOrder'
  BY <1>3 DEF CallFails
<1>4. CASE Plan
  BY <1>4 DEF Plan
<1>5. CASE Verify
  BY <1>5 DEF Verify
<1>6. CASE Work
  BY <1>6 DEF Work
<1>7. CASE AgentFails
  BY <1>7 DEF AgentFails
<1>8. CASE Commit
  BY <1>8 DEF Commit
<1>9. CASE PushWork
  BY <1>9 DEF PushWork
<1>10. CASE PushWorkFails
  BY <1>10 DEF PushWorkFails
<1>11. CASE Judge
  BY <1>11 DEF Judge
<1>12. CASE PushFinal
  BY <1>12 DEF PushFinal
<1>13. CASE CreatePr
  BY <1>13 DEF CreatePr
<1>14. CASE CreateRow
  BY <1>14 DEF CreateRow
<1>15. CASE SetPrNumber
  BY <1>15 DEF SetPrNumber
<1>16. CASE RefreshPr
  BY <1>16 DEF RefreshPr
<1>17. CASE Present
  BY <1>17 DEF Present
<1>18. CASE ApprovePlan
  BY <1>18 DEF ApprovePlan
<1>19. CASE RequestChanges
  BY <1>19 DEF RequestChanges
<1>20. CASE Accept
  BY <1>20 DEF Accept
<1>21. CASE SetRepo
  BY <1>21 DEF SetRepo
<1>22. CASE Cleanup
  BY <1>22 DEF Cleanup
<1>23. CASE AskDiff
  BY <1>23 DEF AskDiff
<1>24. CASE AnswerDiff
  BY <1>24 DEF AnswerDiff
<1>25. CASE Crash
  BY <1>25 DEF Crash
<1> QED
  BY <1>1, <1>2, <1>3, <1>4, <1>5, <1>6, <1>7, <1>8, <1>9, <1>10, <1>11,
     <1>12, <1>13, <1>14, <1>15, <1>16, <1>17, <1>18, <1>19, <1>20, <1>21,
     <1>22, <1>23, <1>24, <1>25
  DEF Next, TaskSteps, Stage

\* Commits stay made in time.
LEMMA MadeStep ==
  ASSUME TypeOK, Control, RepoRead, Numbered, MadeInTime, Next
  PROVE  MadeInTime'
<1> USE Kinds, IdleParts, Stages, Shape
    DEF At, Move, Throws, Park, Advance, TaskDone, Working, RepoOf, jobVars, gitVars,
        ghosts, Control, Numbered, MadeInTime, NoWork, Editable, Waiting, PreparePcs,
        PassPcs, PushedPcs, TaskKinds
<1>1. CASE Claim
  BY <1>1 DEF Claim
<1>2. ASSUME NEW a \in Actors, Prepare(a) PROVE MadeInTime'
  BY <1>2, PrepareMoves
<1>3. ASSUME NEW a \in Actors, CallFails(a) PROVE MadeInTime'
  BY <1>3 DEF CallFails
<1>4. CASE Plan
  BY <1>4 DEF Plan
<1>5. CASE Verify
  BY <1>5 DEF Verify
<1>6. CASE Work
  BY <1>6 DEF Work
<1>7. CASE AgentFails
  BY <1>7 DEF AgentFails
<1>8. CASE Commit
  <2>1. /\ At("task", "commit") /\ UNCHANGED <<remote, pr, removal, blank, raced, spent>>
        /\ \/ Throws("task") /\ UNCHANGED <<tree, made>>
           \/ made' = made + 1 /\ Move("task", "push-work") /\ UNCHANGED job
           \/ ~ NoWork /\ Move("task", "judge") /\ UNCHANGED <<job, tree, made>>
    BY <1>8 DEF Commit
  <2>2. made \in Nat /\ queued.kind \in {"IMPLEMENT", "REVISE"}
    BY <2>1
  <2>3. ~ NoWork => made > 0
    <3>1. CASE actor["task"].attempt # 1
      <4>1. actor["task"].attempt \in Nat \ {0}
        OBVIOUS
      <4> QED BY <3>1, <4>1
    <3>2. CASE ~ (tree.branch \subseteq {0})
      <4>1. PICK n \in tree.branch : n # 0
        BY <3>2
      <4> QED BY <4>1, <2>2
    <3> QED BY <3>1, <3>2
  <2>4. CASE Throws("task") /\ UNCHANGED <<tree, made>>
    BY <2>1, <2>2, <2>4
  <2>5. CASE made' = made + 1 /\ Move("task", "push-work") /\ UNCHANGED job
    BY <2>1, <2>2, <2>5
  <2>6. CASE ~ NoWork /\ Move("task", "judge") /\ UNCHANGED <<job, tree, made>>
    BY <2>1, <2>2, <2>3, <2>6
  <2> QED BY <2>1, <2>4, <2>5, <2>6
<1>9. CASE PushWork
  BY <1>9, PushedParts DEF PushWork
<1>10. CASE PushWorkFails
  BY <1>10 DEF PushWorkFails
<1>11. CASE Judge
  BY <1>11 DEF Judge
<1>12. CASE PushFinal
  BY <1>12, PushedParts DEF PushFinal
<1>13. CASE CreatePr
  BY <1>13 DEF CreatePr
<1>14. CASE CreateRow
  BY <1>14 DEF CreateRow
<1>15. CASE SetPrNumber
  BY <1>15 DEF SetPrNumber
<1>16. CASE RefreshPr
  BY <1>16 DEF RefreshPr
<1>17. CASE Present
  BY <1>17 DEF Present
<1>18. CASE ApprovePlan
  BY <1>18 DEF ApprovePlan
<1>19. CASE RequestChanges
  BY <1>19 DEF RequestChanges
<1>20. CASE Accept
  BY <1>20 DEF Accept
<1>21. CASE SetRepo
  BY <1>21 DEF SetRepo
<1>22. CASE Cleanup
  BY <1>22 DEF Cleanup
<1>23. CASE AskDiff
  BY <1>23 DEF AskDiff
<1>24. CASE AnswerDiff
  BY <1>24 DEF AnswerDiff
<1>25. CASE Crash
  BY <1>25 DEF Crash
<1> QED
  BY <1>1, <1>2, <1>3, <1>4, <1>5, <1>6, <1>7, <1>8, <1>9, <1>10, <1>11,
     <1>12, <1>13, <1>14, <1>15, <1>16, <1>17, <1>18, <1>19, <1>20, <1>21,
     <1>22, <1>23, <1>24, <1>25
  DEF Next, TaskSteps, Stage

\* Commits stay numbered.
LEMMA NumberedStep ==
  ASSUME TypeOK, Control, RepoRead, Numbered, TreeKept, Next
  PROVE  Numbered'
<1> USE Kinds, IdleParts, Shape, NoTreeParts
    DEF At, Move, Throws, Park, Advance, TaskDone, Working, RepoOf, jobVars, gitVars,
        ghosts, Numbered, PassPcs, Trees
<1>1. CASE Claim
  BY <1>1 DEF Claim
<1>2. ASSUME NEW a \in Actors, Prepare(a) PROVE Numbered'
  BY <1>2, PreparedTree
<1>3. ASSUME NEW a \in Actors, CallFails(a) PROVE Numbered'
  BY <1>3 DEF CallFails
<1>4. CASE Plan
  BY <1>4 DEF Plan
<1>5. CASE Verify
  BY <1>5 DEF Verify
<1>6. CASE Work
  BY <1>6 DEF Work
<1>7. CASE AgentFails
  BY <1>7 DEF AgentFails
<1>8. CASE Commit
  BY <1>8, CommitNumbers
<1>9. CASE PushWork
  BY <1>9, PushedParts DEF PushWork
<1>10. CASE PushWorkFails
  BY <1>10 DEF PushWorkFails
<1>11. CASE Judge
  BY <1>11 DEF Judge
<1>12. CASE PushFinal
  BY <1>12, PushedParts DEF PushFinal
<1>13. CASE CreatePr
  BY <1>13 DEF CreatePr
<1>14. CASE CreateRow
  BY <1>14 DEF CreateRow
<1>15. CASE SetPrNumber
  BY <1>15 DEF SetPrNumber
<1>16. CASE RefreshPr
  BY <1>16 DEF RefreshPr
<1>17. CASE Present
  BY <1>17 DEF Present
<1>18. CASE ApprovePlan
  BY <1>18 DEF ApprovePlan
<1>19. CASE RequestChanges
  BY <1>19 DEF RequestChanges
<1>20. CASE Accept
  BY <1>20 DEF Accept
<1>21. CASE SetRepo
  BY <1>21 DEF SetRepo
<1>22. CASE Cleanup
  BY <1>22 DEF Cleanup
<1>23. CASE AskDiff
  BY <1>23 DEF AskDiff
<1>24. CASE AnswerDiff
  BY <1>24 DEF AnswerDiff
<1>25. CASE Crash
  <2>1. UNCHANGED <<remote, made>> /\ tree' \in {tree, NoTree, [NoTree EXCEPT !.git = "litter"]}
    BY <1>25 DEF Crash
  <2>2. [NoTree EXCEPT !.git = "litter"].branch = {} /\ ~ [NoTree EXCEPT !.git = "litter"].dirty
    BY DEF NoTree
  <2> QED BY <2>1, <2>2
<1> QED
  BY <1>1, <1>2, <1>3, <1>4, <1>5, <1>6, <1>7, <1>8, <1>9, <1>10, <1>11,
     <1>12, <1>13, <1>14, <1>15, <1>16, <1>17, <1>18, <1>19, <1>20, <1>21,
     <1>22, <1>23, <1>24, <1>25
  DEF Next, TaskSteps, Stage

\* Trees with commits are kept.
LEMMA TreeStep ==
  ASSUME TypeOK, Control, RepoRead, Numbered, MadeInTime, TreeKept, Next
  PROVE  TreeKept'
<1> USE Kinds, IdleParts, Stages, Shape, NoTreeParts
    DEF At, Move, Throws, Park, Advance, TaskDone, Working, RepoOf, jobVars, gitVars,
        ghosts, TreeKept, FromInv, Wanted, HasGit, Control, PassPcs, PushedPcs,
        PreparePcs, Waiting, Editable, Trees, MadeInTime, RepoRead, TaskKinds
<1>1. CASE Claim
  BY <1>1, ClaimedTree
<1>2. ASSUME NEW a \in Actors, Prepare(a) PROVE TreeKept'
  BY <1>2, PreparedTree
<1>3. ASSUME NEW a \in Actors, CallFails(a) PROVE TreeKept'
  BY <1>3 DEF CallFails
<1>4. CASE Plan
  BY <1>4 DEF Plan
<1>5. CASE Verify
  BY <1>5 DEF Verify
<1>6. CASE Work
  BY <1>6 DEF Work
<1>7. CASE AgentFails
  BY <1>7 DEF AgentFails
<1>8. CASE Commit
  BY <1>8, CommitKeeps
<1>9. CASE PushWork
  BY <1>9, PushedParts DEF PushWork, Pushable
<1>10. CASE PushWorkFails
  BY <1>10 DEF PushWorkFails
<1>11. CASE Judge
  BY <1>11 DEF Judge
<1>12. CASE PushFinal
  BY <1>12, PushedParts DEF PushFinal, Pushable
<1>13. CASE CreatePr
  BY <1>13 DEF CreatePr
<1>14. CASE CreateRow
  BY <1>14 DEF CreateRow
<1>15. CASE SetPrNumber
  BY <1>15 DEF SetPrNumber
<1>16. CASE RefreshPr
  BY <1>16 DEF RefreshPr
<1>17. CASE Present
  BY <1>17 DEF Present
<1>18. CASE ApprovePlan
  BY <1>18 DEF ApprovePlan
<1>19. CASE RequestChanges
  BY <1>19 DEF RequestChanges
<1>20. CASE Accept
  BY <1>20 DEF Accept
<1>21. CASE SetRepo
  BY <1>21 DEF SetRepo
<1>22. CASE Cleanup
  BY <1>22 DEF Cleanup
<1>23. CASE AskDiff
  BY <1>23 DEF AskDiff
<1>24. CASE AnswerDiff
  BY <1>24 DEF AnswerDiff
<1>25. CASE Crash
  BY <1>25, CrashedTree
<1> QED
  BY <1>1, <1>2, <1>3, <1>4, <1>5, <1>6, <1>7, <1>8, <1>9, <1>10, <1>11,
     <1>12, <1>13, <1>14, <1>15, <1>16, <1>17, <1>18, <1>19, <1>20, <1>21,
     <1>22, <1>23, <1>24, <1>25
  DEF Next, TaskSteps, Stage

\* The head stays what was pushed.
LEMMA HeadStep ==
  ASSUME TypeOK, Control, RepoRead, Numbered, HeadPushed, TreeKept, Next
  PROVE  HeadPushed'
<1> USE Kinds, IdleParts, Stages, Shape
    DEF At, Move, Throws, Park, Advance, TaskDone, Working, RepoOf, jobVars, gitVars,
        ghosts, Control, HeadPushed, TreeKept, Editable, Waiting, PreparePcs, PassPcs,
        PushedPcs, TaskKinds
<1>1. CASE Claim
  BY <1>1 DEF Claim
<1>2. ASSUME NEW a \in Actors, Prepare(a) PROVE HeadPushed'
  BY <1>2, PrepareMoves
<1>3. ASSUME NEW a \in Actors, CallFails(a) PROVE HeadPushed'
  BY <1>3 DEF CallFails
<1>4. CASE Plan
  BY <1>4 DEF Plan
<1>5. CASE Verify
  BY <1>5 DEF Verify
<1>6. CASE Work
  BY <1>6 DEF Work
<1>7. CASE AgentFails
  BY <1>7 DEF AgentFails
<1>8. CASE Commit
  BY <1>8 DEF Commit
<1>9. CASE PushWork
  BY <1>9, PushedParts DEF PushWork
<1>10. CASE PushWorkFails
  BY <1>10 DEF PushWorkFails
<1>11. CASE Judge
  BY <1>11 DEF Judge
<1>12. CASE PushFinal
  <2>1. /\ At("task", "push") /\ UNCHANGED <<pr, removal, made, raced>>
        /\ \/ Throws("task") /\ UNCHANGED <<tree, remote>>
           \/ /\ Pushed(RepoOf("task"))
              /\ \E pc \in {"present", "refresh", "create"} : Move("task", pc)
    BY <1>12 DEF PushFinal
  <2>2. CASE Throws("task") /\ UNCHANGED <<tree, remote>>
    BY <2>1, <2>2
  <2>3. CASE Pushed(RepoOf("task"))
    <3>1. job.state = "OPENING_PR" /\ RepoOf("task") = job.repoUrl /\ job.repoUrl \in Repos
      BY <2>1 DEF RepoRead
    <3>2. job'.head = tree.branch /\ job'.repoUrl = job.repoUrl
      BY <2>3, <3>1, PushedParts
    <3>3. job.repoUrl # "none" => remote'[job.repoUrl] = tree.branch
      BY <2>3, <3>1, PushedParts DEF Repos
    <3>4. ~ raced => 1..made \subseteq tree.branch
      BY <3>1
    <3> QED BY <2>1, <3>2, <3>3, <3>4
  <2> QED BY <2>1, <2>2, <2>3
<1>13. CASE CreatePr
  BY <1>13 DEF CreatePr
<1>14. CASE CreateRow
  BY <1>14 DEF CreateRow
<1>15. CASE SetPrNumber
  BY <1>15 DEF SetPrNumber
<1>16. CASE RefreshPr
  BY <1>16 DEF RefreshPr
<1>17. CASE Present
  BY <1>17 DEF Present
<1>18. CASE ApprovePlan
  BY <1>18 DEF ApprovePlan
<1>19. CASE RequestChanges
  BY <1>19 DEF RequestChanges
<1>20. CASE Accept
  BY <1>20 DEF Accept
<1>21. CASE SetRepo
  BY <1>21 DEF SetRepo
<1>22. CASE Cleanup
  BY <1>22 DEF Cleanup
<1>23. CASE AskDiff
  BY <1>23 DEF AskDiff
<1>24. CASE AnswerDiff
  BY <1>24 DEF AnswerDiff
<1>25. CASE Crash
  BY <1>25 DEF Crash
<1> QED
  BY <1>1, <1>2, <1>3, <1>4, <1>5, <1>6, <1>7, <1>8, <1>9, <1>10, <1>11,
     <1>12, <1>13, <1>14, <1>15, <1>16, <1>17, <1>18, <1>19, <1>20, <1>21,
     <1>22, <1>23, <1>24, <1>25
  DEF Next, TaskSteps, Stage

\* A repository in use keeps its base.
LEMMA BaseStep ==
  ASSUME TypeOK, Control, RepoRead, Numbered, MadeInTime, TreeKept, BaseKept, Next
  PROVE  BaseKept'
<1> USE Kinds, IdleParts, Shape, NoTreeParts, AtWork
    DEF At, Move, Throws, Park, Advance, TaskDone, Working, RepoOf, jobVars, gitVars,
        ghosts, BaseKept, TreeKept, HasGit
<1>1. CASE Claim
  BY <1>1 DEF Claim
<1>2. ASSUME NEW a \in Actors, Prepare(a) PROVE BaseKept'
  BY <1>2, PreparedBase
<1>3. ASSUME NEW a \in Actors, CallFails(a) PROVE BaseKept'
  BY <1>3 DEF CallFails
<1>4. CASE Plan
  BY <1>4 DEF Plan
<1>5. CASE Verify
  BY <1>5 DEF Verify
<1>6. CASE Work
  BY <1>6 DEF Work
<1>7. CASE AgentFails
  BY <1>7 DEF AgentFails
<1>8. CASE Commit
  <2>1. CASE Commits
    <3>1. /\ UNCHANGED <<job, removal, raced, spent>> /\ At("task", "commit")
          /\ actor'["task"].pc = "push-work"
      BY <1>8, <2>1 DEF Commit, Commits
    <3>2. tree'.git = tree.git /\ tree'.base = tree.base /\ HasGit
      BY <2>1 DEF Commits, Trees
    <3>3. ~ raced /\ ~ removal /\ job.state # "DONE" /\ spent.crashes = 0 => tree.base
      BY <3>1, <3>2
    <3> QED BY <3>1, <3>2, <3>3
  <2>2. CASE UNCHANGED tree
    BY <1>8, <2>2 DEF Commit
  <2> QED BY <1>8, <2>1, <2>2, CommitParts
<1>9. CASE PushWork
  BY <1>9, PushedParts DEF PushWork
<1>10. CASE PushWorkFails
  BY <1>10 DEF PushWorkFails
<1>11. CASE Judge
  BY <1>11 DEF Judge
<1>12. CASE PushFinal
  BY <1>12, PushedParts DEF PushFinal
<1>13. CASE CreatePr
  BY <1>13 DEF CreatePr
<1>14. CASE CreateRow
  BY <1>14 DEF CreateRow
<1>15. CASE SetPrNumber
  BY <1>15 DEF SetPrNumber
<1>16. CASE RefreshPr
  BY <1>16 DEF RefreshPr
<1>17. CASE Present
  BY <1>17 DEF Present
<1>18. CASE ApprovePlan
  BY <1>18 DEF ApprovePlan
<1>19. CASE RequestChanges
  BY <1>19 DEF RequestChanges
<1>20. CASE Accept
  BY <1>20 DEF Accept
<1>21. CASE SetRepo
  BY <1>21 DEF SetRepo
<1>22. CASE Cleanup
  BY <1>22 DEF Cleanup
<1>23. CASE AskDiff
  BY <1>23 DEF AskDiff
<1>24. CASE AnswerDiff
  BY <1>24 DEF AnswerDiff
<1>25. CASE Crash
  BY <1>25 DEF Crash
<1> QED
  BY <1>1, <1>2, <1>3, <1>4, <1>5, <1>6, <1>7, <1>8, <1>9, <1>10, <1>11,
     <1>12, <1>13, <1>14, <1>15, <1>16, <1>17, <1>18, <1>19, <1>20, <1>21,
     <1>22, <1>23, <1>24, <1>25
  DEF Next, TaskSteps, Stage

\* A diff of a result finds a branch and its base.
LEMMA DiffStep ==
  ASSUME TypeOK, Control, RepoRead, TreeKept, BaseKept, DiffShowsResult, Next
  PROVE  DiffShowsResult'
<1> USE Shape, Kinds
    DEF DiffShowsResult, gitVars, ghosts
<1>1. CASE Claim
  BY <1>1 DEF Claim
<1>2. ASSUME NEW a \in Actors, Prepare(a) PROVE DiffShowsResult'
  BY <1>2, PrepareMoves
<1>3. ASSUME NEW a \in Actors, CallFails(a) PROVE DiffShowsResult'
  BY <1>3 DEF CallFails
<1>4. CASE Plan
  BY <1>4 DEF Plan
<1>5. CASE Verify
  BY <1>5 DEF Verify
<1>6. CASE Work
  BY <1>6 DEF Work
<1>7. CASE AgentFails
  BY <1>7 DEF AgentFails
<1>8. CASE Commit
  BY <1>8 DEF Commit
<1>9. CASE PushWork
  BY <1>9 DEF PushWork
<1>10. CASE PushWorkFails
  BY <1>10 DEF PushWorkFails
<1>11. CASE Judge
  BY <1>11 DEF Judge
<1>12. CASE PushFinal
  BY <1>12 DEF PushFinal
<1>13. CASE CreatePr
  BY <1>13 DEF CreatePr
<1>14. CASE CreateRow
  BY <1>14 DEF CreateRow
<1>15. CASE SetPrNumber
  BY <1>15 DEF SetPrNumber
<1>16. CASE RefreshPr
  BY <1>16 DEF RefreshPr
<1>17. CASE Present
  BY <1>17 DEF Present
<1>18. CASE ApprovePlan
  BY <1>18 DEF ApprovePlan
<1>19. CASE RequestChanges
  BY <1>19 DEF RequestChanges
<1>20. CASE Accept
  BY <1>20 DEF Accept
<1>21. CASE SetRepo
  BY <1>21 DEF SetRepo
<1>22. CASE Cleanup
  BY <1>22 DEF Cleanup
<1>23. CASE AskDiff
  BY <1>23 DEF AskDiff
<1>24. CASE AnswerDiff
  <2>1. /\ UNCHANGED <<raced, spent>> /\ At("diff", "ready")
        /\ blank' = (blank \/ (~ DiffWorks /\ job.state # "DONE"))
    BY <1>24 DEF AnswerDiff
  <2>2. ASSUME ~ raced, job.state # "DONE", ~ (spent.crashes > 0)
        PROVE  DiffWorks
    <3>1. /\ made > 0 /\ 1..made \subseteq tree.branch /\ (removal => made = 0)
          /\ spent.crashes = 0
      BY <2>1, <2>2 DEF TreeKept, At
    <3>2. 1 \in tree.branch /\ ~ removal
      BY <3>1
    <3>3. HasGit
      BY <3>2 DEF TreeKept
    <3>4. tree.base
      BY <2>2, <3>1, <3>2, <3>3 DEF BaseKept
    <3> QED BY <3>2, <3>4 DEF DiffWorks
  <2> QED BY <2>1, <2>2
<1>25. CASE Crash
  <2>1. spent' = [spent EXCEPT !.crashes = spent.crashes + 1] /\ UNCHANGED blank
    BY <1>25 DEF Crash
  <2>2. spent'.crashes > 0
    BY <2>1
  <2> QED BY <2>1, <2>2
<1> QED
  BY <1>1, <1>2, <1>3, <1>4, <1>5, <1>6, <1>7, <1>8, <1>9, <1>10, <1>11,
     <1>12, <1>13, <1>14, <1>15, <1>16, <1>17, <1>18, <1>19, <1>20, <1>21,
     <1>22, <1>23, <1>24, <1>25
  DEF Next, TaskSteps, Stage

Jobs == [state : States, repoUrl : Repos, head : Contents, prNumber : BOOLEAN]
Tasks == [kind : TaskKinds \cup {"none"}, tries : 0..(MaxTries + MaxCrashes)]
Counts == [diffs : 0..MaxDiffs, retargets : 0..MaxRetargets,
           failures : 0..MaxFailures, crashes : 0..MaxCrashes]

\* The types of the records and of the rest.
LEMMA Types ==
  /\ TypeOK <=> /\ origin \in {"GITHUB", "DASHBOARD"} /\ job \in Jobs /\ queued \in Tasks
                /\ tree \in Trees /\ remote \in [Urls -> Contents]
                /\ actor \in [Actors -> Places] /\ made \in 0..MaxCommits
                /\ prRow \in BOOLEAN /\ pr \in BOOLEAN /\ removal \in BOOLEAN
                /\ blank \in BOOLEAN /\ raced \in BOOLEAN /\ spent \in Counts
  /\ TypeOK' <=> /\ origin' \in {"GITHUB", "DASHBOARD"} /\ job' \in Jobs /\ queued' \in Tasks
                 /\ tree' \in Trees /\ remote' \in [Urls -> Contents]
                 /\ actor' \in [Actors -> Places] /\ made' \in 0..MaxCommits
                 /\ prRow' \in BOOLEAN /\ pr' \in BOOLEAN /\ removal' \in BOOLEAN
                 /\ blank' \in BOOLEAN /\ raced' \in BOOLEAN /\ spent' \in Counts
BY DEF TypeOK, Jobs, Tasks, Trees, Places, Counts

\* The updates of the records.
LEMMA Updates ==
  ASSUME TypeOK
  PROVE  /\ [job EXCEPT !.prNumber = TRUE] \in Jobs
         /\ \A url \in Repos : [job EXCEPT !.repoUrl = url] \in Jobs
         /\ \A d \in BOOLEAN : [tree EXCEPT !.dirty = d] \in Trees
         /\ NoTree \in Trees /\ [NoTree EXCEPT !.git = "litter"] \in Trees
         /\ \A a \in Actors : [actor EXCEPT ![a] = Idle] \in [Actors -> Places]
         /\ [a \in Actors |-> Idle] \in [Actors -> Places]
<1>1. job \in Jobs /\ tree \in Trees /\ actor \in [Actors -> Places]
  BY Types
<1>2. /\ [job EXCEPT !.prNumber = TRUE] \in Jobs
      /\ \A url \in Repos : [job EXCEPT !.repoUrl = url] \in Jobs
  BY <1>1 DEF Jobs
<1>3. \A d \in BOOLEAN : [tree EXCEPT !.dirty = d] \in Trees
  BY <1>1 DEF Trees
<1>4. NoTree \in Trees /\ [NoTree EXCEPT !.git = "litter"] \in Trees
  BY NoTreeParts DEF Trees
<1>5. /\ \A a \in Actors : [actor EXCEPT ![a] = Idle] \in [Actors -> Places]
      /\ [a \in Actors |-> Idle] \in [Actors -> Places]
  BY <1>1, IdleParts
<1> QED BY <1>2, <1>3, <1>4, <1>5

\* The counts of the bounds.
LEMMA Counted ==
  ASSUME TypeOK
  PROVE  /\ spent.diffs < MaxDiffs => [spent EXCEPT !.diffs = @ + 1] \in Counts
         /\ spent.retargets < MaxRetargets => [spent EXCEPT !.retargets = @ + 1] \in Counts
         /\ spent.failures < MaxFailures => [spent EXCEPT !.failures = @ + 1] \in Counts
         /\ spent.crashes < MaxCrashes => [spent EXCEPT !.crashes = @ + 1] \in Counts
         /\ spent.crashes \in 0..MaxCrashes
<1>1. spent \in Counts
  BY Types
<1> QED BY <1>1, WorkspaceAssumption DEF Counts

\* Parks, advances, throws and moves, in these types.
LEMMA Typed ==
  ASSUME TypeOK
  PROVE  /\ \A state \in States : Park(state) => job' \in Jobs /\ queued' \in Tasks
         /\ \A kind \in TaskKinds : Advance(kind) => job' \in Jobs /\ queued' \in Tasks
         /\ \A a \in Actors : Throws(a) =>
              /\ actor' \in [Actors -> Places] /\ job' \in Jobs /\ queued' \in Tasks
              /\ UNCHANGED <<origin, prRow>>
         /\ \A a \in Actors, pc \in Pcs : Move(a, pc) => actor' \in [Actors -> Places]
         /\ \A repo \in Repos : Pushed(repo) =>
              job' \in Jobs /\ tree' \in Trees /\ remote' \in [Urls -> Contents]
<1>1. \A state \in States : Park(state) => job' \in Jobs /\ queued' \in Tasks
  BY ParkParts DEF Jobs, Tasks
<1>2. \A kind \in TaskKinds : Advance(kind) => job' \in Jobs /\ queued' \in Tasks
  BY AdvanceParts DEF Jobs, Tasks
<1>3. \A a \in Actors : Throws(a) =>
        /\ actor' \in [Actors -> Places] /\ job' \in Jobs /\ queued' \in Tasks
        /\ UNCHANGED <<origin, prRow>>
  BY ThrowsParts DEF Jobs, Tasks
<1>4. \A a \in Actors, pc \in Pcs : Move(a, pc) => actor' \in [Actors -> Places]
  BY MoveParts
<1>5. \A repo \in Repos : Pushed(repo) =>
        job' \in Jobs /\ tree' \in Trees /\ remote' \in [Urls -> Contents]
  BY PushedParts DEF Jobs
<1> QED BY <1>1, <1>2, <1>3, <1>4, <1>5

\* Every variable stays within its type.
LEMMA TypeStep ==
  ASSUME TypeOK, Control, Tries, RepoRead, Numbered, TreeKept, Next
  PROVE  TypeOK'
<1> USE Types, Kinds DEF jobVars, gitVars, ghosts, TaskDone
<1>1. CASE Claim
  <2>1. [queued EXCEPT !.tries = @ + 1] \in Tasks
    <3>1. queued \in Tasks /\ queued.tries \in 0..(MaxTries + MaxCrashes)
      BY DEF Tasks
    <3>2. queued.tries < MaxTries + spent.crashes /\ spent.crashes \in 0..MaxCrashes
      BY <1>1, Counted DEF Claim, Tries
    <3>3. queued.tries + 1 \in 0..(MaxTries + MaxCrashes)
      BY <3>1, <3>2, WorkspaceAssumption
    <3> QED BY <3>1, <3>3 DEF Tasks
  <2>2. \A pc \in {"push", "look"} :
          [pc |-> pc, repo |-> job.repoUrl, pr |-> job.prNumber, attempt |-> 1] \in Places
    BY WorkspaceAssumption DEF Jobs, Places, Pcs, PreparePcs
  <2>3. actor' \in [Actors -> Places]
    BY <1>1, <2>2 DEF Claim
  <2> QED BY <1>1, <2>1, <2>3 DEF Claim
<1>2. ASSUME NEW a \in Actors, Prepare(a) PROVE TypeOK'
  <2>1. tree' \in Trees /\ UNCHANGED <<remote, pr, removal, made, blank, raced, spent>>
    BY <1>2, PreparedTree, PrepareMoves
  <2>2. \/ UNCHANGED <<origin, job, prRow, queued>> /\ \E pc \in Pcs : Move(a, pc)
        \/ Throws(a)
    BY <1>2, PrepareMoves DEF Pcs
  <2> QED BY <1>2, <2>1, <2>2, Typed
<1>3. ASSUME NEW a \in Actors, CallFails(a) PROVE TypeOK'
  BY <1>3, Typed, Updates, Counted DEF CallFails
<1>4. CASE Plan
  BY <1>4, Typed, Updates DEF Plan, States
<1>5. CASE Verify
  BY <1>5, Typed, Updates DEF Verify, TaskKinds
<1>6. CASE Work
  <2>1. tree.dirty \in BOOLEAN /\ "commit" \in Pcs
    BY DEF Trees, Pcs, PassPcs
  <2> QED BY <1>6, <2>1, Typed, Updates DEF Work
<1>7. CASE AgentFails
  <2>1. tree.dirty \in BOOLEAN
    BY DEF Trees
  <2> QED BY <1>7, <2>1, Typed, Updates DEF AgentFails
<1>8. CASE Commit
  <2>1. UNCHANGED <<remote, pr, removal, blank, raced, spent, origin, prRow>>
    BY <1>8, Typed DEF Commit
  <2>2. "push-work" \in Pcs /\ "judge" \in Pcs
    BY DEF Pcs, PassPcs
  <2>3. CASE Commits
    <3>1. made \in Nat /\ made < MaxCommits /\ MaxCommits \in Nat
      BY <2>3, WorkspaceAssumption DEF Commits, Numbered
    <3>2. made + 1 \in 0..MaxCommits
      BY <3>1
    <3>3. tree.branch \cup {made + 1} \in Contents
      BY <3>2 DEF Trees, Contents
    <3>4. tree' \in Trees
      BY <2>3, <3>3 DEF Commits, Trees
    <3>5. UNCHANGED queued
      BY <1>8, <2>3 DEF Commit, Commits
    <3> QED BY <2>1, <2>2, <2>3, <3>2, <3>4, <3>5, Typed DEF Commits
  <2>4. CASE Throws("task") /\ UNCHANGED <<tree, made>>
    BY <2>1, <2>4, Typed
  <2>5. CASE Move("task", "judge") /\ UNCHANGED <<jobVars, tree, made>>
    BY <2>1, <2>2, <2>5, Typed
  <2> QED BY <1>8, <2>3, <2>4, <2>5 DEF Commit, Commits
<1>9. CASE PushWork
  <2>1. RepoOf("task") \in Repos /\ "judge" \in Pcs
    BY DEF RepoOf, Places, Pcs, PassPcs
  <2> QED BY <1>9, <2>1, Typed DEF PushWork
<1>10. CASE PushWorkFails
  <2>1. "judge" \in Pcs
    BY DEF Pcs, PassPcs
  <2> QED BY <1>10, <2>1, Typed, Counted DEF PushWorkFails
<1>11. CASE Judge
  <2>1. CASE TaskDone /\ Advance("VERIFY")
    BY <1>11, <2>1, Typed, Updates DEF Judge, TaskKinds
  <2>2. CASE /\ actor["task"].attempt < MaxPasses
             /\ actor' = [actor EXCEPT !["task"].pc = "ready", !["task"].attempt = @ + 1]
             /\ UNCHANGED <<job, queued>>
    <3>1. actor["task"] \in Places /\ actor["task"].attempt + 1 \in 1..MaxPasses
      BY <2>2, WorkspaceAssumption DEF Places
    <3>2. [actor["task"] EXCEPT !.pc = "ready", !.attempt = @ + 1] \in Places
      BY <3>1 DEF Places, Pcs
    <3>3. actor' = [actor EXCEPT !["task"] =
                      [actor["task"] EXCEPT !.pc = "ready", !.attempt = @ + 1]]
      BY <2>2
    <3>4. actor' \in [Actors -> Places]
      BY <3>2, <3>3
    <3> QED BY <1>11, <2>2, <3>4 DEF Judge
  <2> QED BY <1>11, <2>1, <2>2 DEF Judge
<1>12. CASE PushFinal
  <2>1. RepoOf("task") \in Repos /\ \A pc \in {"present", "refresh", "create"} : pc \in Pcs
    BY DEF RepoOf, Places, Pcs, PushedPcs
  <2>2. UNCHANGED <<pr, removal, made, blank, raced, spent>>
    BY <1>12 DEF PushFinal
  <2>3. CASE Throws("task") /\ UNCHANGED <<tree, remote>>
    BY <2>2, <2>3, Typed
  <2>4. CASE /\ Pushed(RepoOf("task")) /\ UNCHANGED <<origin, prRow, queued>>
             /\ \E pc \in {"present", "refresh", "create"} : Move("task", pc)
    BY <2>1, <2>2, <2>4, Typed
  <2> QED BY <1>12, <2>3, <2>4 DEF PushFinal
<1>13. CASE CreatePr
  <2>1. "row" \in Pcs
    BY DEF Pcs, PushedPcs
  <2> QED BY <1>13, <2>1, Typed DEF CreatePr
<1>14. CASE CreateRow
  <2>1. "number" \in Pcs
    BY DEF Pcs, PushedPcs
  <2> QED BY <1>14, <2>1, Typed DEF CreateRow
<1>15. CASE SetPrNumber
  <2>1. "present" \in Pcs
    BY DEF Pcs, PushedPcs
  <2> QED BY <1>15, <2>1, Typed, Updates DEF SetPrNumber
<1>16. CASE RefreshPr
  <2>1. "present" \in Pcs
    BY DEF Pcs, PushedPcs
  <2> QED BY <1>16, <2>1, Typed DEF RefreshPr
<1>17. CASE Present
  BY <1>17, Typed, Updates DEF Present, States
<1>18. CASE ApprovePlan
  BY <1>18, Typed DEF ApprovePlan, TaskKinds
<1>19. CASE RequestChanges
  BY <1>19, Typed DEF RequestChanges, TaskKinds
<1>20. CASE Accept
  BY <1>20, Typed DEF Accept, States
<1>21. CASE SetRepo
  BY <1>21, Updates, Counted DEF SetRepo
<1>22. CASE Cleanup
  BY <1>22, Updates DEF Cleanup
<1>23. CASE AskDiff
  <2>1. [Idle EXCEPT !.pc = "look", !.repo = job.repoUrl] \in Places
    BY IdleParts DEF Jobs, Places, Pcs, PreparePcs
  <2> QED BY <1>23, <2>1, Counted DEF AskDiff
<1>24. CASE AnswerDiff
  BY <1>24, Updates DEF AnswerDiff
<1>25. CASE Crash
  <2>1. tree' \in {tree, NoTree, [NoTree EXCEPT !.git = "litter"]}
    BY <1>25 DEF Crash
  <2>2. tree' \in Trees
    BY <2>1, Updates
  <2>3. actor' \in [Actors -> Places] /\ removal' = FALSE /\ raced' \in BOOLEAN
    BY <1>25, Updates DEF Crash
  <2> QED BY <1>25, <2>2, <2>3, Counted DEF Crash
<1> QED
  BY <1>1, <1>2, <1>3, <1>4, <1>5, <1>6, <1>7, <1>8, <1>9, <1>10, <1>11, <1>12, <1>13,
     <1>14, <1>15, <1>16, <1>17, <1>18, <1>19, <1>20, <1>21, <1>22, <1>23, <1>24, <1>25
  DEF Next, TaskSteps, Stage

-------------------------------------------------------------------------------
(* The theorems.                                                           *)

\* A job begins with its plan, and an empty directory.
LEMMA InitInv == Init => IInv
<1> SUFFICES ASSUME Init PROVE IInv
  OBVIOUS
<1> USE WorkspaceAssumption
<1>1. actor \in [Actors -> Places] /\ \A a \in Actors : actor[a] = Idle
  BY IdleParts DEF Init
<1>2. /\ job \in Jobs /\ job.state = "PLANNING" /\ job.head = {} /\ ~ job.prNumber
      /\ queued = [kind |-> "PLAN", tries |-> 0]
      /\ origin \in {"GITHUB", "DASHBOARD"} /\ tree = NoTree /\ made = 0
      /\ prRow = FALSE /\ pr = FALSE /\ removal = FALSE /\ blank = FALSE /\ raced = FALSE
      /\ \A u \in Urls : remote[u] = {}
  BY DEF Init, Jobs, States, Repos, Contents
<1>3. TypeOK
  <2>1. remote \in [Urls -> Contents]
    BY DEF Init, Contents
  <2>2. spent \in Counts /\ queued \in Tasks
    BY DEF Init, Counts, Tasks, TaskKinds
  <2>3. made \in 0..MaxCommits
    BY <1>2
  <2> QED BY <1>1, <1>2, <2>1, <2>2, <2>3, NoTreeParts, Types
<1>4. Control
  BY <1>1, <1>2, Kinds, IdleParts, Stages DEF Control, At, PreparePcs, PassPcs, PushedPcs
<1>5. Tries
  BY <1>2 DEF Tries, Init
<1>6. RepoRead
  BY <1>1, IdleParts DEF RepoRead, At
<1>7. Numbered
  BY <1>2, NoTreeParts DEF Numbered
<1>8. MadeInTime
  BY <1>1, <1>2, Kinds, IdleParts DEF MadeInTime, At
<1>9. PrInOrder
  BY <1>1, <1>2, Kinds, IdleParts DEF PrInOrder, At
<1>10. HeadPushed
  BY <1>1, <1>2, Kinds, IdleParts DEF HeadPushed, PushedPcs
<1>11. BaseKept /\ DiffShowsResult
  BY <1>1, <1>2, Kinds, IdleParts, NoTreeParts DEF BaseKept, DiffShowsResult, HasGit, At
<1>12. TreeKept
  <2>1. /\ tree.git = "absent" /\ tree.branch = {} /\ tree.from = "none"
        /\ \A a \in Actors : actor[a].pc = "idle"
    BY <1>1, <1>2, NoTreeParts, IdleParts
  <2>2. FromInv
    BY <2>1 DEF FromInv, PassPcs
  <2>3. 1..made = {}
    BY <1>2
  <2> QED BY <1>2, <2>1, <2>2, <2>3, Kinds DEF TreeKept, At
<1> QED BY <1>3, <1>4, <1>5, <1>6, <1>7, <1>8, <1>9, <1>10, <1>11, <1>12 DEF IInv

\* Every step preserves the inductive invariant.
LEMMA Inductive == IInv /\ [Next]_vars => IInv'
<1> SUFFICES ASSUME IInv, [Next]_vars PROVE IInv'
  OBVIOUS
<1>1. CASE Next
  BY <1>1, TypeStep, ControlStep, TriesStep, RepoStep, NumberedStep, MadeStep, PrStep, HeadStep,
     TreeStep, BaseStep, DiffStep DEF IInv
<1>2. CASE UNCHANGED vars
  <2> USE <1>2 DEF IInv, vars, jobVars, gitVars, ghosts
  <2>1. TypeOK'
    BY Types
  <2>2. Control' /\ Tries' /\ RepoRead' /\ PrInOrder'
    BY DEF Control, Tries, RepoRead, PrInOrder, At, RepoOf
  <2>3. Numbered' /\ MadeInTime' /\ HeadPushed'
    BY DEF Numbered, MadeInTime, HeadPushed, At
  <2>4. TreeKept'
    BY DEF TreeKept, FromInv, Wanted, HasGit, At
  <2>5. BaseKept' /\ DiffShowsResult'
    BY DEF BaseKept, DiffShowsResult, HasGit, At
  <2> QED BY <2>1, <2>2, <2>3, <2>4, <2>5
<1> QED BY <1>1, <1>2

\* The inductive invariant holds of every state the system reaches.
LEMMA Invariance == Spec => []IInv
BY InitInv, Inductive, PTL DEF Spec

\* The job, its task, the directory and the PR keep their types.
THEOREM TypeCorrect == Spec => []TypeOK
<1>1. IInv => TypeOK
  BY DEF IInv
<1> QED BY <1>1, Invariance, PTL

\* Until its result is accepted, every commit of the job is on the branch in
\* its workspace, unless a setRepo met a running task or a crash.
THEOREM WorkSurvivesHolds == Spec => []WorkSurvives
<1>1. IInv => WorkSurvives
  BY DEF IInv, TreeKept, WorkSurvives
<1> QED BY <1>1, Invariance, PTL

\* The diff of a result shows it, unless a crash cut the making of its
\* workspace short, or a setRepo met a running task or a crash.
THEOREM DiffShowsResultHolds == Spec => []DiffShowsResult
<1>1. IInv => DiffShowsResult
  BY DEF IInv
<1> QED BY <1>1, Invariance, PTL

\* What waits for approval is what was made, pushed, in its PR, and made of the
\* code of the job's repo.
THEOREM PresentedIsPushedHolds == Spec => []PresentedIsPushed
<1>1. IInv => PresentedIsPushed
  <2> SUFFICES ASSUME IInv, job.state = "AWAITING_PR_APPROVAL", ~ raced
               PROVE  /\ 1..made \subseteq job.head /\ made > 0
                      /\ job.repoUrl # "none" => remote[job.repoUrl] = job.head
                      /\ origin = "GITHUB" => pr /\ prRow /\ job.prNumber
                      /\ tree.from = IF job.repoUrl = "none" THEN "scratch" ELSE job.repoUrl
    BY DEF PresentedIsPushed
  <2>1. made > 0 /\ made \in Nat
    BY Shape DEF IInv, MadeInTime
  <2>2. /\ 1..made \subseteq job.head
        /\ job.repoUrl # "none" => remote[job.repoUrl] = job.head
    BY DEF IInv, HeadPushed
  <2>3. origin = "GITHUB" => pr /\ prRow /\ job.prNumber
    BY DEF IInv, PrInOrder
  <2>4. /\ 1..made \subseteq tree.branch
        /\ removal => made = 0
        /\ ~ removal => FromInv
    BY DEF IInv, TreeKept
  <2>5. 1 \in tree.branch /\ FromInv
    BY <2>1, <2>4
  <2>6. tree.from = IF job.repoUrl = "none" THEN "scratch" ELSE job.repoUrl
    BY <2>5 DEF FromInv, Wanted
  <2> QED BY <2>1, <2>2, <2>3, <2>6
<1> QED BY <1>1, Invariance, PTL
===============================================================================

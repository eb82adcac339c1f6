------------------------------- MODULE AgentSession -------------------------------
(***************************************************************************)
(* The agent runs of one job with their plugins: AgentMemory, WorkerGuard  *)
(* and synchronous_delegate on one stream of tool calls, and the handlers  *)
(* of api/src/orchestrator/orchestrator.service.ts that start the runs in  *)
(* one workspace and remove the notes between units of work.               *)
(*                                                                         *)
(* A unit of work is the implementation of the plan, or one revision: its  *)
(* passes and its retries share the notes.  At most one agent process runs *)
(* at a time.  Hermes itself is external: the primary agent may have calls *)
(* in flight next to its delegations; a child lives between the two hooks  *)
(* of the delegate_task that made it, or longer if the delegation detached.*)
(***************************************************************************)
EXTENDS AgentMemory, WorkerGuard

CONSTANTS
  Children,    \* task ids of sub-agents, reused by the next process
  MaxUnits,    \* bound: units of work
  MaxPasses,   \* MAX_COMPLETION_RETRIES + 1
  MaxDelegations, \* bound: calls of delegate_task
  MaxLists,    \* bound: todo lists of the primary
  MaxDeaths,   \* bound: agent processes that die, or fail
  MaxCleans    \* bound: times an agent's command removes the notes

ASSUME SessionAssumption ==
  /\ "" \notin Children /\ "main" \notin Children
  /\ MaxUnits \in Nat \ {0} /\ MaxPasses \in Nat \ {0}
  /\ MaxDelegations \in Nat /\ MaxLists \in Nat /\ MaxDeaths \in Nat /\ MaxCleans \in Nat

VARIABLES
  stage,      \* of the job, with JUDGE for a judge between two passes
  work,       \* IMPLEMENT or REVISE: what the unit is
  checks,     \* the repository has a verification command
  passes,     \* passes of the completion loop begun
  phase,      \* OLYMPIAN_PHASE of the running process, "none" if none runs
  mainId,     \* the primary agent's task id
  supported,  \* async_delivery_supported in the process: its code, or forced to False
  deleg,      \* child -> its delegation
  call,       \* agent -> the kind of its call in flight
  unit,       \* ghost: [n, lists, reports], with the lists and reports before it
  lists,      \* ghost: lists the primary has made, numbered
  noted,      \* ghost: the last of the unit
  reports,    \* ghost: reports the primary was given, numbered
  posted,     \* ghost: those of the unit
  slips,      \* ghost: calls that were not treated as their agent's
  lost,       \* ghost: why no process could write the notes again that went
  spent       \* ghost: [delegations, deaths, cleans]

jobVars == <<stage, work, checks, passes>>
hermes == <<phase, mainId, supported, deleg, call>>
plugins == <<memory, file, guard>>
counts == <<unit, lists, noted, reports, posted>>
vars == <<jobVars, hermes, plugins, counts, slips, lost, spent>>

Main == "main"
Agents == {Main} \cup Children
Kinds == {"todo", "edit", "commit", "read", "build"}

Init ==
  /\ stage = "IMPLEMENT" /\ work = "IMPLEMENT" /\ checks \in BOOLEAN /\ passes = 0
  /\ phase = "none" /\ mainId = "" /\ supported \in {"default", "elsewhere"}
  /\ deleg = [c \in Children |-> "none"] /\ call = [a \in Agents |-> "none"]
  /\ memory = NewMemory /\ file = NoFile /\ guard = NewGuard
  /\ unit = [n |-> 1, lists |-> 0, reports |-> 0]
  /\ lists = 0 /\ noted = 0 /\ reports = 0 /\ posted = <<>>
  /\ slips = {} /\ lost = "no"
  /\ spent = [delegations |-> 0, deaths |-> 0, cleans |-> 0]

\* The stages whose tasks run passes of the completion loop.
WorkStages == {"IMPLEMENT", "REVISE"}

Id(a) == IF a = Main THEN mainId ELSE a
Hooked == phase \in WorkPhases
InFlight(c) == deleg[c] \in {"running", "finished"}
Living == {Main} \cup {c \in Children : deleg[c] \in {"running", "detached"}}

-------------------------------------------------------------------------------
(* The orchestrator.                                                       *)

\* Fault: the helper is left as it is.
EnsurePatchLate(helper) == helper

\* _ensure_patch, on registration and before every request to the model: where
\* the helper is found, it is forced to answer False.
EnsurePatch(helper) == IF helper = "default" THEN "forced" ELSE helper

\* A container with fresh plugins.
Start(p) ==
  /\ phase' = p
  /\ mainId' \in {"", "main"}
  /\ supported' = EnsurePatch(supported)
  /\ UNCHANGED <<memory, guard, deleg, call>>

\* The process and all that was in it is gone.
Exit ==
  /\ phase' = "none" /\ mainId' = ""
  /\ memory' = NewMemory /\ guard' = NewGuard
  /\ deleg' = [c \in Children |-> "none"] /\ call' = [a \in Agents |-> "none"]
  /\ UNCHANGED <<supported, file>>

\* A pass of runWithCompletionLoop, given the notes that are there.
StartPass ==
  /\ phase = "none" /\ stage \in WorkStages
  /\ Start(stage)
  /\ passes' = passes + 1
  /\ UNCHANGED <<stage, work, checks, file, counts, slips, lost, spent>>

StartJudge ==
  /\ phase = "none" /\ stage = "JUDGE"
  /\ Start("JUDGE")
  /\ UNCHANGED <<jobVars, file, counts, slips, lost, spent>>

\* The process exits once nothing is in flight; detached children end with it.
Finished == phase # "none" /\ \A a \in Agents : call[a] = "none"
                           /\ \A c \in Children : ~ InFlight(c)

PassEnds ==
  /\ Finished /\ phase \in WorkStages
  /\ Exit
  /\ stage' \in {"JUDGE", "VERIFY"}
  /\ UNCHANGED <<work, checks, passes, counts, slips, lost, spent>>

\* The judge asks for another pass while the budget lasts.
JudgeEnds ==
  /\ Finished /\ phase = "JUDGE"
  /\ Exit
  /\ stage' \in {"VERIFY"} \cup (IF passes < MaxPasses THEN {work} ELSE {})
  /\ UNCHANGED <<work, checks, passes, counts, slips, lost, spent>>

\* Killed, timed out, or failed: the stage's task is tried again.
Dies ==
  /\ phase # "none" /\ spent.deaths < MaxDeaths
  /\ spent' = [spent EXCEPT !.deaths = @ + 1]
  /\ Exit
  /\ stage' = work /\ passes' = 0
  /\ lost' = IF ~ file.there /\ posted \o <<noted>> # <<0>> THEN "outside" ELSE lost
  /\ UNCHANGED <<work, checks, counts, slips>>

\* The stage after VERIFY, REVIEW and OPEN_PR: a revision is a unit of its own.
MovesTo(stages) ==
  \E s \in stages :
    /\ stage' = s
    /\ IF s # "REVISE" THEN UNCHANGED <<work, passes, unit, noted, posted, lost>>
       ELSE /\ unit.n < MaxUnits
            /\ unit' = [n |-> unit.n + 1, lists |-> lists, reports |-> reports]
            /\ work' = "REVISE" /\ passes' = 0
            /\ noted' = 0 /\ posted' = <<>> /\ lost' = "no"

\* Fault: the notes stay for the next unit.
VerifyKeeping ==
  /\ stage = "VERIFY" /\ phase = "none"
  /\ MovesTo(IF checks THEN {"REVIEW", "REVISE", "OPEN_PR"} ELSE {"REVIEW"})
  /\ UNCHANGED <<checks, hermes, plugins, lists, reports, slips, spent>>

\* handleVerify removes the notes where there is a command to run: verifyCommandFor
\* finds one for the job, or does not.
Verify ==
  /\ stage = "VERIFY" /\ phase = "none"
  /\ IF checks
     THEN file' = NoFile /\ MovesTo({"REVIEW", "REVISE", "OPEN_PR"})
     ELSE UNCHANGED file /\ MovesTo({"REVIEW"})
  /\ UNCHANGED <<checks, hermes, memory, guard, lists, reports, slips, spent>>

\* handleReview removes them before its run, whose calls no hook sees.
Review ==
  /\ stage = "REVIEW" /\ phase = "none"
  /\ file' = NoFile
  /\ MovesTo({"REVIEW", "REVISE", "OPEN_PR"})
  /\ UNCHANGED <<checks, hermes, memory, guard, lists, reports, slips, spent>>

\* Feedback that came late, or a request for changes after the presentation.
Reopen ==
  /\ stage = "OPEN_PR" /\ phase = "none"
  /\ MovesTo({"REVISE"})
  /\ UNCHANGED <<checks, hermes, plugins, lists, reports, slips, spent>>

-------------------------------------------------------------------------------
(* The tool calls.                                                         *)

\* Before delegate_task, which only the primary has; one child per call.
Delegate(c) ==
  /\ phase \in WorkStages /\ deleg[c] = "none" /\ spent.delegations < MaxDelegations
  /\ deleg' = [deleg EXCEPT ![c] = "running"]
  /\ spent' = [spent EXCEPT !.delegations = @ + 1]
  /\ PreDelegate(mainId) /\ GuardPreDelegate(mainId)
  /\ UNCHANGED <<jobVars, phase, mainId, supported, call, counts, slips, lost>>

ChildEnds(c) ==
  /\ deleg[c] \in {"running", "detached"} /\ call[c] = "none"
  /\ deleg' = [deleg EXCEPT ![c] = IF @ = "running" THEN "finished" ELSE "over"]
  /\ UNCHANGED <<jobVars, phase, mainId, supported, call, plugins, counts, slips, lost, spent>>

\* A delegation that waited for its child returns the child's report.
Report(c) ==
  /\ supported = "forced" /\ deleg[c] = "finished" /\ phase # "none"
  /\ deleg' = [deleg EXCEPT ![c] = "over"]
  /\ reports' = reports + 1
  /\ posted' = Append(posted, reports + 1)
  /\ PostDelegate(mainId, reports + 1) /\ GuardPostDelegate
  /\ UNCHANGED <<jobVars, phase, mainId, supported, call, unit, lists, noted, slips, lost, spent>>

\* One that did not is over with an acknowledgement.
Dispatched(c) ==
  /\ supported # "forced" /\ InFlight(c) /\ phase # "none"
  /\ deleg' = [deleg EXCEPT ![c] = IF @ = "running" THEN "detached" ELSE "over"]
  /\ PostDelegate(mainId, 0) /\ GuardPostDelegate
  /\ UNCHANGED <<jobVars, phase, mainId, supported, call, counts, slips, lost, spent>>

\* Who is treated as the other kind of agent when it is held back, or is not.
Slip(a, held) == IF held = (a = Main) THEN {} ELSE {IF held THEN "child held" ELSE "primary free"}

\* Before another call; one that is blocked is not made.
Call(a, kind) ==
  /\ phase # "none" /\ a \in Living /\ call[a] = "none"
  /\ IF Hooked
     THEN /\ PreCall(Id(a)) /\ GuardPreCall(Id(a))
          /\ call' = [call EXCEPT ![a] = IF Blocked(Id(a), kind) THEN @ ELSE kind]
          /\ slips' = IF kind # "edit" THEN slips ELSE slips \cup Slip(a, Blocked(Id(a), kind))
     ELSE /\ call' = [call EXCEPT ![a] = kind]
          /\ UNCHANGED <<memory, file, guard, slips>>
  /\ UNCHANGED <<jobVars, phase, mainId, supported, deleg, counts, lost, spent>>

Calling(a, kind) == phase # "none" /\ call[a] = kind
Called(a) == call' = [call EXCEPT ![a] = "none"]

\* The command of a build, such as git clean -fdx, removes the notes; no one has
\* them then if no hook after a call of this process has read them before.
Clean(a) ==
  /\ Calling(a, "build") /\ file.there /\ spent.cleans < MaxCleans
  /\ spent' = [spent EXCEPT !.cleans = @ + 1]
  /\ file' = NoFile
  /\ lost' = CASE memory.seeded -> lost
                [] phase \in WorkStages -> "unseeded"
                [] OTHER -> "outside"
  /\ UNCHANGED <<jobVars, hermes, memory, guard, counts, slips>>

\* After todo.  A list may come out empty.
Todo(a) ==
  /\ Calling(a, "todo")
  /\ \E empty \in BOOLEAN :
       LET made == a = Main /\ phase \in WorkStages /\ ~ empty
           list == CASE empty -> NoList
                     [] made -> [by |-> "main", n |-> lists + 1]
                     [] OTHER -> [by |-> "other", n |-> 0]
       IN /\ made => lists < MaxLists
          /\ lists' = IF made THEN lists + 1 ELSE lists
          /\ noted' = IF made THEN lists + 1 ELSE noted
          /\ IF Hooked THEN PostTodo(Id(a), list) ELSE UNCHANGED <<memory, file>>
  /\ Called(a)
  /\ UNCHANGED <<jobVars, phase, mainId, supported, deleg, guard, unit, reports, posted,
                 slips, lost, spent>>

\* After another call: the read's result is changed last.
Other(a) ==
  /\ phase # "none" /\ call[a] \in Kinds \ {"todo"}
  /\ IF ~ Hooked THEN UNCHANGED <<memory, file, slips>>
     ELSE /\ PostCall
          /\ slips' = IF call[a] # "read" THEN slips ELSE slips \cup Slip(a, Capped(Id(a), "read"))
  /\ Called(a)
  /\ UNCHANGED <<jobVars, phase, mainId, supported, deleg, guard, counts, lost, spent>>

-------------------------------------------------------------------------------

Next ==
  \/ StartPass \/ StartJudge \/ PassEnds \/ JudgeEnds \/ Dies
  \/ Verify \/ Review \/ Reopen
  \/ \E c \in Children : Delegate(c) \/ ChildEnds(c) \/ Report(c) \/ Dispatched(c)
  \/ \E a \in Agents : Clean(a) \/ Todo(a) \/ Other(a)
  \/ \E a \in Agents, kind \in Kinds : Call(a, kind)

Spec == Init /\ [][Next]_vars
================================================================================

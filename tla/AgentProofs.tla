------------------------------ MODULE AgentProofs ------------------------------
(***************************************************************************)
(* Theorems about the agent processes: AgentSession, for any children,     *)
(* units of work, passes, delegations, lists, deaths and removals of the   *)
(* notes; and AgentOutput, for outputs of any length.                      *)
(*                                                                         *)
(* The second half is about recursive functions: the scanner, the parser   *)
(* and FlattenSeq.  That the equation of such a function has a solution,   *)
(* and what the solution computes, is proved by the induction of LeastOf.  *)
(***************************************************************************)
EXTENDS AgentSessionProps, AgentOutputProps, TLAPS, FiniteSetTheorems, SequenceTheorems,
        WellFoundedInduction

-------------------------------------------------------------------------------
(* The types.                                                              *)

Entry == [n : Nat, report : Nat]

Notes == [there : BOOLEAN, checklist : Lists, findings : Seq(Entry)]

Memories == [primary : Ids, active : Nat, subagents : SUBSET Ids, seeded : BOOLEAN,
             checklist : Lists, findings : Seq(Entry), delegations : Nat]

Guards == [primary : Ids, active : Nat, subagents : SUBSET Ids]

\* The orchestrator's part, with the process that runs.
OrchestratorTyped ==
  /\ stage \in {"IMPLEMENT", "JUDGE", "VERIFY", "REVIEW", "REVISE", "OPEN_PR"}
  /\ work \in WorkStages /\ checks \in BOOLEAN /\ passes \in 0..MaxPasses
  /\ stage \in WorkStages /\ phase = "none" => passes < MaxPasses
  /\ phase \in {"none", "JUDGE"} \cup WorkStages
  /\ phase # "none" => phase = stage /\ supported # "default"
  /\ mainId \in {"", "main"} /\ supported \in {"default", "elsewhere", "forced"}
  /\ unit \in [n : Nat, lists : Nat, reports : Nat]
  /\ spent \in [delegations : Nat, deaths : Nat, cleans : Nat]

\* What the agents and the plugins keep.
AgentsTyped ==
  /\ deleg \in [Children -> {"none", "running", "finished", "detached", "over"}]
  /\ call \in [Agents -> Kinds \cup {"none"}]
  /\ memory \in Memories /\ file \in Notes /\ guard \in Guards
  /\ Len(file.findings) <= Budget
  /\ lists \in 0..MaxLists /\ noted \in Nat /\ reports \in Nat /\ posted \in Seq(Nat)

\* A process that is not there has nothing, and a judge's plugins do nothing.
Idle ==
  /\ phase = "none" => mainId = "" /\ call = [a \in Agents |-> "none"]
  /\ phase \notin WorkStages => /\ memory = NewMemory /\ guard = NewGuard
                                /\ deleg = [c \in Children |-> "none"]

Typed == OrchestratorTyped /\ AgentsTyped /\ Idle

-------------------------------------------------------------------------------
(* Who is who.                                                             *)

Flying == {c \in Children : InFlight(c)}

\* A plugin counts the delegations in flight, has the primary's task id before
\* there is a child, and takes none but children for children.
Knows(p) ==
  /\ p.active = Cardinality(Flying)
  /\ p.subagents \subseteq Children
  /\ mainId = "main" => p.primary \in {"", "main"}
  /\ mainId = "main" /\ (\E c \in Children : deleg[c] # "none") => p.primary = "main"

\* A delegation that is forced to wait has its child in flight, so that a child
\* with a call is known to the guard, whatever it takes for the primary's id.
Known ==
  /\ IsFiniteSet(Flying)
  /\ Knows(memory) /\ Knows(guard)
  /\ memory.primary \in {"", mainId}
  /\ \A c \in Children : call[c] # "none" => deleg[c] \in {"running", "detached"}
  /\ supported = "forced" =>
       /\ \A c \in Children : deleg[c] # "detached"
       /\ \A c \in Children : call[c] # "none" /\ Hooked => c \in guard.subagents
       /\ guard.primary \in Children => guard.primary \in guard.subagents

-------------------------------------------------------------------------------
(* The notes.                                                              *)

\* There is nothing where nothing was written or read.
Blank ==
  /\ ~ file.there => file = NoFile
  /\ ~ memory.seeded => memory.checklist = NoList /\ memory.findings = <<>>

Up(f) == \A i, j \in 1..Len(f) : i < j => f[i].n < f[j].n

\* The numbers go up, and go on from the highest.
Numbered(m) ==
  /\ Up(m.findings)
  /\ \A i \in 1..Len(m.findings) : m.findings[i].n <= m.delegations

NumbersFit == Up(file.findings) /\ Numbered(memory)

ListOf(n) == IF n = 0 THEN NoList ELSE [by |-> "main", n |-> n]

\* The findings f are the newest of the reports p, all of them or at least as
\* many as fit.
EndsIn(f, p) ==
  /\ Len(f) <= Len(p) /\ (Len(f) >= Budget \/ Len(f) = Len(p))
  /\ \A i \in 1..Len(f) : f[i].report = p[Len(p) - Len(f) + i]

\* Notes with the primary's list n and the reports p.
Fit(m, p, n) == EndsIn(m.findings, p) /\ (Attached => m.checklist = ListOf(n))

Nothing == posted = <<>> /\ (Attached => noted = 0)
Building == \E a \in Agents : call[a] = "build"
AtWork == stage \in WorkStages \cup {"JUDGE"}

\* Memory and file agree on what was noted, and the file is gone only while there
\* is nothing to note, or a call that removes it has still to end.
NotesKept ==
  AtWork /\ lost = "no" =>
    /\ file.there => Fit(file, posted, noted)
    /\ memory.seeded => Fit(memory, posted, noted)
    /\ ~ file.there => Nothing \/ (memory.seeded /\ Building)

\* Notes made after the first l lists and r reports.
Since(m, l, r) ==
  /\ m.checklist.by = "main" => m.checklist.n > l
  /\ \A i \in 1..Len(m.findings) : m.findings[i].report > r

\* What is there while a unit is at work was noted in it, and is gone before the
\* next one.
OfThisUnit ==
  /\ unit.lists <= lists /\ unit.reports <= reports
  /\ AtWork => Since(file, unit.lists, unit.reports) /\ Since(memory, unit.lists, unit.reports)
  /\ stage = "OPEN_PR" => ~ file.there

Noted == Blank /\ NumbersFit /\ NotesKept /\ OfThisUnit

-------------------------------------------------------------------------------
(* What the plugins' functions return.                                     *)

\* The empty findings, and the empty list.
LEMMA NothingNoted ==
  /\ NoList \in Lists /\ <<>> \in Seq(Entry) /\ Len(<<>>) = 0
  /\ NewMemory \in Memories /\ NoFile \in Notes /\ NewGuard \in Guards
<1>1. NoList \in Lists
  BY DEF NoList, Lists
<1>2. <<>> \in Seq(Entry) /\ Len(<<>>) = 0
  OBVIOUS
<1> QED BY <1>1, <1>2 DEF NewMemory, NoFile, NewGuard, Memories, Notes, Guards, Ids

\* Trimming keeps the newest entries.
LEMMA TrimmedIs ==
  ASSUME NEW f \in Seq(Entry)
  PROVE  /\ Trimmed(f) \in Seq(Entry)
         /\ Len(Trimmed(f)) = IF Len(f) <= Budget THEN Len(f) ELSE Budget
         /\ \A i \in 1..Len(Trimmed(f)) : Trimmed(f)[i] = f[Len(f) - Len(Trimmed(f)) + i]
<1>0. Len(f) \in Nat /\ Budget \in Nat \ {0}
  BY BudgetAssumption
<1>1. CASE Len(f) <= Budget
  BY <1>0, <1>1 DEF Trimmed
<1>2. CASE ~ Len(f) <= Budget
  <2> DEFINE m == Len(f) - Budget + 1
  <2>1. Trimmed(f) = SubSeq(f, m, Len(f))
    BY <1>2 DEF Trimmed
  <2>2. m \in 1..Len(f) /\ \A i \in m..Len(f) : i \in 1..Len(f)
    BY <1>0, <1>2
  <2>3. \A i \in m..Len(f) : f[i] \in Entry
    BY <2>2
  <2>4. SubSeq(f, m, Len(f)) \in Seq(Entry) /\ Len(SubSeq(f, m, Len(f))) = Len(f) - m + 1
        /\ \A i \in 1..(Len(f) - m + 1) : SubSeq(f, m, Len(f))[i] = f[m + i - 1]
    BY <1>0, <2>2, <2>3, SubSeqProperties
  <2> QED BY <1>0, <1>2, <2>1, <2>4
<1> QED BY <1>1, <1>2

\* The file made of a memory.
LEMMA ComposedType ==
  ASSUME NEW m \in Memories
  PROVE  /\ Composed(m) \in Notes /\ Len(Composed(m).findings) <= Budget
         /\ Composed(m).there /\ Composed(m).checklist = m.checklist
         /\ Composed(m).findings = Trimmed(m.findings)
<1>1. m.findings \in Seq(Entry) /\ m.checklist \in Lists
  BY DEF Memories
<1>2. Trimmed(m.findings) \in Seq(Entry) /\ Len(Trimmed(m.findings)) <= Budget
  BY <1>1, TrimmedIs, BudgetAssumption
<1> QED BY <1>1, <1>2 DEF Composed, Notes

\* What is there already stays; what is composed is there.
LEMMA HealedType ==
  ASSUME NEW m \in Memories, file \in Notes, Len(file.findings) <= Budget
  PROVE  Healed(m) \in Notes /\ Len(Healed(m).findings) <= Budget
BY ComposedType DEF Healed

\* The highest number of a file whose numbers go up is its last one.
LEMMA HighestNumber ==
  ASSUME NEW f \in Seq(Entry), Up(f)
  PROVE  LET h == Max({0} \cup {e.n : e \in ToSet(f)})
         IN h \in Nat /\ \A i \in 1..Len(f) : f[i].n <= h
<1> DEFINE S == {0} \cup {e.n : e \in ToSet(f)}
<1>a. Len(f) \in Nat /\ \A i \in 1..Len(f) : f[i] \in Entry
  OBVIOUS
<1>0. Len(f) \in Nat /\ \A i \in 1..Len(f) : f[i].n \in Nat
  BY <1>a DEF Entry
<1>1. ToSet(f) = {f[i] : i \in 1..Len(f)}
  BY DEF ToSet
<1>2. S = {0} \cup {f[i].n : i \in 1..Len(f)}
  BY <1>1
<1> HIDE DEF S
<1>3. \E x \in S : \A y \in S : x >= y
  <2>1. CASE Len(f) = 0
    <3>1. S = {0}
      BY <1>2, <2>1
    <3> QED BY <3>1
  <2>2. CASE Len(f) # 0
    <3>1. Len(f) \in 1..Len(f)
      BY <1>0, <2>2
    <3>2. \A i \in 1..Len(f) : f[Len(f)].n >= f[i].n
      BY <1>0, <3>1 DEF Up
    <3>3. f[Len(f)].n \in S
      BY <1>2, <3>1
    <3>4. \A y \in S : f[Len(f)].n >= y
      BY <1>0, <1>2, <3>1, <3>2
    <3> QED BY <3>3, <3>4
  <2> QED BY <2>1, <2>2
<1>4. Max(S) \in S /\ \A y \in S : Max(S) >= y
  BY <1>3 DEF Max
<1>5. S \subseteq Nat
  BY <1>0, <1>2
<1>6. \A i \in 1..Len(f) : f[i].n \in S
  BY <1>2
<1>7. Max(S) \in Nat /\ \A i \in 1..Len(f) : f[i].n <= Max(S)
  BY <1>0, <1>4, <1>5, <1>6
<1> QED BY <1>7 DEF S

\* A memory that is read from a file has its notes.
LEMMA SeededType ==
  ASSUME memory \in Memories, file \in Notes, Up(file.findings)
  PROVE  LET m == Seeded(memory)
         IN /\ m \in Memories /\ m.seeded
            /\ m.primary = memory.primary /\ m.active = memory.active
            /\ m.subagents = memory.subagents
            /\ memory.seeded => m = memory
            /\ ~ memory.seeded => /\ m.checklist = file.checklist /\ m.findings = file.findings
                                  /\ \A i \in 1..Len(m.findings) :
                                       m.findings[i].n <= m.delegations
<1>1. CASE memory.seeded
  BY <1>1 DEF Seeded
<1>2. CASE ~ memory.seeded
  <2> DEFINE h == Max({0} \cup {e.n : e \in ToSet(file.findings)})
  <2>1. h \in Nat /\ \A i \in 1..Len(file.findings) : file.findings[i].n <= h
    BY HighestNumber DEF Notes
  <2>2. Seeded(memory) = [memory EXCEPT !.seeded = TRUE, !.checklist = file.checklist,
                                        !.findings = file.findings, !.delegations = h]
    BY <1>2 DEF Seeded
  <2> HIDE DEF h
  <2> QED BY <1>2, <2>1, <2>2 DEF Memories, Notes
<1> QED BY <1>1, <1>2

\* A count of delegations is not taken below zero.
LEMMA CountedDown ==
  ASSUME NEW n \in Nat
  PROVE  /\ Max({0, n - 1}) = IF n = 0 THEN 0 ELSE n - 1
         /\ Max({0, n - 1}) \in Nat
<1> DEFINE S == {0, n - 1}
           h == IF n = 0 THEN 0 ELSE n - 1
<1>1. h \in S /\ \A y \in S : h >= y
  OBVIOUS
<1>2. \A x \in S : (\A y \in S : x >= y) => x = h
  OBVIOUS
<1>3. Max(S) \in S /\ \A y \in S : Max(S) >= y
  BY <1>1 DEF Max
<1> QED BY <1>2, <1>3

\* The hooks keep the types.
LEMMA MemoryHooks ==
  ASSUME memory \in Memories, file \in Notes, Len(file.findings) <= Budget, Up(file.findings),
         NEW id \in Ids, NEW list \in Lists, NEW report \in Nat,
         PreDelegate(id) \/ PreCall(id) \/ PostDelegate(id, report) \/ PostTodo(id, list) \/ PostCall
  PROVE  memory' \in Memories /\ file' \in Notes /\ Len(file'.findings) <= Budget
<1>1. Seeded(memory) \in Memories
  BY SeededType
<1>2. ASSUME NEW m \in Memories
      PROVE  /\ NotePrimary(m, id) \in Memories /\ Observed(m, id) \in Memories
             /\ [m EXCEPT !.active = @ + 1] \in Memories
             /\ [m EXCEPT !.active = Max({0, @ - 1})] \in Memories
  <2>1. m.active \in Nat /\ m.active + 1 \in Nat
    BY DEF Memories
  <2>2. Max({0, m.active - 1}) \in Nat
    BY <2>1, CountedDown, Zenon
  <2> QED BY <2>1, <2>2 DEF Memories, NotePrimary, Observed
<1>3. CASE PreDelegate(id) \/ PreCall(id)
  BY <1>2, <1>3 DEF PreDelegate, PreCall
<1>4. CASE PostDelegate(id, report)
  <2> DEFINE m == [NotePrimary(Seeded(memory), id) EXCEPT !.active = Max({0, @ - 1})]
             entry == [n |-> m.delegations + 1, report |-> report]
             noted1 == [m EXCEPT !.delegations = @ + 1, !.findings = Append(@, entry)]
  <2>1. m \in Memories
    BY <1>1, <1>2
  <2>2. IF report = 0 THEN memory' = m /\ file' = Healed(m)
        ELSE memory' = noted1 /\ file' = Composed(noted1)
    BY <1>4 DEF PostDelegate
  <2> HIDE DEF m
  <2>3. m.delegations + 1 \in Nat /\ m.findings \in Seq(Entry)
    BY <2>1 DEF Memories
  <2>4. entry \in Entry
    BY <2>3 DEF Entry
  <2> HIDE DEF entry
  <2>5. Append(m.findings, entry) \in Seq(Entry)
    BY <2>3, <2>4
  <2>6. noted1 = [m EXCEPT !.delegations = m.delegations + 1,
                           !.findings = Append(m.findings, entry)]
    BY <2>1 DEF Memories
  <2>7. noted1 \in Memories
    BY <2>1, <2>3, <2>5, <2>6 DEF Memories
  <2> HIDE DEF noted1
  <2> QED BY <2>1, <2>2, <2>7, HealedType, ComposedType
<1>5. CASE PostTodo(id, list)
  <2> DEFINE m == Observed(Seeded(memory), id)
             noted1 == [m EXCEPT !.checklist = list]
  <2>1. m \in Memories
    BY <1>1, <1>2
  <2>2. IF id \in m.subagents \/ list = NoList THEN memory' = m /\ file' = Healed(m)
        ELSE memory' = noted1 /\ file' = Composed(noted1)
    BY <1>5 DEF PostTodo
  <2>3. noted1 \in Memories
    BY <2>1 DEF Memories
  <2> HIDE DEF m, noted1
  <2> QED BY <2>1, <2>2, <2>3, HealedType, ComposedType
<1>6. CASE PostCall
  BY <1>1, <1>6, HealedType DEF PostCall
<1> QED BY <1>3, <1>4, <1>5, <1>6

LEMMA GuardHooks ==
  ASSUME guard \in Guards, NEW id \in Ids,
         GuardPreDelegate(id) \/ GuardPreCall(id) \/ GuardPostDelegate
  PROVE  guard' \in Guards
<1>1. Max({0, guard.active - 1}) \in Nat
  BY CountedDown DEF Guards
<1>2. CASE GuardPreDelegate(id)
  <2>1. guard' = [primary |-> IF guard.primary = "" THEN id ELSE guard.primary,
                  active |-> guard.active + 1, subagents |-> guard.subagents]
    BY <1>2 DEF Guards, GuardPreDelegate
  <2>2. guard.primary \in Ids /\ guard.active + 1 \in Nat /\ guard.subagents \in SUBSET Ids
    BY DEF Guards
  <2> QED BY <2>1, <2>2 DEF Guards
<1>3. CASE GuardPreCall(id)
  BY <1>3 DEF Guards, GuardPreCall, Seen
<1>4. CASE GuardPostDelegate
  BY <1>1, <1>4 DEF Guards, GuardPostDelegate
<1> QED BY <1>2, <1>3, <1>4

\* The ids the hooks are given.
LEMMA IdsOfAgents ==
  /\ Main \in Agents /\ Children \subseteq Agents /\ Main = "main"
  /\ "" \notin Children /\ "main" \notin Children
  /\ \A a \in Agents : a # Main => a \in Children
  /\ \A a \in Agents : Id(a) = IF a = Main THEN mainId ELSE a
  /\ mainId \in {"", "main"} => \A a \in Agents : Id(a) \in Ids
BY SessionAssumption DEF Main, Agents, Id, Ids

-------------------------------------------------------------------------------
(* Every step keeps the types.                                             *)

\* A process starts with fresh plugins and the helper patched.
LEMMA StartTyped ==
  ASSUME Typed, NEW p, Start(p), phase = "none", p \in WorkStages \cup {"JUDGE"}, stage = p,
         UNCHANGED <<stage, work, checks, file, counts, slips, lost, spent>>,
         passes' \in 0..MaxPasses
  PROVE  Typed'
<1> USE DEF counts
<1>1. /\ phase' = p /\ mainId' \in {"", "main"} /\ supported' = EnsurePatch(supported)
      /\ UNCHANGED <<memory, guard, deleg, call>>
  BY DEF Start
<1>2. OrchestratorTyped'
  BY <1>1 DEF Typed, OrchestratorTyped, EnsurePatch, WorkStages
<1>3. AgentsTyped'
  BY <1>1 DEF Typed, AgentsTyped
<1>4. Idle'
  BY <1>1 DEF Typed, Idle, WorkStages
<1> QED BY <1>2, <1>3, <1>4 DEF Typed

\* A process ends with all that was in it.
LEMMA ExitTyped ==
  ASSUME Typed, Exit, UNCHANGED <<work, checks, counts>>,
         stage' \in WorkStages \cup {"JUDGE", "VERIFY"}, passes' \in 0..MaxPasses,
         stage' \in WorkStages => passes' < MaxPasses,
         spent' \in [delegations : Nat, deaths : Nat, cleans : Nat]
  PROVE  Typed'
<1> USE DEF counts
<1>1. /\ phase' = "none" /\ mainId' = "" /\ memory' = NewMemory /\ guard' = NewGuard
      /\ deleg' = [c \in Children |-> "none"] /\ call' = [a \in Agents |-> "none"]
      /\ UNCHANGED <<supported, file>>
  BY DEF Exit
<1>2. OrchestratorTyped'
  BY <1>1 DEF Typed, OrchestratorTyped, WorkStages
<1>3. AgentsTyped'
  BY <1>1, NothingNoted DEF Typed, AgentsTyped
<1>4. Idle'
  BY <1>1 DEF Typed, Idle
<1> QED BY <1>2, <1>3, <1>4 DEF Typed

\* The stages between the processes.
LEMMA MovesTyped ==
  ASSUME Typed, phase = "none", stage \in {"VERIFY", "REVIEW", "OPEN_PR"},
         NEW s \in {"REVIEW", "REVISE", "OPEN_PR"}, MovesTo({s}), file' \in {file, NoFile},
         UNCHANGED <<checks, hermes, memory, guard, lists, reports, slips, spent>>
  PROVE  Typed'
<1> USE DEF hermes
<1>0. /\ MaxPasses \in Nat \ {0} /\ Budget \in Nat \ {0}
      /\ NoFile \in Notes /\ Len(NoFile.findings) = 0
  BY SessionAssumption, BudgetAssumption, NothingNoted DEF NoFile
<1>1. /\ stage' = s
      /\ IF s # "REVISE" THEN UNCHANGED <<work, passes, unit, noted, posted, lost>>
         ELSE /\ unit' = [n |-> unit.n + 1, lists |-> lists, reports |-> reports]
              /\ work' = "REVISE" /\ passes' = 0 /\ noted' = 0 /\ posted' = <<>> /\ lost' = "no"
  BY DEF MovesTo
<1>2. OrchestratorTyped'
  <2>a. lists \in 0..MaxLists /\ reports \in Nat /\ unit \in [n : Nat, lists : Nat, reports : Nat]
    BY DEF Typed, AgentsTyped, OrchestratorTyped
  <2>b. MaxLists \in Nat
    BY SessionAssumption
  <2>0. lists \in Nat /\ reports \in Nat /\ unit.n + 1 \in Nat
    BY <2>a, <2>b
  <2>1. CASE s # "REVISE"
    BY <1>1, <2>1 DEF Typed, OrchestratorTyped, WorkStages
  <2>2. CASE s = "REVISE"
    <3>1. unit' \in [n : Nat, lists : Nat, reports : Nat]
      BY <1>1, <2>0, <2>2
    <3>2. stage' = "REVISE" /\ work' = "REVISE" /\ passes' = 0
      BY <1>1, <2>2
    <3>3. 0 \in 0..MaxPasses /\ 0 < MaxPasses
      BY <1>0
    <3> QED BY <3>1, <3>2, <3>3 DEF Typed, OrchestratorTyped, WorkStages
  <2> QED BY <2>1, <2>2
<1>3. AgentsTyped'
  <2>0. noted \in Nat /\ posted \in Seq(Nat)
    BY DEF Typed, AgentsTyped
  <2>1. noted' \in Nat /\ posted' \in Seq(Nat)
    <3>1. <<>> \in Seq(Nat)
      OBVIOUS
    <3>2. CASE s = "REVISE"
      BY <1>1, <3>1, <3>2
    <3>3. CASE s # "REVISE"
      BY <1>1, <2>0, <3>3
    <3> QED BY <3>2, <3>3
  <2>2. file' \in Notes /\ Len(file'.findings) <= Budget
    BY <1>0 DEF Typed, AgentsTyped
  <2> QED BY <2>1, <2>2 DEF Typed, AgentsTyped
<1>4. Idle'
  BY <1>1 DEF Typed, Idle
<1> QED BY <1>2, <1>3, <1>4 DEF Typed

\* A call, or a change of one child, in a process.
LEMMA CallsTyped ==
  ASSUME Typed, UNCHANGED <<jobVars, phase, mainId, supported, unit>>,
         phase # "none",
         deleg' \in [Children -> {"none", "running", "finished", "detached", "over"}],
         call' \in [Agents -> Kinds \cup {"none"}],
         memory' \in Memories, file' \in Notes, guard' \in Guards, Len(file'.findings) <= Budget,
         phase \notin WorkStages => UNCHANGED <<memory, guard, deleg>>,
         lists' \in 0..MaxLists, noted' \in Nat, reports' \in Nat, posted' \in Seq(Nat),
         spent' \in [delegations : Nat, deaths : Nat, cleans : Nat]
  PROVE  Typed'
<1>1. OrchestratorTyped'
  BY DEF Typed, OrchestratorTyped, jobVars
<1>2. AgentsTyped'
  BY DEF AgentsTyped
<1>3. Idle'
  BY DEF Typed, Idle
<1> QED BY <1>1, <1>2, <1>3 DEF Typed

\* What the steps in a process start from.
LEMMA TypedNow ==
  ASSUME Typed
  PROVE  /\ deleg \in [Children -> {"none", "running", "finished", "detached", "over"}]
         /\ call \in [Agents -> Kinds \cup {"none"}]
         /\ memory \in Memories /\ file \in Notes /\ guard \in Guards
         /\ Len(file.findings) <= Budget
         /\ MaxLists \in Nat /\ lists \in 0..MaxLists
         /\ noted \in Nat /\ reports \in Nat /\ posted \in Seq(Nat)
         /\ spent \in [delegations : Nat, deaths : Nat, cleans : Nat]
         /\ phase \in {"none", "JUDGE"} \cup WorkStages
         /\ mainId \in {"", "main"} /\ mainId \in Ids
         /\ phase = "none" => \A a \in Agents : call[a] = "none"
         /\ phase \notin WorkStages => deleg = [c \in Children |-> "none"]
<1>1. MaxLists \in Nat
  BY SessionAssumption
<1>2. mainId \in {"", "main"} /\ mainId \in Ids
  BY DEF Typed, OrchestratorTyped, Ids
<1>3. /\ phase \in {"none", "JUDGE"} \cup WorkStages
      /\ spent \in [delegations : Nat, deaths : Nat, cleans : Nat]
  BY DEF Typed, OrchestratorTyped
<1>4. /\ phase = "none" => \A a \in Agents : call[a] = "none"
      /\ phase \notin WorkStages => deleg = [c \in Children |-> "none"]
  BY DEF Typed, Idle
<1> QED BY <1>1, <1>2, <1>3, <1>4 DEF Typed, AgentsTyped

LEMMA TypedInit == Init => Typed
<1> SUFFICES ASSUME Init PROVE Typed
  OBVIOUS
<1>0. MaxPasses \in Nat \ {0} /\ MaxLists \in Nat /\ Budget \in Nat /\ 0 \in Nat
  BY SessionAssumption, BudgetAssumption
<1>a. /\ stage = "IMPLEMENT" /\ work = "IMPLEMENT" /\ checks \in BOOLEAN /\ passes = 0
      /\ phase = "none" /\ mainId = "" /\ supported \in {"default", "elsewhere"}
      /\ deleg = [c \in Children |-> "none"] /\ call = [b \in Agents |-> "none"]
      /\ memory = NewMemory /\ file = NoFile /\ guard = NewGuard
      /\ unit = [n |-> 1, lists |-> 0, reports |-> 0]
      /\ lists = 0 /\ noted = 0 /\ reports = 0 /\ posted = <<>>
      /\ spent = [delegations |-> 0, deaths |-> 0, cleans |-> 0]
  BY DEF Init
<1>b. passes = 0 /\ lists = 0 /\ posted = <<>> /\ file.findings = <<>>
  BY <1>a DEF NoFile
<1>1. OrchestratorTyped
  <2>1. unit \in [n : Nat, lists : Nat, reports : Nat]
    BY <1>a
  <2>2. spent \in [delegations : Nat, deaths : Nat, cleans : Nat]
    BY <1>a
  <2>3. passes \in 0..MaxPasses /\ passes < MaxPasses
    BY <1>0, <1>b
  <2> QED BY <1>a, <2>1, <2>2, <2>3 DEF OrchestratorTyped, WorkStages
<1>2. AgentsTyped
  <2>1. call \in [Agents -> Kinds \cup {"none"}]
    BY <1>a
  <2>2. posted \in Seq(Nat)
    BY <1>b
  <2>3. Len(file.findings) <= Budget
    BY <1>0, <1>b
  <2>4. lists \in 0..MaxLists
    BY <1>0, <1>b
  <2>5. memory \in Memories /\ file \in Notes /\ guard \in Guards
    BY <1>a, NothingNoted
  <2>6. deleg \in [Children -> {"none", "running", "finished", "detached", "over"}]
    BY <1>a
  <2> QED BY <1>0, <1>a, <2>1, <2>2, <2>3, <2>4, <2>5, <2>6 DEF AgentsTyped
<1>3. Idle
  BY <1>a DEF Idle
<1> QED BY <1>1, <1>2, <1>3 DEF Typed

LEMMA TypedStep == Typed /\ Up(file.findings) /\ [Next]_vars => Typed'
<1> SUFFICES ASSUME Typed, Up(file.findings), [Next]_vars PROVE Typed'
  OBVIOUS
<1> USE DEF counts
<1>0. MaxPasses \in Nat \ {0} /\ passes \in 0..MaxPasses
  BY SessionAssumption DEF Typed, OrchestratorTyped
<1>a. \A f \in {"delegations", "deaths", "cleans"} :
        [spent EXCEPT ![f] = @ + 1] \in [delegations : Nat, deaths : Nat, cleans : Nat]
  <2>1. spent \in [delegations : Nat, deaths : Nat, cleans : Nat]
    BY TypedNow
  <2> QED BY <2>1
<1>b. MaxLists \in Nat /\ lists \in 0..MaxLists /\ noted \in Nat
  BY TypedNow
<1>1. CASE StartPass
  <2>1. passes' = passes + 1 /\ passes < MaxPasses
    BY <1>1 DEF StartPass, Typed, OrchestratorTyped
  <2>2. passes' \in 0..MaxPasses
    BY <1>0, <2>1
  <2> QED BY <1>1, <2>2, StartTyped DEF StartPass
<1>2. CASE StartJudge
  BY <1>0, <1>2, StartTyped DEF StartJudge, jobVars
<1>3. CASE PassEnds
  BY <1>0, <1>3, ExitTyped, TypedNow DEF PassEnds, WorkStages
<1>4. CASE JudgeEnds
  <2>1. stage' \in WorkStages \cup {"VERIFY"} /\ (stage' \in WorkStages => passes < MaxPasses)
    BY <1>4 DEF JudgeEnds, Typed, OrchestratorTyped, WorkStages
  <2> QED BY <1>0, <1>4, <2>1, ExitTyped, TypedNow DEF JudgeEnds
<1>5. CASE Dies
  <2>1. spent' \in [delegations : Nat, deaths : Nat, cleans : Nat]
    BY <1>5, <1>a DEF Dies
  <2>2. stage' \in WorkStages /\ passes' = 0
    BY <1>5 DEF Dies, Typed, OrchestratorTyped
  <2>3. passes' \in 0..MaxPasses /\ passes' < MaxPasses
    BY <1>0, <2>2
  <2> QED BY <1>5, <2>1, <2>2, <2>3, ExitTyped DEF Dies
<1>6. CASE Verify \/ Review \/ Reopen
  <2>1. PICK s \in {"REVIEW", "REVISE", "OPEN_PR"} : MovesTo({s})
    BY <1>6 DEF Verify, Review, Reopen, MovesTo
  <2>2. /\ phase = "none" /\ stage \in {"VERIFY", "REVIEW", "OPEN_PR"} /\ file' \in {file, NoFile}
        /\ UNCHANGED <<checks, hermes, memory, guard, lists, reports, slips, spent>>
    BY <1>6 DEF Verify, Review, Reopen, plugins
  <2> QED BY <2>1, <2>2, MovesTyped
<1>7. ASSUME NEW c \in Children, Delegate(c) PROVE Typed'
  <2>1. /\ PreDelegate(mainId) /\ GuardPreDelegate(mainId) /\ phase \in WorkStages
        /\ deleg' = [deleg EXCEPT ![c] = "running"]
        /\ spent' = [spent EXCEPT !.delegations = @ + 1]
        /\ UNCHANGED <<jobVars, phase, mainId, supported, call, counts>>
    BY <1>7 DEF Delegate
  <2>2. memory' \in Memories /\ file' \in Notes /\ Len(file'.findings) <= Budget
    BY <2>1, TypedNow, MemoryHooks, NothingNoted
  <2>3. guard' \in Guards
    BY <2>1, TypedNow, GuardHooks
  <2>4. spent' \in [delegations : Nat, deaths : Nat, cleans : Nat]
    BY <1>a, <2>1
  <2>5. phase # "none"
    BY <2>1 DEF WorkStages
  <2> QED BY <2>1, <2>2, <2>3, <2>4, <2>5, TypedNow, CallsTyped
<1>8. ASSUME NEW c \in Children, ChildEnds(c) PROVE Typed'
  <2>1. /\ deleg[c] # "none"
        /\ deleg' = [deleg EXCEPT ![c] = IF @ = "running" THEN "finished" ELSE "over"]
        /\ UNCHANGED <<jobVars, phase, mainId, supported, call, plugins, counts, spent>>
    BY <1>8 DEF ChildEnds
  <2>2. phase \in WorkStages
    BY <2>1, TypedNow
  <2>3. phase # "none"
    BY <2>2 DEF WorkStages
  <2> QED BY <2>1, <2>2, <2>3, TypedNow, CallsTyped DEF plugins
<1>9. ASSUME NEW c \in Children, Report(c) PROVE Typed'
  <2>1. /\ deleg[c] # "none" /\ phase # "none"
        /\ PostDelegate(mainId, reports + 1) /\ GuardPostDelegate
        /\ deleg' = [deleg EXCEPT ![c] = "over"]
        /\ reports' = reports + 1 /\ posted' = Append(posted, reports + 1)
        /\ UNCHANGED <<jobVars, phase, mainId, supported, call, unit, lists, noted, spent>>
    BY <1>9 DEF Report
  <2>2. phase \in WorkStages
    BY <2>1, TypedNow
  <2>a. reports \in Nat /\ posted \in Seq(Nat)
    BY TypedNow
  <2>3. reports' \in Nat /\ posted' \in Seq(Nat)
    BY <2>1, <2>a
  <2>4. memory' \in Memories /\ file' \in Notes /\ Len(file'.findings) <= Budget
    BY <2>1, <2>3, TypedNow, MemoryHooks, NothingNoted
  <2>5. guard' \in Guards
    BY <2>1, TypedNow, GuardHooks
  <2> QED BY <2>1, <2>2, <2>3, <2>4, <2>5, TypedNow, CallsTyped
<1>10. ASSUME NEW c \in Children, Dispatched(c) PROVE Typed'
  <2>1. /\ deleg[c] # "none" /\ phase # "none"
        /\ PostDelegate(mainId, 0) /\ GuardPostDelegate
        /\ deleg' = [deleg EXCEPT ![c] = IF @ = "running" THEN "detached" ELSE "over"]
        /\ UNCHANGED <<jobVars, phase, mainId, supported, call, counts, spent>>
    BY <1>10 DEF Dispatched, InFlight
  <2>2. phase \in WorkStages
    BY <2>1, TypedNow
  <2>4. memory' \in Memories /\ file' \in Notes /\ Len(file'.findings) <= Budget
    BY <2>1, TypedNow, MemoryHooks, NothingNoted
  <2>5. guard' \in Guards
    BY <2>1, TypedNow, GuardHooks
  <2> QED BY <2>1, <2>2, <2>4, <2>5, TypedNow, CallsTyped
<1>11. ASSUME NEW a \in Agents, Clean(a) PROVE Typed'
  <2>1. /\ phase # "none" /\ spent' = [spent EXCEPT !.cleans = @ + 1] /\ file' = NoFile
        /\ UNCHANGED <<jobVars, hermes, memory, guard, counts>>
    BY <1>11 DEF Clean, Calling
  <2>2. spent' \in [delegations : Nat, deaths : Nat, cleans : Nat]
    BY <1>a, <2>1
  <2>3. file' \in Notes /\ Len(file'.findings) <= Budget
    BY <2>1, NothingNoted, BudgetAssumption DEF NoFile
  <2> QED BY <2>1, <2>2, <2>3, TypedNow, CallsTyped DEF hermes
<1>12. ASSUME NEW a \in Agents, Todo(a) PROVE Typed'
  <2>1. PICK empty \in BOOLEAN :
          LET made == a = Main /\ phase \in WorkStages /\ ~ empty
              list == CASE empty -> NoList
                        [] made -> [by |-> "main", n |-> lists + 1]
                        [] OTHER -> [by |-> "other", n |-> 0]
          IN /\ made => lists < MaxLists
             /\ lists' = IF made THEN lists + 1 ELSE lists
             /\ noted' = IF made THEN lists + 1 ELSE noted
             /\ IF Hooked THEN PostTodo(Id(a), list) ELSE UNCHANGED <<memory, file>>
    BY <1>12 DEF Todo
  <2> DEFINE made == a = Main /\ phase \in WorkStages /\ ~ empty
             list == CASE empty -> NoList
                       [] made -> [by |-> "main", n |-> lists + 1]
                       [] OTHER -> [by |-> "other", n |-> 0]
  <2>2. /\ phase # "none" /\ call' = [call EXCEPT ![a] = "none"]
        /\ UNCHANGED <<jobVars, phase, mainId, supported, deleg, guard, unit, reports, posted, spent>>
    BY <1>12 DEF Todo, Calling, Called
  <2>3. lists' \in 0..MaxLists /\ noted' \in Nat
    BY <1>b, <2>1
  <2>4. list \in Lists
    <3>1. made => lists + 1 \in 1..MaxLists
      BY <1>b, <2>1
    <3>2. made => [by |-> "main", n |-> lists + 1] \in Lists
      BY <3>1 DEF Lists
    <3>3. [by |-> "other", n |-> 0] \in Lists
      BY DEF Lists
    <3> QED BY <3>2, <3>3, NothingNoted
  <2>5. Id(a) \in Ids
    BY TypedNow, IdsOfAgents
  <2>6. IF Hooked THEN PostTodo(Id(a), list) ELSE UNCHANGED <<memory, file>>
    BY <2>1
  <2> HIDE DEF list
  <2>7. memory' \in Memories /\ file' \in Notes /\ Len(file'.findings) <= Budget
    BY <2>4, <2>5, <2>6, TypedNow, MemoryHooks
  <2>8. phase \notin WorkStages => UNCHANGED memory
    BY <2>6 DEF Hooked, WorkPhases, WorkStages
  <2> QED BY <2>2, <2>3, <2>7, <2>8, TypedNow, CallsTyped
<1>13. ASSUME NEW a \in Agents, Other(a) PROVE Typed'
  <2>1. /\ phase # "none" /\ call' = [call EXCEPT ![a] = "none"]
        /\ IF Hooked THEN PostCall ELSE UNCHANGED <<memory, file>>
        /\ UNCHANGED <<jobVars, phase, mainId, supported, deleg, guard, counts, lost, spent>>
    BY <1>13 DEF Other, Called
  <2>2. memory' \in Memories /\ file' \in Notes /\ Len(file'.findings) <= Budget
    BY <2>1, TypedNow, MemoryHooks, NothingNoted
  <2>3. phase \notin WorkStages => UNCHANGED memory
    BY <2>1 DEF Hooked, WorkPhases, WorkStages
  <2> QED BY <2>1, <2>2, <2>3, TypedNow, CallsTyped
<1>14. ASSUME NEW a \in Agents, NEW kind \in Kinds, Call(a, kind) PROVE Typed'
  <2>1. /\ phase # "none"
        /\ \/ Hooked /\ PreCall(Id(a)) /\ GuardPreCall(Id(a))
           \/ ~ Hooked /\ UNCHANGED <<memory, file, guard>>
        /\ call' \in {call, [call EXCEPT ![a] = kind]}
        /\ UNCHANGED <<jobVars, phase, mainId, supported, deleg, counts, spent>>
    <3>1. call' \in {call, [call EXCEPT ![a] = kind]}
      <4>1. call = [call EXCEPT ![a] = call[a]]
        BY TypedNow
      <4> QED BY <1>14, <4>1 DEF Call
    <3> QED BY <1>14, <3>1 DEF Call
  <2>2. Id(a) \in Ids
    BY TypedNow, IdsOfAgents
  <2>3. memory' \in Memories /\ file' \in Notes /\ Len(file'.findings) <= Budget
    BY <2>1, <2>2, TypedNow, MemoryHooks, NothingNoted
  <2>4. guard' \in Guards
    BY <2>1, <2>2, TypedNow, GuardHooks
  <2>5. phase \notin WorkStages => UNCHANGED <<memory, guard>>
    BY <2>1 DEF Hooked, WorkPhases, WorkStages
  <2>6. call' \in [Agents -> Kinds \cup {"none"}]
    BY <2>1, TypedNow
  <2> QED BY <2>1, <2>3, <2>4, <2>5, <2>6, TypedNow, CallsTyped
<1>15. CASE UNCHANGED vars
  BY <1>15 DEF vars, jobVars, hermes, plugins, Typed, OrchestratorTyped, AgentsTyped, Idle
<1> QED BY <1>1, <1>2, <1>3, <1>4, <1>5, <1>6, <1>7, <1>8, <1>9, <1>10, <1>11, <1>12, <1>13,
           <1>14, <1>15 DEF Next

-------------------------------------------------------------------------------
(* Who is who, in every step.                                              *)

\* What the hooks of the memory do to the ids.
LEMMA MemoryIds ==
  ASSUME memory \in Memories, file \in Notes, Up(file.findings), NEW id \in Ids, NEW list,
         NEW report
  PROVE  /\ PreDelegate(id) =>
              /\ memory'.primary = IF memory.primary = "" THEN id ELSE memory.primary
              /\ memory'.active = memory.active + 1 /\ memory'.subagents = memory.subagents
         /\ PostDelegate(id, report) =>
              /\ memory'.primary = IF memory.primary = "" THEN id ELSE memory.primary
              /\ memory'.active = Max({0, memory.active - 1})
              /\ memory'.subagents = memory.subagents
         /\ PreCall(id) \/ PostTodo(id, list) =>
              /\ memory'.primary = memory.primary /\ memory'.active = memory.active
              /\ memory'.subagents = IF memory.active > 0 /\ id # "" /\ id # memory.primary
                                     THEN memory.subagents \cup {id} ELSE memory.subagents
         /\ PostCall =>
              /\ memory'.primary = memory.primary /\ memory'.active = memory.active
              /\ memory'.subagents = memory.subagents
<1> DEFINE s == Seeded(memory)
<1>1. /\ s \in Memories /\ s.primary = memory.primary /\ s.active = memory.active
      /\ s.subagents = memory.subagents
  BY SeededType
<1>2. ASSUME NEW m \in Memories
      PROVE  /\ NotePrimary(m, id).primary = IF m.primary = "" THEN id ELSE m.primary
             /\ NotePrimary(m, id).active = m.active /\ NotePrimary(m, id).subagents = m.subagents
             /\ Observed(m, id).primary = m.primary /\ Observed(m, id).active = m.active
             /\ Observed(m, id).subagents = IF m.active > 0 /\ id # "" /\ id # m.primary
                                            THEN m.subagents \cup {id} ELSE m.subagents
             /\ NotePrimary(m, id) = [m EXCEPT !.primary = NotePrimary(m, id).primary]
             /\ Observed(m, id) = [m EXCEPT !.subagents = Observed(m, id).subagents]
             /\ NotePrimary(m, id) \in Memories /\ Observed(m, id) \in Memories
  BY DEF Memories, NotePrimary, Observed
<1> HIDE DEF s
<1>3. ASSUME PreDelegate(id)
      PROVE  /\ memory'.primary = IF memory.primary = "" THEN id ELSE memory.primary
             /\ memory'.active = memory.active + 1 /\ memory'.subagents = memory.subagents
  <2>1. memory' = [NotePrimary(memory, id) EXCEPT !.active = @ + 1]
    BY <1>3 DEF PreDelegate
  <2>2. /\ memory'.primary = NotePrimary(memory, id).primary
        /\ memory'.subagents = NotePrimary(memory, id).subagents
        /\ memory'.active = NotePrimary(memory, id).active + 1
    BY <1>2, <2>1 DEF Memories
  <2> QED BY <1>2, <2>2
<1>4. ASSUME PostDelegate(id, report)
      PROVE  /\ memory'.primary = IF memory.primary = "" THEN id ELSE memory.primary
             /\ memory'.active = Max({0, memory.active - 1})
             /\ memory'.subagents = memory.subagents
  <2> DEFINE m == [NotePrimary(s, id) EXCEPT !.active = Max({0, @ - 1})]
  <2>1. /\ m.primary = NotePrimary(s, id).primary /\ m.subagents = NotePrimary(s, id).subagents
        /\ m.active = Max({0, NotePrimary(s, id).active - 1})
    BY <1>1, <1>2 DEF Memories
  <2>2. \/ memory' = m
        \/ \E f : memory' = [m EXCEPT !.delegations = @ + 1, !.findings = f]
    BY <1>4 DEF PostDelegate, s
  <2>3. m \in Memories
    <3>1. NotePrimary(s, id).active \in Nat /\ NotePrimary(s, id) \in Memories
      BY <1>1, <1>2 DEF Memories
    <3>2. Max({0, NotePrimary(s, id).active - 1}) \in Nat
      BY <3>1, CountedDown
    <3> QED BY <3>1, <3>2 DEF Memories
  <2> HIDE DEF m
  <2>4. memory'.primary = m.primary /\ memory'.active = m.active /\ memory'.subagents = m.subagents
    BY <2>2, <2>3 DEF Memories
  <2> QED BY <1>1, <1>2, <2>1, <2>4, ZenonT(40)
<1>5. ASSUME PreCall(id) \/ PostTodo(id, list)
      PROVE  /\ memory'.primary = memory.primary /\ memory'.active = memory.active
             /\ memory'.subagents = IF memory.active > 0 /\ id # "" /\ id # memory.primary
                                    THEN memory.subagents \cup {id} ELSE memory.subagents
  <2>1. CASE PreCall(id)
    BY <1>2, <2>1 DEF PreCall
  <2>2. CASE PostTodo(id, list)
    <3> DEFINE m == Observed(s, id)
    <3>1. memory' = m \/ memory' = [m EXCEPT !.checklist = list]
      BY <2>2 DEF PostTodo, s
    <3>2. /\ m.primary = memory.primary /\ m.active = memory.active
          /\ m.subagents = IF memory.active > 0 /\ id # "" /\ id # memory.primary
                           THEN memory.subagents \cup {id} ELSE memory.subagents
      BY <1>1, <1>2
    <3>3. m \in Memories
      BY <1>1, <1>2
    <3> HIDE DEF m
    <3>4. /\ memory'.primary = m.primary /\ memory'.active = m.active
          /\ memory'.subagents = m.subagents
      BY <3>1, <3>3 DEF Memories
    <3> QED BY <3>2, <3>4
  <2> QED BY <1>5, <2>1, <2>2
<1>6. ASSUME PostCall
      PROVE  /\ memory'.primary = memory.primary /\ memory'.active = memory.active
             /\ memory'.subagents = memory.subagents
  BY <1>1, <1>6 DEF PostCall, s
<1> QED BY <1>3, <1>4, <1>5, <1>6

\* Fresh plugins and no child.
LEMMA FreshKnown ==
  ASSUME memory' = NewMemory, guard' = NewGuard,
         deleg' = [c \in Children |-> "none"], call' = [a \in Agents |-> "none"]
  PROVE  Known'
<1>1. Flying' = {}
  BY DEF Flying, InFlight
<1>2. IsFiniteSet(Flying') /\ Cardinality(Flying') = 0
  BY <1>1, FS_EmptySet
<1>3. /\ memory'.active = 0 /\ memory'.subagents = {} /\ memory'.primary = ""
      /\ guard'.active = 0 /\ guard'.subagents = {} /\ guard'.primary = ""
  BY DEF NewMemory, NewGuard
<1>4. \A c \in Children : deleg'[c] = "none" /\ call'[c] = "none"
  BY IdsOfAgents
<1>5. Knows(memory)' /\ Knows(guard)'
  BY <1>2, <1>3, <1>4 DEF Knows
<1> QED BY <1>2, <1>3, <1>4, <1>5, IdsOfAgents DEF Known

\* A child in flight keeps the count up, and the count above zero means one.
LEMMA CountMeansChild ==
  ASSUME Known
  PROVE  /\ memory.active = guard.active /\ guard.active \in Nat
         /\ guard.active > 0 <=> \E c \in Children : InFlight(c)
<1>1. /\ IsFiniteSet(Flying) /\ memory.active = Cardinality(Flying)
      /\ guard.active = Cardinality(Flying)
  BY DEF Known, Knows
<1>2. Cardinality(Flying) \in Nat /\ (Cardinality(Flying) = 0 <=> Flying = {})
  BY <1>1, FS_CardinalityType, FS_EmptySet
<1>3. Flying # {} <=> \E c \in Children : InFlight(c)
  BY DEF Flying
<1> QED BY <1>1, <1>2, <1>3

\* What a call shows the plugins of its agent.
LEMMA CallShows ==
  ASSUME Typed, Known, NEW a \in Agents, a \in Living \/ call[a] # "none"
  PROVE  /\ memory.active > 0 /\ Id(a) # "" /\ Id(a) # memory.primary => a \in Children
         /\ guard.active > 0 /\ Id(a) # "" /\ Id(a) # guard.primary => a \in Children
         /\ mainId = "main" /\ a \in Children => guard.primary = "main" /\ memory.primary = "main"
         /\ supported = "forced" /\ a \in Children =>
              memory.active > 0 /\ guard.active > 0 /\ a # memory.primary /\ Id(a) = a /\ a # ""
<1>1. mainId \in {"", "main"}
  BY TypedNow
<1>2. mainId = "main" /\ guard.active > 0 => guard.primary = "main" /\ memory.primary = "main"
  BY CountMeansChild DEF Known, Knows, InFlight
<1>3. a \in Children => deleg[a] \in {"running", "detached"}
  BY IdsOfAgents DEF Living, Known
<1>4. mainId = "main" /\ a \in Children => guard.primary = "main" /\ memory.primary = "main"
  BY <1>3 DEF Known, Knows
<1>5. supported = "forced" /\ a \in Children => guard.active > 0 /\ memory.active > 0
  BY <1>3, CountMeansChild DEF Known, InFlight
<1>6. a # Main => a \in Children /\ Id(a) = a
  BY IdsOfAgents
<1>7. a = Main => Id(a) = mainId
  BY IdsOfAgents
<1>a. memory.primary \in {"", mainId} /\ Main = "main" /\ "" \notin Children /\ "main" \notin Children
  BY IdsOfAgents DEF Known
<1>b. a # Main => Id(a) = a
  BY <1>6
<1>8. a \in Children => a # memory.primary /\ Id(a) = a /\ a # "" /\ a # Main
  BY <1>1, <1>a, <1>b
<1>9. memory.active = guard.active
  BY CountMeansChild
<1> QED BY <1>1, <1>2, <1>4, <1>5, <1>6, <1>7, <1>8, <1>9

LEMMA KnownInit == Init => Known
<1> SUFFICES ASSUME Init PROVE Known
  OBVIOUS
<1>1. Flying = {}
  BY DEF Init, Flying, InFlight
<1>2. IsFiniteSet(Flying) /\ Cardinality(Flying) = 0
  BY <1>1, FS_EmptySet
<1>3. /\ memory.active = 0 /\ memory.subagents = {} /\ memory.primary = ""
      /\ guard.active = 0 /\ guard.subagents = {} /\ guard.primary = "" /\ mainId = ""
  BY DEF Init, NewMemory, NewGuard
<1>4. \A c \in Children : deleg[c] = "none" /\ call[c] = "none"
  BY IdsOfAgents DEF Init
<1>5. Knows(memory) /\ Knows(guard)
  BY <1>2, <1>3, <1>4 DEF Knows
<1> QED BY <1>2, <1>3, <1>4, <1>5, IdsOfAgents DEF Known

\* A delegation that ends is counted down, and the primary is known by then.
LEMMA EndedKnown ==
  ASSUME Typed, Known, Up(file.findings), NEW c \in Children, InFlight(c), NEW report \in Nat,
         PostDelegate(mainId, report), GuardPostDelegate,
         NEW d \in {"over", "detached"}, deleg' = [deleg EXCEPT ![c] = d],
         d = "detached" => supported # "forced" /\ deleg[c] = "running",
         d = "over" => deleg[c] = "finished",
         UNCHANGED <<call, mainId, supported, phase>>
  PROVE  Known'
<1>1. Flying' = Flying \ {c} /\ c \in Flying
  BY TypedNow DEF Flying, InFlight
<1>2. /\ IsFiniteSet(Flying') /\ Cardinality(Flying') = Cardinality(Flying) - 1
      /\ Cardinality(Flying) \in Nat /\ Cardinality(Flying) # 0
  BY <1>1, FS_RemoveElement, FS_EmptySet, FS_CardinalityType DEF Known
<1>3. /\ memory.active = Cardinality(Flying) /\ guard.active = Cardinality(Flying)
  BY DEF Known, Knows
<1>4. Max({0, Cardinality(Flying) - 1}) = Cardinality(Flying) - 1
  BY <1>2, CountedDown
<1>5. /\ memory'.primary = IF memory.primary = "" THEN mainId ELSE memory.primary
      /\ memory'.active = Cardinality(Flying) - 1 /\ memory'.subagents = memory.subagents
  BY <1>3, <1>4, TypedNow, MemoryIds
<1>6. guard'.primary = guard.primary /\ guard'.subagents = guard.subagents
      /\ guard'.active = Cardinality(Flying) - 1
  BY <1>3, <1>4, TypedNow DEF Guards, GuardPostDelegate
<1>7. mainId \in {"", "main"}
  BY TypedNow
<1>8. Knows(memory)'
  BY <1>2, <1>5, <1>7 DEF Known, Knows, InFlight
<1>9. Knows(guard)'
  BY <1>2, <1>6, <1>7 DEF Known, Knows, InFlight
<1>10. \A x \in Children : call'[x] # "none" => deleg'[x] \in {"running", "detached"}
  BY TypedNow DEF Known
<1>11. supported = "forced" => \A x \in Children : deleg'[x] # "detached"
  BY TypedNow DEF Known
<1>12. memory'.primary \in {"", mainId'}
  BY <1>5 DEF Known
<1>13. Hooked' = Hooked
  BY DEF Hooked
<1> QED BY <1>2, <1>6, <1>8, <1>9, <1>10, <1>11, <1>12, <1>13 DEF Known

\* Every step keeps what the plugins know.
LEMMA KnownStep == Typed /\ Known /\ Up(file.findings) /\ [Next]_vars => Known'
<1> SUFFICES ASSUME Typed, Known, Up(file.findings), [Next]_vars PROVE Known'
  OBVIOUS
<1>1. CASE StartPass \/ StartJudge
  <2>1. Start(stage) /\ phase = "none"
    BY <1>1 DEF StartPass, StartJudge
  <2>2. /\ memory = NewMemory /\ guard = NewGuard
        /\ deleg = [c \in Children |-> "none"] /\ call = [a \in Agents |-> "none"]
    BY <2>1 DEF Typed, Idle, WorkStages
  <2> QED BY <2>1, <2>2, FreshKnown DEF Start
<1>2. CASE PassEnds \/ JudgeEnds \/ Dies
  BY <1>2, FreshKnown DEF PassEnds, JudgeEnds, Dies, Exit
<1>3. CASE Verify \/ Review \/ Reopen
  <2>1. UNCHANGED <<hermes, memory, guard>>
    BY <1>3 DEF Verify, Review, Reopen, plugins
  <2> QED BY <2>1 DEF hermes, Known, Knows, Flying, InFlight, Hooked
<1>4. ASSUME NEW c \in Children, Delegate(c) PROVE Known'
  <2>1. /\ PreDelegate(mainId) /\ GuardPreDelegate(mainId) /\ deleg[c] = "none"
        /\ deleg' = [deleg EXCEPT ![c] = "running"]
        /\ UNCHANGED <<phase, mainId, supported, call>>
    BY <1>4 DEF Delegate
  <2>2. Flying' = Flying \cup {c} /\ c \notin Flying
    BY <2>1, TypedNow DEF Flying, InFlight
  <2>3. /\ IsFiniteSet(Flying') /\ Cardinality(Flying') = Cardinality(Flying) + 1
        /\ memory.active = Cardinality(Flying) /\ guard.active = Cardinality(Flying)
    BY <2>2, FS_AddElement DEF Known, Knows
  <2>4. /\ memory'.primary = IF memory.primary = "" THEN mainId ELSE memory.primary
        /\ memory'.active = Cardinality(Flying) + 1 /\ memory'.subagents = memory.subagents
    BY <2>1, <2>3, TypedNow, MemoryIds
  <2>5. /\ guard'.primary = IF guard.primary = "" THEN mainId ELSE guard.primary
        /\ guard'.active = Cardinality(Flying) + 1 /\ guard'.subagents = guard.subagents
    BY <2>1, <2>3, TypedNow DEF Guards, GuardPreDelegate
  <2>6. mainId \in {"", "main"} /\ mainId \notin Children
    BY TypedNow, IdsOfAgents
  <2>7. Knows(memory)'
    BY <2>1, <2>3, <2>4, <2>6 DEF Known, Knows
  <2>8. Knows(guard)'
    BY <2>1, <2>3, <2>5, <2>6 DEF Known, Knows
  <2>9. \A x \in Children : call'[x] # "none" => deleg'[x] \in {"running", "detached"}
    BY <2>1, TypedNow DEF Known
  <2>10. supported' = "forced" => \A x \in Children : deleg'[x] # "detached"
    BY <2>1, TypedNow DEF Known
  <2>11. memory'.primary \in {"", mainId'}
    BY <2>1, <2>4 DEF Known
  <2>12. supported' = "forced" =>
           /\ \A x \in Children : call'[x] # "none" /\ Hooked' => x \in guard'.subagents
           /\ guard'.primary \in Children => guard'.primary \in guard'.subagents
    BY <2>1, <2>5, <2>6 DEF Known, Hooked
  <2> QED BY <2>3, <2>7, <2>8, <2>9, <2>10, <2>11, <2>12 DEF Known
<1>5. ASSUME NEW c \in Children, ChildEnds(c) PROVE Known'
  <2>1. /\ deleg[c] \in {"running", "detached"} /\ call[c] = "none"
        /\ deleg' = [deleg EXCEPT ![c] = IF @ = "running" THEN "finished" ELSE "over"]
        /\ UNCHANGED <<phase, mainId, supported, call, memory, guard>>
    BY <1>5 DEF ChildEnds, plugins
  <2>2. Flying' = Flying
    BY <2>1, TypedNow DEF Flying, InFlight
  <2>3. Knows(memory)' /\ Knows(guard)'
    BY <2>1, <2>2, TypedNow DEF Known, Knows
  <2>4. \A x \in Children : call'[x] # "none" => deleg'[x] \in {"running", "detached"}
    BY <2>1, TypedNow DEF Known
  <2>5. supported' = "forced" => \A x \in Children : deleg'[x] # "detached"
    BY <2>1, TypedNow DEF Known
  <2> QED BY <2>1, <2>2, <2>3, <2>4, <2>5 DEF Known, Hooked
<1>6. ASSUME NEW c \in Children, Report(c) PROVE Known'
  <2>1. /\ PostDelegate(mainId, reports + 1) /\ GuardPostDelegate /\ deleg[c] = "finished"
        /\ deleg' = [deleg EXCEPT ![c] = "over"]
        /\ UNCHANGED <<call, mainId, supported, phase>>
    BY <1>6 DEF Report
  <2>2. reports \in Nat
    BY TypedNow
  <2>3. reports + 1 \in Nat /\ InFlight(c)
    BY <2>1, <2>2 DEF InFlight
  <2> QED BY <2>1, <2>3, EndedKnown
<1>7. ASSUME NEW c \in Children, Dispatched(c) PROVE Known'
  <2>1. /\ PostDelegate(mainId, 0) /\ GuardPostDelegate /\ InFlight(c) /\ supported # "forced"
        /\ deleg' = [deleg EXCEPT ![c] = IF @ = "running" THEN "detached" ELSE "over"]
        /\ UNCHANGED <<call, mainId, supported, phase>>
    BY <1>7 DEF Dispatched
  <2>2. CASE deleg[c] = "running"
    <3>1. deleg' = [deleg EXCEPT ![c] = "detached"]
      BY <2>1, <2>2
    <3> QED BY <2>1, <2>2, <3>1, EndedKnown
  <2>3. CASE deleg[c] = "finished"
    <3>1. deleg' = [deleg EXCEPT ![c] = "over"]
      BY <2>1, <2>3
    <3> QED BY <2>1, <2>3, <3>1, EndedKnown
  <2> QED BY <2>1, <2>2, <2>3 DEF InFlight
<1>8. ASSUME NEW a \in Agents, Clean(a) PROVE Known'
  <2>1. UNCHANGED <<hermes, memory, guard>>
    BY <1>8 DEF Clean
  <2> QED BY <2>1 DEF hermes, Known, Knows, Flying, InFlight, Hooked
<1>9. ASSUME NEW a \in Agents, Todo(a) \/ Other(a) PROVE Known'
  <2>1. /\ call[a] # "none" /\ call' = [call EXCEPT ![a] = "none"]
        /\ UNCHANGED <<phase, mainId, supported, deleg, guard>>
        /\ \/ \E list : PostTodo(Id(a), list)
           \/ PostCall \/ UNCHANGED memory
    BY <1>9 DEF Todo, Other, Calling, Called, Kinds
  <2>2. Id(a) \in Ids
    BY TypedNow, IdsOfAgents
  <2>3. /\ memory'.primary = memory.primary /\ memory'.active = memory.active
        /\ \/ memory'.subagents = memory.subagents
           \/ /\ memory.active > 0 /\ Id(a) # "" /\ Id(a) # memory.primary
              /\ memory'.subagents = memory.subagents \cup {Id(a)}
    BY <2>1, <2>2, TypedNow, MemoryIds
  <2>4. memory'.subagents \subseteq Children
    <3>1. memory.active > 0 /\ Id(a) # "" /\ Id(a) # memory.primary => a \in Children /\ Id(a) = a
      BY <2>1, CallShows, IdsOfAgents
    <3> QED BY <2>3, <3>1, ZenonT(40) DEF Known, Knows
  <2>5. Flying' = Flying
    BY <2>1 DEF Flying, InFlight
  <2>6. Knows(memory)' /\ Knows(guard)'
    BY <2>1, <2>3, <2>4, <2>5 DEF Known, Knows
  <2>7. \A x \in Children : call'[x] # "none" => call[x] # "none"
    BY <2>1, TypedNow, IdsOfAgents
  <2> QED BY <2>1, <2>3, <2>5, <2>6, <2>7 DEF Known, Hooked
<1>10. ASSUME NEW a \in Agents, NEW kind \in Kinds, Call(a, kind) PROVE Known'
  <2>1. /\ a \in Living /\ UNCHANGED <<phase, mainId, supported, deleg>>
        /\ \/ Hooked /\ PreCall(Id(a)) /\ GuardPreCall(Id(a))
           \/ ~ Hooked /\ UNCHANGED <<memory, guard>>
        /\ \A x \in Agents : x # a => call'[x] = call[x]
    <3>1. \A x \in Agents : x # a => call'[x] = call[x]
      BY <1>10, TypedNow DEF Call
    <3> QED BY <1>10, <3>1 DEF Call
  <2>2. Id(a) \in Ids /\ Main = "main" /\ (a = Main => Id(a) = mainId) /\ (a # Main => Id(a) = a /\ a \in Children)
    BY TypedNow, IdsOfAgents
  <2>3. Flying' = Flying
    BY <2>1 DEF Flying, InFlight
  <2>4. \A x \in Children : call'[x] # "none" => deleg'[x] \in {"running", "detached"}
    <3>1. a \in Children => deleg[a] \in {"running", "detached"}
      BY <2>1, IdsOfAgents DEF Living
    <3> QED BY <2>1, <3>1, IdsOfAgents, ZenonT(40) DEF Known
  <2>5. CASE ~ Hooked
    BY <2>1, <2>3, <2>4, <2>5 DEF Known, Knows, Hooked
  <2>6. CASE Hooked
    <3>1. /\ memory'.primary = memory.primary /\ memory'.active = memory.active
          /\ memory'.subagents = IF memory.active > 0 /\ Id(a) # "" /\ Id(a) # memory.primary
                                 THEN memory.subagents \cup {Id(a)} ELSE memory.subagents
      BY <2>1, <2>2, <2>6, TypedNow, MemoryIds
    <3>2. /\ guard'.primary = IF guard.primary = "" THEN Id(a) ELSE guard.primary
          /\ guard'.active = guard.active
          /\ guard'.subagents = IF guard.active > 0 /\ Id(a) # "" /\ Id(a) # guard.primary
                                THEN guard.subagents \cup {Id(a)} ELSE guard.subagents
      BY <2>1, <2>6, TypedNow, ZenonT(40) DEF GuardPreCall, Seen, Guards
    <3>3. /\ memory.active > 0 /\ Id(a) # "" /\ Id(a) # memory.primary => a \in Children
          /\ guard.active > 0 /\ Id(a) # "" /\ Id(a) # guard.primary => a \in Children
          /\ mainId = "main" /\ a \in Children => guard.primary = "main" /\ memory.primary = "main"
          /\ supported = "forced" /\ a \in Children =>
               memory.active > 0 /\ guard.active > 0 /\ a # memory.primary /\ Id(a) = a /\ a # ""
      BY <2>1, CallShows
    <3>4. a \in Children => Id(a) = a
      BY <2>2, IdsOfAgents
    <3>5. Knows(memory)'
      <4>1. memory'.subagents \subseteq Children
        BY <3>1, <3>3, <3>4, ZenonT(40) DEF Known, Knows
      <4> QED BY <2>1, <2>3, <3>1, <4>1 DEF Known, Knows
    <3>6. Knows(guard)'
      <4>1. guard'.subagents \subseteq Children
        BY <3>2, <3>3, <3>4, ZenonT(40) DEF Known, Knows
      <4>2. mainId = "main" => guard'.primary \in {"", "main"}
        BY <2>2, <3>2, <3>3 DEF Known, Knows
      <4>3. mainId = "main" /\ (\E x \in Children : deleg[x] # "none") => guard'.primary = "main"
        BY <3>2 DEF Known, Knows
      <4> QED BY <2>1, <2>3, <3>2, <4>1, <4>2, <4>3 DEF Known, Knows
    <3>7. supported = "forced" => /\ a \in Children => a \in guard'.subagents
                                  /\ guard'.primary \in Children => guard'.primary \in guard'.subagents
      <4>1. supported = "forced" /\ a \in Children => a \in guard'.subagents
        BY <3>2, <3>3 DEF Known
      <4>2. supported = "forced" /\ guard'.primary \in Children => guard'.primary \in guard'.subagents
        <5>1. CASE guard.primary # ""
          BY <3>2, <5>1 DEF Known
        <5>2. CASE guard.primary = ""
          <6>1. guard'.primary = Id(a)
            BY <3>2, <5>2
          <6>2. Id(a) \in Children => a \in Children
            BY <2>2, TypedNow, IdsOfAgents
          <6> QED BY <3>4, <4>1, <6>1, <6>2
        <5> QED BY <5>1, <5>2
      <4> QED BY <4>1, <4>2
    <3>8. supported' = "forced" => \A x \in Children : call'[x] # "none" /\ Hooked' => x \in guard'.subagents
      <4>1. \A x \in Children : x # a => (call'[x] # "none" => call[x] # "none")
        BY <2>1, IdsOfAgents
      <4>2. guard.subagents \subseteq guard'.subagents
        BY <3>2
      <4> QED BY <2>1, <2>6, <3>7, <4>1, <4>2 DEF Known
    <3> QED BY <2>1, <2>3, <2>4, <3>1, <3>5, <3>6, <3>7, <3>8 DEF Known
  <2> QED BY <2>5, <2>6
<1>11. CASE UNCHANGED vars
  BY <1>11 DEF vars, hermes, plugins, Known, Knows, Flying, InFlight, Hooked
<1> QED BY <1>1, <1>2, <1>3, <1>4, <1>5, <1>6, <1>7, <1>8, <1>9, <1>10, <1>11 DEF Next

-------------------------------------------------------------------------------
(* Every call is treated as its agent's.                                   *)

\* No step makes a slip where the guard knows the agents.
LEMMA SlipsStep ==
  ASSUME Typed, Known, GuardFitsAgent, [Next]_vars
  PROVE  GuardFitsAgent'
<1>1. supported' \in {supported, EnsurePatch(supported)} /\ (Attached' <=> Attached)
  <2>1. supported' \in {supported, EnsurePatch(supported)}
    BY DEF Next, vars, hermes, StartPass, StartJudge, Start, PassEnds, JudgeEnds, Dies, Exit,
           Verify, Review, Reopen, Delegate, ChildEnds, Report, Dispatched, Clean, Todo, Other, Call
  <2> QED BY <2>1 DEF Attached, EnsurePatch
<1>2. CASE slips' = slips
  BY <1>1, <1>2 DEF GuardFitsAgent
<1>3. ASSUME NEW a \in Agents, phase # "none", a \in Living \/ call[a] # "none", Hooked
      PROVE  /\ a = Main => Id(a) \notin guard.subagents /\ Id(a) \notin Seen(Id(a)).subagents
             /\ a # Main /\ Attached => Id(a) \in Seen(Id(a)).subagents
             /\ a # Main /\ Attached /\ call[a] # "none" => Id(a) # "" /\ Id(a) \in guard.subagents
  <2>1. guard \in Guards
    BY TypedNow
  <2>2. Seen(Id(a)).subagents = IF guard.active > 0 /\ Id(a) # "" /\ Id(a) # guard.primary
                                THEN guard.subagents \cup {Id(a)} ELSE guard.subagents
    BY <2>1 DEF Guards, Seen
  <2>3. /\ guard.active > 0 /\ Id(a) # "" /\ Id(a) # guard.primary => a \in Children
        /\ supported = "forced" /\ a \in Children => guard.active > 0 /\ Id(a) = a /\ a # ""
    BY <1>3, CallShows
  <2>4. /\ a = Main => a \notin Children /\ Id(a) = mainId
        /\ a # Main => a \in Children /\ Id(a) = a
        /\ mainId \notin Children
    BY TypedNow, IdsOfAgents
  <2>5. Attached => supported = "forced"
    BY <1>3 DEF Attached, Typed, OrchestratorTyped
  <2>6. guard.subagents \subseteq Children
    BY DEF Known, Knows
  <2>7. supported = "forced" /\ guard.primary \in Children => guard.primary \in guard.subagents
    BY DEF Known
  <2>8. a # Main /\ Attached /\ call[a] # "none" => Id(a) \in guard.subagents
    BY <1>3, <2>4, <2>5 DEF Known
  <2> QED BY <2>2, <2>3, <2>4, <2>5, <2>6, <2>7, <2>8
<1>4. ASSUME NEW a \in Agents, NEW held \in BOOLEAN, slips' = slips \cup Slip(a, held),
             a = Main => held, a # Main /\ Attached => ~ held
      PROVE  GuardFitsAgent'
  <2>1. "primary free" \notin Slip(a, held) /\ (Attached => "child held" \notin Slip(a, held))
    BY <1>4 DEF Slip
  <2> QED BY <1>1, <1>4, <2>1 DEF GuardFitsAgent
<1>5. ASSUME NEW a \in Agents, Other(a) PROVE GuardFitsAgent'
  <2>1. CASE Hooked /\ call[a] = "read"
    <3>1. slips' = slips \cup Slip(a, Capped(Id(a), "read")) /\ phase # "none"
      BY <1>5, <2>1 DEF Other
    <3>2. Capped(Id(a), "read") <=> ~ (Id(a) # "" /\ Id(a) \in guard.subagents)
      BY DEF Capped
    <3>3. Capped(Id(a), "read") \in BOOLEAN
      BY DEF Capped
    <3> QED BY <1>3, <1>4, <2>1, <3>1, <3>2, <3>3
  <2>2. CASE ~ (Hooked /\ call[a] = "read")
    BY <1>2, <1>5, <2>2 DEF Other
  <2> QED BY <2>1, <2>2
<1>6. ASSUME NEW a \in Agents, NEW kind \in Kinds, Call(a, kind) PROVE GuardFitsAgent'
  <2>1. CASE Hooked /\ kind = "edit"
    <3>1. slips' = slips \cup Slip(a, Blocked(Id(a), kind)) /\ phase # "none" /\ a \in Living
      BY <1>6, <2>1 DEF Call
    <3>2. Blocked(Id(a), kind) <=> Id(a) \notin Seen(Id(a)).subagents
      BY <2>1 DEF Blocked
    <3>3. Blocked(Id(a), kind) \in BOOLEAN
      BY DEF Blocked
    <3> QED BY <1>3, <1>4, <2>1, <3>1, <3>2, <3>3
  <2>2. CASE ~ (Hooked /\ kind = "edit")
    BY <1>2, <1>6, <2>2 DEF Call
  <2> QED BY <2>1, <2>2
<1>7. \/ slips' = slips \/ \E a \in Agents : Other(a)
      \/ \E a \in Agents, kind \in Kinds : Call(a, kind)
  BY DEF Next, vars, StartPass, StartJudge, PassEnds, JudgeEnds, Dies,
         Verify, Review, Reopen, Delegate, ChildEnds, Report, Dispatched, Clean, Todo
<1> QED BY <1>2, <1>5, <1>6, <1>7

-------------------------------------------------------------------------------
(* What the notes hold.                                                    *)

\* Trimmed findings keep the properties of the findings.
LEMMA TrimmedKeeps ==
  ASSUME NEW f \in Seq(Entry)
  PROVE  /\ Up(f) => Up(Trimmed(f))
         /\ \A p \in Seq(Nat) : EndsIn(f, p) => EndsIn(Trimmed(f), p)
         /\ \A r : (\A i \in 1..Len(f) : f[i].report > r) =>
                     \A i \in 1..Len(Trimmed(f)) : Trimmed(f)[i].report > r
<1> DEFINE t == Trimmed(f)
           d == Len(f) - Len(t)
<1>1. /\ Len(f) \in Nat /\ Budget \in Nat \ {0}
      /\ Len(t) = IF Len(f) <= Budget THEN Len(f) ELSE Budget
      /\ \A i \in 1..Len(t) : t[i] = f[d + i]
  BY BudgetAssumption, TrimmedIs
<1> HIDE DEF t
<1>2. /\ d \in Nat /\ Len(t) \in Nat /\ Len(f) = d + Len(t)
      /\ \A i \in 1..Len(t) : d + i \in 1..Len(f)
  BY <1>1
<1>3. ASSUME Up(f), NEW i \in 1..Len(t), NEW j \in 1..Len(t), i < j PROVE t[i].n < t[j].n
  <2>1. d + i \in 1..Len(f) /\ d + j \in 1..Len(f) /\ d + i < d + j
    BY <1>2, <1>3
  <2>2. f[d + i].n < f[d + j].n
    BY <1>3, <2>1 DEF Up
  <2> QED BY <1>1, <2>2
<1>4. ASSUME NEW p \in Seq(Nat), EndsIn(f, p) PROVE EndsIn(t, p)
  <2>1. Len(p) \in Nat
    OBVIOUS
  <2>2. Len(t) <= Len(p) /\ (Len(t) >= Budget \/ Len(t) = Len(p))
    BY <1>1, <1>4, <2>1 DEF EndsIn
  <2>3. ASSUME NEW i \in 1..Len(t) PROVE t[i].report = p[Len(p) - Len(t) + i]
    <3>1. f[d + i].report = p[Len(p) - Len(f) + (d + i)]
      BY <1>2, <1>4 DEF EndsIn
    <3>2. Len(p) - Len(f) + (d + i) = Len(p) - Len(t) + i
      BY <1>2, <2>1
    <3> QED BY <1>1, <3>1, <3>2
  <2> QED BY <2>2, <2>3 DEF EndsIn
<1>5. ASSUME NEW r, \A i \in 1..Len(f) : f[i].report > r, NEW i \in 1..Len(t)
      PROVE  t[i].report > r
  BY <1>1, <1>2, <1>5
<1> QED BY <1>3, <1>4, <1>5 DEF t, Up

\* What is composed holds what the memory does.
LEMMA ComposedKeeps ==
  ASSUME NEW m \in Memories
  PROVE  /\ Numbered(m) => Up(Composed(m).findings)
         /\ \A p \in Seq(Nat) : \A n : Fit(m, p, n) => Fit(Composed(m), p, n)
         /\ \A l, r : Since(m, l, r) => Since(Composed(m), l, r)
<1>1. m.findings \in Seq(Entry)
  BY DEF Memories
<1>2. Composed(m).findings = Trimmed(m.findings) /\ Composed(m).checklist = m.checklist
  BY ComposedType
<1>3. Numbered(m) => Up(Composed(m).findings)
  BY <1>1, <1>2, TrimmedKeeps DEF Numbered
<1>4. \A p \in Seq(Nat) : \A n : Fit(m, p, n) => Fit(Composed(m), p, n)
  BY <1>1, <1>2, TrimmedKeeps DEF Fit
<1>5. \A l, r : Since(m, l, r) => Since(Composed(m), l, r)
  BY <1>1, <1>2, TrimmedKeeps DEF Since
<1> QED BY <1>3, <1>4, <1>5

\* The empty notes hold nothing.
LEMMA EmptyKeeps ==
  ASSUME NEW m, m.checklist = NoList, m.findings = <<>>
  PROVE  /\ Up(m.findings)
         /\ \A l, r : Since(m, l, r)
         /\ Nothing => Fit(m, posted, noted)
         /\ Typed /\ Fit(m, posted, noted) => Nothing
<1>1. Len(m.findings) = 0 /\ NoList.by # "main" /\ \A i \in 1..0 : FALSE
  BY DEF NoList
<1>2. Up(m.findings) /\ \A l, r : Since(m, l, r)
  BY <1>1 DEF Up, Since
<1>3. Nothing => Fit(m, posted, noted)
  BY <1>1 DEF Nothing, Fit, EndsIn, ListOf
<1>4. ASSUME Typed, Fit(m, posted, noted) PROVE Nothing
  <2>a. posted \in Seq(Nat) /\ Budget \in Nat \ {0}
    BY <1>4, TypedNow, BudgetAssumption
  <2>1. Len(posted) \in Nat
    BY <2>a
  <2>2. Len(posted) = 0
    BY <1>1, <1>4, <2>a, <2>1 DEF Fit, EndsIn
  <2>3. posted = <<>>
    BY <2>a, <2>2
  <2>4. noted # 0 => ListOf(noted).by = "main"
    BY DEF ListOf
  <2>5. Attached => noted = 0
    BY <1>1, <1>4, <2>4 DEF Fit
  <2> QED BY <2>3, <2>5 DEF Nothing
<1> QED BY <1>2, <1>3, <1>4

\* A memory that is read from the file holds what was noted.
LEMMA SeededKeeps ==
  ASSUME Typed, Noted, AtWork
  PROVE  LET s == Seeded(memory)
         IN /\ s \in Memories /\ s.seeded /\ Numbered(s)
            /\ lost = "no" => Fit(s, posted, noted)
            /\ Since(s, unit.lists, unit.reports)
<1> DEFINE s == Seeded(memory)
<1>0. /\ memory \in Memories /\ file \in Notes /\ Up(file.findings)
  BY TypedNow DEF Noted, NumbersFit
<1>1. /\ s \in Memories /\ s.seeded
      /\ memory.seeded => s = memory
      /\ ~ memory.seeded => /\ s.checklist = file.checklist /\ s.findings = file.findings
                            /\ \A i \in 1..Len(s.findings) : s.findings[i].n <= s.delegations
  BY <1>0, SeededType
<1> HIDE DEF s
<1>2. Numbered(s)
  BY <1>0, <1>1 DEF Noted, NumbersFit, Numbered
<1>3. Since(s, unit.lists, unit.reports)
  BY <1>1 DEF Noted, OfThisUnit, Since
<1>4. ASSUME lost = "no" PROVE Fit(s, posted, noted)
  <2>1. CASE memory.seeded
    BY <1>1, <1>4, <2>1 DEF Noted, NotesKept
  <2>2. CASE ~ memory.seeded /\ file.there
    BY <1>1, <1>4, <2>2 DEF Noted, NotesKept, Fit
  <2>3. CASE ~ memory.seeded /\ ~ file.there
    <3>1. Nothing
      BY <1>4, <2>3 DEF Noted, NotesKept
    <3>2. file = NoFile
      BY <2>3 DEF Noted, Blank
    <3>3. s.checklist = NoList /\ s.findings = <<>>
      BY <1>1, <2>3, <3>2 DEF NoFile
    <3> QED BY <3>1, <3>3, EmptyKeeps
  <2> QED BY <2>1, <2>2, <2>3
<1> QED BY <1>1, <1>2, <1>3, <1>4 DEF s

\* A file that was healed holds what the memory does.
LEMMA HealedKeeps ==
  ASSUME Typed, Noted, AtWork, NEW m \in Memories, Numbered(m),
         lost = "no" => Fit(m, posted, noted), Since(m, unit.lists, unit.reports)
  PROVE  LET h == Healed(m)
         IN /\ ~ h.there => h = NoFile
            /\ Up(h.findings)
            /\ lost = "no" => (h.there => Fit(h, posted, noted)) /\ (~ h.there => Nothing)
            /\ Since(h, unit.lists, unit.reports)
<1>0. posted \in Seq(Nat) /\ Composed(m).there
  BY TypedNow, ComposedType
<1>1. CASE ~ file.there /\ (m.checklist # NoList \/ m.findings # <<>>)
  <2>1. Healed(m) = Composed(m)
    BY <1>1 DEF Healed
  <2> QED BY <1>0, <2>1, ComposedKeeps
<1>2. CASE ~ file.there /\ m.checklist = NoList /\ m.findings = <<>>
  <2>1. Healed(m) = file /\ file = NoFile
    BY <1>2 DEF Healed, Noted, Blank
  <2>2. file.checklist = NoList /\ file.findings = <<>>
    BY <2>1 DEF NoFile
  <2>3. lost = "no" => Nothing
    BY <1>2, EmptyKeeps
  <2> QED BY <1>2, <2>1, <2>2, <2>3, EmptyKeeps
<1>3. CASE file.there
  <2>1. Healed(m) = file
    BY <1>3 DEF Healed
  <2> QED BY <1>3, <2>1 DEF Noted, NumbersFit, NotesKept, OfThisUnit
<1> QED BY <1>1, <1>2, <1>3

\* Two memories with the same notes.
Agree(m, q) ==
  /\ m.seeded = q.seeded /\ m.checklist = q.checklist
  /\ m.findings = q.findings /\ m.delegations = q.delegations

\* What the hooks do to the notes.
LEMMA HooksNote ==
  ASSUME memory \in Memories, file \in Notes, Up(file.findings),
         NEW id \in Ids, NEW list, NEW report \in Nat
  PROVE  LET s == Seeded(memory)
         IN /\ PreDelegate(id) \/ PreCall(id) => Agree(memory', memory) /\ file' = file
            /\ PostCall => Agree(memory', s) /\ file' = Healed(memory')
            /\ PostTodo(id, list) =>
                 \/ /\ id \in memory'.subagents \/ list = NoList
                    /\ Agree(memory', s) /\ file' = Healed(memory')
                 \/ /\ list # NoList /\ id \notin memory'.subagents
                    /\ memory'.seeded = s.seeded /\ memory'.checklist = list
                    /\ memory'.findings = s.findings /\ memory'.delegations = s.delegations
                    /\ file' = Composed(memory')
            /\ PostDelegate(id, report) =>
                 IF report = 0 THEN Agree(memory', s) /\ file' = Healed(memory')
                 ELSE /\ memory'.seeded = s.seeded /\ memory'.checklist = s.checklist
                      /\ memory'.delegations = s.delegations + 1
                      /\ memory'.findings =
                           Append(s.findings, [n |-> s.delegations + 1, report |-> report])
                      /\ file' = Composed(memory')
<1> DEFINE s == Seeded(memory)
<1>1. s \in Memories
  BY SeededType
<1> HIDE DEF s
<1>2. ASSUME NEW m \in Memories
      PROVE  /\ NotePrimary(m, id) \in Memories /\ Agree(NotePrimary(m, id), m)
             /\ Observed(m, id) \in Memories /\ Agree(Observed(m, id), m)
             /\ \A n : Agree([m EXCEPT !.active = n], m)
  BY DEF Memories, NotePrimary, Observed, Agree
<1>3. ASSUME PreDelegate(id) \/ PreCall(id) PROVE Agree(memory', memory) /\ file' = file
  <2>1. CASE PreDelegate(id)
    <3> DEFINE m == NotePrimary(memory, id)
    <3>1. memory' = [m EXCEPT !.active = @ + 1] /\ file' = file
      BY <2>1 DEF PreDelegate
    <3>2. m \in Memories /\ Agree(m, memory)
      BY <1>2
    <3> HIDE DEF m
    <3>3. Agree(memory', m)
      BY <3>1, <3>2 DEF Agree, Memories
    <3> QED BY <3>1, <3>2, <3>3 DEF Agree
  <2>2. CASE PreCall(id)
    BY <1>2, <2>2 DEF PreCall
  <2> QED BY <1>3, <2>1, <2>2
<1>4. ASSUME PostCall PROVE Agree(memory', s) /\ file' = Healed(memory')
  BY <1>4 DEF PostCall, s, Agree
<1>5. ASSUME PostTodo(id, list)
      PROVE  \/ /\ id \in memory'.subagents \/ list = NoList
                /\ Agree(memory', s) /\ file' = Healed(memory')
             \/ /\ list # NoList /\ id \notin memory'.subagents
                /\ memory'.seeded = s.seeded /\ memory'.checklist = list
                /\ memory'.findings = s.findings /\ memory'.delegations = s.delegations
                /\ file' = Composed(memory')
  <2> DEFINE m == Observed(s, id)
             noted1 == [m EXCEPT !.checklist = list]
  <2>1. \/ /\ id \in m.subagents \/ list = NoList
           /\ memory' = m /\ file' = Healed(m)
        \/ list # NoList /\ id \notin m.subagents /\ memory' = noted1 /\ file' = Composed(noted1)
    BY <1>5 DEF PostTodo, s
  <2>2. m \in Memories /\ Agree(m, s)
    BY <1>1, <1>2
  <2> HIDE DEF m
  <2>3. /\ noted1.seeded = m.seeded /\ noted1.checklist = list /\ noted1.findings = m.findings
        /\ noted1.delegations = m.delegations /\ noted1.subagents = m.subagents
    BY <2>2 DEF Memories
  <2> HIDE DEF noted1
  <2> QED BY <2>1, <2>2, <2>3 DEF Agree
<1>6. ASSUME PostDelegate(id, report)
      PROVE  IF report = 0 THEN Agree(memory', s) /\ file' = Healed(memory')
             ELSE /\ memory'.seeded = s.seeded /\ memory'.checklist = s.checklist
                  /\ memory'.delegations = s.delegations + 1
                  /\ memory'.findings =
                       Append(s.findings, [n |-> s.delegations + 1, report |-> report])
                  /\ file' = Composed(memory')
  <2> DEFINE q == NotePrimary(s, id)
             m == [q EXCEPT !.active = Max({0, @ - 1})]
             entry == [n |-> m.delegations + 1, report |-> report]
             noted1 == [m EXCEPT !.delegations = @ + 1, !.findings = Append(@, entry)]
  <2>1. IF report = 0 THEN memory' = m /\ file' = Healed(m)
        ELSE memory' = noted1 /\ file' = Composed(noted1)
    BY <1>6 DEF PostDelegate, s
  <2>2. q \in Memories /\ Agree(q, s)
    BY <1>1, <1>2
  <2> HIDE DEF q
  <2>3. Agree(m, q) /\ DOMAIN m = DOMAIN q
    BY <2>2 DEF Agree, Memories
  <2>4. Agree(m, s)
    BY <2>2, <2>3 DEF Agree
  <2> HIDE DEF m
  <2>5. DOMAIN m = {"primary", "active", "subagents", "seeded", "checklist", "findings", "delegations"}
    BY <2>2, <2>3 DEF Memories
  <2>6. /\ noted1.seeded = m.seeded /\ noted1.checklist = m.checklist
        /\ noted1.delegations = m.delegations + 1 /\ noted1.findings = Append(m.findings, entry)
    BY <2>5
  <2> HIDE DEF noted1
  <2> QED BY <2>1, <2>4, <2>6 DEF Agree
<1> QED BY <1>3, <1>4, <1>5, <1>6 DEF s

\* One more report, at the end of both.
LEMMA AppendedNote ==
  ASSUME NEW m \in Memories, NEW q, NEW p \in Seq(Nat), NEW r \in Nat,
         q.delegations = m.delegations + 1,
         q.findings = Append(m.findings, [n |-> m.delegations + 1, report |-> r])
  PROVE  /\ Numbered(m) => Numbered(q)
         /\ EndsIn(m.findings, p) => EndsIn(q.findings, Append(p, r))
         /\ \A l \in Nat : r > l /\ (\A i \in 1..Len(m.findings) : m.findings[i].report > l) =>
              \A i \in 1..Len(q.findings) : q.findings[i].report > l
<1> DEFINE f == m.findings
           e == [n |-> m.delegations + 1, report |-> r]
           g == q.findings
<1>1. f \in Seq(Entry) /\ m.delegations \in Nat
  BY DEF Memories
<1>2. e \in Entry
  BY <1>1 DEF Entry
<1>a. e.n = m.delegations + 1 /\ e.report = r /\ g = Append(f, e)
  OBVIOUS
<1> HIDE DEF f, e
<1>b. Len(f) \in Nat /\ \A i \in 1..Len(f) : f[i] \in Entry
  BY <1>1
<1>c. /\ Len(g) = Len(f) + 1 /\ g[Len(f) + 1] = e
      /\ \A i \in 1..Len(f) : g[i] = f[i]
  <2>1. /\ Len(Append(f, e)) = Len(f) + 1 /\ Append(f, e)[Len(f) + 1] = e
        /\ \A i \in 1..Len(f) : Append(f, e)[i] = f[i]
    BY <1>1, <1>2, AppendProperties
  <2> QED BY <1>a, <2>1
<1>3. /\ Len(f) \in Nat /\ Len(g) = Len(f) + 1 /\ g[Len(f) + 1] = e
      /\ \A i \in 1..Len(f) : g[i] = f[i] /\ f[i] \in Entry
  BY <1>b, <1>c
<1>4. \A i \in 1..Len(f) : f[i].n \in Nat
  BY <1>3 DEF Entry
<1> HIDE DEF g
<1>5. ASSUME Numbered(m) PROVE Numbered(q)
  <2>1. \A i \in 1..Len(f) : f[i].n <= m.delegations
    BY <1>5 DEF Numbered, f
  <2>2. Up(f)
    BY <1>5 DEF Numbered, f
  <2>3. ASSUME NEW i \in 1..Len(g), NEW j \in 1..Len(g), i < j PROVE g[i].n < g[j].n
    <3>1. i \in 1..Len(f)
      BY <1>3, <2>3
    <3>2. CASE j \in 1..Len(f)
      BY <1>3, <2>2, <2>3, <3>1, <3>2 DEF Up
    <3>3. CASE j = Len(f) + 1
      BY <1>1, <1>3, <1>4, <1>a, <2>1, <3>1, <3>3
    <3> QED BY <1>3, <3>2, <3>3
  <2>4. ASSUME NEW i \in 1..Len(g) PROVE g[i].n <= q.delegations
    <3>1. CASE i \in 1..Len(f)
      BY <1>1, <1>3, <1>4, <2>1, <3>1, SMTT(30)
    <3>2. CASE i = Len(f) + 1
      BY <1>1, <1>3, <1>a, <3>2
    <3> QED BY <1>3, <3>1, <3>2
  <2> QED BY <2>3, <2>4 DEF Numbered, Up, g
<1>6. ASSUME EndsIn(f, p) PROVE EndsIn(g, Append(p, r))
  <2> DEFINE z == Append(p, r)
  <2>1. /\ Len(p) \in Nat /\ Len(z) = Len(p) + 1 /\ z[Len(p) + 1] = r
        /\ \A i \in 1..Len(p) : z[i] = p[i]
    OBVIOUS
  <2> HIDE DEF z
  <2>2. Len(f) <= Len(p) /\ (Len(f) >= Budget \/ Len(f) = Len(p)) /\ Budget \in Nat
    BY <1>6, BudgetAssumption DEF EndsIn
  <2>3. Len(g) <= Len(z) /\ (Len(g) >= Budget \/ Len(g) = Len(z))
    BY <1>3, <2>1, <2>2
  <2>4. ASSUME NEW i \in 1..Len(g) PROVE g[i].report = z[Len(z) - Len(g) + i]
    <3>1. Len(z) - Len(g) + i = Len(p) - Len(f) + i
      BY <1>3, <2>1
    <3>2. CASE i \in 1..Len(f)
      <4>1. f[i].report = p[Len(p) - Len(f) + i]
        BY <1>6, <3>2 DEF EndsIn
      <4>2. Len(p) - Len(f) + i \in 1..Len(p)
        BY <1>3, <2>1, <2>2, <3>2
      <4> QED BY <1>3, <2>1, <3>1, <3>2, <4>1, <4>2
    <3>3. CASE i = Len(f) + 1
      <4>1. Len(p) - Len(f) + i = Len(p) + 1
        BY <1>3, <2>1, <3>3
      <4> QED BY <1>3, <1>a, <2>1, <3>1, <3>3, <4>1
    <3> QED BY <1>3, <3>2, <3>3
  <2> QED BY <2>3, <2>4 DEF EndsIn, z
<1>7. ASSUME NEW l \in Nat, r > l, \A i \in 1..Len(f) : f[i].report > l, NEW i \in 1..Len(g)
      PROVE  g[i].report > l
  <2>1. CASE i \in 1..Len(f)
    BY <1>3, <1>7, <2>1
  <2>2. CASE i = Len(f) + 1
    BY <1>3, <1>a, <1>7, <2>2
  <2> QED BY <1>3, <2>1, <2>2
<1> QED BY <1>5, <1>6, <1>7 DEF f, g

\* Whatever else a step does, it leaves the notes.
LEMMA QuietKeeps ==
  ASSUME Noted, Agree(memory', memory), file' = file, Attached' <=> Attached,
         UNCHANGED <<stage, unit, lists, noted, reports, posted, lost>>, Building => Building'
  PROVE  Noted'
<1> USE DEF Noted, Agree
<1>1. Blank'
  BY DEF Blank
<1>2. NumbersFit'
  BY DEF NumbersFit, Numbered
<1>3. NotesKept'
  BY DEF NotesKept, AtWork, Nothing, Fit
<1>4. OfThisUnit'
  BY DEF OfThisUnit, AtWork, Since
<1> QED BY <1>1, <1>2, <1>3, <1>4

\* A hook that heals the file leaves the notes.
LEMMA HealKeeps ==
  ASSUME Typed, Noted, Hooked, memory' \in Memories, Agree(memory', Seeded(memory)),
         file' = Healed(memory'), Attached' <=> Attached,
         UNCHANGED <<stage, unit, lists, noted, reports, posted, lost>>
  PROVE  Noted'
<1> DEFINE s == Seeded(memory)
<1>0. AtWork /\ stage # "OPEN_PR"
  BY DEF Hooked, WorkPhases, AtWork, WorkStages, Typed, OrchestratorTyped
<1>1. /\ s.seeded /\ Numbered(s) /\ (lost = "no" => Fit(s, posted, noted))
      /\ Since(s, unit.lists, unit.reports)
  BY <1>0, SeededKeeps
<1> HIDE DEF s
<1>2. /\ memory'.seeded = s.seeded /\ memory'.checklist = s.checklist
      /\ memory'.findings = s.findings /\ memory'.delegations = s.delegations
  BY DEF Agree, s
<1>3. PICK m \in Memories : m = memory'
  OBVIOUS
<1>4. /\ Numbered(m) /\ (lost = "no" => Fit(m, posted, noted))
      /\ Since(m, unit.lists, unit.reports)
  BY <1>1, <1>2, <1>3 DEF Numbered, Fit, Since
<1> DEFINE h == Healed(m)
<1>5. /\ ~ h.there => h = NoFile
      /\ Up(h.findings)
      /\ lost = "no" => (h.there => Fit(h, posted, noted)) /\ (~ h.there => Nothing)
      /\ Since(h, unit.lists, unit.reports)
  BY <1>0, <1>4, HealedKeeps
<1>6. file' = h
  BY <1>3
<1> HIDE DEF h
<1>7. Blank'
  BY <1>1, <1>2, <1>5, <1>6 DEF Blank
<1>8. NumbersFit'
  BY <1>3, <1>4, <1>5, <1>6 DEF NumbersFit
<1>9. NotesKept'
  BY <1>3, <1>4, <1>5, <1>6 DEF NotesKept, Nothing, Fit
<1>10. OfThisUnit'
  BY <1>0, <1>3, <1>4, <1>5, <1>6 DEF OfThisUnit, Noted
<1> QED BY <1>7, <1>8, <1>9, <1>10 DEF Noted

\* A note that is taken is in the memory and in the file.
LEMMA NoteKeeps ==
  ASSUME Typed, Noted, Hooked, UNCHANGED <<stage, unit>>,
         memory' \in Memories, memory'.seeded, file' = Composed(memory'),
         Numbered(memory)', posted' \in Seq(Nat), lost' = "no" => Fit(memory, posted, noted)',
         Since(memory, unit.lists, unit.reports)',
         unit.lists <= lists', unit.reports <= reports'
  PROVE  Noted'
<1>0. stage # "OPEN_PR"
  BY DEF Hooked, WorkPhases, Typed, OrchestratorTyped
<1>1. PICK m \in Memories : m = memory'
  OBVIOUS
<1>2. /\ Numbered(m) => Up(Composed(m).findings)
      /\ \A p \in Seq(Nat) : \A n : Fit(m, p, n) => Fit(Composed(m), p, n)
      /\ \A l, r : Since(m, l, r) => Since(Composed(m), l, r)
      /\ Composed(m).there
  BY ComposedKeeps, ComposedType
<1>3. file' = Composed(m)
  BY <1>1
<1>4. Blank' /\ NumbersFit'
  BY <1>1, <1>2, <1>3 DEF Blank, NumbersFit
<1>5. ASSUME lost' = "no" PROVE Fit(file, posted, noted)'
  <2>1. EndsIn(m.findings, posted')
    BY <1>1, <1>5 DEF Fit
  <2>2. EndsIn(Composed(m).findings, posted') /\ Composed(m).checklist = m.checklist
    <3>1. m.findings \in Seq(Entry)
      BY DEF Memories
    <3> QED BY <2>1, <3>1, TrimmedKeeps, ComposedType
  <2> QED BY <1>1, <1>3, <1>5, <2>2 DEF Fit
<1>6. NotesKept'
  BY <1>2, <1>3, <1>5 DEF NotesKept
<1>7. OfThisUnit'
  BY <1>0, <1>1, <1>2, <1>3 DEF OfThisUnit
<1> QED BY <1>4, <1>6, <1>7 DEF Noted

\* A process that ends, or its stage, leaves the file as it is.
LEMMA ExitKeeps ==
  ASSUME Typed, Noted, Exit, phase # "none", UNCHANGED <<unit, lists, noted, reports, posted>>,
         stage' # "OPEN_PR", lost' = "no" => lost = "no" /\ (~ file.there => Nothing)
  PROVE  Noted'
<1>1. AtWork
  BY DEF AtWork, Typed, OrchestratorTyped
<1>2. memory' = NewMemory /\ file' = file /\ (Attached' <=> Attached)
  BY DEF Exit, Attached
<1>3. ~ memory'.seeded /\ memory'.checklist = NoList /\ memory'.findings = <<>>
  BY <1>2 DEF NewMemory
<1>4. Blank'
  BY <1>2, <1>3 DEF Noted, Blank
<1>5. NumbersFit'
  <2>1. NewMemory.checklist = NoList /\ NewMemory.findings = <<>> /\ Len(NewMemory.findings) = 0
    BY NothingNoted DEF NewMemory
  <2>2. Numbered(NewMemory)
    BY <2>1 DEF Numbered, Up
  <2> QED BY <1>2, <2>2 DEF Noted, NumbersFit
<1>6. NotesKept'
  BY <1>1, <1>2, <1>3 DEF Noted, NotesKept, Nothing, Fit
<1>7. OfThisUnit'
  <2>1. \A l, r : Since(NewMemory, l, r)
    BY EmptyKeeps DEF NewMemory
  <2> QED BY <1>1, <1>2, <2>1 DEF Noted, OfThisUnit
<1> QED BY <1>4, <1>5, <1>6, <1>7 DEF Noted

\* A new unit starts without notes, and a stage that is not at work needs none.
LEMMA MovesKeep ==
  ASSUME Typed, Noted, phase = "none", NEW s \in {"REVIEW", "REVISE", "OPEN_PR"}, MovesTo({s}),
         file' \in {file, NoFile}, s # "REVIEW" => ~ file'.there,
         UNCHANGED <<memory, lists, reports>>
  PROVE  Noted'
<1>0. /\ lists \in Nat /\ reports \in Nat
  <2>1. MaxLists \in Nat /\ lists \in 0..MaxLists /\ reports \in Nat
    BY TypedNow
  <2> QED BY <2>1
<1>1. memory = NewMemory
  BY DEF Typed, Idle, WorkStages
<1>2. /\ ~ memory'.seeded /\ memory'.checklist = NoList /\ memory'.findings = <<>>
  BY <1>1 DEF NewMemory
<1>3. stage' = s /\ (s # "REVISE" => UNCHANGED unit)
      /\ (s = "REVISE" => /\ unit' = [n |-> unit.n + 1, lists |-> lists, reports |-> reports]
                          /\ noted' = 0 /\ posted' = <<>>)
  BY DEF MovesTo
<1>4. ~ file'.there => file' = NoFile
  BY DEF Noted, Blank, NoFile
<1>5. NoFile.checklist = NoList /\ NoFile.findings = <<>> /\ ~ NoFile.there
  BY DEF NoFile
<1>6. Up(NoFile.findings) /\ (\A l, r : Since(NoFile, l, r)) /\ \A l, r : Since(NewMemory, l, r)
  BY <1>5, EmptyKeeps DEF NewMemory
<1>7. Blank'
  BY <1>2, <1>4 DEF Blank
<1>8. NumbersFit'
  BY <1>6 DEF Noted, NumbersFit, Numbered
<1>9. NotesKept'
  BY <1>2, <1>3 DEF NotesKept, AtWork, WorkStages, Nothing
<1>10. OfThisUnit'
  <2>1. unit'.lists <= lists' /\ unit'.reports <= reports'
    <3>1. CASE s = "REVISE"
      BY <1>0, <1>3, <3>1
    <3>2. CASE s # "REVISE"
      BY <1>3, <3>2 DEF Noted, OfThisUnit
    <3> QED BY <3>1, <3>2
  <2>2. AtWork' => file' = NoFile /\ memory' = NewMemory
    BY <1>1, <1>3, <1>4 DEF AtWork, WorkStages
  <2> QED BY <1>3, <1>6, <2>1, <2>2 DEF OfThisUnit
<1> QED BY <1>7, <1>8, <1>9, <1>10 DEF Noted

LEMMA NotedInit == Init => Noted
<1> SUFFICES ASSUME Init PROVE Noted
  OBVIOUS
<1>1. /\ memory = NewMemory /\ file = NoFile /\ noted = 0 /\ posted = <<>>
      /\ stage = "IMPLEMENT" /\ lists = 0 /\ reports = 0
      /\ unit = [n |-> 1, lists |-> 0, reports |-> 0]
  BY DEF Init
<1>2. /\ ~ memory.seeded /\ memory.checklist = NoList /\ memory.findings = <<>>
      /\ ~ file.there /\ file.checklist = NoList /\ file.findings = <<>>
  BY <1>1 DEF NewMemory, NoFile
<1>3. /\ Up(file.findings) /\ Up(memory.findings)
      /\ \A l, r : Since(file, l, r) /\ Since(memory, l, r)
  BY <1>2, EmptyKeeps
<1>4. Numbered(memory)
  <2>1. Len(memory.findings) = 0
    BY <1>2, NothingNoted
  <2> QED BY <1>3, <2>1 DEF Numbered
<1>5. unit.lists <= lists /\ unit.reports <= reports
  BY <1>1
<1>6. Blank
  BY <1>1, <1>2 DEF Blank
<1>7. NotesKept
  BY <1>1, <1>2 DEF NotesKept, Nothing
<1> QED BY <1>1, <1>3, <1>4, <1>5, <1>6, <1>7 DEF Noted, NumbersFit, OfThisUnit

\* A report is appended, and the file has it.
LEMMA ReportKeeps ==
  ASSUME Typed, Typed', Noted, NEW c \in Children, Report(c) PROVE Noted'
<1> DEFINE s == Seeded(memory)
<1>0. /\ memory \in Memories /\ file \in Notes /\ Up(file.findings) /\ memory' \in Memories
      /\ mainId \in Ids /\ posted \in Seq(Nat) /\ posted' \in Seq(Nat)
  BY TypedNow DEF Noted, NumbersFit, Typed, AgentsTyped
<1>a. reports \in Nat
  BY TypedNow
<1>b. reports + 1 \in Nat /\ reports + 1 # 0
  BY <1>a
<1>1. /\ phase # "none" /\ deleg[c] = "finished" /\ PostDelegate(mainId, reports + 1)
      /\ reports' = reports + 1 /\ posted' = Append(posted, reports + 1)
      /\ UNCHANGED <<stage, supported, unit, lists, noted, lost>>
  BY DEF Report, jobVars
<1>2. phase \in WorkStages
  BY <1>1, TypedNow
<1>3. Hooked /\ AtWork
  BY <1>2 DEF Hooked, WorkPhases, WorkStages, AtWork, Typed, OrchestratorTyped
<1>4. /\ s \in Memories /\ s.seeded /\ Numbered(s) /\ (lost = "no" => Fit(s, posted, noted))
      /\ Since(s, unit.lists, unit.reports)
  BY <1>3, SeededKeeps
<1>5. /\ memory'.seeded = s.seeded /\ memory'.checklist = s.checklist
      /\ memory'.delegations = s.delegations + 1
      /\ memory'.findings = Append(s.findings, [n |-> s.delegations + 1, report |-> reports + 1])
      /\ file' = Composed(memory')
  BY <1>0, <1>1, <1>b, HooksNote
<1> HIDE DEF s
<1>6. unit.lists <= lists /\ unit.reports <= reports /\ unit.reports \in Nat
  BY DEF Noted, OfThisUnit, Typed, OrchestratorTyped
<1>7. PICK q \in Memories : q = memory'
  BY <1>0
<1>8. /\ Numbered(s) => Numbered(q)
      /\ EndsIn(s.findings, posted) => EndsIn(q.findings, Append(posted, reports + 1))
      /\ \A l \in Nat : reports + 1 > l /\ (\A i \in 1..Len(s.findings) : s.findings[i].report > l) =>
           \A i \in 1..Len(q.findings) : q.findings[i].report > l
  BY <1>0, <1>b, <1>4, <1>5, <1>7, AppendedNote
<1>9. Numbered(memory)'
  BY <1>4, <1>7, <1>8 DEF Numbered
<1>10. ASSUME lost' = "no" PROVE Fit(memory, posted, noted)'
  <2>1. Fit(s, posted, noted)
    BY <1>1, <1>4, <1>10
  <2>2. EndsIn(memory'.findings, posted')
    BY <1>1, <1>7, <1>8, <2>1 DEF Fit
  <2> QED BY <1>1, <1>5, <2>1, <2>2 DEF Fit, Attached
<1>11. Since(memory, unit.lists, unit.reports)'
  <2>1. reports + 1 > unit.reports
    BY <1>a, <1>6
  <2>2. \A i \in 1..Len(q.findings) : q.findings[i].report > unit.reports
    BY <1>4, <1>6, <1>8, <2>1 DEF Since
  <2> QED BY <1>1, <1>4, <1>5, <1>7, <2>2 DEF Since
<1>12. unit.lists <= lists' /\ unit.reports <= reports'
  BY <1>1, <1>6, <1>a
<1> QED BY <1>0, <1>1, <1>3, <1>4, <1>5, <1>9, <1>10, <1>11, <1>12, NoteKeeps

\* The primary's list is taken, and no child's where the plugin is attached.
LEMMA TodoKeeps ==
  ASSUME Typed, Typed', Known, Known', Noted, NEW a \in Agents, Todo(a) PROVE Noted'
<1> DEFINE s == Seeded(memory)
<1>0. /\ memory \in Memories /\ file \in Notes /\ Up(file.findings) /\ memory' \in Memories
      /\ posted \in Seq(Nat) /\ Id(a) \in Ids
  BY TypedNow, IdsOfAgents DEF Noted, NumbersFit, Typed, AgentsTyped
<1>a. lists \in Nat
  <2>1. MaxLists \in Nat /\ lists \in 0..MaxLists
    BY TypedNow
  <2> QED BY <2>1
<1>1. PICK empty \in BOOLEAN :
        LET made == a = Main /\ phase \in WorkStages /\ ~ empty
            list == CASE empty -> NoList
                      [] made -> [by |-> "main", n |-> lists + 1]
                      [] OTHER -> [by |-> "other", n |-> 0]
        IN /\ lists' = IF made THEN lists + 1 ELSE lists
           /\ noted' = IF made THEN lists + 1 ELSE noted
           /\ IF Hooked THEN PostTodo(Id(a), list) ELSE UNCHANGED <<memory, file>>
  BY DEF Todo
<1> DEFINE made == a = Main /\ phase \in WorkStages /\ ~ empty
           list == CASE empty -> NoList
                     [] made -> [by |-> "main", n |-> lists + 1]
                     [] OTHER -> [by |-> "other", n |-> 0]
<1>2. /\ phase # "none" /\ call[a] = "todo" /\ call' = [call EXCEPT ![a] = "none"]
      /\ UNCHANGED <<stage, phase, mainId, supported, deleg, guard, unit, reports, posted, lost>>
  BY DEF Todo, Calling, Called, jobVars
<1>3. Attached' <=> Attached
  BY <1>2 DEF Attached
<1>4. Building => Building'
  BY <1>2, TypedNow DEF Building
<1>5. CASE ~ Hooked
  <2>1. ~ made
    BY <1>5 DEF Hooked, WorkPhases, WorkStages
  <2>2. UNCHANGED <<memory, file, lists, noted>>
    BY <1>1, <1>5, <2>1
  <2> QED BY <1>2, <1>3, <1>4, <2>2, QuietKeeps DEF Agree
<1>6. CASE Hooked
  <2>1. /\ lists' = IF made THEN lists + 1 ELSE lists
        /\ noted' = IF made THEN lists + 1 ELSE noted
        /\ PostTodo(Id(a), list)
    BY <1>1, <1>6
  <2>2. /\ made => list = [by |-> "main", n |-> lists + 1] /\ list # NoList /\ a = Main
        /\ ~ made => list = NoList \/ (list = [by |-> "other", n |-> 0] /\ a # Main)
    BY <1>6 DEF NoList, Hooked, WorkPhases, WorkStages
  <2> HIDE DEF made, list
  <2>3. \/ /\ Id(a) \in memory'.subagents \/ list = NoList
           /\ Agree(memory', s) /\ file' = Healed(memory')
        \/ /\ list # NoList /\ Id(a) \notin memory'.subagents
           /\ memory'.seeded = s.seeded /\ memory'.checklist = list
           /\ memory'.findings = s.findings /\ memory'.delegations = s.delegations
           /\ file' = Composed(memory')
    BY <1>0, <2>1, HooksNote
  <2>4. a = Main => Id(a) \notin memory'.subagents
    <3>1. memory'.subagents \subseteq Children
      BY DEF Known, Knows
    <3>2. a = Main => Id(a) = mainId /\ mainId \notin Children
      BY TypedNow, IdsOfAgents
    <3> QED BY <3>1, <3>2
  <2>5. CASE /\ Id(a) \in memory'.subagents \/ list = NoList
             /\ Agree(memory', s) /\ file' = Healed(memory')
    <3>1. ~ made
      BY <2>2, <2>4, <2>5
    <3>2. UNCHANGED <<lists, noted>>
      BY <2>1, <3>1
    <3> QED BY <1>0, <1>2, <1>3, <1>6, <2>5, <3>2, HealKeeps
  <2>6. CASE /\ list # NoList /\ Id(a) \notin memory'.subagents
             /\ memory'.seeded = s.seeded /\ memory'.checklist = list
             /\ memory'.findings = s.findings /\ memory'.delegations = s.delegations
             /\ file' = Composed(memory')
    <3>1. AtWork
      BY <1>6 DEF Hooked, WorkPhases, AtWork, WorkStages, Typed, OrchestratorTyped
    <3>2. /\ s \in Memories /\ s.seeded /\ Numbered(s) /\ (lost = "no" => Fit(s, posted, noted))
          /\ Since(s, unit.lists, unit.reports)
      BY <3>1, SeededKeeps
    <3> HIDE DEF s
    <3>3. Attached => made
      <4>1. ASSUME Attached, ~ made PROVE FALSE
        <5>1. supported = "forced" /\ a \in Children /\ Id(a) = a
          BY <1>2, <2>2, <2>6, <4>1, IdsOfAgents DEF Attached, Typed, OrchestratorTyped
        <5>2. memory.active > 0 /\ a # memory.primary /\ a # ""
          BY <1>2, <5>1, CallShows
        <5>3. memory'.subagents = IF memory.active > 0 /\ Id(a) # "" /\ Id(a) # memory.primary
                                  THEN memory.subagents \cup {Id(a)} ELSE memory.subagents
          BY <1>0, <2>1, MemoryIds
        <5> QED BY <2>6, <5>1, <5>2, <5>3
      <4> QED BY <4>1
    <3>4. Numbered(memory)'
      BY <2>6, <3>2 DEF Numbered
    <3>5. ASSUME lost' = "no" PROVE Fit(memory, posted, noted)'
      <4>1. EndsIn(memory'.findings, posted')
        BY <1>2, <2>6, <3>2, <3>5 DEF Fit
      <4>2. Attached => memory'.checklist = ListOf(noted')
        <5>1. lists + 1 # 0
          BY <1>a
        <5> QED BY <2>1, <2>2, <2>6, <3>3, <5>1 DEF ListOf
      <4> QED BY <1>3, <4>1, <4>2 DEF Fit
    <3>6. unit.lists <= lists /\ unit.reports <= reports /\ unit.lists \in Nat
      BY DEF Noted, OfThisUnit, Typed, OrchestratorTyped
    <3>7. unit.lists <= lists' /\ unit.reports <= reports'
      BY <1>a, <1>2, <2>1, <3>6
    <3>8. Since(memory, unit.lists, unit.reports)'
      <4>1. lists + 1 > unit.lists
        BY <1>a, <3>6
      <4>2. list.by = "main" => list.n > unit.lists
        BY <2>2, <2>6, <4>1
      <4> QED BY <1>2, <2>6, <3>2, <4>2 DEF Since
    <3>9. memory'.seeded /\ posted' \in Seq(Nat)
      BY <1>0, <1>2, <2>6, <3>2
    <3> QED BY <1>0, <1>2, <1>6, <2>6, <3>4, <3>5, <3>7, <3>8, <3>9, NoteKeeps
  <2> QED BY <2>3, <2>5, <2>6
<1> QED BY <1>5, <1>6

\* Every step keeps the notes.
LEMMA NotedStep ==
  ASSUME Typed, Typed', Known, Known', Noted, [Next]_vars PROVE Noted'
<1>0. /\ memory \in Memories /\ file \in Notes /\ Up(file.findings) /\ memory' \in Memories
      /\ mainId \in Ids /\ \A a \in Agents : Id(a) \in Ids
  BY TypedNow, IdsOfAgents DEF Noted, NumbersFit, Typed, AgentsTyped
<1>1. CASE StartPass \/ StartJudge
  <2>1. /\ UNCHANGED <<stage, unit, lists, noted, reports, posted, lost, memory, file, call>>
        /\ supported' = EnsurePatch(supported)
    BY <1>1 DEF StartPass, StartJudge, Start, jobVars, counts
  <2>2. (Attached' <=> Attached) /\ (Building => Building')
    BY <2>1 DEF Attached, EnsurePatch, Building
  <2> QED BY <2>1, <2>2, QuietKeeps DEF Agree
<1>2. CASE PassEnds \/ JudgeEnds
  <2>1. /\ Exit /\ phase # "none" /\ UNCHANGED <<unit, lists, noted, reports, posted, lost>>
        /\ stage' # "OPEN_PR" /\ \A a \in Agents : call[a] = "none"
    BY <1>2 DEF PassEnds, JudgeEnds, Finished, counts, WorkStages, Typed, OrchestratorTyped
  <2>2. ~ Building /\ AtWork
    BY <2>1 DEF Building, AtWork, Typed, OrchestratorTyped
  <2> QED BY <2>1, <2>2, ExitKeeps DEF Noted, NotesKept
<1>3. CASE Dies
  <2>1. /\ Exit /\ phase # "none" /\ UNCHANGED <<unit, lists, noted, reports, posted>>
        /\ stage' # "OPEN_PR"
        /\ lost' = IF ~ file.there /\ posted \o <<noted>> # << 0 >> THEN "outside" ELSE lost
    BY <1>3 DEF Dies, counts, WorkStages, Typed, OrchestratorTyped
  <2>2. posted \o <<noted>> = << 0 >> => Nothing
    <3>1. posted \in Seq(Nat) /\ noted \in Nat
      BY TypedNow
    <3>2. Len(posted \o <<noted>>) = Len(posted) + 1 /\ (posted \o <<noted>>)[Len(posted) + 1] = noted
          /\ Len(posted) \in Nat
      BY <3>1
    <3>3. ASSUME posted \o <<noted>> = << 0 >> PROVE posted = <<>> /\ noted = 0
      <4> DEFINE q == posted \o <<noted>>
      <4>a. Len(<< 0 >>) = 1 /\ << 0 >>[1] = 0
        OBVIOUS
      <4>b. q = << 0 >> /\ Len(q) = Len(posted) + 1 /\ q[Len(posted) + 1] = noted
        BY <3>2, <3>3
      <4> HIDE DEF q
      <4>1. Len(q) = 1 /\ q[1] = 0
        BY <4>a, <4>b
      <4>2. Len(posted) = 0
        BY <3>2, <4>1, <4>b
      <4>3. noted = 0
        BY <4>b, <4>1, <4>2
      <4> QED BY <3>1, <4>2, <4>3
    <3> QED BY <3>3 DEF Nothing
  <2> QED BY <2>1, <2>2, ExitKeeps
<1>4. CASE Verify \/ Review \/ Reopen
  <2>1. PICK s \in {"REVIEW", "REVISE", "OPEN_PR"} :
          MovesTo({s}) /\ (s # "REVIEW" => ~ file'.there)
    <3>1. CASE Verify
      BY <3>1 DEF Verify, MovesTo, NoFile
    <3>2. CASE Review
      BY <3>2 DEF Review, MovesTo, NoFile
    <3>3. CASE Reopen
      BY <3>3 DEF Reopen, MovesTo, plugins, Noted, OfThisUnit
    <3> QED BY <1>4, <3>1, <3>2, <3>3
  <2>2. /\ phase = "none" /\ file' \in {file, NoFile} /\ UNCHANGED <<memory, lists, reports>>
    BY <1>4 DEF Verify, Review, Reopen, plugins
  <2> QED BY <2>1, <2>2, MovesKeep
<1>5. ASSUME NEW c \in Children, Delegate(c) PROVE Noted'
  <2>1. /\ PreDelegate(mainId)
        /\ UNCHANGED <<stage, supported, call, unit, lists, noted, reports, posted, lost>>
    BY <1>5 DEF Delegate, jobVars, counts
  <2>2. Agree(memory', memory) /\ file' = file
    BY <1>0, <2>1, HooksNote
  <2> QED BY <2>1, <2>2, QuietKeeps DEF Attached, Building
<1>6. ASSUME NEW c \in Children, ChildEnds(c) PROVE Noted'
  BY <1>6, QuietKeeps DEF ChildEnds, jobVars, counts, plugins, Attached, Building, Agree
<1>7. ASSUME NEW c \in Children, Report(c) PROVE Noted'
  BY <1>7, ReportKeeps
<1>8. ASSUME NEW c \in Children, Dispatched(c) PROVE Noted'
  <2>1. /\ PostDelegate(mainId, 0) /\ phase # "none" /\ deleg[c] # "none"
        /\ UNCHANGED <<stage, supported, unit, lists, noted, reports, posted, lost>>
    BY <1>8 DEF Dispatched, InFlight, jobVars, counts
  <2>2. Agree(memory', Seeded(memory)) /\ file' = Healed(memory')
    BY <1>0, <2>1, HooksNote
  <2>3. Hooked
    <3>1. phase \in WorkStages
      BY <2>1, TypedNow
    <3> QED BY <3>1 DEF Hooked, WorkPhases, WorkStages
  <2> QED BY <1>0, <2>1, <2>2, <2>3, HealKeeps DEF Attached
<1>9. ASSUME NEW a \in Agents, Clean(a) PROVE Noted'
  <2>1. /\ call[a] = "build" /\ file' = NoFile
        /\ UNCHANGED <<stage, supported, call, memory, unit, lists, noted, reports, posted>>
        /\ (memory.seeded /\ lost' = lost) \/ lost' # "no"
    BY <1>9 DEF Clean, Calling, jobVars, hermes, counts
  <2>2. Building' /\ (Attached' <=> Attached)
    BY <2>1 DEF Building, Attached
  <2>3. NoFile.checklist = NoList /\ NoFile.findings = <<>> /\ ~ NoFile.there
    BY DEF NoFile
  <2>4. Up(NoFile.findings) /\ \A l, r : Since(NoFile, l, r)
    BY <2>3, EmptyKeeps
  <2>5. Blank' /\ NumbersFit'
    BY <2>1, <2>4 DEF Noted, Blank, NumbersFit, Numbered
  <2>6. NotesKept'
    BY <2>1, <2>2, <2>3 DEF Noted, NotesKept, AtWork, Fit
  <2>7. OfThisUnit'
    BY <2>1, <2>3, <2>4 DEF Noted, OfThisUnit, AtWork, Since
  <2> QED BY <2>5, <2>6, <2>7 DEF Noted
<1>10. ASSUME NEW a \in Agents, Todo(a) PROVE Noted'
  BY <1>10, TodoKeeps
<1>11. ASSUME NEW a \in Agents, Other(a) PROVE Noted'
  <2>1. /\ UNCHANGED <<stage, supported, unit, lists, noted, reports, posted, lost>>
        /\ IF Hooked THEN PostCall ELSE UNCHANGED <<memory, file>>
        /\ phase # "none"
    BY <1>11 DEF Other, jobVars, counts
  <2>2. CASE Hooked
    <3>1. Agree(memory', Seeded(memory)) /\ file' = Healed(memory')
      BY <1>0, <2>1, <2>2, HooksNote
    <3> QED BY <1>0, <2>1, <2>2, <3>1, HealKeeps DEF Attached
  <2>3. CASE ~ Hooked
    <3>a. phase \notin WorkStages /\ phase = stage /\ phase = "JUDGE"
      BY <2>1, <2>3 DEF Hooked, WorkPhases, WorkStages, Typed, OrchestratorTyped
    <3>b. memory = NewMemory
      BY <3>a DEF Typed, Idle
    <3>1. ~ memory.seeded /\ AtWork
      BY <3>a, <3>b DEF NewMemory, AtWork
    <3>2. Blank' /\ NumbersFit' /\ OfThisUnit'
      BY <2>1, <2>3 DEF Noted, Blank, NumbersFit, Numbered, OfThisUnit, AtWork, Since
    <3>3. NotesKept'
      BY <2>1, <2>3, <3>1 DEF Noted, NotesKept, AtWork, Fit, Nothing, Attached
    <3> QED BY <3>2, <3>3 DEF Noted
  <2> QED BY <2>2, <2>3
<1>12. ASSUME NEW a \in Agents, NEW kind \in Kinds, Call(a, kind) PROVE Noted'
  <2>1. /\ call[a] = "none"
        /\ UNCHANGED <<stage, supported, unit, lists, noted, reports, posted, lost>>
        /\ PreCall(Id(a)) \/ UNCHANGED <<memory, file>>
    BY <1>12 DEF Call, jobVars, counts
  <2>2. \A x \in Agents : x # a => call'[x] = call[x]
    BY <1>12, TypedNow DEF Call
  <2>3. Agree(memory', memory) /\ file' = file
    BY <1>0, <2>1, HooksNote DEF Agree
  <2> QED BY <2>1, <2>2, <2>3, QuietKeeps DEF Attached, Building
<1>13. CASE UNCHANGED vars
  <2>1. UNCHANGED <<stage, supported, call, memory, file, unit, lists, noted, reports, posted, lost>>
    BY <1>13 DEF vars, jobVars, hermes, plugins, counts
  <2> QED BY <2>1, QuietKeeps DEF Agree, Attached, Building
<1> QED BY <1>1, <1>2, <1>3, <1>4, <1>5, <1>6, <1>7, <1>8, <1>9, <1>10, <1>11, <1>12, <1>13 DEF Next

-------------------------------------------------------------------------------
(* The theorems.                                                           *)

Inv == Typed /\ Known /\ Noted

LEMMA InvAlways == Spec => []Inv
<1>1. Init => Inv
  BY TypedInit, KnownInit, NotedInit DEF Inv
<1>2. Inv /\ [Next]_vars => Inv'
  <2> SUFFICES ASSUME Inv, [Next]_vars PROVE Inv'
    OBVIOUS
  <2>1. Typed /\ Known /\ Noted /\ Up(file.findings)
    BY DEF Inv, Noted, NumbersFit
  <2>2. Typed'
    BY <2>1, TypedStep
  <2>3. Known'
    BY <2>1, KnownStep
  <2> QED BY <2>1, <2>2, <2>3, NotedStep DEF Inv
<1> QED BY <1>1, <1>2, PTL DEF Spec

\* The orchestrator, Hermes and both plugins keep their types, and the file's
\* findings keep to their budget.
THEOREM TypeCorrect == Spec => []TypeOK
<1>1. Inv => TypeOK
  <2> SUFFICES ASSUME Inv PROVE TypeOK
    OBVIOUS
  <2>1. Typed
    BY DEF Inv
  <2>2. /\ memory.primary \in Ids /\ guard.primary \in Ids
        /\ memory.active \in Nat /\ guard.active \in Nat
        /\ memory.subagents \subseteq Ids /\ guard.subagents \subseteq Ids
        /\ memory.checklist \in Lists /\ file.checklist \in Lists
    BY <2>1, TypedNow DEF Memories, Notes, Guards
  <2> QED BY <2>1, <2>2 DEF Typed, OrchestratorTyped, AgentsTyped, Idle, TypeOK
<1> QED BY <1>1, InvAlways, PTL

\* worker_guard holds the primary back and leaves the children alone, in every
\* order of their calls and however many of them there are.
THEOREM GuardFitsAgentHolds == Spec => []GuardFitsAgent
<1>1. Init => GuardFitsAgent
  BY DEF Init, GuardFitsAgent
<1>2. Inv /\ GuardFitsAgent /\ [Next]_vars => GuardFitsAgent'
  BY SlipsStep DEF Inv
<1> QED BY <1>1, <1>2, InvAlways, PTL DEF Spec

\* The checklist in the file is the last one of the primary.
THEOREM ChecklistIsPrimarysHolds == Spec => []ChecklistIsPrimarys
<1>1. Inv => ChecklistIsPrimarys
  BY DEF Inv, Noted, NotesKept, AtWork, Fit, ListOf, ChecklistIsPrimarys
<1> QED BY <1>1, InvAlways, PTL

\* The file has the newest reports, as many as fit, with numbers that go up.
THEOREM ReportsKeptHolds == Spec => []ReportsKept
<1>1. ASSUME NEW f \in Seq(Entry), Up(f)
      PROVE  \A i, j \in DOMAIN f : i < j => f[i].n < f[j].n
  BY <1>1 DEF Up
<1>2. ASSUME NEW f \in Seq(Entry), NEW p \in Seq(Nat), EndsIn(f, p), Len(f) <= Budget
      PROVE  ReportsOf(f) = Newest(p)
  <2>0. /\ Len(f) \in Nat /\ Len(p) \in Nat /\ Budget \in Nat \ {0}
        /\ DOMAIN f = 1..Len(f) /\ DOMAIN p = 1..Len(p)
    BY BudgetAssumption
  <2>1. /\ Len(f) <= Len(p) /\ (Len(f) >= Budget \/ Len(f) = Len(p))
        /\ \A i \in 1..Len(f) : f[i].report = p[Len(p) - Len(f) + i]
    BY <1>2 DEF EndsIn
  <2>a. \A x, y, z \in Nat : x <= y /\ (x >= z \/ x = y) /\ x <= z =>
          x = IF y <= z THEN y ELSE z
    OBVIOUS
  <2>b. Len(f) = IF Len(p) <= Budget THEN Len(p) ELSE Budget
    BY <1>2, <2>0, <2>1, <2>a
  <2>2. CASE Len(p) <= Budget
    <3>1. Len(f) = Len(p)
      BY <2>2, <2>b
    <3>2. \A i \in 1..Len(f) : Len(p) - Len(f) + i = i
      BY <2>0, <3>1
    <3>3. \A i \in 1..Len(f) : f[i].report = p[i]
      BY <2>1, <3>2
    <3>4. ReportsOf(f) = [i \in 1..Len(f) |-> p[i]]
      BY <2>0, <3>3 DEF ReportsOf
    <3>5. p = [i \in 1..Len(p) |-> p[i]]
      OBVIOUS
    <3> QED BY <2>2, <3>1, <3>4, <3>5 DEF Newest
  <2>3. CASE ~ Len(p) <= Budget
    <3> DEFINE m == Len(p) - Budget + 1
               q == SubSeq(p, m, Len(p))
    <3>1. Len(f) = Budget
      BY <2>3, <2>b
    <3>2. /\ m \in 1..Len(p) /\ Len(p) - m + 1 = Budget
          /\ \A i \in m..Len(p) : i \in 1..Len(p)
          /\ \A i \in 1..Budget : Len(p) - Budget + i = m + i - 1
      BY <2>0, <2>3
    <3>3. q = [i \in 1..Budget |-> p[m + i - 1]]
      BY <2>0, <2>3
    <3>4. \A i \in 1..Budget : f[i].report = p[m + i - 1]
      BY <2>1, <3>1, <3>2
    <3> HIDE DEF m, q
    <3>5. ReportsOf(f) = [i \in 1..Budget |-> p[m + i - 1]]
      BY <2>0, <3>1, <3>4 DEF ReportsOf
    <3>6. Newest(p) = q
      BY <2>3 DEF Newest, q, m
    <3> QED BY <3>3, <3>5, <3>6
  <2> QED BY <2>2, <2>3
<1>3. Inv => ReportsKept
  <2> SUFFICES ASSUME Inv PROVE ReportsKept
    OBVIOUS
  <2>1. /\ file.findings \in Seq(Entry) /\ memory.findings \in Seq(Entry)
        /\ posted \in Seq(Nat) /\ Len(file.findings) <= Budget
    BY TypedNow DEF Inv, Notes, Memories
  <2>2. NumbersGoUp
    BY <1>1, <2>1 DEF Inv, Noted, NumbersFit, Numbered, NumbersGoUp
  <2>3. ASSUME lost = "no", AtWork
        PROVE  IF file.there THEN ReportsOf(file.findings) = Newest(posted)
               ELSE posted = <<>> \/ Building
    BY <1>2, <2>1, <2>3 DEF Inv, Noted, NotesKept, Fit, Nothing
  <2> QED BY <2>2, <2>3 DEF ReportsKept, AtWork, Building
<1> QED BY <1>3, InvAlways, PTL

\* What a pass is given was noted in its own unit of work.
THEOREM NotesOfThisUnitHolds == Spec => []NotesOfThisUnit
<1>1. Inv => NotesOfThisUnit
  <2> SUFFICES ASSUME Inv, stage \in WorkStages, file.there
               PROVE  /\ file.checklist.n > unit.lists \/ file.checklist.by # "main"
                      /\ \A i \in DOMAIN file.findings : file.findings[i].report > unit.reports
    BY DEF NotesOfThisUnit
  <2>1. Since(file, unit.lists, unit.reports)
    BY DEF Inv, Noted, OfThisUnit, AtWork
  <2>2. file.findings \in Seq(Entry)
    BY TypedNow DEF Inv, Notes
  <2>3. DOMAIN file.findings = 1..Len(file.findings)
    BY <2>2
  <2> QED BY <2>1, <2>3 DEF Since
<1> QED BY <1>1, InvAlways, PTL

-------------------------------------------------------------------------------
(* Induction, from the well-foundedness of the naturals.                    *)

\* Every set of naturals that holds one has a least one.
LEMMA LeastOf ==
  ASSUME NEW S \in SUBSET Nat, S # {}
  PROVE  \E n \in S : \A m \in S : n <= m
<1>1. IsWellFoundedOn(OpToRel(<, Nat), Nat)
  BY NatLessThanWellFounded
<1>2. PICK n \in S : \A m \in S : <<m, n>> \notin OpToRel(<, Nat)
  BY <1>1, WFMin
<1>3. \A m \in S : ~ (m < n)
  BY <1>2 DEF OpToRel
<1> QED BY <1>3

\* Induction from a up to b.
LEMMA Upwards ==
  ASSUME NEW a \in Int, NEW b \in Int, NEW S, a \in S,
         \A m \in a..b - 1 : m \in S => m + 1 \in S
  PROVE  a..b \subseteq S
<1> DEFINE out == {n \in Nat : n <= b - a /\ a + n \notin S}
<1>1. SUFFICES ASSUME NEW x \in a..b, x \notin S PROVE FALSE
  OBVIOUS
<1>2. x - a \in out
  BY <1>1
<1>3. PICK n \in out : \A m \in out : n <= m
  BY <1>2, LeastOf
<1>4. n # 0 /\ n - 1 \in Nat /\ n - 1 \notin out
  BY <1>3
<1>5. a + (n - 1) \in S
  BY <1>3, <1>4
<1>6. (a + (n - 1)) + 1 \in S
  BY <1>3, <1>4, <1>5
<1> QED BY <1>3, <1>6

\* Induction from b down to a.
LEMMA Downwards ==
  ASSUME NEW a \in Int, NEW b \in Int, NEW S, b \in S,
         \A m \in a + 1..b : m \in S => m - 1 \in S
  PROVE  a..b \subseteq S
<1> DEFINE T == {n \in 0..b - a : b - n \in S}
<1>1. CASE b < a
  BY <1>1
<1>2. CASE a <= b
  <2>1. 0 \in T
    BY <1>2
  <2>2. \A n \in 0..(b - a) - 1 : n \in T => n + 1 \in T
    BY <1>2
  <2> HIDE DEF T
  <2>3. 0..b - a \subseteq T
    BY <1>2, <2>1, <2>2, Upwards
  <2>4. ASSUME NEW x \in a..b PROVE x \in S
    <3>1. b - x \in T /\ b - (b - x) = x
      BY <2>3
    <3> QED BY <3>1 DEF T
  <2> QED BY <2>4
<1> QED BY <1>1, <1>2

-------------------------------------------------------------------------------
(* Words and the characters they are spelled with.                          *)

\* The characters of all the words.
Char == {"{", "}", "quote", "backslash", "json", "plain", "yes", "no"}

\* What module AgentText spells.
LEMMA Spelling ==
  /\ Words = {"open", "close", "escaped", "example", "json", "plain", "yes", "no"}
  /\ Word["open"] = <<"{">> /\ Word["close"] = <<"}">>
  /\ Word["escaped"] = <<"quote", "backslash", "quote", "}", "quote">>
  /\ Word["example"] = <<"quote", "json", "{", "}", "quote">>
  /\ Word["json"] = <<"json">> /\ Word["plain"] = <<"plain">>
  /\ Word["yes"] = <<"yes">> /\ Word["no"] = <<"no">>
BY DEF Words, Word

\* A word of one character.
LEMMA OneLetter == \A s, x : s = <<x>> => Len(s) = 1 /\ s[1] = x
OBVIOUS

\* A word of five.
LEMMA FiveLetters ==
  ASSUME NEW s, NEW v, NEW w, NEW x, NEW y, NEW z, s = <<v, w, x, y, z>>
  PROVE  Len(s) = 5 /\ s[1] = v /\ s[2] = w /\ s[3] = x /\ s[4] = y /\ s[5] = z
OBVIOUS

\* The words, character by character.
LEMMA Letters ==
  /\ Len(Word["open"]) = 1 /\ Word["open"][1] = "{"
  /\ Len(Word["close"]) = 1 /\ Word["close"][1] = "}"
  /\ Len(Word["json"]) = 1 /\ Word["json"][1] = "json"
  /\ Len(Word["plain"]) = 1 /\ Word["plain"][1] = "plain"
  /\ Len(Word["yes"]) = 1 /\ Word["yes"][1] = "yes"
  /\ Len(Word["no"]) = 1 /\ Word["no"][1] = "no"
  /\ Len(Word["escaped"]) = 5
  /\ Word["escaped"][1] = "quote" /\ Word["escaped"][2] = "backslash"
  /\ Word["escaped"][3] = "quote" /\ Word["escaped"][4] = "}" /\ Word["escaped"][5] = "quote"
  /\ Len(Word["example"]) = 5
  /\ Word["example"][1] = "quote" /\ Word["example"][2] = "json"
  /\ Word["example"][3] = "{" /\ Word["example"][4] = "}" /\ Word["example"][5] = "quote"
<1>1. Len(Word["open"]) = 1 /\ Word["open"][1] = "{"
  BY Spelling, OneLetter, Zenon
<1>2. Len(Word["close"]) = 1 /\ Word["close"][1] = "}"
  BY Spelling, OneLetter, Zenon
<1>3. Len(Word["json"]) = 1 /\ Word["json"][1] = "json"
  BY Spelling, OneLetter, Zenon
<1>4. Len(Word["plain"]) = 1 /\ Word["plain"][1] = "plain"
  BY Spelling, OneLetter, Zenon
<1>5. Len(Word["yes"]) = 1 /\ Word["yes"][1] = "yes"
  BY Spelling, OneLetter, Zenon
<1>6. Len(Word["no"]) = 1 /\ Word["no"][1] = "no"
  BY Spelling, OneLetter, Zenon
<1>7. /\ Len(Word["escaped"]) = 5
      /\ Word["escaped"][1] = "quote" /\ Word["escaped"][2] = "backslash" /\ Word["escaped"][3] = "quote"
      /\ Word["escaped"][4] = "}" /\ Word["escaped"][5] = "quote"
  <2>1. PICK v, w, x, y, z :
          /\ v = "quote" /\ w = "backslash" /\ x = "quote" /\ y = "}" /\ z = "quote"
          /\ Word["escaped"] = <<v, w, x, y, z>>
    BY Spelling, Zenon
  <2> DEFINE s == Word["escaped"]
  <2>2. s = <<v, w, x, y, z>>
    BY <2>1
  <2> HIDE DEF s
  <2>3. Len(s) = 5 /\ s[1] = v /\ s[2] = w /\ s[3] = x /\ s[4] = y /\ s[5] = z
    BY ONLY <2>2, FiveLetters
  <2> QED BY <2>1, <2>3, Zenon DEF s
<1>8. /\ Len(Word["example"]) = 5
      /\ Word["example"][1] = "quote" /\ Word["example"][2] = "json" /\ Word["example"][3] = "{"
      /\ Word["example"][4] = "}" /\ Word["example"][5] = "quote"
  <2>1. PICK v, w, x, y, z :
          /\ v = "quote" /\ w = "json" /\ x = "{" /\ y = "}" /\ z = "quote"
          /\ Word["example"] = <<v, w, x, y, z>>
    BY Spelling, Zenon
  <2> DEFINE s == Word["example"]
  <2>2. s = <<v, w, x, y, z>>
    BY <2>1
  <2> HIDE DEF s
  <2>3. Len(s) = 5 /\ s[1] = v /\ s[2] = w /\ s[3] = x /\ s[4] = y /\ s[5] = z
    BY ONLY <2>2, FiveLetters
  <2> QED BY <2>1, <2>3, Zenon DEF s
<1> QED BY <1>1, <1>2, <1>3, <1>4, <1>5, <1>6, <1>7, <1>8

\* No word is empty.
LEMMA WordsAreChars ==
  \A w \in Words : Word[w] \in Seq(Char) /\ Len(Word[w]) >= 1
<1>1. /\ <<"{">> \in Seq(Char) /\ <<"}">> \in Seq(Char) /\ <<"json">> \in Seq(Char)
      /\ <<"plain">> \in Seq(Char) /\ <<"yes">> \in Seq(Char) /\ <<"no">> \in Seq(Char)
  BY DEF Char
<1>2. <<"quote", "backslash", "quote", "}", "quote">> \in Seq(Char)
  BY DEF Char
<1>3. <<"quote", "json", "{", "}", "quote">> \in Seq(Char)
  BY DEF Char
<1>4. \A w \in Words : Word[w] \in Seq(Char)
  BY <1>1, <1>2, <1>3, Spelling, Zenon
<1>5. \A w \in Words : Len(Word[w]) = 1 \/ Len(Word[w]) = 5
  BY Letters, Spelling
<1>6. ASSUME NEW w \in Words PROVE Len(Word[w]) >= 1
  BY <1>5
<1> QED BY <1>4, <1>6

\* FlattenSeq is what its recursive function is meant to be: the equation the
\* CHOOSE of its definition stands for has a solution.
LEMMA FlattenUnfolds ==
  ASSUME NEW seqs, NEW n \in Nat \ {0}, Len(seqs) = n
  PROVE  \E f : /\ f = [i \in 1..n |-> IF i = 1 THEN seqs[i] ELSE f[i - 1] \o seqs[i]]
                /\ FlattenSeq(seqs) = f[n]
<1> DEFINE Turn(g, i) == IF i = 1 THEN seqs[i] ELSE g[i - 1] \o seqs[i]
           Is(g, m) == g = [i \in 1..m |-> Turn(g, i)]
           S == {m \in 0..n : \E g : Is(g, m)}
           f == CHOOSE g : g = [i \in 1..n |-> Turn(g, i)]
<1>0. \A g, h, i : (i # 1 => g[i - 1] = h[i - 1]) => Turn(g, i) = Turn(h, i)
  OBVIOUS
<1>7. FlattenSeq(seqs) = f[n]
  BY DEF FlattenSeq
<1> HIDE DEF Turn
<1>1. 0 \in S
  <2>1. Is([i \in 1..0 |-> Turn(0, i)], 0)
    OBVIOUS
  <2> HIDE DEF Is
  <2> QED BY <2>1
<1>2. ASSUME NEW m \in 0..n - 1, m \in S PROVE m + 1 \in S
  <2>1. PICK g : Is(g, m)
    BY <1>2
  <2> DEFINE h == [i \in 1..m + 1 |-> Turn(g, i)]
  <2>2. \A i \in 1..m : h[i] = g[i]
    BY <2>1
  <2>3. \A i \in 1..m + 1 : Turn(h, i) = Turn(g, i)
    BY <2>2, <1>0
  <2>4. Is(h, m + 1)
    BY <2>3
  <2> HIDE DEF Is, h
  <2> QED BY <2>4
<1> HIDE DEF S
<1>3. n \in S
  <2>1. 0 \in Int /\ n \in Int /\ n \in 0..n
    OBVIOUS
  <2>2. 0..n \subseteq S
    BY <2>1, <1>1, <1>2, Upwards
  <2> QED BY <2>1, <2>2
<1>4. \E g : Is(g, n)
  BY <1>3 DEF S
<1>5. f = [i \in 1..n |-> Turn(f, i)]
  BY <1>4
<1> HIDE DEF f
<1>6. f = [i \in 1..n |-> IF i = 1 THEN seqs[i] ELSE f[i - 1] \o seqs[i]]
  BY <1>5 DEF Turn
<1> QED BY <1>6, <1>7

\* Word l of t ends at position p[l] of its characters.
Lay(t, p) ==
  /\ p \in [0..Len(t) -> Nat] /\ p[0] = 0 /\ p[Len(t)] = Len(Chars(t))
  /\ \A l, m \in 0..Len(t) : l <= m => p[l] <= p[m]
  /\ \A l \in 1..Len(t) :
       /\ p[l] = p[l - 1] + Len(Word[t[l]])
       /\ \A d \in 1..Len(Word[t[l]]) : Chars(t)[p[l - 1] + d] = Word[t[l]][d]

\* What a concatenation holds.
LEMMA Joined ==
  ASSUME NEW u \in Seq(Char), NEW v \in Seq(Char), NEW w, w = u \o v
  PROVE  /\ w \in Seq(Char) /\ Len(u) \in Nat /\ Len(v) \in Nat
         /\ Len(w) = Len(u) + Len(v)
         /\ \A i \in 1..Len(u) : w[i] = u[i]
         /\ \A d \in 1..Len(v) : w[Len(u) + d] = v[d]
BY ConcatProperties

\* The characters of a text are its words, one after the other.
LEMMA LaidOut ==
  ASSUME NEW t \in Seq(Words)
  PROVE  Chars(t) \in Seq(Char) /\ \E p : Lay(t, p)
<1> DEFINE N == Len(t)
           seqs == [i \in DOMAIN t |-> Word[t[i]]]
<1>1. /\ N \in Nat /\ DOMAIN seqs = 1..N /\ Len(seqs) = N
      /\ \A i \in 1..N : t[i] \in Words /\ seqs[i] = Word[t[i]] /\ seqs[i] \in Seq(Char)
      /\ Chars(t) = FlattenSeq(seqs)
  BY WordsAreChars DEF Chars
<1>0. N = Len(t)
  OBVIOUS
<1> HIDE DEF N
<1>2. CASE N = 0
  <2>1. Chars(t) = seqs /\ seqs = <<>>
    BY <1>1, <1>2 DEF FlattenSeq
  <2>2. Chars(t) \in Seq(Char) /\ Len(Chars(t)) = 0
    BY <2>1
  <2>3. Lay(t, [l \in 0..0 |-> 0])
    BY <1>0, <1>2, <2>2 DEF Lay
  <2> HIDE DEF seqs
  <2> QED BY <2>2, <2>3
<1>3. CASE N # 0
  <2>1. PICK f : /\ f = [i \in 1..N |-> IF i = 1 THEN seqs[i] ELSE f[i - 1] \o seqs[i]]
                 /\ Chars(t) = f[N]
    <3>1. N \in Nat \ {0} /\ Len(seqs) = N /\ Chars(t) = FlattenSeq(seqs)
      BY <1>1, <1>3
    <3> HIDE DEF seqs
    <3>2. \E f : /\ f = [i \in 1..N |-> IF i = 1 THEN seqs[i] ELSE f[i - 1] \o seqs[i]]
                 /\ FlattenSeq(seqs) = f[N]
      BY ONLY <3>1, FlattenUnfolds
    <3> QED BY <3>1, <3>2, Zenon
  <2> HIDE DEF seqs
  <2>2. /\ f[1] = seqs[1]
        /\ \A m \in 1..N - 1 : f[m + 1] = f[m] \o seqs[m + 1]
    <3>1. ASSUME NEW m \in 1..N - 1 PROVE f[m + 1] = f[m] \o seqs[m + 1]
      <4>1. m + 1 \in 1..N /\ m + 1 # 1 /\ (m + 1) - 1 = m
        BY <1>1
      <4>2. f[m + 1] = f[(m + 1) - 1] \o seqs[m + 1]
        BY <4>1, <2>1
      <4> QED BY <4>1, <4>2
    <3>2. f[1] = seqs[1]
      BY <2>1, <1>1, <1>3
    <3> QED BY <3>1, <3>2
  <2> DEFINE p == [l \in 0..N |-> IF l = 0 THEN 0 ELSE Len(f[l])]
             S == {m \in 1..N : /\ f[m] \in Seq(Char)
                                /\ \A l \in 0..m : p[l] \in Nat /\ p[l] <= p[m]
                                /\ \A l \in 1..m :
                                     /\ p[l] = p[l - 1] + Len(seqs[l])
                                     /\ \A d \in 1..Len(seqs[l]) : f[m][p[l - 1] + d] = seqs[l][d]}
  <2>3. /\ p[0] = 0 /\ \A l \in 1..N : p[l] = Len(f[l])
    BY <1>1
  <2> HIDE DEF p
  <2>4. 1 \in S
    <3>1. seqs[1] \in Seq(Char) /\ Len(seqs[1]) \in Nat
      BY <1>1, <1>3
    <3> QED BY <1>1, <1>3, <2>2, <2>3, <3>1
  <2>5. ASSUME NEW m \in 1..N - 1, m \in S PROVE m + 1 \in S
    <3> DEFINE u == f[m]
               v == seqs[m + 1]
               w == f[m + 1]
    <3>1. /\ m \in Nat /\ m \in 1..N /\ m + 1 \in 1..N /\ m \in 0..N
          /\ (m + 1) - 1 = m
      BY <1>1
    <3>2. v \in Seq(Char) /\ u \in Seq(Char) /\ w = u \o v
      BY <3>1, <1>1, <2>2, <2>5
    <3>3. p[m] = Len(u) /\ p[m + 1] = Len(w)
      BY <3>1, <2>3
    <3>4. /\ \A l \in 0..m : p[l] \in Nat /\ p[l] <= p[m]
          /\ \A l \in 1..m :
               /\ p[l] = p[l - 1] + Len(seqs[l])
               /\ \A d \in 1..Len(seqs[l]) : u[p[l - 1] + d] = seqs[l][d]
      BY <2>5
    <3>5. \A l \in 1..m : seqs[l] \in Seq(Char)
      BY <3>1, <1>1
    <3> HIDE DEF u, v, w
    <3>6. /\ w \in Seq(Char) /\ Len(u) \in Nat /\ Len(v) \in Nat
          /\ Len(w) = Len(u) + Len(v)
          /\ \A i \in 1..Len(u) : w[i] = u[i]
          /\ \A d \in 1..Len(v) : w[Len(u) + d] = v[d]
      BY <3>2, Joined
    <3>7. ASSUME NEW l \in 0..m + 1 PROVE p[l] \in Nat /\ p[l] <= p[m + 1]
      <4>1. p[m] \in Nat /\ p[m + 1] \in Nat /\ p[m] <= p[m + 1]
        BY <3>3, <3>6
      <4>2. CASE l = m + 1
        BY <4>1, <4>2
      <4>3. CASE l \in 0..m
        BY <4>1, <4>3, <3>4
      <4> QED BY <4>2, <4>3, <3>1
    <3>8. ASSUME NEW l \in 1..m
          PROVE  \A d \in 1..Len(seqs[l]) : w[p[l - 1] + d] = seqs[l][d]
      <4>1. TAKE d \in 1..Len(seqs[l])
      <4>2. /\ l - 1 \in 0..m /\ l \in 0..m /\ Len(seqs[l]) \in Nat
        BY <3>1, <3>5
      <4>3. p[l - 1] \in Nat /\ p[l] <= Len(u) /\ p[l] = p[l - 1] + Len(seqs[l])
        BY <3>3, <3>4, <4>2
      <4>4. p[l - 1] + d \in 1..Len(u)
        BY <4>2, <4>3, <3>6, SMTT(30)
      <4>5. w[p[l - 1] + d] = u[p[l - 1] + d]
        BY <4>4, <3>6
      <4> QED BY <4>5, <3>4
    <3>9. ASSUME NEW l \in 1..m + 1
          PROVE  /\ p[l] = p[l - 1] + Len(seqs[l])
                 /\ \A d \in 1..Len(seqs[l]) : w[p[l - 1] + d] = seqs[l][d]
      <4>1. CASE l = m + 1
        BY <3>1, <3>3, <3>6, <4>1 DEF v
      <4>2. CASE l \in 1..m
        BY <3>4, <3>8, <4>2
      <4> QED BY <4>1, <4>2, <3>1
    <3> QED BY <3>1, <3>6, <3>7, <3>9 DEF w
  <2> HIDE DEF S
  <2>6. 1..N \subseteq S
    <3>1. N - 1 \in Int /\ 1 \in Int /\ N \in Int
      BY <1>1
    <3> QED BY <3>1, <2>4, <2>5, Upwards
  <2>7. /\ f[N] \in Seq(Char) /\ p[N] = Len(f[N])
        /\ \A l \in 0..N : p[l] \in Nat
        /\ \A l \in 1..N :
             /\ p[l] = p[l - 1] + Len(seqs[l])
             /\ \A d \in 1..Len(seqs[l]) : f[N][p[l - 1] + d] = seqs[l][d]
    BY <1>1, <1>3, <2>3, <2>6 DEF S
  <2>8. ASSUME NEW l \in 0..N, NEW m \in 0..N, l <= m PROVE p[l] <= p[m]
    <3>1. CASE m = 0
      BY <2>8, <3>1, <2>3
    <3>2. CASE m # 0
      BY <2>8, <3>2, <2>6 DEF S
    <3> QED BY <3>1, <3>2
  <2>9. p \in [0..N -> Nat]
    BY <2>7 DEF p
  <2>10. Lay(t, p)
    <3>1. \A l \in 1..N :
            /\ p[l] = p[l - 1] + Len(Word[t[l]])
            /\ \A d \in 1..Len(Word[t[l]]) : Chars(t)[p[l - 1] + d] = Word[t[l]][d]
      <4>1. TAKE l \in 1..N
      <4>2. seqs[l] = Word[t[l]]
        BY <1>1
      <4>3. /\ p[l] = p[l - 1] + Len(seqs[l])
            /\ \A d \in 1..Len(seqs[l]) : f[N][p[l - 1] + d] = seqs[l][d]
        BY <2>7
      <4> QED BY <4>2, <4>3, <2>1
    <3>2. p[N] = Len(Chars(t))
      BY <2>1, <2>7
    <3> QED BY <1>0, <2>3, <2>8, <2>9, <3>1, <3>2 DEF Lay
  <2> QED BY <2>1, <2>7, <2>10
<1> QED BY <1>2, <1>3

\* The words that are JSON strings.
Long == {"escaped", "example"}

\* The character of every other word.
Letter(w) == IF w = "open" THEN "{" ELSE IF w = "close" THEN "}" ELSE w

\* A word of one character is where Lay puts it.
LEMMA ShortWord ==
  ASSUME NEW t \in Seq(Words), NEW p, Lay(t, p), NEW l \in 1..Len(t),
         t[l] \notin Long
  PROVE  p[l] = p[l - 1] + 1 /\ Chars(t)[p[l]] = Letter(t[l])
<1>0. t[l] \in Words
  OBVIOUS
<1>1. t[l] \in {"open", "close", "json", "plain", "yes", "no"}
  BY <1>0, Spelling, Zenon DEF Long
<1>2. Len(Word[t[l]]) = 1 /\ Word[t[l]][1] = Letter(t[l])
  BY <1>1, Letters DEF Letter
<1>3. p[l] = p[l - 1] + Len(Word[t[l]])
  BY DEF Lay
<1>4. \A d \in 1..Len(Word[t[l]]) : Chars(t)[p[l - 1] + d] = Word[t[l]][d]
  BY DEF Lay
<1>5. Chars(t)[p[l - 1] + 1] = Word[t[l]][1]
  BY <1>2, <1>4
<1> QED BY <1>2, <1>3, <1>5

\* The five characters of a string, from position q + 1 on.
Quotes(c, q, w) ==
  /\ c[q + 1] = "quote" /\ c[q + 5] = "quote" /\ c[q + 4] = "}"
  /\ \/ w = "escaped" /\ c[q + 2] = "backslash" /\ c[q + 3] = "quote"
     \/ w = "example" /\ c[q + 2] = "json" /\ c[q + 3] = "{"

\* A string is where Lay puts it.
LEMMA LongWord ==
  ASSUME NEW t \in Seq(Words), NEW p, Lay(t, p), NEW l \in 1..Len(t), t[l] \in Long
  PROVE  p[l] = p[l - 1] + 5 /\ Quotes(Chars(t), p[l - 1], t[l])
<1> DEFINE w == Word[t[l]]
           c == Chars(t)
           q == p[l - 1]
<1>1. /\ Len(w) = 5
      /\ w[1] = "quote" /\ w[4] = "}" /\ w[5] = "quote"
      /\ \/ t[l] = "escaped" /\ w[2] = "backslash" /\ w[3] = "quote"
         \/ t[l] = "example" /\ w[2] = "json" /\ w[3] = "{"
  BY Letters DEF Long
<1>2. p[l] = q + Len(w)
  BY DEF Lay
<1>3. \A d \in 1..Len(w) : c[q + d] = w[d]
  BY DEF Lay
<1> HIDE DEF w, c, q
<1>4. \A d \in 1..5 : c[q + d] = w[d]
  BY <1>1, <1>3
<1>5. /\ c[q + 1] = w[1] /\ c[q + 2] = w[2] /\ c[q + 3] = w[3] /\ c[q + 4] = w[4]
      /\ c[q + 5] = w[5]
  BY <1>4
<1>6. p[l] = q + 5 /\ Quotes(c, q, t[l])
  BY <1>1, <1>2, <1>5 DEF Quotes
<1> QED BY <1>6 DEF c, q

\* Every character belongs to a word.
LEMMA Covered ==
  ASSUME NEW t \in Seq(Words), NEW p, Lay(t, p), NEW x \in 1..Len(Chars(t))
  PROVE  \E l \in 1..Len(t) : p[l - 1] < x /\ x <= p[l]
<1> DEFINE N == Len(t)
           S == {m \in 0..N : \A y \in 1..p[m] : \E l \in 1..N : p[l - 1] < y /\ y <= p[l]}
<1>1. N \in Nat /\ N = Len(t)
  OBVIOUS
<1> HIDE DEF N
<1>2. p \in [0..N -> Nat] /\ p[0] = 0 /\ p[N] = Len(Chars(t))
  BY <1>1 DEF Lay
<1>3. 0 \in S
  BY <1>1, <1>2
<1>4. ASSUME NEW m \in 0..N - 1, m \in S PROVE m + 1 \in S
  <2>1. /\ m + 1 \in 1..N /\ m + 1 \in 0..N /\ m \in 0..N /\ (m + 1) - 1 = m
        /\ p[m] \in Nat /\ p[m + 1] \in Nat
    BY <1>1, <1>2
  <2>2. ASSUME NEW y \in 1..p[m + 1] PROVE \E l \in 1..N : p[l - 1] < y /\ y <= p[l]
    <3>1. CASE y <= p[m]
      BY <1>4, <2>1, <3>1
    <3>2. CASE y > p[m]
      BY <2>1, <3>2
    <3> QED BY <2>1, <3>1, <3>2
  <2> QED BY <2>1, <2>2
<1> HIDE DEF S
<1>5. 0..N \subseteq S
  <2>1. 0 \in Int /\ N \in Int
    BY <1>1
  <2> QED BY <2>1, <1>3, <1>4, Upwards
<1>6. N \in S
  BY <1>1, <1>5
<1> QED BY <1>1, <1>2, <1>6 DEF S

-------------------------------------------------------------------------------
(* indexOf.                                                                 *)

\* It finds the first occurrence.
LEMMA IndexFound ==
  ASSUME NEW c \in Seq(Char), NEW i \in Nat \ {0}, NEW ch,
         NEW x \in i..Len(c), c[x] = ch, \A y \in i..x - 1 : c[y] # ch
  PROVE  IndexFrom(c, i, ch) = x
<1> DEFINE found == {k \in i..Len(c) : c[k] = ch}
<1>1. x \in found /\ \A l \in found : x <= l
  OBVIOUS
<1>2. \A k \in found : (\A l \in found : k <= l) => k = x
  BY <1>1
<1>3. IndexFrom(c, i, ch) = CHOOSE k \in found : \A l \in found : k <= l
  BY <1>1 DEF IndexFrom
<1> HIDE DEF found
<1> QED BY <1>1, <1>2, <1>3

\* It answers 0 when there is none.
LEMMA IndexMissing ==
  ASSUME NEW c \in Seq(Char), NEW i \in Nat \ {0}, NEW ch, \A y \in i..Len(c) : c[y] # ch
  PROVE  IndexFrom(c, i, ch) = 0
BY DEF IndexFrom

\* What it finds is an occurrence.
LEMMA IndexIs ==
  ASSUME NEW c \in Seq(Char), NEW i \in Nat \ {0}, NEW ch, IndexFrom(c, i, ch) # 0
  PROVE  /\ IndexFrom(c, i, ch) \in i..Len(c)
         /\ c[IndexFrom(c, i, ch)] = ch
<1> DEFINE found == {k \in i..Len(c) : c[k] = ch}
<1>1. found # {} /\ found \in SUBSET Nat
  BY DEF IndexFrom
<1>2. \E k \in found : \A l \in found : k <= l
  BY <1>1, LeastOf
<1>3. IndexFrom(c, i, ch) = CHOOSE k \in found : \A l \in found : k <= l
  BY <1>1 DEF IndexFrom
<1>4. IndexFrom(c, i, ch) \in found
  BY <1>2, <1>3
<1> QED BY <1>4

-------------------------------------------------------------------------------
(* extractFirstJsonObject: the scanner.                                     *)

\* Outside of strings, at depth d; inside of one; after a backslash in it; and past
\* the object that ends at x.
Outside(d) == [depth |-> d, inString |-> FALSE, escape |-> FALSE, end |-> 0]
Inside(d) == [depth |-> d, inString |-> TRUE, escape |-> FALSE, end |-> 0]
Escaped(d) == [depth |-> d, inString |-> TRUE, escape |-> TRUE, end |-> 0]
Ended(x) == [Outside(0) EXCEPT !.end = x]

\* One turn of the loop, with the end it notes.
Turned(s, ch, x) ==
  IF s.end # 0 THEN s
  ELSE LET now == Scanned(s, ch)
       IN IF now.depth = 0 THEN [now EXCEPT !.end = x] ELSE now

\* The turns that matter.
LEMMA Turns ==
  ASSUME NEW d \in Nat, NEW x
  PROVE  /\ Turned(Outside(d), "{", x) = Outside(d + 1)
         /\ d = 1 => Turned(Outside(d), "}", x) = Ended(x)
         /\ d > 1 => Turned(Outside(d), "}", x) = Outside(d - 1)
         /\ d > 0 => /\ Turned(Outside(d), "quote", x) = Inside(d)
                     /\ Turned(Inside(d), "quote", x) = Outside(d)
                     /\ Turned(Inside(d), "backslash", x) = Escaped(d)
                     /\ Turned(Inside(d), "}", x) = Inside(d)
                     /\ Turned(Inside(d), "{", x) = Inside(d)
                     /\ Turned(Inside(d), "json", x) = Inside(d)
                     /\ Turned(Escaped(d), "quote", x) = Inside(d)
                     /\ \A ch \in {"json", "plain", "yes", "no"} :
                          Turned(Outside(d), ch, x) = Outside(d)
<1>1. Scanned(Outside(d), "{") = Outside(d + 1)
  BY DEF Scanned, Outside
<1>2. Scanned(Outside(d), "}") = Outside(d - 1)
  BY DEF Scanned, Outside
<1>3. Scanned(Outside(d), "quote") = Inside(d) /\ Scanned(Inside(d), "quote") = Outside(d)
  BY DEF Scanned, Outside, Inside
<1>4. Scanned(Inside(d), "backslash") = Escaped(d)
  BY DEF Scanned, AfterBackslash, Inside, Escaped
<1>5. Scanned(Escaped(d), "quote") = Inside(d)
  BY DEF Scanned, Inside, Escaped
<1>6. \A ch \in {"{", "}", "json"} : Scanned(Inside(d), ch) = Inside(d)
  BY DEF Scanned, Inside
<1>7. \A ch \in {"json", "plain", "yes", "no"} : Scanned(Outside(d), ch) = Outside(d)
  BY DEF Scanned, Outside
<1>8. \A e \in Int : /\ Outside(e).depth = e /\ Outside(e).end = 0
                     /\ Inside(e).depth = e /\ Inside(e).end = 0
                     /\ Escaped(e).depth = e /\ Escaped(e).end = 0
  BY DEF Outside, Inside, Escaped
<1>9. \A s, ch, now : Scanned(s, ch) = now /\ s.end = 0 /\ now.depth # 0 =>
         Turned(s, ch, x) = now
  BY DEF Turned
<1>10. \A s, ch, now : Scanned(s, ch) = now /\ s.end = 0 /\ now.depth = 0 =>
         Turned(s, ch, x) = [now EXCEPT !.end = x]
  BY DEF Turned
<1>12. Turned(Outside(d), "{", x) = Outside(d + 1)
  <2>1. d \in Int /\ d + 1 \in Int /\ d + 1 # 0
    OBVIOUS
  <2>2. Outside(d).end = 0 /\ Outside(d + 1).depth # 0
    BY <2>1, <1>8
  <2> QED BY <2>2, <1>1, <1>9
<1>13. ASSUME d = 1 PROVE Turned(Outside(d), "}", x) = Ended(x)
  <2>1. Scanned(Outside(d), "}") = Outside(0)
    <3>1. d - 1 = 0
      BY <1>13
    <3> QED BY <3>1, <1>2, Zenon
  <2>2. Outside(d).end = 0 /\ Outside(0).depth = 0
    BY <1>8
  <2>3. Turned(Outside(d), "}", x) = [Outside(0) EXCEPT !.end = x]
    BY <2>1, <2>2, <1>10, Zenon
  <2> QED BY <2>3, Zenon DEF Ended
<1>14. ASSUME d > 1 PROVE Turned(Outside(d), "}", x) = Outside(d - 1)
  <2>1. d - 1 \in Int /\ d - 1 # 0
    BY <1>14
  <2>2. Outside(d).end = 0 /\ Outside(d - 1).depth # 0
    BY <2>1, <1>8
  <2> QED BY <2>2, <1>2, <1>9
<1>15. ASSUME d > 0
       PROVE  /\ Turned(Outside(d), "quote", x) = Inside(d)
              /\ Turned(Inside(d), "quote", x) = Outside(d)
              /\ Turned(Inside(d), "backslash", x) = Escaped(d)
              /\ Turned(Escaped(d), "quote", x) = Inside(d)
  BY <1>3, <1>4, <1>5, <1>8, <1>9, <1>15
<1>16. ASSUME d > 0
       PROVE  /\ Turned(Inside(d), "}", x) = Inside(d)
              /\ Turned(Inside(d), "{", x) = Inside(d)
              /\ Turned(Inside(d), "json", x) = Inside(d)
  <2>1. Inside(d).end = 0 /\ Inside(d).depth # 0
    BY <1>8, <1>16
  <2>2. /\ Scanned(Inside(d), "}") = Inside(d) /\ Scanned(Inside(d), "{") = Inside(d)
        /\ Scanned(Inside(d), "json") = Inside(d)
    BY <1>6
  <2> QED BY <2>1, <2>2, <1>9, Zenon
<1>17. ASSUME d > 0, NEW ch \in {"json", "plain", "yes", "no"}
       PROVE  Turned(Outside(d), ch, x) = Outside(d)
  BY <1>7, <1>8, <1>9, <1>17
<1> QED BY <1>12, <1>13, <1>14, <1>15, <1>16, <1>17

\* What the loop holds after each character.
Scans(c, start, scan) ==
  /\ scan[start - 1] = Outside(0)
  /\ \A x \in start..Len(c) : scan[x] = Turned(scan[x - 1], c[x], x)

\* ScanEnd is read off such a scan.
LEMMA ScanUnfolds ==
  ASSUME NEW c \in Seq(Char), NEW start \in 1..Len(c)
  PROVE  \E scan : Scans(c, start, scan) /\ ScanEnd(c, start) = scan[Len(c)].end
<1> DEFINE Turn(g, i) == IF i < start THEN Outside(0) ELSE Turned(g[i - 1], c[i], i)
           Is(g, m) == g = [i \in start - 1..m |-> Turn(g, i)]
           S == {m \in start - 1..Len(c) : \E g : Is(g, m)}
           f == CHOOSE g : g = [i \in start - 1..Len(c) |-> Turn(g, i)]
<1>0. \A g, h, i : (i >= start => g[i - 1] = h[i - 1]) /\ i \in Int => Turn(g, i) = Turn(h, i)
  OBVIOUS
<1>7. ScanEnd(c, start) = f[Len(c)].end
  BY Zenon DEF ScanEnd, Turned, Outside
<1>9. \A g : /\ Turn(g, start - 1) = Outside(0)
             /\ \A i \in start..Len(c) : Turn(g, i) = Turned(g[i - 1], c[i], i)
  OBVIOUS
<1> HIDE DEF Turn
<1>1. start - 1 \in S
  <2>1. Is([i \in start - 1..start - 1 |-> Turn(0, i)], start - 1)
    BY <1>0
  <2> HIDE DEF Is
  <2> QED BY <2>1
<1>2. ASSUME NEW m \in start - 1..Len(c) - 1, m \in S PROVE m + 1 \in S
  <2>1. PICK g : Is(g, m)
    BY <1>2
  <2> DEFINE h == [i \in start - 1..m + 1 |-> Turn(g, i)]
  <2>2. \A i \in start - 1..m : h[i] = g[i]
    BY <2>1
  <2>3. ASSUME NEW i \in start - 1..m + 1 PROVE Turn(h, i) = Turn(g, i)
    <3>1. i \in Int /\ (i >= start => i - 1 \in start - 1..m)
      OBVIOUS
    <3> HIDE DEF h
    <3> QED BY <2>2, <3>1, <1>0
  <2>4. Is(h, m + 1)
    BY <2>3
  <2> HIDE DEF Is, h
  <2> QED BY <2>4
<1> HIDE DEF S
<1>3. Len(c) \in S
  <2>1. start - 1 \in Int /\ Len(c) \in Int
    OBVIOUS
  <2>2. start - 1..Len(c) \subseteq S
    BY <2>1, <1>1, <1>2, Upwards
  <2> QED BY <2>2
<1>4. \E g : Is(g, Len(c))
  BY <1>3 DEF S
<1>5. f = [i \in start - 1..Len(c) |-> Turn(f, i)]
  BY <1>4
<1> HIDE DEF f
<1>6. Scans(c, start, f)
  BY <1>5, <1>9 DEF Scans
<1> QED BY <1>6, <1>7

\* What one word leaves the scanner with at its last character, from depth d.
Scanner(t, p, scan, l, d) ==
  /\ t[l] = "open" => scan[p[l]] = Outside(d + 1)
  /\ t[l] = "close" /\ d = 1 => scan[p[l]] = Ended(p[l])
  /\ t[l] = "close" /\ d > 1 => scan[p[l]] = Outside(d - 1)
  /\ t[l] \notin {"open", "close"} => scan[p[l]] = Outside(d)

\* A word moves the scanner by its brace; a string, whatever it holds, does not.
LEMMA ScanWord ==
  ASSUME NEW t \in Seq(Words), NEW p, Lay(t, p), Chars(t) \in Seq(Char),
         NEW start \in Nat \ {0}, NEW scan, Scans(Chars(t), start, scan),
         NEW l \in 1..Len(t), p[l - 1] >= start - 1,
         NEW d \in Nat, d = 0 => t[l] = "open", scan[p[l - 1]] = Outside(d)
  PROVE  Scanner(t, p, scan, l, d)
<1> DEFINE c == Chars(t)
           q == p[l - 1]
<1>1. /\ q \in Nat /\ q >= start - 1 /\ p[l] \in Nat /\ p[l] <= Len(c) /\ Len(c) \in Nat
  <2>1. l - 1 \in 0..Len(t) /\ l \in 0..Len(t) /\ Len(t) \in 0..Len(t) /\ l <= Len(t)
    OBVIOUS
  <2>2. q \in Nat /\ p[l] \in Nat /\ p[Len(t)] \in Nat /\ p[l] <= p[Len(t)] /\ p[Len(t)] = Len(c)
    BY <2>1 DEF Lay
  <2> QED BY <2>2
<1>2. \A x \in start..Len(c) : scan[x] = Turned(scan[x - 1], c[x], x)
  BY DEF Scans
<1>3. CASE t[l] \notin Long
  <2>1. p[l] = q + 1 /\ c[q + 1] = Letter(t[l])
    BY <1>3, ShortWord
  <2> HIDE DEF c, q
  <2>2. q + 1 \in start..Len(c) /\ (q + 1) - 1 = q
    BY <1>1, <2>1
  <2>3. scan[q + 1] = Turned(scan[(q + 1) - 1], c[q + 1], q + 1)
    BY <1>2, <2>2
  <2>4. scan[q + 1] = Turned(Outside(d), Letter(t[l]), q + 1)
    BY <2>1, <2>2, <2>3 DEF q
  <2>5. ASSUME t[l] \notin {"open", "close"} PROVE scan[q + 1] = Outside(d)
    <3>1. t[l] \in Words
      OBVIOUS
    <3>2. Letter(t[l]) = t[l] /\ t[l] \in {"json", "plain", "yes", "no"}
      BY <1>3, <2>5, <3>1, Spelling DEF Letter, Long
    <3>3. d > 0
      BY <2>5
    <3>4. \A ch \in {"json", "plain", "yes", "no"} : Turned(Outside(d), ch, q + 1) = Outside(d)
      BY <3>3, Turns
    <3> QED BY <2>4, <3>2, <3>4, Zenon
  <2>6. t[l] = "open" => Letter(t[l]) = "{"
    BY DEF Letter
  <2>7. t[l] = "close" => Letter(t[l]) = "}"
    BY DEF Letter
  <2>8. /\ Turned(Outside(d), "{", q + 1) = Outside(d + 1)
        /\ d = 1 => Turned(Outside(d), "}", q + 1) = Ended(q + 1)
        /\ d > 1 => Turned(Outside(d), "}", q + 1) = Outside(d - 1)
    BY Turns
  <2> QED BY <2>1, <2>4, <2>5, <2>6, <2>7, <2>8, Zenon DEF Scanner
<1>4. CASE t[l] \in Long
  <2>0. d > 0 /\ t[l] \notin {"open", "close"}
    BY <1>4 DEF Long
  <2>1. /\ p[l] = q + 5
        /\ c[q + 1] = "quote" /\ c[q + 5] = "quote" /\ c[q + 4] = "}"
        /\ \/ c[q + 2] = "backslash" /\ c[q + 3] = "quote"
           \/ c[q + 2] = "json" /\ c[q + 3] = "{"
    <3>1. p[l] = q + 5 /\ Quotes(c, q, t[l])
      BY <1>4, LongWord
    <3> HIDE DEF c, q
    <3> QED BY <3>1 DEF Quotes
  <2>2. scan[q] = Outside(d)
    OBVIOUS
  <2> HIDE DEF c, q
  <2>3. /\ scan[q + 1] = Turned(scan[q], c[q + 1], q + 1)
        /\ scan[q + 2] = Turned(scan[q + 1], c[q + 2], q + 2)
        /\ scan[q + 3] = Turned(scan[q + 2], c[q + 3], q + 3)
        /\ scan[q + 4] = Turned(scan[q + 3], c[q + 4], q + 4)
        /\ scan[q + 5] = Turned(scan[q + 4], c[q + 5], q + 5)
    <3>1. ASSUME NEW k \in 1..5 PROVE q + k \in start..Len(c)
      <4>1. q + 5 <= Len(c) /\ q \in Nat /\ q >= start - 1 /\ Len(c) \in Nat
        BY <1>1, <2>1
      <4> QED BY ONLY <4>1, start \in Nat, k \in 1..5
    <3>2. \A k \in 1..5 : scan[q + k] = Turned(scan[(q + k) - 1], c[q + k], q + k)
      BY <1>2, <3>1
    <3>3. /\ (q + 1) - 1 = q /\ (q + 2) - 1 = q + 1 /\ (q + 3) - 1 = q + 2
          /\ (q + 4) - 1 = q + 3 /\ (q + 5) - 1 = q + 4
      BY <1>1
    <3>4. 1 \in 1..5 /\ 2 \in 1..5 /\ 3 \in 1..5 /\ 4 \in 1..5 /\ 5 \in 1..5
      OBVIOUS
    <3> QED BY <3>2, <3>3, <3>4
  <2>4. scan[q + 1] = Inside(d)
    BY <2>0, <2>1, <2>2, <2>3, Turns, ZenonT(40)
  <2>5. scan[q + 3] = Inside(d)
    <3>1. CASE c[q + 2] = "backslash" /\ c[q + 3] = "quote"
      <4>1. scan[q + 2] = Escaped(d)
        BY <2>0, <2>3, <2>4, <3>1, Turns
      <4> QED BY <2>0, <2>3, <4>1, <3>1, Turns, ZenonT(40)
    <3>2. CASE c[q + 2] = "json" /\ c[q + 3] = "{"
      <4>1. scan[q + 2] = Inside(d)
        BY <2>0, <2>3, <2>4, <3>2, Turns
      <4> QED BY <2>0, <2>3, <4>1, <3>2, Turns
    <3> QED BY <2>1, <3>1, <3>2
  <2>6. scan[q + 4] = Inside(d)
    BY <2>0, <2>1, <2>3, <2>5, Turns, ZenonT(40)
  <2>7. scan[q + 5] = Outside(d)
    BY <2>0, <2>1, <2>3, <2>6, Turns, ZenonT(40)
  <2>8. scan[p[l]] = Outside(d)
    BY <2>1, <2>7, Zenon
  <2> QED BY <2>0, <2>8 DEF Scanner
<1> QED BY <1>3, <1>4

\* Counting one word more.
LEMMA CountStep ==
  ASSUME NEW t, NEW i \in Nat, NEW k \in Nat, i <= k + 1, NEW w
  PROVE  /\ Count(t, i, k, w) \in Nat
         /\ Count(t, i, i - 1, w) = 0
         /\ Count(t, i, k + 1, w) = Count(t, i, k, w) + (IF t[k + 1] = w THEN 1 ELSE 0)
<1> DEFINE A == {l \in i..k : t[l] = w}
           B == {l \in i..k + 1 : t[l] = w}
<1>1. IsFiniteSet(A) /\ Cardinality(A) \in Nat
  <2>1. IsFiniteSet(i..k)
    BY FS_Interval
  <2>2. A \subseteq i..k
    OBVIOUS
  <2> QED BY <2>1, <2>2, FS_Subset, FS_CardinalityType
<1>2. k + 1 \notin A /\ k + 1 \in i..k + 1
  OBVIOUS
<1>3. CASE t[k + 1] = w
  <2>1. B = A \cup {k + 1}
    BY <1>3
  <2>2. Cardinality(A \cup {k + 1}) = Cardinality(A) + 1
    BY <1>1, <1>2, FS_AddElement
  <2> QED BY <1>1, <1>3, <2>1, <2>2, {l \in i..i - 1 : t[l] = w} = {}, FS_EmptySet DEF Count
<1>4. CASE t[k + 1] # w
  <2>1. B = A
    BY <1>4
  <2> QED BY <1>1, <1>4, <2>1, {l \in i..i - 1 : t[l] = w} = {}, FS_EmptySet DEF Count
<1> QED BY <1>3, <1>4

\* The depth after one word more.
LEMMA DepthStep ==
  ASSUME NEW t, NEW i \in Nat, NEW k \in Nat, i <= k + 1
  PROVE  /\ Depth(t, i, k) \in Int
         /\ Depth(t, i, i - 1) = 0
         /\ t[k + 1] = "open" => Depth(t, i, k + 1) = Depth(t, i, k) + 1
         /\ t[k + 1] = "close" => Depth(t, i, k + 1) = Depth(t, i, k) - 1
         /\ t[k + 1] \notin {"open", "close"} => Depth(t, i, k + 1) = Depth(t, i, k)
<1>1. /\ Count(t, i, k, "open") \in Nat /\ Count(t, i, k, "close") \in Nat
      /\ Count(t, i, i - 1, "open") = 0 /\ Count(t, i, i - 1, "close") = 0
  <2>1. Count(t, i, k, "open") \in Nat /\ Count(t, i, i - 1, "open") = 0
    BY CountStep
  <2>2. Count(t, i, k, "close") \in Nat /\ Count(t, i, i - 1, "close") = 0
    BY CountStep
  <2> QED BY <2>1, <2>2
<1>2. /\ Count(t, i, k + 1, "open") = Count(t, i, k, "open") + (IF t[k + 1] = "open" THEN 1 ELSE 0)
      /\ Count(t, i, k + 1, "close") = Count(t, i, k, "close") + (IF t[k + 1] = "close" THEN 1 ELSE 0)
  BY CountStep
<1> QED BY <1>1, <1>2 DEF Depth

\* Between two words of an object the scanner is outside of strings, and its
\* counter is the depth.
LEMMA ScanBoundary ==
  ASSUME NEW t \in Seq(Words), NEW p, Lay(t, p), Chars(t) \in Seq(Char),
         NEW i \in 1..Len(t), t[i] = "open", NEW scan, Scans(Chars(t), p[i], scan),
         NEW k \in i..Len(t), \A m \in i..k : Depth(t, i, m) > 0
  PROVE  scan[p[k]] = Outside(Depth(t, i, k))
<1> DEFINE D(m) == Depth(t, i, m)
           S == {m \in i..k : scan[p[m]] = Outside(D(m))}
<1>1. p[i] = p[i - 1] + 1 /\ p[i - 1] \in Nat
  <2>1. t[i] \notin Long
    BY DEF Long
  <2>2. p[i] = p[i - 1] + 1
    BY <2>1, ShortWord
  <2>3. i - 1 \in 0..Len(t)
    OBVIOUS
  <2> QED BY <2>2, <2>3 DEF Lay
<1>2. ASSUME NEW m \in i - 1..Len(t) PROVE p[m] \in Nat /\ p[i - 1] <= p[m]
  <2>1. m \in 0..Len(t) /\ i - 1 \in 0..Len(t) /\ i - 1 <= m
    OBVIOUS
  <2> QED BY <2>1 DEF Lay
<1>3. \A m \in i..k : D(m) \in Nat /\ D(m) > 0
  <2>1. \A m \in i..k : D(m) \in Int
    BY DepthStep
  <2> QED BY <2>1
<1>4. ASSUME NEW m \in i - 1..k - 1
      PROVE  /\ t[m + 1] = "open" => D(m + 1) = D(m) + 1
             /\ t[m + 1] = "close" => D(m + 1) = D(m) - 1
             /\ t[m + 1] \notin {"open", "close"} => D(m + 1) = D(m)
  <2>1. m \in Nat /\ i \in Nat /\ i <= m + 1
    OBVIOUS
  <2> QED BY <2>1, DepthStep
<1>5. D(i - 1) = 0
  BY DepthStep
<1> HIDE DEF D
<1>6. i \in S
  <2>1. scan[p[i - 1]] = Outside(0)
    <3>1. p[i] - 1 = p[i - 1]
      BY <1>1
    <3>2. scan[p[i] - 1] = Outside(0)
      BY DEF Scans
    <3> QED BY <3>1, <3>2, Zenon
  <2>2. p[i] \in Nat \ {0} /\ p[i - 1] >= p[i] - 1
    BY <1>1
  <2>7. Scanner(t, p, scan, i, 0)
    BY <2>1, <2>2, ScanWord
  <2>3. scan[p[i]] = Outside(0 + 1)
    BY <2>7 DEF Scanner
  <2>4. i - 1 \in i - 1..k - 1 /\ (i - 1) + 1 = i
    OBVIOUS
  <2>5. D((i - 1) + 1) = D(i - 1) + 1
    BY <1>4, <2>4
  <2>6. D(i) = 0 + 1
    BY <1>5, <2>4, <2>5
  <2> QED BY <2>3, <2>6
<1>7. ASSUME NEW m \in i..k - 1, m \in S PROVE m + 1 \in S
  <2>1. /\ m + 1 \in 1..Len(t) /\ (m + 1) - 1 = m /\ m + 1 \in i..k /\ m \in i..k
        /\ m \in i - 1..k - 1 /\ m \in i - 1..Len(t)
    OBVIOUS
  <2>2. p[m] \in Nat /\ p[m] >= p[i] - 1 /\ p[i] \in Nat \ {0}
    BY <1>1, <1>2, <2>1
  <2> DEFINE d == D(m)
  <2>3. d \in Nat /\ d > 0 /\ D(m + 1) \in Nat /\ D(m + 1) > 0
    BY <1>3, <2>1
  <2>4. scan[p[(m + 1) - 1]] = Outside(d) /\ p[(m + 1) - 1] >= p[i] - 1
    BY <1>7, <2>1, <2>2
  <2>5. /\ t[m + 1] = "open" => D(m + 1) = d + 1
        /\ t[m + 1] = "close" => D(m + 1) = d - 1
        /\ t[m + 1] \notin {"open", "close"} => D(m + 1) = d
    BY <1>4, <2>1
  <2> HIDE DEF d
  <2>6. /\ t[m + 1] = "open" => scan[p[m + 1]] = Outside(d + 1)
        /\ t[m + 1] = "close" /\ d > 1 => scan[p[m + 1]] = Outside(d - 1)
        /\ t[m + 1] \notin {"open", "close"} => scan[p[m + 1]] = Outside(d)
    <3> DEFINE l == m + 1
    <3>1. l \in 1..Len(t) /\ p[l - 1] >= p[i] - 1 /\ scan[p[l - 1]] = Outside(d)
      BY <2>1, <2>4
    <3>2. d = 0 => t[l] = "open"
      BY <2>3
    <3> HIDE DEF l
    <3>3. Scanner(t, p, scan, l, d)
      BY <2>2, <2>3, <3>1, <3>2, ScanWord
    <3> QED BY <3>3 DEF l, Scanner
  <2>7. t[m + 1] = "close" => d > 1
    BY <2>3, <2>5
  <2>8. scan[p[m + 1]] = Outside(D(m + 1))
    BY <2>5, <2>6, <2>7
  <2> QED BY <2>1, <2>8
<1>8. i..k \subseteq S
  <2> HIDE DEF S
  <2>1. i \in Int /\ k \in Int
    OBVIOUS
  <2> QED BY <2>1, <1>6, <1>7, Upwards
<1> QED BY <1>8 DEF D

\* Words i to k are an object as far as their braces go.
Balanced(t, i, k) ==
  /\ Depth(t, i, k) = 0
  /\ \A m \in i..k - 1 : Depth(t, i, m) > 0

\* Once the object has ended the scan keeps its end.
LEMMA StaysEnded ==
  ASSUME NEW c \in Seq(Char), NEW a \in Nat, NEW scan, Scans(c, a, scan),
         NEW e \in a..Len(c), e # 0, scan[e] = Ended(e)
  PROVE  scan[Len(c)].end = e
<1> DEFINE T == {x \in e..Len(c) : scan[x] = Ended(e)}
<1>1. Len(c) \in Nat /\ e \in Nat /\ e <= Len(c) /\ e \in T /\ Len(c) \in e..Len(c)
  OBVIOUS
<1>2. Ended(e).end = e
  BY DEF Ended, Outside
<1>3. ASSUME NEW x \in e..Len(c) - 1, x \in T PROVE x + 1 \in T
  <2>1. x + 1 \in a..Len(c) /\ (x + 1) - 1 = x /\ x + 1 \in e..Len(c)
    BY <1>1
  <2>2. scan[x + 1] = Turned(scan[(x + 1) - 1], c[x + 1], x + 1)
    BY <2>1 DEF Scans
  <2>3. scan[x + 1] = Turned(Ended(e), c[x + 1], x + 1)
    BY <1>3, <2>1, <2>2
  <2>4. scan[x + 1] = Ended(e)
    BY <2>3, <1>2 DEF Turned
  <2> QED BY <2>1, <2>4
<1> HIDE DEF T
<1>4. e..Len(c) \subseteq T
  <2>1. e \in Int /\ Len(c) \in Int
    BY <1>1
  <2> QED BY <2>1, <1>1, <1>3, Upwards
<1>5. scan[Len(c)] = Ended(e)
  BY <1>1, <1>4 DEF T
<1> QED BY <1>2, <1>5

\* extractFirstJsonObject ends where the braces of the words balance, whatever their
\* strings hold.
LEMMA ScanEnds ==
  ASSUME NEW t \in Seq(Words), NEW p, Lay(t, p), Chars(t) \in Seq(Char),
         NEW i \in 1..Len(t), t[i] = "open", NEW k \in i + 1..Len(t), Balanced(t, i, k)
  PROVE  t[k] = "close" /\ ScanEnd(Chars(t), p[i]) = p[k]
<1> DEFINE c == Chars(t)
<1>1. /\ p[i] \in Nat /\ p[i] >= 1 /\ p[k] \in Nat /\ p[k] >= 1 /\ p[i] <= p[k]
      /\ p[k] <= Len(c) /\ Len(c) \in Nat /\ p[i] = p[i - 1] + 1
  <2>1. t[i] \notin Long
    BY DEF Long
  <2>2. p[i] = p[i - 1] + 1
    BY <2>1, ShortWord
  <2>3. i - 1 \in 0..Len(t) /\ i \in 0..Len(t) /\ k \in 0..Len(t) /\ Len(t) \in 0..Len(t) /\ i <= k /\ k <= Len(t)
    OBVIOUS
  <2>4. p[i - 1] \in Nat /\ p[i] \in Nat /\ p[k] \in Nat /\ p[Len(t)] \in Nat
    BY <2>3 DEF Lay
  <2>5. p[i] <= p[k] /\ p[k] <= p[Len(t)] /\ p[Len(t)] = Len(c)
    BY <2>3 DEF Lay
  <2> QED BY <2>2, <2>4, <2>5
<1>2. PICK scan : Scans(c, p[i], scan) /\ ScanEnd(c, p[i]) = scan[Len(c)].end
  <2>1. p[i] \in 1..Len(c) /\ c \in Seq(Char)
    BY <1>1
  <2> QED BY <2>1, ScanUnfolds
<1>3. k - 1 \in i..Len(t) /\ \A m \in i..k - 1 : Depth(t, i, m) > 0
  BY DEF Balanced
<1>4. scan[p[k - 1]] = Outside(Depth(t, i, k - 1))
  BY <1>2, <1>3, ScanBoundary
<1>5. t[k] = "close" /\ Depth(t, i, k - 1) = 1
  <2>1. k - 1 \in Nat /\ i <= (k - 1) + 1 /\ (k - 1) + 1 = k
    OBVIOUS
  <2>2. /\ Depth(t, i, k - 1) \in Int
        /\ t[k] = "open" => Depth(t, i, k) = Depth(t, i, k - 1) + 1
        /\ t[k] = "close" => Depth(t, i, k) = Depth(t, i, k - 1) - 1
        /\ t[k] \notin {"open", "close"} => Depth(t, i, k) = Depth(t, i, k - 1)
    BY <2>1, DepthStep
  <2>3. Depth(t, i, k - 1) > 0 /\ Depth(t, i, k) = 0
    BY <1>3 DEF Balanced
  <2> QED BY <2>2, <2>3
<1>6. scan[p[k]] = Ended(p[k])
  <2>1. p[k - 1] >= p[i] - 1
    <3>1. i \in 0..Len(t) /\ k - 1 \in 0..Len(t) /\ i <= k - 1
      OBVIOUS
    <3>2. p[i] <= p[k - 1] /\ p[k - 1] \in Nat
      BY <3>1 DEF Lay
    <3> QED BY <3>2, <1>1
  <2>2. p[i] \in Nat \ {0} /\ k \in 1..Len(t) /\ scan[p[k - 1]] = Outside(1)
    BY <1>1, <1>4, <1>5
  <2>3. Scanner(t, p, scan, k, 1)
    BY <2>1, <2>2, <1>2, <1>5, ScanWord
  <2> QED BY <1>5, <2>3 DEF Scanner
<1>7. p[i] \in Nat /\ p[k] \in p[i]..Len(c) /\ p[k] # 0 /\ c \in Seq(Char)
  BY <1>1
<1> HIDE DEF c
<1>8. scan[Len(c)].end = p[k]
  BY <1>2, <1>6, <1>7, StaysEnded
<1> QED BY <1>2, <1>5, <1>8 DEF c

\* Where it ends, they do.
LEMMA ScanEndIs ==
  ASSUME NEW t \in Seq(Words), NEW p, Lay(t, p), Chars(t) \in Seq(Char),
         NEW i \in 1..Len(t), t[i] = "open", ScanEnd(Chars(t), p[i]) # 0
  PROVE  \E k \in i + 1..Len(t) : Balanced(t, i, k)
<1> DEFINE c == Chars(t)
           low == {m \in i..Len(t) : ~ (Depth(t, i, m) > 0)}
<1>1. CASE low = {}
  <2>1. Len(t) \in i..Len(t) /\ \A m \in i..Len(t) : Depth(t, i, m) > 0
    BY <1>1
  <2>2. p[i] \in 1..Len(c) /\ p[Len(t)] = Len(c)
    <3>1. t[i] \notin Long
      BY DEF Long
    <3>2. p[i] = p[i - 1] + 1
      BY <3>1, ShortWord
    <3> QED BY <3>2 DEF Lay
  <2>3. PICK scan : Scans(c, p[i], scan) /\ ScanEnd(c, p[i]) = scan[Len(c)].end
    BY <2>2, ScanUnfolds
  <2>4. scan[Len(c)] = Outside(Depth(t, i, Len(t)))
    BY <2>1, <2>2, <2>3, ScanBoundary
  <2> QED BY <2>3, <2>4 DEF Outside
<1>2. CASE low # {}
  <2>1. PICK k \in low : \A m \in low : k <= m
    <3>1. low \in SUBSET Nat
      OBVIOUS
    <3> HIDE DEF low
    <3> QED BY <3>1, <1>2, LeastOf
  <2>2. \A m \in i..k - 1 : Depth(t, i, m) > 0
    BY <2>1
  <2>3. Depth(t, i, i) = 1
    <3>1. i - 1 \in Nat /\ i \in Nat /\ i <= (i - 1) + 1 /\ (i - 1) + 1 = i
      OBVIOUS
    <3>2. /\ Depth(t, i, i - 1) = 0
          /\ t[(i - 1) + 1] = "open" => Depth(t, i, (i - 1) + 1) = Depth(t, i, i - 1) + 1
      BY <3>1, DepthStep
    <3>3. Depth(t, i, i) = 0 + 1
      BY <3>1, <3>2
    <3> QED BY <3>3
  <2>4. k \in i + 1..Len(t)
    <3>1. k # i
      BY <2>1, <2>3
    <3> QED BY <2>1, <3>1
  <2>5. Depth(t, i, k) = 0
    <3>1. k - 1 \in Nat /\ i <= (k - 1) + 1 /\ (k - 1) + 1 = k /\ k - 1 \in i..k - 1 /\ k \in Nat /\ i <= k + 1
      BY <2>4
    <3>2. /\ Depth(t, i, k - 1) \in Int
          /\ t[k] = "open" => Depth(t, i, k) = Depth(t, i, k - 1) + 1
          /\ t[k] = "close" => Depth(t, i, k) = Depth(t, i, k - 1) - 1
          /\ t[k] \notin {"open", "close"} => Depth(t, i, k) = Depth(t, i, k - 1)
      BY <3>1, DepthStep
    <3>3. Depth(t, i, k - 1) > 0 /\ ~ (Depth(t, i, k) > 0)
      BY <2>1, <2>2, <3>1
    <3> QED BY <3>2, <3>3
  <2> QED BY <2>2, <2>4, <2>5 DEF Balanced
<1> QED BY <1>1, <1>2

-------------------------------------------------------------------------------
(* JSON.parse: strings.                                                     *)

\* One turn of the reading of a string.
StringTurn(c, at, k) ==
  IF k > Len(c) \/ c[k] = "plain" THEN 0
  ELSE IF c[k] = "backslash" THEN at[k + 2]
  ELSE IF c[k] = "quote" THEN k
  ELSE at[k + 1]

\* StringEnd is read off the function these turns define.
LEMMA StringUnfolds ==
  ASSUME NEW c \in Seq(Char), NEW i \in 1..Len(c)
  PROVE  \E at : /\ \A k \in i + 1..Len(c) + 2 : at[k] = StringTurn(c, at, k)
                 /\ StringEnd(c, i) = at[i + 1]
<1> DEFINE N == Len(c) + 2
           Is(g, m) == g = [k \in m..N |-> StringTurn(c, g, k)]
           S == {m \in i + 1..N + 1 : \E g : Is(g, m)}
           f == CHOOSE g : g = [k \in i + 1..N |-> StringTurn(c, g, k)]
<1>0. N \in Nat /\ N = Len(c) + 2 /\ i + 1 \in i + 1..N
  OBVIOUS
<1>1. StringEnd(c, i) = f[i + 1]
  BY Zenon DEF StringEnd, StringTurn
<1> HIDE DEF N
<1>2. \A g, h, k : k \in Int /\ (k <= Len(c) => g[k + 1] = h[k + 1] /\ g[k + 2] = h[k + 2])
         => StringTurn(c, g, k) = StringTurn(c, h, k)
  BY DEF StringTurn
<1>3. N + 1 \in S
  <2>1. Is([k \in N + 1..N |-> 0], N + 1)
    BY <1>0
  <2> HIDE DEF Is
  <2> QED BY <1>0, <2>1
<1>4. ASSUME NEW m \in i + 1 + 1..N + 1, m \in S PROVE m - 1 \in S
  <2>1. PICK g : Is(g, m)
    BY <1>4
  <2> DEFINE h == [k \in m - 1..N |-> StringTurn(c, g, k)]
  <2>2. \A k \in m..N : h[k] = g[k]
    BY <2>1, <1>0
  <2>3. ASSUME NEW k \in m - 1..N PROVE StringTurn(c, h, k) = StringTurn(c, g, k)
    <3>1. k \in Int /\ (k <= Len(c) => k + 1 \in m..N /\ k + 2 \in m..N)
      BY <1>0
    <3> HIDE DEF h
    <3> QED BY <2>2, <3>1, <1>2
  <2>4. Is(h, m - 1)
    BY <2>3
  <2> HIDE DEF Is, h
  <2> QED BY <2>4, <1>0
<1> HIDE DEF S
<1>5. i + 1 \in S
  <2>1. i + 1 \in Int /\ N + 1 \in Int /\ i + 1 \in i + 1..N + 1
    BY <1>0
  <2>2. i + 1..N + 1 \subseteq S
    BY <2>1, <1>3, <1>4, Downwards
  <2> QED BY <2>1, <2>2
<1>6. f = [k \in i + 1..N |-> StringTurn(c, f, k)]
  <2>1. \E g : Is(g, i + 1)
    BY <1>5 DEF S
  <2> QED BY <2>1
<1> HIDE DEF f
<1>7. \A k \in i + 1..N : f[k] = StringTurn(c, f, k)
  BY <1>6
<1> QED BY <1>0, <1>1, <1>7

\* A string ends after it starts.
LEMMA StringEndsLater ==
  ASSUME NEW c \in Seq(Char), NEW i \in 1..Len(c), StringEnd(c, i) # 0
  PROVE  StringEnd(c, i) \in i + 1..Len(c)
<1> DEFINE N == Len(c)
<1>1. PICK at : /\ \A k \in i + 1..N + 2 : at[k] = StringTurn(c, at, k)
                /\ StringEnd(c, i) = at[i + 1]
  BY StringUnfolds
<1> DEFINE Fine(k) == at[k] = 0 \/ at[k] \in k..N
           S == {m \in i + 1..N + 3 : \A k \in m..N + 2 : Fine(k)}
<1>2. N + 3 \in S
  OBVIOUS
<1>3. ASSUME NEW m \in i + 1 + 1..N + 3, m \in S PROVE m - 1 \in S
  <2>1. at[m - 1] = StringTurn(c, at, m - 1)
    BY <1>1
  <2>2. m - 1 <= N => Fine(m) /\ Fine(m + 1)
    BY <1>3
  <2>3. Fine(m - 1)
    <3>1. m \in Nat /\ N \in Nat /\ (m - 1) + 1 = m /\ (m - 1) + 2 = m + 1
      OBVIOUS
    <3> QED BY <2>1, <2>2, <3>1 DEF StringTurn
  <2> HIDE DEF Fine
  <2>4. \A k \in m..N + 2 : Fine(k)
    BY <1>3
  <2>5. \A k \in m - 1..N + 2 : k = m - 1 \/ k \in m..N + 2
    OBVIOUS
  <2> QED BY <2>3, <2>4, <2>5
<1> HIDE DEF S
<1>4. i + 1..N + 3 \subseteq S
  <2>1. i + 1 \in Int /\ N + 3 \in Int
    OBVIOUS
  <2> QED BY <2>1, <1>2, <1>3, Downwards
<1>5. i + 1 \in S
  BY <1>4
<1>6. Fine(i + 1)
  BY <1>5 DEF S
<1> QED BY <1>1, <1>6

\* The string of a word ends with its last quote.
LEMMA StringOfWord ==
  ASSUME NEW c \in Seq(Char), NEW q \in Nat, q + 5 <= Len(c), NEW w, Quotes(c, q, w)
  PROVE  c[q + 1] = "quote" /\ StringEnd(c, q + 1) = q + 5
<1>1. q + 1 \in 1..Len(c)
  OBVIOUS
<1>2. PICK at : /\ \A k \in (q + 1) + 1..Len(c) + 2 : at[k] = StringTurn(c, at, k)
                /\ StringEnd(c, q + 1) = at[(q + 1) + 1]
  BY <1>1, StringUnfolds
<1>3. /\ at[q + 2] = StringTurn(c, at, q + 2) /\ at[q + 3] = StringTurn(c, at, q + 3)
      /\ at[q + 4] = StringTurn(c, at, q + 4) /\ at[q + 5] = StringTurn(c, at, q + 5)
  BY <1>2
<1>4. /\ (q + 1) + 1 = q + 2 /\ (q + 2) + 1 = q + 3 /\ (q + 2) + 2 = q + 4
      /\ (q + 3) + 1 = q + 4 /\ (q + 4) + 1 = q + 5
      /\ ~ (q + 2 > Len(c)) /\ ~ (q + 3 > Len(c)) /\ ~ (q + 4 > Len(c)) /\ ~ (q + 5 > Len(c))
  OBVIOUS
<1>5. at[q + 5] = q + 5
  BY <1>3, <1>4 DEF StringTurn, Quotes
<1>6. at[q + 4] = q + 5
  BY <1>3, <1>4, <1>5 DEF StringTurn, Quotes
<1>7. at[q + 2] = q + 5
  <2>1. CASE c[q + 2] = "backslash"
    BY <1>3, <1>4, <1>6, <2>1 DEF StringTurn
  <2>2. CASE c[q + 2] = "json" /\ c[q + 3] = "{"
    <3>1. at[q + 3] = q + 5
      BY <1>3, <1>4, <1>6, <2>2 DEF StringTurn
    <3> QED BY <1>3, <1>4, <3>1, <2>2 DEF StringTurn
  <2> QED BY <2>1, <2>2 DEF Quotes
<1> QED BY <1>2, <1>4, <1>7 DEF Quotes

-------------------------------------------------------------------------------
(* JSON.parse: members.                                                     *)

\* What Members says of a position, and how a verdict joins what follows it.
Found(e, v) == [end |-> e, verdict |-> v]

Then(rest, v) == IF rest.verdict = "absent" THEN [rest EXCEPT !.verdict = v] ELSE rest

\* One turn of the reading of members.
MemberTurn(c, g, i) ==
  IF i > Len(c) THEN Found(Len(c) + 1, "absent")
  ELSE CASE c[i] \in {"yes", "no"} -> Then(g[i + 1], c[i])
         [] c[i] = "quote" -> IF StringEnd(c, i) = 0 THEN Found(Len(c) + 1, "absent")
                              ELSE Then(g[StringEnd(c, i) + 1], "absent")
         [] c[i] = "{" -> IF g[i + 1].end <= Len(c) /\ c[g[i + 1].end] = "}"
                          THEN Then(g[g[i + 1].end + 1], "absent")
                          ELSE Found(Len(c) + 1, "absent")
         [] OTHER -> Found(i, "absent")

\* It ends at x or later.
Result(c, r, x) == \E e \in x..Len(c) + 1 : \E v : r = Found(e, v)

\* The fields of a result.
LEMMA FoundIs ==
  ASSUME NEW e, NEW v
  PROVE  /\ Found(e, v).end = e /\ Found(e, v).verdict = v
         /\ \A z : Then(Found(e, v), z) = IF v = "absent" THEN Found(e, z) ELSE Found(e, v)
BY DEF Found, Then

\* The turns, case by case.
LEMMA MemberTurns ==
  ASSUME NEW c \in Seq(Char), NEW g, NEW x \in 1..Len(c)
  PROVE  /\ c[x] \in {"yes", "no"} => MemberTurn(c, g, x) = Then(g[x + 1], c[x])
         /\ c[x] = "quote" /\ StringEnd(c, x) # 0 =>
              MemberTurn(c, g, x) = Then(g[StringEnd(c, x) + 1], "absent")
         /\ c[x] = "quote" /\ StringEnd(c, x) = 0 =>
              MemberTurn(c, g, x) = Found(Len(c) + 1, "absent")
         /\ c[x] = "{" /\ g[x + 1].end <= Len(c) /\ c[g[x + 1].end] = "}" =>
              MemberTurn(c, g, x) = Then(g[g[x + 1].end + 1], "absent")
         /\ c[x] = "{" /\ ~ (g[x + 1].end <= Len(c) /\ c[g[x + 1].end] = "}") =>
              MemberTurn(c, g, x) = Found(Len(c) + 1, "absent")
         /\ c[x] \notin {"yes", "no", "quote", "{"} => MemberTurn(c, g, x) = Found(x, "absent")
<1>1. ~ (x > Len(c))
  OBVIOUS
<1>2. c[x] \in {"yes", "no"} => MemberTurn(c, g, x) = Then(g[x + 1], c[x])
  BY <1>1 DEF MemberTurn
<1>3. c[x] = "quote" => MemberTurn(c, g, x) = IF StringEnd(c, x) = 0 THEN Found(Len(c) + 1, "absent")
                              ELSE Then(g[StringEnd(c, x) + 1], "absent")
  BY <1>1 DEF MemberTurn
<1>4. c[x] = "{" => MemberTurn(c, g, x) = IF g[x + 1].end <= Len(c) /\ c[g[x + 1].end] = "}"
                          THEN Then(g[g[x + 1].end + 1], "absent")
                          ELSE Found(Len(c) + 1, "absent")
  BY <1>1 DEF MemberTurn
<1>5. c[x] \notin {"yes", "no", "quote", "{"} => MemberTurn(c, g, x) = Found(x, "absent")
  BY <1>1 DEF MemberTurn
<1> QED BY <1>2, <1>3, <1>4, <1>5

\* A member in front does not move the end.
LEMMA ResultThen ==
  ASSUME NEW c \in Seq(Char), NEW x \in Nat, NEW y \in Nat, x <= y, NEW r, Result(c, r, y), NEW v
  PROVE  Result(c, Then(r, v), x)
<1>1. PICK e, w : e \in y..Len(c) + 1 /\ r = Found(e, w)
  BY DEF Result
<1>2. e \in x..Len(c) + 1
  BY <1>1
<1>3. Then(r, v) = Found(e, v) \/ Then(r, v) = Found(e, w)
  BY <1>1, FoundIs
<1> QED BY <1>2, <1>3 DEF Result

\* A turn only reads what stands behind it, so the recursion is well founded.
LEMMA TurnResult ==
  ASSUME NEW c \in Seq(Char), NEW x \in 1..Len(c) + 1,
         NEW g, \A y \in x + 1..Len(c) + 1 : Result(c, g[y], y)
  PROVE  /\ Result(c, MemberTurn(c, g, x), x)
         /\ \A h : (\A y \in x + 1..Len(c) + 1 : h[y] = g[y])
                     => MemberTurn(c, h, x) = MemberTurn(c, g, x)
<1> DEFINE N == Len(c)
<1>0. Result(c, Found(N + 1, "absent"), x) /\ Result(c, Found(x, "absent"), x)
  <2>1. x \in x..N + 1 /\ N + 1 \in x..N + 1
    OBVIOUS
  <2> QED BY <2>1 DEF Result
<1>1. CASE x = N + 1
  <2>1. \A h : MemberTurn(c, h, x) = Found(N + 1, "absent")
    <3>1. x > Len(c)
      BY <1>1
    <3> QED BY <3>1 DEF MemberTurn
  <2> QED BY <1>0, <2>1
<1>2. CASE x \in 1..N
  <2>1. x + 1 \in x + 1..N + 1 /\ Result(c, g[x + 1], x + 1) /\ x \in Nat /\ x + 1 \in Nat /\ x <= x + 1
    BY <1>2
  <2>2. PICK e, v : e \in x + 1..N + 1 /\ g[x + 1] = Found(e, v)
    BY <2>1 DEF Result
  <2>3. g[x + 1].end = e
    BY <2>2, FoundIs
  <2>9. e \in x + 1..N + 1
    BY <2>2
  <2>4. e <= N => /\ e + 1 \in x + 1..N + 1 /\ e + 1 \in Nat /\ x <= e + 1
                  /\ Result(c, g[e + 1], e + 1)
    BY <1>2, <2>9
  <2>5. StringEnd(c, x) # 0 => /\ StringEnd(c, x) + 1 \in x + 1..N + 1
                               /\ StringEnd(c, x) + 1 \in Nat /\ x <= StringEnd(c, x) + 1
                               /\ Result(c, g[StringEnd(c, x) + 1], StringEnd(c, x) + 1)
    <3>1. SUFFICES ASSUME StringEnd(c, x) # 0
          PROVE  StringEnd(c, x) + 1 \in x + 1..N + 1
      BY <1>2
    <3>2. StringEnd(c, x) \in x + 1..N
      BY <1>2, <3>1, StringEndsLater
    <3> QED BY <3>2
  <2> HIDE DEF N
  <2>6. Result(c, MemberTurn(c, g, x), x)
    <3>1. CASE c[x] \in {"yes", "no"}
      <4>1. MemberTurn(c, g, x) = Then(g[x + 1], c[x])
        BY <1>2, <3>1, MemberTurns DEF N
      <4> QED BY <2>1, <4>1, ResultThen
    <3>2. CASE c[x] = "quote" /\ StringEnd(c, x) # 0
      <4>1. MemberTurn(c, g, x) = Then(g[StringEnd(c, x) + 1], "absent")
        BY <1>2, <3>2, MemberTurns DEF N
      <4> QED BY <2>1, <2>5, <3>2, <4>1, ResultThen
    <3>3. CASE c[x] = "quote" /\ StringEnd(c, x) = 0
      BY <1>0, <1>2, <3>3, MemberTurns DEF N
    <3>4. CASE c[x] = "{" /\ g[x + 1].end <= Len(c) /\ c[g[x + 1].end] = "}"
      <4>1. MemberTurn(c, g, x) = Then(g[g[x + 1].end + 1], "absent")
        BY <1>2, <3>4, MemberTurns DEF N
      <4>2. MemberTurn(c, g, x) = Then(g[e + 1], "absent") /\ e <= N
        BY <4>1, <2>3, <3>4, Zenon DEF N
      <4> QED BY <2>1, <2>4, <4>2, ResultThen
    <3>5. CASE c[x] = "{" /\ ~ (g[x + 1].end <= Len(c) /\ c[g[x + 1].end] = "}")
      BY <1>0, <1>2, <3>5, MemberTurns DEF N
    <3>6. CASE c[x] \notin {"yes", "no", "quote", "{"}
      BY <1>0, <1>2, <3>6, MemberTurns DEF N
    <3> QED BY <3>1, <3>2, <3>3, <3>4, <3>5, <3>6
  <2>7. ASSUME NEW h, \A y \in x + 1..N + 1 : h[y] = g[y]
        PROVE  MemberTurn(c, h, x) = MemberTurn(c, g, x)
    <3>0. h[x + 1] = g[x + 1] /\ (StringEnd(c, x) # 0 => h[StringEnd(c, x) + 1] = g[StringEnd(c, x) + 1])
          /\ (e <= N => h[e + 1] = g[e + 1])
      BY <2>1, <2>4, <2>5, <2>7
    <3>1. CASE c[x] \in {"yes", "no"}
      <4>1. MemberTurn(c, g, x) = Then(g[x + 1], c[x])
        BY <1>2, <3>1, MemberTurns DEF N
      <4>2. MemberTurn(c, h, x) = Then(h[x + 1], c[x])
        BY <1>2, <3>1, MemberTurns DEF N
      <4> QED BY <3>0, <4>1, <4>2, Zenon
    <3>2. CASE c[x] = "quote" /\ StringEnd(c, x) # 0
      <4>1. MemberTurn(c, g, x) = Then(g[StringEnd(c, x) + 1], "absent")
        BY <1>2, <3>2, MemberTurns DEF N
      <4>2. MemberTurn(c, h, x) = Then(h[StringEnd(c, x) + 1], "absent")
        BY <1>2, <3>2, MemberTurns DEF N
      <4> QED BY <3>0, <3>2, <4>1, <4>2, Zenon
    <3>3. CASE c[x] = "quote" /\ StringEnd(c, x) = 0
      <4>1. MemberTurn(c, g, x) = Found(Len(c) + 1, "absent")
        BY <1>2, <3>3, MemberTurns DEF N
      <4>2. MemberTurn(c, h, x) = Found(Len(c) + 1, "absent")
        BY <1>2, <3>3, MemberTurns DEF N
      <4> QED BY <4>1, <4>2, Zenon
    <3>4. CASE c[x] = "{" /\ g[x + 1].end <= Len(c) /\ c[g[x + 1].end] = "}"
      <4>1. MemberTurn(c, g, x) = Then(g[g[x + 1].end + 1], "absent")
        BY <1>2, <3>4, MemberTurns DEF N
      <4>2. MemberTurn(c, h, x) = Then(h[h[x + 1].end + 1], "absent")
        BY <1>2, <3>0, <3>4, MemberTurns DEF N
      <4>3. e <= N
        BY <2>3, <3>4, Zenon DEF N
      <4> QED BY <2>3, <3>0, <4>1, <4>2, <4>3, Zenon
    <3>5. CASE c[x] = "{" /\ ~ (g[x + 1].end <= Len(c) /\ c[g[x + 1].end] = "}")
      BY <1>2, <3>0, <3>5, MemberTurns, ZenonT(40) DEF N
    <3>6. CASE c[x] \notin {"yes", "no", "quote", "{"}
      BY <1>2, <3>6, MemberTurns, ZenonT(40) DEF N
    <3> QED BY <3>1, <3>2, <3>3, <3>4, <3>5, <3>6
  <2> QED BY <2>6, <2>7 DEF N
<1> QED BY <1>1, <1>2

\* Members is the function these turns define.
LEMMA MembersUnfold ==
  ASSUME NEW c \in Seq(Char)
  PROVE  \A x \in 1..Len(c) + 1 : /\ Members(c)[x] = MemberTurn(c, Members(c), x)
                                  /\ Result(c, Members(c)[x], x)
<1> DEFINE N == Len(c) + 1
           Is(g, m) == g = [x \in m..N |-> MemberTurn(c, g, x)]
           Are(g, m) == \A y \in m..N : Result(c, g[y], y)
           S == {m \in 1..N + 1 : \E g : Is(g, m) /\ Are(g, m)}
           f == CHOOSE g : g = [x \in 1..N |-> MemberTurn(c, g, x)]
<1>0. N \in Nat /\ N = Len(c) + 1 /\ 1 \in 1..N + 1
  OBVIOUS
<1>1. Members(c) = f
  BY Zenon DEF Members, MemberTurn, Found, Then
<1> HIDE DEF N
<1>3. N + 1 \in S
  <2>1. Is([k \in N + 1..N |-> 0], N + 1) /\ Are([k \in N + 1..N |-> 0], N + 1)
    BY <1>0
  <2> HIDE DEF Is, Are
  <2> QED BY <1>0, <2>1
<1>4. ASSUME NEW m \in 1 + 1..N + 1, m \in S PROVE m - 1 \in S
  <2>1. PICK g : Is(g, m) /\ Are(g, m)
    BY <1>4
  <2> DEFINE h == [x \in m - 1..N |-> MemberTurn(c, g, x)]
  <2>2. \A x \in m..N : h[x] = g[x]
    BY <2>1, <1>0
  <2>3. ASSUME NEW x \in m - 1..N
        PROVE  MemberTurn(c, h, x) = MemberTurn(c, g, x) /\ Result(c, MemberTurn(c, g, x), x)
    <3>1. /\ x \in 1..Len(c) + 1
          /\ \A y \in x + 1..Len(c) + 1 : y \in m..N
      BY <1>0
    <3> HIDE DEF h
    <3>2. \A y \in x + 1..Len(c) + 1 : Result(c, g[y], y) /\ h[y] = g[y]
      BY <2>1, <2>2, <3>1
    <3> QED BY <3>1, <3>2, TurnResult
  <2>4. Is(h, m - 1) /\ Are(h, m - 1)
    BY <2>3
  <2> HIDE DEF Is, Are, h
  <2> QED BY <2>4, <1>0
<1> HIDE DEF S
<1>5. 1 \in S
  <2>1. 1 \in Int /\ N + 1 \in Int
    BY <1>0
  <2>2. 1..N + 1 \subseteq S
    BY <2>1, <1>3, <1>4, Downwards
  <2> QED BY <1>0, <2>2
<1>6. f = [x \in 1..N |-> MemberTurn(c, f, x)]
  <2>1. \E g : Is(g, 1)
    BY <1>5 DEF S
  <2> QED BY <2>1
<1> HIDE DEF f
<1>7. \A x \in 1..N : f[x] = MemberTurn(c, f, x)
  BY <1>6
<1> DEFINE T == {m \in 1..N + 1 : Are(f, m)}
<1>8. N + 1 \in T
  BY <1>0
<1>9. ASSUME NEW m \in 1 + 1..N + 1, m \in T PROVE m - 1 \in T
  <2>1. m - 1 \in 1..N /\ (m - 1) + 1 = m /\ m - 1 \in 1..N + 1
    BY <1>0
  <2>2. \A y \in (m - 1) + 1..Len(c) + 1 : Result(c, f[y], y)
    BY <1>0, <1>9, <2>1
  <2>3. Result(c, f[m - 1], m - 1)
    BY <1>0, <1>7, <2>1, <2>2, TurnResult
  <2>4. \A y \in m - 1..N : y = m - 1 \/ y \in m..N
    BY <1>0
  <2> QED BY <1>9, <2>1, <2>3, <2>4
<1> HIDE DEF T
<1>10. 1..N + 1 \subseteq T
  <2>1. 1 \in Int /\ N + 1 \in Int
    BY <1>0
  <2> QED BY <2>1, <1>8, <1>9, Downwards
<1>11. Are(f, 1)
  BY <1>0, <1>10 DEF T
<1> QED BY <1>0, <1>1, <1>7, <1>11

\* Words i to k of t are what u spells, word l up to position q[l].
Cut(t, i, k, u, q) ==
  /\ u \in Seq(Char) /\ q[i - 1] = 0 /\ q[k] = Len(u)
  /\ \A l \in i - 1..k : q[l] \in 0..Len(u)
  /\ \A l \in i..k :
       /\ t[l] \notin Long => q[l] = q[l - 1] + 1 /\ u[q[l]] = Letter(t[l])
       /\ t[l] \in Long => q[l] = q[l - 1] + 5 /\ Quotes(u, q[l - 1], t[l])

\* What a substring holds.
LEMMA Excerpt ==
  ASSUME NEW c \in Seq(Char), NEW a \in Nat, NEW b \in Nat, a <= b, b <= Len(c)
  PROVE  /\ SubSeq(c, a + 1, b) \in Seq(Char)
         /\ Len(SubSeq(c, a + 1, b)) = b - a
         /\ \A x \in 1..b - a : SubSeq(c, a + 1, b)[x] = c[a + x]
<1>1. Len(c) \in Nat
  OBVIOUS
<1>2. /\ SubSeq(c, a + 1, b) \in Seq(Char)
      /\ Len(SubSeq(c, a + 1, b)) = IF a + 1 <= b THEN b - (a + 1) + 1 ELSE 0
      /\ \A x \in 1..b - (a + 1) + 1 : SubSeq(c, a + 1, b)[x] = c[(a + 1) + x - 1]
  BY <1>1, SubSeqProperties
<1>3. b - (a + 1) + 1 = b - a /\ \A x \in Int : (a + 1) + x - 1 = a + x
  OBVIOUS
<1>4. Len(SubSeq(c, a + 1, b)) = b - a
  <2>1. CASE a + 1 <= b
    BY <1>2, <1>3, <2>1
  <2>2. CASE ~ (a + 1 <= b)
    <3>1. b - a = 0
      BY <2>2
    <3> QED BY <1>2, <2>2, <3>1
  <2> QED BY <2>1, <2>2
<1>5. ASSUME NEW x \in 1..b - a PROVE SubSeq(c, a + 1, b)[x] = c[a + x]
  <2>1. x \in 1..b - (a + 1) + 1 /\ (a + 1) + x - 1 = a + x
    BY <1>3
  <2>2. SubSeq(c, a + 1, b)[x] = c[(a + 1) + x - 1]
    BY <1>2, <2>1
  <2> QED BY <2>1, <2>2, Zenon
<1> QED BY <1>2, <1>4, <1>5

\* An excerpt between two words spells the words between them.
LEMMA CutOut ==
  ASSUME NEW t \in Seq(Words), NEW p, Lay(t, p), Chars(t) \in Seq(Char),
         NEW i \in 1..Len(t), NEW k \in i..Len(t)
  PROVE  Cut(t, i, k, SubSeq(Chars(t), p[i - 1] + 1, p[k]), [l \in i - 1..k |-> p[l] - p[i - 1]])
<1> DEFINE c == Chars(t)
           a == p[i - 1]
           b == p[k]
           u == SubSeq(c, a + 1, b)
           q == [l \in i - 1..k |-> p[l] - a]
<1>1. /\ a \in Nat /\ b \in Nat /\ a <= b /\ b <= Len(c)
      /\ \A l \in i - 1..k : p[l] \in Nat /\ a <= p[l] /\ p[l] <= b
  <2>1. /\ i - 1 \in 0..Len(t) /\ k \in 0..Len(t) /\ Len(t) \in 0..Len(t) /\ i - 1 <= k /\ k <= Len(t)
    OBVIOUS
  <2>2. /\ \A l \in 0..Len(t) : p[l] \in Nat
        /\ \A l, m \in 0..Len(t) : l <= m => p[l] <= p[m]
        /\ p[Len(t)] = Len(c)
    BY DEF Lay
  <2>3. \A l \in i - 1..k : l \in 0..Len(t) /\ i - 1 <= l /\ l <= k
    OBVIOUS
  <2> HIDE DEF c
  <2> QED BY <2>1, <2>2, <2>3
<1>2. u \in Seq(Char) /\ Len(u) = b - a /\ \A x \in 1..b - a : u[x] = c[a + x]
  <2> HIDE DEF a, b, c
  <2>1. c \in Seq(Char)
    BY DEF c
  <2> QED BY <1>1, <2>1, Excerpt
<1>3. \A l \in i..k : /\ t[l] \notin Long => p[l] = p[l - 1] + 1 /\ c[p[l]] = Letter(t[l])
                      /\ t[l] \in Long => p[l] = p[l - 1] + 5 /\ Quotes(c, p[l - 1], t[l])
  <2>1. ASSUME NEW l \in i..k
        PROVE  /\ t[l] \notin Long => p[l] = p[l - 1] + 1 /\ c[p[l]] = Letter(t[l])
               /\ t[l] \in Long => p[l] = p[l - 1] + 5 /\ Quotes(c, p[l - 1], t[l])
    <3>1. l \in 1..Len(t)
      OBVIOUS
    <3> QED BY <3>1, ShortWord, LongWord
  <2> QED BY <2>1
<1> HIDE DEF c, u, b
<1>4. \A l \in i - 1..k : q[l] = p[l] - a /\ q[l] \in 0..Len(u)
  <2> HIDE DEF a
  <2> QED BY <1>1, <1>2
<1>5. q[i - 1] = 0 /\ q[k] = Len(u)
  <2>1. i - 1 \in i - 1..k /\ k \in i - 1..k /\ a = p[i - 1] /\ b = p[k]
    BY DEF b
  <2>2. q[i - 1] = p[i - 1] - a /\ q[k] = p[k] - a
    BY <1>4, <2>1
  <2> HIDE DEF q, a
  <2> QED BY <1>1, <1>2, <2>1, <2>2
<1> HIDE DEF q, a
<1>6. ASSUME NEW l \in i..k
      PROVE  /\ t[l] \notin Long => q[l] = q[l - 1] + 1 /\ u[q[l]] = Letter(t[l])
             /\ t[l] \in Long => q[l] = q[l - 1] + 5 /\ Quotes(u, q[l - 1], t[l])
  <2>1. l \in i - 1..k /\ l - 1 \in i - 1..k
    OBVIOUS
  <2>2. /\ q[l] = p[l] - a /\ q[l - 1] = p[l - 1] - a /\ p[l] \in Nat /\ p[l - 1] \in Nat
        /\ a <= p[l - 1] /\ p[l] <= b /\ a <= p[l] /\ a \in Nat /\ b \in Nat
    BY <1>1, <1>4, <2>1
  <2>3. ASSUME t[l] \notin Long PROVE q[l] = q[l - 1] + 1 /\ u[q[l]] = Letter(t[l])
    <3>1. p[l] = p[l - 1] + 1 /\ c[p[l]] = Letter(t[l])
      BY <1>3, <2>3
    <3>2. q[l] \in 1..b - a /\ a + q[l] = p[l] /\ q[l] = q[l - 1] + 1
      BY ONLY <2>2, <3>1
    <3> QED BY <1>2, <3>1, <3>2
  <2>4. ASSUME t[l] \in Long PROVE q[l] = q[l - 1] + 5 /\ Quotes(u, q[l - 1], t[l])
    <3>1. p[l] = p[l - 1] + 5 /\ Quotes(c, p[l - 1], t[l])
      BY <1>3, <2>4
    <3>2. q[l] = q[l - 1] + 5
      BY ONLY <2>2, <3>1
    <3>4. ASSUME NEW d \in 1..5 PROVE u[q[l - 1] + d] = c[p[l - 1] + d]
      <4>1. \A x, y \in Nat : x = y + 5 /\ a <= y /\ x <= b =>
               (y - a) + d \in 1..b - a /\ a + ((y - a) + d) = y + d
        BY <2>2
      <4>2. (p[l - 1] - a) + d \in 1..b - a /\ a + ((p[l - 1] - a) + d) = p[l - 1] + d
        BY <2>2, <3>1, <4>1
      <4>3. q[l - 1] + d = (p[l - 1] - a) + d
        BY <2>2, Zenon
      <4> QED BY <1>2, <4>2, <4>3
    <3>5. /\ u[q[l - 1] + 1] = c[p[l - 1] + 1] /\ u[q[l - 1] + 2] = c[p[l - 1] + 2]
          /\ u[q[l - 1] + 3] = c[p[l - 1] + 3] /\ u[q[l - 1] + 4] = c[p[l - 1] + 4]
          /\ u[q[l - 1] + 5] = c[p[l - 1] + 5]
      BY <3>4
    <3>6. Quotes(u, q[l - 1], t[l])
      BY <3>1, <3>5 DEF Quotes
    <3> QED BY <3>2, <3>6
  <2> QED BY <2>3, <2>4
<1>7. Cut(t, i, k, u, q)
  BY <1>2, <1>4, <1>5, <1>6 DEF Cut
<1> QED BY <1>7 DEF c, u, a, b, q

\* v is the last verdict of those that stand at S, "absent" without one.
IsLast(t, S, v) ==
  \/ S = {} /\ v = "absent"
  \/ \E x \in S : v = t[x] /\ \A y \in S : y <= x

\* What starts with word l ends with brace m, that of the object word l is in.
Closes(t, i, l, m) ==
  /\ t[m] = "close" /\ Depth(t, i, m) = Depth(t, i, l - 1) - 1
  /\ \A x \in l..m - 1 : Depth(t, i, x) >= Depth(t, i, l - 1)

\* No fence stands outside of strings among words l to m.
Fenceless(t, l, m) == \A x \in l..m : t[x] \notin {"json", "plain"}

\* The verdicts of that object among them.
OwnFrom(t, i, l, m) ==
  {x \in l..m : t[x] \in {"yes", "no"} /\ Depth(t, i, x) = Depth(t, i, l - 1)}

\* A member that is none stops the parser.
Bad(u, r) ==
  \E e, v : /\ r = Found(e, v)
            /\ e = Len(u) + 1 \/ (e \in 1..Len(u) /\ u[e] \in {"json", "plain"})

\* The members from word l on are read up to the brace that ends them, and their last
\* verdict is kept; a fence among them stops the parser.
Good(t, i, k, u, q, l) ==
  \E m \in l..k : \E v :
    /\ Closes(t, i, l, m)
    /\ Fenceless(t, l, m) => /\ Members(u)[q[l - 1] + 1] = Found(q[m], v)
                         /\ IsLast(t, OwnFrom(t, i, l, m), v)
    /\ ~ Fenceless(t, l, m) => Bad(u, Members(u)[q[l - 1] + 1])

\* It stays stopped.
LEMMA BadThen ==
  ASSUME NEW u, NEW r, Bad(u, r), NEW v
  PROVE  Bad(u, Then(r, v))
<1>1. PICK e, w : /\ r = Found(e, w)
                  /\ e = Len(u) + 1 \/ (e \in 1..Len(u) /\ u[e] \in {"json", "plain"})
  BY DEF Bad
<1>2. Then(r, v) = Found(e, v) \/ Then(r, v) = Found(e, w)
  BY <1>1, FoundIs
<1> QED BY <1>1, <1>2 DEF Bad

\* The depth before and after one word.
LEMMA DepthMoves ==
  ASSUME NEW t, NEW i \in Nat \ {0}, NEW l \in Nat, l > i
  PROVE  /\ Depth(t, i, l) \in Int /\ Depth(t, i, l - 1) \in Int
         /\ t[l] = "open" => Depth(t, i, l) = Depth(t, i, l - 1) + 1
         /\ t[l] = "close" => Depth(t, i, l) = Depth(t, i, l - 1) - 1
         /\ t[l] \notin {"open", "close"} => Depth(t, i, l) = Depth(t, i, l - 1)
<1>1. l - 1 \in Nat /\ i <= (l - 1) + 1 /\ (l - 1) + 1 = l /\ i <= l + 1 /\ i \in Nat
  OBVIOUS
<1>2. /\ Depth(t, i, l - 1) \in Int
      /\ t[(l - 1) + 1] = "open" => Depth(t, i, (l - 1) + 1) = Depth(t, i, l - 1) + 1
      /\ t[(l - 1) + 1] = "close" => Depth(t, i, (l - 1) + 1) = Depth(t, i, l - 1) - 1
      /\ t[(l - 1) + 1] \notin {"open", "close"} => Depth(t, i, (l - 1) + 1) = Depth(t, i, l - 1)
  BY <1>1, DepthStep
<1>3. Depth(t, i, l) \in Int
  BY <1>1, DepthStep
<1> QED BY <1>1, <1>2, <1>3

\* From a word that is no brace, the members end where those of the next word do.
LEMMA PassedOver ==
  ASSUME NEW t, NEW i \in Nat \ {0}, NEW l \in Nat, l > i, t[l] \notin {"open", "close"},
         NEW m \in Nat, m > l, Closes(t, i, l + 1, m)
  PROVE  /\ Closes(t, i, l, m)
         /\ OwnFrom(t, i, l, m) = IF t[l] \in {"yes", "no"} THEN {l} \cup OwnFrom(t, i, l + 1, m)
                                  ELSE OwnFrom(t, i, l + 1, m)
         /\ Fenceless(t, l, m) <=> Fenceless(t, l + 1, m) /\ t[l] \notin {"json", "plain"}
<1>1. Depth(t, i, l) = Depth(t, i, l - 1) /\ (l + 1) - 1 = l /\ Depth(t, i, l) \in Int
  BY DepthMoves
<1>2. \A x \in l..m - 1 : x = l \/ x \in l + 1..m - 1
  OBVIOUS
<1>3. Closes(t, i, l, m)
  BY <1>1, <1>2 DEF Closes
<1>4. \A x : x \in l..m <=> x = l \/ x \in l + 1..m
  OBVIOUS
<1>5. OwnFrom(t, i, l, m) = IF t[l] \in {"yes", "no"} THEN {l} \cup OwnFrom(t, i, l + 1, m)
                            ELSE OwnFrom(t, i, l + 1, m)
  <2> DEFINE Own(x) == t[x] \in {"yes", "no"} /\ Depth(t, i, x) = Depth(t, i, l)
  <2>1. /\ OwnFrom(t, i, l, m) = {x \in l..m : Own(x)}
        /\ OwnFrom(t, i, l + 1, m) = {x \in l + 1..m : Own(x)}
        /\ Own(l) <=> t[l] \in {"yes", "no"}
    BY <1>1 DEF OwnFrom
  <2> HIDE DEF Own
  <2> QED BY <1>4, <2>1
<1> QED BY <1>3, <1>4, <1>5 DEF Fenceless

\* A verdict in front of others counts only if there are none.
LEMMA LastGrows ==
  ASSUME NEW t, NEW l \in Nat, NEW S \in SUBSET Nat, \A x \in S : x > l,
         t[l] \in {"yes", "no"}, \A x \in S : t[x] \in {"yes", "no"}, NEW v, IsLast(t, S, v)
  PROVE  IsLast(t, {l} \cup S, IF v = "absent" THEN t[l] ELSE v)
<1>1. CASE S = {}
  BY <1>1 DEF IsLast
<1>2. CASE S # {}
  <2>1. PICK x \in S : v = t[x] /\ \A y \in S : y <= x
    BY <1>2 DEF IsLast
  <2>2. v # "absent"
    BY <2>1
  <2>3. \A y \in {l} \cup S : y <= x
    BY <2>1
  <2> QED BY <2>1, <2>2, <2>3 DEF IsLast
<1> QED BY <1>1, <1>2

\* From a nested object, the members end where those behind it do, and its verdicts
\* are not theirs.
LEMMA NestedOver ==
  ASSUME NEW t, NEW i \in Nat \ {0}, NEW l \in Nat, l > i, t[l] = "open",
         NEW n \in Nat, n > l, Closes(t, i, l + 1, n),
         NEW m \in Nat, m > n, Closes(t, i, n + 1, m)
  PROVE  /\ Closes(t, i, l, m)
         /\ OwnFrom(t, i, l, m) = OwnFrom(t, i, n + 1, m)
         /\ Fenceless(t, l, m) <=> Fenceless(t, l + 1, n) /\ Fenceless(t, n + 1, m)
<1>1. /\ Depth(t, i, l) = Depth(t, i, l - 1) + 1 /\ (l + 1) - 1 = l /\ (n + 1) - 1 = n
      /\ Depth(t, i, l) \in Int /\ Depth(t, i, l - 1) \in Int
  BY DepthMoves
<1>2. \A x \in l..n : Depth(t, i, x) \in Int
  <2>1. ASSUME NEW x \in l..n PROVE Depth(t, i, x) \in Int
    <3>1. x \in Nat /\ x > i
      OBVIOUS
    <3> QED BY <3>1, DepthMoves
  <2> QED BY <2>1
<1>3. /\ t[n] = "close" /\ Depth(t, i, n) = Depth(t, i, l - 1)
      /\ \A x \in l + 1..n - 1 : Depth(t, i, x) >= Depth(t, i, l)
  BY <1>1 DEF Closes
<1>4. /\ t[m] = "close" /\ Depth(t, i, m) = Depth(t, i, l - 1) - 1
      /\ \A x \in n + 1..m - 1 : Depth(t, i, x) >= Depth(t, i, l - 1)
  BY <1>1, <1>3 DEF Closes
<1>5. ASSUME NEW x \in l..m - 1 PROVE Depth(t, i, x) >= Depth(t, i, l - 1)
  <2>1. x = l \/ x = n \/ x \in l + 1..n - 1 \/ x \in n + 1..m - 1
    OBVIOUS
  <2>2. x \in l + 1..n - 1 => Depth(t, i, x) \in Int
    BY <1>2
  <2> QED BY <1>1, <1>3, <1>4, <2>1, <2>2
<1>6. Closes(t, i, l, m)
  BY <1>4, <1>5 DEF Closes
<1>7. ASSUME NEW x PROVE x \in OwnFrom(t, i, l, m) <=> x \in OwnFrom(t, i, n + 1, m)
  <2>1. x \in OwnFrom(t, i, n + 1, m) <=>
           x \in n + 1..m /\ t[x] \in {"yes", "no"} /\ Depth(t, i, x) = Depth(t, i, l - 1)
    BY <1>1, <1>3 DEF OwnFrom
  <2>2. x \in OwnFrom(t, i, l, m) <=>
           x \in l..m /\ t[x] \in {"yes", "no"} /\ Depth(t, i, x) = Depth(t, i, l - 1)
    BY DEF OwnFrom
  <2>3. x \in l..m <=> x = l \/ x = n \/ x \in l + 1..n - 1 \/ x \in n + 1..m
    OBVIOUS
  <2>4. x \in l + 1..n - 1 => Depth(t, i, x) # Depth(t, i, l - 1)
    <3>1. x \in l + 1..n - 1 => Depth(t, i, x) \in Int /\ Depth(t, i, x) >= Depth(t, i, l)
      BY <1>2, <1>3
    <3> QED BY <3>1, <1>1
  <2>5. t[l] \notin {"yes", "no"} /\ t[n] \notin {"yes", "no"}
    BY <1>3
  <2> QED BY <2>1, <2>2, <2>3, <2>4, <2>5, Zenon
<1>8. Fenceless(t, l, m) <=> Fenceless(t, l + 1, n) /\ Fenceless(t, n + 1, m)
  <2>1. \A x : x \in l..m <=> x = l \/ x \in l + 1..n \/ x \in n + 1..m
    OBVIOUS
  <2> QED BY <2>1 DEF Fenceless
<1> QED BY <1>6, <1>7, <1>8

\* The members at a position, from those behind it.
LEMMA MembersAt ==
  ASSUME NEW u \in Seq(Char), NEW x \in 1..Len(u)
  PROVE  /\ u[x] \in {"yes", "no"} => Members(u)[x] = Then(Members(u)[x + 1], u[x])
         /\ u[x] \in {"}", "json", "plain"} => Members(u)[x] = Found(x, "absent")
         /\ \A e \in Nat : u[x] = "quote" /\ StringEnd(u, x) = e /\ e # 0 =>
              Members(u)[x] = Then(Members(u)[e + 1], "absent")
         /\ \A e, v : u[x] = "{" /\ Members(u)[x + 1] = Found(e, v) =>
              /\ e <= Len(u) /\ u[e] = "}" => Members(u)[x] = Then(Members(u)[e + 1], "absent")
              /\ ~ (e <= Len(u) /\ u[e] = "}") => Members(u)[x] = Found(Len(u) + 1, "absent")
<1> DEFINE g == Members(u)
<1>1. x \in 1..Len(u) + 1
  OBVIOUS
<1>2. g[x] = MemberTurn(u, g, x)
  BY <1>1, MembersUnfold
<1> HIDE DEF g
<1>3. u[x] \in {"yes", "no"} => g[x] = Then(g[x + 1], u[x])
  BY <1>2, MemberTurns
<1>4. u[x] \in {"}", "json", "plain"} => g[x] = Found(x, "absent")
  BY <1>2, MemberTurns
<1>5. ASSUME NEW e \in Nat, u[x] = "quote", StringEnd(u, x) = e, e # 0
      PROVE  g[x] = Then(g[e + 1], "absent")
  BY <1>2, <1>5, MemberTurns
<1>6. ASSUME NEW e, NEW v, u[x] = "{", g[x + 1] = Found(e, v)
      PROVE  /\ e <= Len(u) /\ u[e] = "}" => g[x] = Then(g[e + 1], "absent")
             /\ ~ (e <= Len(u) /\ u[e] = "}") => g[x] = Found(Len(u) + 1, "absent")
  <2>1. g[x + 1].end = e
    BY <1>6, FoundIs
  <2>2. ASSUME e <= Len(u), u[e] = "}" PROVE g[x] = Then(g[e + 1], "absent")
    <3>1. g[x] = Then(g[g[x + 1].end + 1], "absent")
      BY <1>2, <1>6, <2>1, <2>2, MemberTurns
    <3> QED BY <2>1, <3>1, Zenon
  <2>3. ASSUME ~ (e <= Len(u) /\ u[e] = "}") PROVE g[x] = Found(Len(u) + 1, "absent")
    BY <1>2, <1>6, <2>1, <2>3, MemberTurns
  <2> QED BY <2>2, <2>3
<1> QED BY <1>3, <1>4, <1>5, <1>6 DEF g

\* What the last verdict can be.
LEMMA LastIs ==
  ASSUME NEW t, NEW S, \A x \in S : t[x] \in {"yes", "no"}, NEW v, IsLast(t, S, v)
  PROVE  v \in {"yes", "no", "absent"}
BY DEF IsLast

\* Good holds for every word of an object, by induction from its end.
LEMMA MembersAreRead ==
  ASSUME NEW t \in Seq(Words), NEW i \in 1..Len(t), NEW k \in i + 1..Len(t),
         Balanced(t, i, k), t[k] = "close", NEW u, NEW q, Cut(t, i, k, u, q)
  PROVE  \A l \in i + 1..k : Good(t, i, k, u, q, l)
<1> DEFINE g == Members(u)
           G(l) == Good(t, i, k, u, q, l)
           S == {m \in i + 1..k + 1 : \A l \in m..k : G(l)}
<1>1. /\ u \in Seq(Char) /\ q[k] = Len(u) /\ \A l \in i - 1..k : q[l] \in 0..Len(u)
      /\ \A l \in i..k :
           /\ t[l] \notin Long => q[l] = q[l - 1] + 1 /\ u[q[l]] = Letter(t[l])
           /\ t[l] \in Long => q[l] = q[l - 1] + 5 /\ Quotes(u, q[l - 1], t[l])
  BY DEF Cut
<1>0. Len(u) \in Nat
  BY <1>1
<1>2. \A m \in i..k - 1 : Depth(t, i, m) > 0
  BY DEF Balanced
<1>3. k + 1 \in S
  OBVIOUS
<1> HIDE DEF G
<1>4. ASSUME NEW n \in i + 1 + 1..k + 1, n \in S PROVE n - 1 \in S
  <2> DEFINE l == n - 1
  <2>1. l \in i + 1..k /\ l \in Nat /\ l > i /\ n = l + 1 /\ i \in Nat \ {0} /\ l \in 1..Len(t)
    OBVIOUS
  <2>2. \A j \in l + 1..k : G(j)
    BY <1>4
  <2> HIDE DEF l
  <2>3. /\ Depth(t, i, l) \in Int /\ Depth(t, i, l - 1) \in Int
        /\ t[l] = "open" => Depth(t, i, l) = Depth(t, i, l - 1) + 1
        /\ t[l] = "close" => Depth(t, i, l) = Depth(t, i, l - 1) - 1
        /\ t[l] \notin {"open", "close"} => Depth(t, i, l) = Depth(t, i, l - 1)
    BY <2>1, DepthMoves
  <2>4. Depth(t, i, l - 1) > 0
    <3>1. l - 1 \in i..k - 1
      BY <2>1
    <3> QED BY <3>1, <1>2
  <2>5. /\ q[l - 1] \in 0..Len(u) /\ q[l] \in 0..Len(u)
        /\ t[l] \notin Long => q[l] = q[l - 1] + 1 /\ u[q[l]] = Letter(t[l])
        /\ t[l] \in Long => q[l] = q[l - 1] + 5 /\ Quotes(u, q[l - 1], t[l])
    <3>1. l \in i..k /\ l \in i - 1..k /\ l - 1 \in i - 1..k
      BY <2>1
    <3> QED BY <3>1, <1>1
  <2>6. t[l] \in {"open", "close", "escaped", "example", "json", "plain", "yes", "no"}
    <3>1. t[l] \in Words
      BY <2>1
    <3> QED BY <3>1, Spelling, Zenon
  <2>7. t[l] \notin Long => q[l] \in 1..Len(u) /\ q[l - 1] + 1 = q[l] /\ u[q[l]] = Letter(t[l])
    BY <2>5
  <2>8. l = k => t[l] = "close"
    OBVIOUS
  <2>9. t[l] # "close" => \E m, v : /\ m \in l + 1..k /\ m \in Nat /\ m > l
                                    /\ Closes(t, i, l + 1, m)
                                    /\ Fenceless(t, l + 1, m) => /\ g[q[l] + 1] = Found(q[m], v)
                                                             /\ IsLast(t, OwnFrom(t, i, l + 1, m), v)
                                    /\ ~ Fenceless(t, l + 1, m) => Bad(u, g[q[l] + 1])
    <3>1. SUFFICES ASSUME t[l] # "close"
          PROVE  \E m, v : /\ m \in l + 1..k /\ m \in Nat /\ m > l
                           /\ Closes(t, i, l + 1, m)
                           /\ Fenceless(t, l + 1, m) => /\ g[q[l] + 1] = Found(q[m], v)
                                                    /\ IsLast(t, OwnFrom(t, i, l + 1, m), v)
                           /\ ~ Fenceless(t, l + 1, m) => Bad(u, g[q[l] + 1])
      OBVIOUS
    <3>2. l + 1 \in l + 1..k /\ (l + 1) - 1 = l
      BY <2>1, <2>8, <3>1
    <3>3. G(l + 1)
      BY <2>2, <3>2
    <3>4. \A m \in l + 1..k : m \in Nat /\ m > l
      BY <2>1
    <3> DEFINE j == l + 1
    <3>5. PICK m, v : /\ m \in j..k /\ Closes(t, i, j, m)
                      /\ Fenceless(t, j, m) => /\ g[q[j - 1] + 1] = Found(q[m], v)
                                           /\ IsLast(t, OwnFrom(t, i, j, m), v)
                      /\ ~ Fenceless(t, j, m) => Bad(u, g[q[j - 1] + 1])
      BY <3>3 DEF G, Good
    <3>6. j - 1 = l
      BY <3>2
    <3>7. m \in l + 1..k
      BY <3>5
    <3>8. m \in Nat /\ m > l
      BY <3>4, <3>7
    <3> HIDE DEF g
    <3>9. j = l + 1
      OBVIOUS
    <3> HIDE DEF j
    <3>10. /\ g[q[l] + 1] = g[q[j - 1] + 1]
      BY <3>6, Zenon
    <3> QED BY <3>5, <3>7, <3>8, <3>9, <3>10, Zenon
  <2>10. ASSUME t[l] = "close" PROVE G(l)
    <3>1. t[l] \notin Long /\ Letter(t[l]) = "}"
      BY <2>10 DEF Long, Letter
    <3>2. g[q[l - 1] + 1] = Found(q[l], "absent")
      <4>1. u[q[l]] = "}" /\ q[l] \in 1..Len(u) /\ q[l - 1] + 1 = q[l]
        BY <2>7, <3>1
      <4>2. g[q[l]] = Found(q[l], "absent")
        BY <1>1, <4>1, MembersAt
      <4> QED BY <4>1, <4>2, Zenon
    <3>3. Closes(t, i, l, l)
      BY <2>1, <2>3, <2>10 DEF Closes
    <3>4. Fenceless(t, l, l) /\ OwnFrom(t, i, l, l) = {}
      BY <2>1, <2>10 DEF Fenceless, OwnFrom
    <3>5. IsLast(t, OwnFrom(t, i, l, l), "absent")
      BY <3>4 DEF IsLast
    <3>6. l \in l..k
      BY <2>1
    <3> QED BY <3>2, <3>3, <3>4, <3>5, <3>6 DEF G, Good
  <2>11. ASSUME t[l] \notin {"open", "close"},
                NEW m, m \in l + 1..k, m \in Nat, m > l, Closes(t, i, l + 1, m)
         PROVE  /\ m \in l..k /\ Closes(t, i, l, m)
                /\ t[l] \in {"yes", "no"} => OwnFrom(t, i, l, m) = {l} \cup OwnFrom(t, i, l + 1, m)
                /\ t[l] \notin {"yes", "no"} => OwnFrom(t, i, l, m) = OwnFrom(t, i, l + 1, m)
                /\ Fenceless(t, l, m) <=> Fenceless(t, l + 1, m) /\ t[l] \notin {"json", "plain"}
    <3>1. m \in l..k
      BY <2>1, <2>11
    <3> QED BY <3>1, <2>1, <2>11, PassedOver
  <2>12. ASSUME t[l] \in {"json", "plain"} PROVE G(l)
    <3>1. PICK m : m \in l + 1..k /\ m \in Nat /\ m > l /\ Closes(t, i, l + 1, m)
      BY <2>9, <2>12
    <3>2. t[l] \notin {"open", "close"} /\ t[l] \notin Long /\ Letter(t[l]) = t[l]
      BY <2>12 DEF Long, Letter
    <3>3. m \in l..k /\ Closes(t, i, l, m) /\ ~ Fenceless(t, l, m)
      BY <2>11, <2>12, <3>1, <3>2
    <3>4. g[q[l - 1] + 1] = Found(q[l], "absent")
      <4>1. u[q[l]] = t[l] /\ q[l] \in 1..Len(u) /\ q[l - 1] + 1 = q[l]
        BY <2>7, <3>2
      <4>2. g[q[l]] = Found(q[l], "absent")
        BY <1>1, <2>12, <4>1, MembersAt
      <4> QED BY <4>1, <4>2, Zenon
    <3>5. Bad(u, g[q[l - 1] + 1])
      BY <2>7, <2>12, <3>2, <3>4 DEF Bad
    <3> QED BY <3>3, <3>5 DEF G, Good
  <2>13. ASSUME t[l] \in {"yes", "no"} PROVE G(l)
    <3>1. PICK m, v : /\ m \in l + 1..k /\ m \in Nat /\ m > l /\ Closes(t, i, l + 1, m)
                      /\ Fenceless(t, l + 1, m) => /\ g[q[l] + 1] = Found(q[m], v)
                                               /\ IsLast(t, OwnFrom(t, i, l + 1, m), v)
                      /\ ~ Fenceless(t, l + 1, m) => Bad(u, g[q[l] + 1])
      <4>1. t[l] # "close"
        BY <2>13
      <4> QED BY <4>1, <2>9
    <3>2. t[l] \notin {"open", "close"} /\ t[l] \notin Long /\ Letter(t[l]) = t[l]
      BY <2>13 DEF Long, Letter
    <3>3. /\ m \in l..k /\ Closes(t, i, l, m) /\ (Fenceless(t, l, m) <=> Fenceless(t, l + 1, m))
          /\ OwnFrom(t, i, l, m) = {l} \cup OwnFrom(t, i, l + 1, m)
      BY <2>11, <2>13, <3>1, <3>2
    <3>4. g[q[l - 1] + 1] = Then(g[q[l] + 1], t[l])
      <4>1. u[q[l]] = t[l] /\ q[l] \in 1..Len(u) /\ q[l - 1] + 1 = q[l]
        BY <2>7, <3>2
      <4>2. g[q[l]] = Then(g[q[l] + 1], u[q[l]])
        BY <1>1, <2>13, <4>1, MembersAt
      <4> QED BY <4>1, <4>2, Zenon
    <3>5. CASE Fenceless(t, l, m)
      <4> DEFINE w == IF v = "absent" THEN t[l] ELSE v
                 Own == OwnFrom(t, i, l + 1, m)
      <4>1. g[q[l - 1] + 1] = Found(q[m], w)
        BY <3>1, <3>3, <3>4, <3>5, FoundIs
      <4>2. /\ Own \in SUBSET Nat /\ \A x \in Own : x > l
            /\ \A x \in Own : t[x] \in {"yes", "no"}
        BY <2>1, <3>1 DEF OwnFrom
      <4>3. IsLast(t, Own, v) /\ l \in Nat
        BY <2>1, <3>1, <3>3, <3>5
      <4> HIDE DEF Own
      <4>4. IsLast(t, {l} \cup Own, w)
        BY <2>13, <4>2, <4>3, LastGrows
      <4>5. IsLast(t, OwnFrom(t, i, l, m), w)
        BY <3>3, <4>4, Zenon DEF Own
      <4> HIDE DEF w
      <4> QED BY <3>3, <3>5, <4>1, <4>5 DEF G, Good
    <3>6. CASE ~ Fenceless(t, l, m)
      <4>1. Bad(u, g[q[l] + 1])
        BY <3>1, <3>3, <3>6
      <4>2. Bad(u, Then(g[q[l] + 1], t[l]))
        BY <4>1, BadThen
      <4>3. Bad(u, g[q[l - 1] + 1])
        BY <4>2, <3>4, Zenon
      <4> QED BY <3>3, <3>6, <4>3 DEF G, Good
    <3> QED BY <3>5, <3>6
  <2>14. ASSUME t[l] \in Long PROVE G(l)
    <3>0. t[l] \notin {"open", "close", "yes", "no", "json", "plain"}
      BY <2>14 DEF Long
    <3>1. PICK m, v : /\ m \in l + 1..k /\ m \in Nat /\ m > l /\ Closes(t, i, l + 1, m)
                      /\ Fenceless(t, l + 1, m) => /\ g[q[l] + 1] = Found(q[m], v)
                                               /\ IsLast(t, OwnFrom(t, i, l + 1, m), v)
                      /\ ~ Fenceless(t, l + 1, m) => Bad(u, g[q[l] + 1])
      <4>1. t[l] # "close"
        BY <3>0
      <4> QED BY <4>1, <2>9
    <3>3. /\ m \in l..k /\ Closes(t, i, l, m) /\ (Fenceless(t, l, m) <=> Fenceless(t, l + 1, m))
          /\ OwnFrom(t, i, l, m) = OwnFrom(t, i, l + 1, m)
      BY <2>11, <3>0, <3>1
    <3>4. g[q[l - 1] + 1] = Then(g[q[l] + 1], "absent")
      <4>1. /\ q[l - 1] \in Nat /\ q[l - 1] + 5 <= Len(u) /\ q[l] = q[l - 1] + 5
            /\ Quotes(u, q[l - 1], t[l]) /\ q[l - 1] + 1 \in 1..Len(u) /\ q[l] \in Nat /\ q[l] # 0
        BY <2>5, <2>14
      <4>2. u[q[l - 1] + 1] = "quote" /\ StringEnd(u, q[l - 1] + 1) = q[l - 1] + 5
        BY <1>1, <4>1, StringOfWord
      <4>3. StringEnd(u, q[l - 1] + 1) = q[l]
        BY <4>1, <4>2, Zenon
      <4> QED BY <1>1, <4>1, <4>2, <4>3, MembersAt
    <3>5. CASE Fenceless(t, l, m)
      <4>1. g[q[l - 1] + 1] = Found(q[m], v)
        BY <3>1, <3>3, <3>4, <3>5, FoundIs
      <4>2. IsLast(t, OwnFrom(t, i, l, m), v)
        BY <3>1, <3>3, <3>5
      <4> QED BY <3>3, <3>5, <4>1, <4>2 DEF G, Good
    <3>6. CASE ~ Fenceless(t, l, m)
      <4>1. Bad(u, g[q[l] + 1])
        BY <3>1, <3>3, <3>6
      <4>2. Bad(u, Then(g[q[l] + 1], "absent"))
        BY <4>1, BadThen
      <4>3. Bad(u, g[q[l - 1] + 1])
        BY <4>2, <3>4, Zenon
      <4> QED BY <3>3, <3>6, <4>3 DEF G, Good
    <3> QED BY <3>5, <3>6
  <2>15. ASSUME t[l] = "open" PROVE G(l)
    <3>1. PICK n1, v1 : /\ n1 \in l + 1..k /\ n1 \in Nat /\ n1 > l /\ Closes(t, i, l + 1, n1)
                        /\ Fenceless(t, l + 1, n1) => g[q[l] + 1] = Found(q[n1], v1)
                        /\ ~ Fenceless(t, l + 1, n1) => Bad(u, g[q[l] + 1])
      <4>1. t[l] # "close"
        BY <2>15
      <4> QED BY <4>1, <2>9
    <3>2. n1 # k
      <4>1. Depth(t, i, n1) = Depth(t, i, l - 1) /\ Depth(t, i, k) = 0
        <5>1. (l + 1) - 1 = l
          BY <2>1
        <5>2. Depth(t, i, n1) = Depth(t, i, l) - 1
          BY <3>1, <5>1 DEF Closes
        <5> QED BY <2>3, <2>15, <5>2 DEF Balanced
      <4> QED BY <2>4, <4>1
    <3>3. n1 + 1 \in l + 1..k /\ (n1 + 1) - 1 = n1
      BY <2>1, <3>1, <3>2
    <3>4. G(n1 + 1)
      BY <2>2, <3>3
    <3>5. PICK m, v : /\ m \in n1 + 1..k /\ Closes(t, i, n1 + 1, m)
                      /\ Fenceless(t, n1 + 1, m) => /\ g[q[n1] + 1] = Found(q[m], v)
                                                /\ IsLast(t, OwnFrom(t, i, n1 + 1, m), v)
                      /\ ~ Fenceless(t, n1 + 1, m) => Bad(u, g[q[n1] + 1])
      BY <3>3, <3>4, Zenon DEF G, Good
    <3>6. m \in Nat /\ m > n1 /\ m \in l..k
      BY <2>1, <3>1, <3>5
    <3>7. /\ Closes(t, i, l, m)
          /\ OwnFrom(t, i, l, m) = OwnFrom(t, i, n1 + 1, m)
          /\ Fenceless(t, l, m) <=> Fenceless(t, l + 1, n1) /\ Fenceless(t, n1 + 1, m)
      BY <2>1, <2>15, <3>1, <3>5, <3>6, NestedOver
    <3>8. /\ q[l] \in 1..Len(u) /\ q[l - 1] + 1 = q[l] /\ u[q[l]] = "{"
      BY <2>7, <2>15 DEF Long, Letter
    <3>9. q[n1] \in 1..Len(u) /\ u[q[n1]] = "}"
      <4>1. n1 \in i..k /\ n1 \in i - 1..k /\ n1 - 1 \in i - 1..k
        BY <2>1, <3>1
      <4>2. t[n1] \notin Long /\ Letter(t[n1]) = "}"
        BY <3>1 DEF Closes, Long, Letter
      <4>3. q[n1] = q[n1 - 1] + 1 /\ u[q[n1]] = Letter(t[n1]) /\ q[n1 - 1] \in 0..Len(u) /\ q[n1] \in 0..Len(u)
        BY <1>1, <4>1, <4>2
      <4>4. u[q[n1]] = "}"
        BY <4>2, <4>3, Zenon
      <4>5. \A x \in 0..Len(u) : x + 1 \in 0..Len(u) => x + 1 \in 1..Len(u)
        BY <1>0
      <4>6. q[n1] \in 1..Len(u)
        BY <4>3, <4>5, Zenon
      <4> QED BY <4>4, <4>6
    <3>10. ASSUME Fenceless(t, l + 1, n1) PROVE g[q[l - 1] + 1] = Then(g[q[n1] + 1], "absent")
      <4>1. g[q[l] + 1] = Found(q[n1], v1) /\ q[n1] <= Len(u)
        <5>1. \A x \in 1..Len(u) : x <= Len(u)
          BY <1>0
        <5> QED BY <3>1, <3>9, <3>10, <5>1, Zenon
      <4>2. g[q[l]] = Then(g[q[n1] + 1], "absent")
        BY <1>1, <3>8, <3>9, <4>1, MembersAt, ZenonT(40)
      <4> QED BY <3>8, <4>2, Zenon
    <3>11. CASE Fenceless(t, l, m)
      <4>1. g[q[l - 1] + 1] = Found(q[m], v)
        BY <3>5, <3>7, <3>10, <3>11, FoundIs
      <4>2. IsLast(t, OwnFrom(t, i, l, m), v)
        BY <3>5, <3>7, <3>11
      <4> QED BY <3>6, <3>7, <3>11, <4>1, <4>2 DEF G, Good
    <3>12. CASE ~ Fenceless(t, l, m)
      <4>1. CASE Fenceless(t, l + 1, n1)
        <5>1. Bad(u, Then(g[q[n1] + 1], "absent"))
          BY <3>5, <3>7, <3>12, <4>1, BadThen
        <5>2. Bad(u, g[q[l - 1] + 1])
          BY <3>10, <4>1, <5>1, Zenon
        <5> QED BY <3>6, <3>7, <3>12, <5>2 DEF G, Good
      <4>2. CASE ~ Fenceless(t, l + 1, n1)
        <5>1. PICK e, w : /\ g[q[l] + 1] = Found(e, w)
                          /\ e = Len(u) + 1 \/ (e \in 1..Len(u) /\ u[e] \in {"json", "plain"})
          BY <3>1, <4>2 DEF Bad
        <5>2. ~ (e <= Len(u) /\ u[e] = "}")
          <6>1. e = Len(u) + 1 => ~ (e <= Len(u))
            BY <1>0
          <6> QED BY <5>1, <6>1
        <5>3. g[q[l]] = Found(Len(u) + 1, "absent")
          BY <1>1, <3>8, <5>1, <5>2, MembersAt
        <5>4. Bad(u, g[q[l - 1] + 1])
          BY <3>8, <5>3, Zenon DEF Bad
        <5> QED BY <3>6, <3>7, <3>12, <5>4 DEF G, Good
      <4> QED BY <4>1, <4>2
    <3> QED BY <3>11, <3>12
  <2>16. G(l)
    BY <2>6, <2>10, <2>12, <2>13, <2>14, <2>15 DEF Long
  <2>17. \A j \in l..k : j = l \/ j \in l + 1..k
    BY <2>1
  <2>18. l \in i + 1..k + 1
    BY <2>1
  <2>19. l \in S
    BY <2>2, <2>16, <2>17, <2>18
  <2> QED BY <2>19 DEF l
<1> HIDE DEF S
<1>5. i + 1..k + 1 \subseteq S
  <2>1. i + 1 \in Int /\ k + 1 \in Int
    OBVIOUS
  <2> QED BY <2>1, <1>3, <1>4, Downwards
<1>6. i + 1 \in S
  BY <1>5
<1> QED BY <1>6 DEF S, G

-------------------------------------------------------------------------------
(* JSON.parse: the object.                                                  *)

\* ValueOf is the last of the own verdicts.
LEMMA ValueIs ==
  ASSUME NEW t, NEW i, NEW k, OwnVerdicts(t, i, k) \in SUBSET Nat,
         NEW v, IsLast(t, OwnVerdicts(t, i, k), v)
  PROVE  ValueOf(t, i, k) = v
<1> DEFINE own == OwnVerdicts(t, i, k)
<1>1. ValueOf(t, i, k) = IF own = {} THEN "absent" ELSE t[CHOOSE l \in own : \A m \in own : m <= l]
  BY DEF ValueOf
<1> HIDE DEF own
<1>2. CASE own = {}
  BY <1>1, <1>2 DEF IsLast, own
<1>3. CASE own # {}
  <2>1. PICK x \in own : v = t[x] /\ \A y \in own : y <= x
    BY <1>3 DEF IsLast, own
  <2>2. \A l \in own : (\A m \in own : m <= l) => l = x
    BY <2>1 DEF own
  <2>3. (CHOOSE l \in own : \A m \in own : m <= l) = x
    BY <2>1, <2>2
  <2> QED BY <1>1, <1>3, <2>1, <2>3
<1> QED BY <1>2, <1>3

\* The first brace opens depth 1.
LEMMA FirstDepth ==
  ASSUME NEW t, NEW i \in Nat \ {0}, t[i] = "open"
  PROVE  Depth(t, i, i) = 1
<1>1. i - 1 \in Nat /\ i \in Nat /\ i <= (i - 1) + 1 /\ (i - 1) + 1 = i
  OBVIOUS
<1>2. /\ Depth(t, i, i - 1) = 0
      /\ t[(i - 1) + 1] = "open" => Depth(t, i, (i - 1) + 1) = Depth(t, i, i - 1) + 1
  BY <1>1, DepthStep
<1>3. Depth(t, i, i) = 0 + 1
  BY <1>1, <1>2
<1> QED BY <1>3

\* JSON.parse of the characters of an object is the value of the object, and fails on
\* one that holds a fence outside of its strings.
LEMMA CutParses ==
  ASSUME NEW t \in Seq(Words),
         NEW i \in 1..Len(t), t[i] = "open", NEW k \in i + 1..Len(t), Balanced(t, i, k),
         t[k] = "close", NEW u, NEW q, Cut(t, i, k, u, q)
  PROVE  /\ u # NoObject
         /\ Fenceless(t, i, k) => /\ Parsed(u) = ValueOf(t, i, k)
                              /\ ValueOf(t, i, k) \in {"yes", "no", "absent"}
         /\ ~ Fenceless(t, i, k) => Parsed(u) = "invalid"
<1>3. PICK m, v : /\ m \in i + 1..k
                  /\ Closes(t, i, i + 1, m)
                  /\ Fenceless(t, i + 1, m) => /\ Members(u)[q[i] + 1] = Found(q[m], v)
                                           /\ IsLast(t, OwnFrom(t, i, i + 1, m), v)
                  /\ ~ Fenceless(t, i + 1, m) => Bad(u, Members(u)[q[i] + 1])
  <2> DEFINE l == i + 1
  <2>1. l \in i + 1..k /\ l - 1 = i
    OBVIOUS
  <2>2. l = i + 1
    OBVIOUS
  <2> HIDE DEF l
  <2>3. Good(t, i, k, u, q, l)
    BY <2>1, MembersAreRead
  <2> QED BY <2>1, <2>2, <2>3, Zenon DEF Good
<1>4. Depth(t, i, i) = 1
  BY FirstDepth
<1>5. m = k
  <2>1. (i + 1) - 1 = i
    OBVIOUS
  <2>2. Depth(t, i, m) = 0
    BY <1>3, <1>4, <2>1 DEF Closes
  <2>3. m \in i..k - 1 => Depth(t, i, m) > 0
    BY DEF Balanced
  <2> QED BY <1>3, <2>2, <2>3
<1>6. Fenceless(t, i, k) <=> Fenceless(t, i + 1, k)
  <2>1. \A x : x \in i..k <=> x = i \/ x \in i + 1..k
    OBVIOUS
  <2> QED BY <2>1 DEF Fenceless
<1>7. OwnFrom(t, i, i + 1, k) = OwnVerdicts(t, i, k) /\ OwnVerdicts(t, i, k) \in SUBSET Nat
  <2>1. \A x : x \in i..k <=> x = i \/ x \in i + 1..k
    OBVIOUS
  <2>2. (i + 1) - 1 = i
    OBVIOUS
  <2>3. OwnVerdicts(t, i, k) \in SUBSET Nat
    BY DEF OwnVerdicts
  <2> QED BY <1>4, <2>1, <2>2, <2>3 DEF OwnFrom, OwnVerdicts
<1>8. /\ u \in Seq(Char) /\ q[k] = Len(u) /\ q[i] = 1 /\ Len(u) \in Nat /\ Len(u) >= 1 /\ u[Len(u)] = "}"
  <2>1. i \in i..k /\ k \in i..k /\ i \in i - 1..k /\ k \in i - 1..k /\ k - 1 \in i - 1..k
    OBVIOUS
  <2>2. t[i] \notin Long /\ t[k] \notin Long /\ Letter(t[k]) = "}"
    BY DEF Long, Letter
  <2>3. /\ u \in Seq(Char) /\ q[i - 1] = 0 /\ q[k] = Len(u) /\ q[i] = q[i - 1] + 1
        /\ q[i] \in 0..Len(u) /\ u[q[k]] = Letter(t[k])
    BY <2>1, <2>2 DEF Cut
  <2>4. u[Len(u)] = "}"
    BY <2>2, <2>3, Zenon
  <2>5. Len(u) \in Nat
    BY <2>3
  <2>6. q[i] = 1 /\ Len(u) >= 1
    BY <2>3, <2>5
  <2> QED BY <2>3, <2>4, <2>5, <2>6
<1>14. Len(u) \in Nat /\ Len(u) >= 1
  BY <1>8
<1>9. u # NoObject
  <2>1. Len(NoObject) = 0
    BY DEF NoObject
  <2> QED BY <1>14, <2>1
<1>10. Parsed(u) = IF Members(u)[2].end = Len(u) /\ u[Len(u)] = "}" THEN Members(u)[2].verdict ELSE "invalid"
  BY DEF Parsed
<1>11. q[i] + 1 = 2
  <2>1. q[i] = 1
    BY <1>8
  <2> QED BY <2>1
<1>12. ASSUME Fenceless(t, i, k)
       PROVE  Parsed(u) = ValueOf(t, i, k) /\ ValueOf(t, i, k) \in {"yes", "no", "absent"}
  <2>1. Members(u)[2] = Found(Len(u), v) /\ IsLast(t, OwnVerdicts(t, i, k), v)
    BY <1>3, <1>5, <1>6, <1>7, <1>8, <1>11, <1>12
  <2>2. ValueOf(t, i, k) = v
    BY <1>7, <2>1, ValueIs
  <2>3. v \in {"yes", "no", "absent"}
    <3>1. \A x \in OwnVerdicts(t, i, k) : t[x] \in {"yes", "no"}
      BY DEF OwnVerdicts
    <3> QED BY <2>1, <3>1, LastIs
  <2>4. Members(u)[2].end = Len(u) /\ Members(u)[2].verdict = v
    BY <2>1, FoundIs
  <2> QED BY <1>8, <1>10, <2>2, <2>3, <2>4
<1>13. ASSUME ~ Fenceless(t, i, k) PROVE Parsed(u) = "invalid"
  <2>1. Bad(u, Members(u)[2])
    BY <1>3, <1>5, <1>6, <1>11, <1>13
  <2>2. PICK e, w : /\ Members(u)[2] = Found(e, w)
                    /\ e = Len(u) + 1 \/ (e \in 1..Len(u) /\ u[e] \in {"json", "plain"})
    BY <2>1 DEF Bad
  <2>3. Members(u)[2].end = e
    BY <2>2, FoundIs
  <2>4. e # Len(u) \/ u[e] # "}"
    <3>1. Len(u) + 1 # Len(u)
      BY <1>14
    <3> QED BY <2>2, <3>1
  <2> QED BY <1>10, <2>3, <2>4, Zenon
<1> QED BY <1>9, <1>12, <1>13

\* The same, of the excerpt the scanner cuts out.
LEMMA Parses ==
  ASSUME NEW t \in Seq(Words), NEW p, Lay(t, p), Chars(t) \in Seq(Char),
         NEW i \in 1..Len(t), t[i] = "open", NEW k \in i + 1..Len(t), Balanced(t, i, k),
         t[k] = "close"
  PROVE  /\ SubSeq(Chars(t), p[i], p[k]) # NoObject
         /\ Fenceless(t, i, k) => /\ Parsed(SubSeq(Chars(t), p[i], p[k])) = ValueOf(t, i, k)
                              /\ ValueOf(t, i, k) \in {"yes", "no", "absent"}
         /\ ~ Fenceless(t, i, k) => Parsed(SubSeq(Chars(t), p[i], p[k])) = "invalid"
<1> DEFINE u == SubSeq(Chars(t), p[i], p[k])
           q == [l \in i - 1..k |-> p[l] - p[i - 1]]
<1>1. p[i] = p[i - 1] + 1
  <2>1. t[i] \notin Long
    BY DEF Long
  <2> QED BY <2>1, ShortWord
<1>2. Cut(t, i, k, u, q)
  <2>1. k \in i..Len(t)
    OBVIOUS
  <2>2. Cut(t, i, k, SubSeq(Chars(t), p[i - 1] + 1, p[k]), q)
    BY <2>1, CutOut
  <2> HIDE DEF q
  <2> QED BY <1>1, <2>2, Zenon
<1> HIDE DEF q, u
<1>3. /\ u # NoObject
      /\ Fenceless(t, i, k) => /\ Parsed(u) = ValueOf(t, i, k)
                           /\ ValueOf(t, i, k) \in {"yes", "no", "absent"}
      /\ ~ Fenceless(t, i, k) => Parsed(u) = "invalid"
  BY <1>2, CutParses
<1> QED BY <1>3, Zenon DEF u

-------------------------------------------------------------------------------
(* extractJsonBlock: the candidates.                                        *)

\* The word a brace or a fence at position x stands in.
StandsIn(c, t, p, l, x) ==
  /\ c[x] = "{" => t[l] = "example" \/ (t[l] = "open" /\ x = p[l])
  /\ c[x] = "json" => t[l] \in {"json", "example"}
  /\ c[x] = "plain" => t[l] = "plain"

\* It is the one Lay puts there.
LEMMA CharsOfWord ==
  ASSUME NEW t \in Seq(Words), NEW p, Lay(t, p), NEW l \in 1..Len(t),
         NEW x \in Nat, p[l - 1] < x, x <= p[l]
  PROVE  StandsIn(Chars(t), t, p, l, x)
<1>0. SUFFICES /\ Chars(t)[x] = "{" => t[l] = "example" \/ (t[l] = "open" /\ x = p[l])
               /\ Chars(t)[x] = "json" => t[l] \in {"json", "example"}
               /\ Chars(t)[x] = "plain" => t[l] = "plain"
  BY DEF StandsIn
<1>1. p[l - 1] \in Nat
  <2>1. l - 1 \in 0..Len(t)
    OBVIOUS
  <2> QED BY <2>1 DEF Lay
<1>2. CASE t[l] \notin Long
  <2>1. p[l] = p[l - 1] + 1 /\ Chars(t)[p[l]] = Letter(t[l])
    BY <1>2, ShortWord
  <2>2. x = p[l]
    BY <1>1, <2>1
  <2>3. Chars(t)[x] = Letter(t[l])
    BY <2>1, <2>2, Zenon
  <2>4. Letter(t[l]) = "{" => t[l] = "open" \/ t[l] = "{"
    BY DEF Letter
  <2>5. /\ Letter(t[l]) = "json" => t[l] = "json"
        /\ Letter(t[l]) = "plain" => t[l] = "plain"
    BY DEF Letter
  <2>6. t[l] # "{"
    <3>1. t[l] \in Words
      OBVIOUS
    <3> QED BY <3>1, Spelling
  <2> QED BY <2>2, <2>3, <2>4, <2>5, <2>6
<1>3. CASE t[l] \in Long
  <2> DEFINE c == Chars(t)
             q == p[l - 1]
  <2>1. p[l] = q + 5 /\ Quotes(c, q, t[l])
    BY <1>3, LongWord
  <2>2. x = q + 1 \/ x = q + 2 \/ x = q + 3 \/ x = q + 4 \/ x = q + 5
    BY <1>1, <2>1, SMTT(30)
  <2>3. t[l] = "escaped" \/ t[l] = "example"
    BY <1>3 DEF Long
  <2> HIDE DEF c, q
  <2>4. c[x] = "{" => t[l] = "example"
    BY <2>1, <2>2, <2>3 DEF Quotes
  <2>5. c[x] = "json" => t[l] = "example"
    BY <2>1, <2>2, <2>3 DEF Quotes
  <2>6. c[x] # "plain"
    BY <2>1, <2>2, <2>3 DEF Quotes
  <2> QED BY <2>4, <2>5, <2>6 DEF c
<1> QED BY <1>2, <1>3

\* A position between the ends of words a and b belongs to a word between them.
LEMMA Among ==
  ASSUME NEW t \in Seq(Words), NEW p, Lay(t, p), NEW a \in 0..Len(t), NEW b \in 0..Len(t),
         NEW x \in Nat, p[a] < x, x <= p[b]
  PROVE  \E l \in a + 1..b : l \in 1..Len(t) /\ p[l - 1] < x /\ x <= p[l]
<1>1. x \in 1..Len(Chars(t))
  <2>1. Len(t) \in 0..Len(t) /\ b <= Len(t)
    OBVIOUS
  <2>2. /\ p[a] \in Nat /\ p[b] \in Nat /\ p[Len(t)] \in Nat /\ p[b] <= p[Len(t)]
        /\ p[Len(t)] = Len(Chars(t))
    BY <2>1 DEF Lay
  <2>4. \A y, z, w \in Nat : y < x /\ x <= z /\ z <= w => x \in 1..w
    OBVIOUS
  <2>3. x \in 1..p[Len(t)]
    BY <2>2, <2>4
  <2> QED BY <2>2, <2>3, Zenon
<1>2. PICK l \in 1..Len(t) : p[l - 1] < x /\ x <= p[l]
  BY <1>1, Covered
<1>3. l - 1 \in 0..Len(t) /\ l \in 0..Len(t)
  OBVIOUS
<1>4. p[l - 1] \in Nat /\ p[l] \in Nat /\ p[a] \in Nat /\ p[b] \in Nat
  BY <1>3 DEF Lay
<1>5. l > a
  <2>1. l <= a => p[l] <= p[a]
    BY <1>3 DEF Lay
  <2> QED BY <1>2, <1>4, <2>1
<1>6. l <= b
  <2>1. b <= l - 1 => p[b] <= p[l - 1]
    BY <1>3 DEF Lay
  <2> QED BY <1>2, <1>4, <2>1
<1> QED BY <1>2, <1>5, <1>6

\* What IsObject says to the lemmas on the scanner.
LEMMA ObjectIs ==
  ASSUME NEW t \in Seq(Words), NEW p, Lay(t, p), Chars(t) \in Seq(Char),
         NEW i \in 1..Len(t), NEW k \in 1..Len(t), IsObject(t, i, k)
  PROVE  /\ t[i] = "open" /\ k \in i + 1..Len(t) /\ Balanced(t, i, k) /\ Fenceless(t, i, k)
         /\ t[k] = "close" /\ ScanEnd(Chars(t), p[i]) = p[k]
<1>1. t[i] = "open" /\ k \in i + 1..Len(t) /\ Balanced(t, i, k) /\ Fenceless(t, i, k)
  BY DEF IsObject, Balanced, Fenceless
<1> QED BY <1>1, ScanEnds

\* The first object after word a is cut out and parsed, if it is whole.
LEMMA FirstFound ==
  ASSUME NEW t \in Seq(Words), NEW p, Lay(t, p), Chars(t) \in Seq(Char),
         NEW i \in 1..Len(t), NEW k \in 1..Len(t), NEW a \in 0..Len(t), FirstAfter(t, a, i, k)
  PROVE  LET o == FirstObject(Chars(t), p[a] + 1)
         IN /\ o # NoObject /\ Parsed(o) = ValueOf(t, i, k) /\ Parsed(o) # "invalid"
<1> DEFINE c == Chars(t)
<1>1. /\ t[i] = "open" /\ k \in i + 1..Len(t) /\ Balanced(t, i, k) /\ Fenceless(t, i, k)
      /\ t[k] = "close" /\ ScanEnd(c, p[i]) = p[k]
  BY ObjectIs DEF FirstAfter
<1>2. /\ i > a /\ \A l \in a + 1..i - 1 : t[l] \notin {"open", "example"}
  BY DEF FirstAfter
<1>3. p[i] = p[i - 1] + 1
  <2>1. t[i] \notin Long
    BY <1>1 DEF Long
  <2> QED BY <2>1, ShortWord
<1>9. c[p[i]] = "{"
  <2>1. t[i] \notin Long /\ Letter(t[i]) = "{"
    BY <1>1 DEF Long, Letter
  <2> QED BY <2>1, ShortWord
<1>4. /\ p[a] \in Nat /\ p[i - 1] \in Nat /\ p[a] <= p[i - 1] /\ p[i] \in Nat /\ p[k] \in Nat
      /\ p[i] <= p[Len(t)] /\ p[Len(t)] = Len(c) /\ p[k] # 0 /\ p[i] # 0
  <2>1. /\ a \in 0..Len(t) /\ i - 1 \in 0..Len(t) /\ i \in 0..Len(t) /\ k \in 0..Len(t)
        /\ Len(t) \in 0..Len(t) /\ a <= i - 1 /\ i <= Len(t) /\ i <= k
    BY <1>1, <1>2
  <2>2. /\ p[a] \in Nat /\ p[i - 1] \in Nat /\ p[a] <= p[i - 1] /\ p[i] \in Nat /\ p[k] \in Nat
        /\ p[i] <= p[Len(t)] /\ p[Len(t)] = Len(c) /\ p[i] <= p[k]
    BY <2>1 DEF Lay
  <2>3. p[i] # 0 /\ p[k] # 0
    BY <1>3, <2>2
  <2> QED BY <2>2, <2>3
<1>5. \A y \in p[a] + 1..p[i] - 1 : c[y] # "{"
  <2>1. TAKE y \in p[a] + 1..p[i] - 1
  <2>2. y \in Nat /\ p[a] < y /\ y <= p[i - 1]
    BY <1>3, <1>4
  <2>3. i - 1 \in 0..Len(t)
    OBVIOUS
  <2>4. PICK l \in a + 1..i - 1 : l \in 1..Len(t) /\ p[l - 1] < y /\ y <= p[l]
    BY <2>2, <2>3, Among
  <2>5. StandsIn(c, t, p, l, y)
    BY <2>2, <2>4, CharsOfWord
  <2> HIDE DEF c
  <2> QED BY <1>2, <2>4, <2>5 DEF StandsIn
<1>6. IndexFrom(c, p[a] + 1, "{") = p[i]
  <2>1. p[a] + 1 \in Nat \ {0}
    BY <1>4, SMTT(30)
  <2>2. p[i] \in p[a] + 1..Len(c)
    <3>1. \A x, y, z, w, m \in Nat : x <= y /\ z = y + 1 /\ z <= w /\ w = m => z \in x + 1..m
      OBVIOUS
    <3>2. Len(c) \in Nat /\ p[Len(t)] \in Nat
      BY <1>4
    <3> QED BY <1>3, <1>4, <3>1, <3>2
  <2> DEFINE from == p[a] + 1
             x == p[i]
  <2>3. c \in Seq(Char)
    OBVIOUS
  <2> HIDE DEF c, from, x
  <2>4. from \in Nat \ {0} /\ x \in from..Len(c)
    BY <2>1, <2>2 DEF from, x
  <2>5. c[x] = "{" /\ \A y \in from..x - 1 : c[y] # "{"
    BY <1>5, <1>9 DEF from, x
  <2>6. IndexFrom(c, from, "{") = x
    BY <2>3, <2>4, <2>5, IndexFound
  <2> QED BY <2>6 DEF from, x
<1>7. FirstObject(c, p[a] + 1) = SubSeq(c, p[i], p[k])
  <2> HIDE DEF c
  <2> QED BY <1>1, <1>4, <1>6 DEF FirstObject
<1>8. /\ SubSeq(c, p[i], p[k]) # NoObject
      /\ Parsed(SubSeq(c, p[i], p[k])) = ValueOf(t, i, k)
      /\ ValueOf(t, i, k) \in {"yes", "no", "absent"}
  BY <1>1, Parses
<1>10. ValueOf(t, i, k) # "invalid"
  BY <1>8
<1> QED BY <1>7, <1>8, <1>10, Zenon

\* A text without a fence has none in its characters.
LEMMA NoFence ==
  ASSUME NEW t \in Seq(Words), NEW p, Lay(t, p), Chars(t) \in Seq(Char)
  PROVE  /\ (\A l \in 1..Len(t) : t[l] \notin {"json", "example"}) => IndexFrom(Chars(t), 1, "json") = 0
         /\ (\A l \in 1..Len(t) : t[l] # "plain") => IndexFrom(Chars(t), 1, "plain") = 0
<1>1. ASSUME NEW y \in 1..Len(Chars(t))
      PROVE  \E l \in 1..Len(t) : StandsIn(Chars(t), t, p, l, y)
  <2>1. PICK l \in 1..Len(t) : p[l - 1] < y /\ y <= p[l]
    BY Covered
  <2>2. y \in Nat
    OBVIOUS
  <2> QED BY <2>1, <2>2, CharsOfWord
<1>2. 1 \in Nat \ {0}
  OBVIOUS
<1>3. ASSUME \A l \in 1..Len(t) : t[l] \notin {"json", "example"}
      PROVE  IndexFrom(Chars(t), 1, "json") = 0
  <2> DEFINE c == Chars(t)
  <2>1. ASSUME NEW y \in 1..Len(c) PROVE c[y] # "json"
    <3>1. PICK l \in 1..Len(t) : StandsIn(c, t, p, l, y)
      BY <1>1
    <3> HIDE DEF c
    <3> QED BY <1>3, <3>1 DEF StandsIn
  <2> HIDE DEF c
  <2>2. c \in Seq(Char)
    BY DEF c
  <2> QED BY <1>2, <2>1, <2>2, IndexMissing DEF c
<1>4. ASSUME \A l \in 1..Len(t) : t[l] # "plain"
      PROVE  IndexFrom(Chars(t), 1, "plain") = 0
  <2> DEFINE c == Chars(t)
  <2>1. ASSUME NEW y \in 1..Len(c) PROVE c[y] # "plain"
    <3>1. PICK l \in 1..Len(t) : StandsIn(c, t, p, l, y)
      BY <1>1
    <3> HIDE DEF c
    <3> QED BY <1>4, <3>1 DEF StandsIn
  <2> HIDE DEF c
  <2>2. c \in Seq(Char)
    BY DEF c
  <2> QED BY <1>2, <2>1, <2>2, IndexMissing DEF c
<1> QED BY <1>3, <1>4

\* The first fence is where its word is.
LEMMA FenceIs ==
  ASSUME NEW t \in Seq(Words), NEW p, Lay(t, p), Chars(t) \in Seq(Char),
         NEW f \in 1..Len(t), Fenced(t, f)
  PROVE  Fence(Chars(t)) = p[f] /\ p[f] \in Nat /\ p[f] # 0
<1> DEFINE c == Chars(t)
<1>0. t[f] \notin Long /\ Letter(t[f]) = "json"
  BY DEF Long, Letter, Fenced
<1>1. p[f] = p[f - 1] + 1
  BY <1>0, ShortWord
<1>7. c[p[f]] = "json"
  BY <1>0, ShortWord
<1>2. f - 1 \in 0..Len(t) /\ f \in 0..Len(t) /\ Len(t) \in 0..Len(t) /\ 0 \in 0..Len(t) /\ f <= Len(t)
  OBVIOUS
<1>3. /\ p[f - 1] \in Nat /\ p[f] \in Nat /\ p[f] <= p[Len(t)] /\ p[Len(t)] = Len(c) /\ p[0] = 0
  BY <1>2 DEF Lay
<1>4. \A y \in 1..p[f] - 1 : c[y] # "json"
  <2>1. TAKE y \in 1..p[f] - 1
  <2>2. y \in Nat /\ p[0] < y /\ y <= p[f - 1]
    BY <1>1, <1>3
  <2>4. PICK l \in 0 + 1..f - 1 : l \in 1..Len(t) /\ p[l - 1] < y /\ y <= p[l]
    BY <1>2, <2>2, Among
  <2>5. StandsIn(c, t, p, l, y)
    BY <2>2, <2>4, CharsOfWord
  <2>6. l \in 1..f - 1
    BY <2>4
  <2> HIDE DEF c
  <2> QED BY <2>5, <2>6 DEF Fenced, StandsIn
<1>5. p[f] \in 1..Len(c) /\ p[f] # 0
  <2>1. \A y, z, w, m \in Nat : z = y + 1 /\ z <= w /\ w = m => z \in 1..m /\ z # 0
    OBVIOUS
  <2>2. Len(c) \in Nat /\ p[Len(t)] \in Nat
    BY <1>3
  <2> QED BY <1>1, <1>3, <2>1, <2>2
<1>6. IndexFrom(c, 1, "json") = p[f]
  <2> DEFINE x == p[f]
  <2>1. 1 \in Nat \ {0} /\ c \in Seq(Char)
    OBVIOUS
  <2> HIDE DEF c, x
  <2>2. x \in 1..Len(c)
    BY <1>5 DEF x
  <2>3. c[x] = "json" /\ \A y \in 1..x - 1 : c[y] # "json"
    BY <1>4, <1>7 DEF x
  <2>4. IndexFrom(c, 1, "json") = x
    BY <2>1, <2>2, <2>3, IndexFound
  <2> QED BY <2>4 DEF x
<1> QED BY <1>3, <1>5, <1>6 DEF Fence

\* The first candidate there is counts.
LEMMA BlockIs ==
  ASSUME NEW t, NEW n \in 1..3, NEW v, v # "invalid",
         Candidates(Chars(t))[n] # NoObject, Parsed(Candidates(Chars(t))[n]) = v,
         \A m \in 1..n - 1 : Candidates(Chars(t))[m] = NoObject
  PROVE  JsonBlock(t) = v
<1> DEFINE found == Candidates(Chars(t))
           parseable == {i \in 1..3 : found[i] # NoObject /\ Parsed(found[i]) # "invalid"}
<1>1. Block(t) = IF parseable = {} THEN NoObject
                 ELSE found[CHOOSE i \in parseable : \A k \in parseable : i <= k]
  BY DEF Block
<1>2. n \in parseable /\ \A i \in parseable : n <= i
  OBVIOUS
<1>3. found[n] # NoObject /\ Parsed(found[n]) = v
  OBVIOUS
<1> HIDE DEF parseable
<1>4. \A i \in parseable : (\A k \in parseable : i <= k) => i = n
  <2>1. \A i \in parseable : i \in Nat
    BY DEF parseable
  <2> QED BY <1>2, <2>1
<1>5. (CHOOSE i \in parseable : \A k \in parseable : i <= k) = n
  BY <1>2, <1>4
<1> HIDE DEF found
<1>6. Block(t) = found[n]
  BY <1>1, <1>2, <1>5
<1> QED BY <1>3, <1>6 DEF JsonBlock

\* extractJsonBlock, for every text: where the prompts ask for it, the verdict is what
\* is parsed, whatever stands in its strings, before it or after it.
THEOREM VerdictIsParsed ==
  ASSUME NEW t \in Seq(Words), NEW i \in DOMAIN t, NEW k \in DOMAIN t, IsVerdict(t, i, k)
  PROVE  JsonBlock(t) = ValueOf(t, i, k)
<1>1. Chars(t) \in Seq(Char) /\ i \in 1..Len(t) /\ k \in 1..Len(t)
  BY LaidOut
<1>2. PICK p : Lay(t, p)
  BY LaidOut
<1> DEFINE c == Chars(t)
<1> HIDE DEF c
<1>3. /\ Candidates(c)[1] = After(c, Fence(c))
      /\ Candidates(c)[2] = After(c, IndexFrom(c, 1, "plain"))
      /\ Candidates(c)[3] = FirstObject(c, 1)
  BY DEF Candidates
<1>4. ASSUME NEW f \in DOMAIN t, Fenced(t, f), FirstAfter(t, f, i, k)
      PROVE  JsonBlock(t) = ValueOf(t, i, k)
  <2>1. f \in 1..Len(t) /\ f \in 0..Len(t)
    OBVIOUS
  <2>2. Fence(c) = p[f] /\ p[f] # 0
    BY <1>1, <1>2, <1>4, <2>1, FenceIs DEF c
  <2>3. LET o == FirstObject(c, p[f] + 1)
        IN o # NoObject /\ Parsed(o) = ValueOf(t, i, k) /\ Parsed(o) # "invalid"
    BY <1>1, <1>2, <1>4, <2>1, FirstFound DEF c
  <2>4. Candidates(c)[1] = FirstObject(c, p[f] + 1)
    BY <1>3, <2>2 DEF After
  <2>5. 1 \in 1..3 /\ \A m \in 1..1 - 1 : Candidates(c)[m] = NoObject
    OBVIOUS
  <2>6. Candidates(c)[1] # NoObject /\ Parsed(Candidates(c)[1]) = ValueOf(t, i, k) /\ ValueOf(t, i, k) # "invalid"
    BY <2>3, <2>4, Zenon
  <2> QED BY <2>5, <2>6, BlockIs DEF c
<1>5. ASSUME Unfenced(t), FirstAfter(t, 0, i, k)
      PROVE  JsonBlock(t) = ValueOf(t, i, k)
  <2>1. 0 \in 0..Len(t) /\ \A l \in 1..Len(t) : t[l] \notin {"json", "plain", "example"}
    BY <1>5 DEF Unfenced
  <2>2. Fence(c) = 0 /\ IndexFrom(c, 1, "plain") = 0
    <3>1. \A l \in 1..Len(t) : t[l] \notin {"json", "example"} /\ t[l] # "plain"
      BY <2>1
    <3> QED BY <1>1, <1>2, <3>1, NoFence DEF c, Fence
  <2>3. LET o == FirstObject(c, p[0] + 1)
        IN o # NoObject /\ Parsed(o) = ValueOf(t, i, k) /\ Parsed(o) # "invalid"
    BY <1>1, <1>2, <1>5, <2>1, FirstFound DEF c
  <2>4. p[0] + 1 = 1
    BY <1>2 DEF Lay
  <2>5. 3 \in 1..3 /\ \A m \in 1..3 - 1 : Candidates(c)[m] = NoObject
    BY <1>3, <2>2 DEF After
  <2>6. Candidates(c)[3] # NoObject /\ Parsed(Candidates(c)[3]) = ValueOf(t, i, k) /\ ValueOf(t, i, k) # "invalid"
    BY <1>3, <2>3, <2>4, Zenon
  <2> QED BY <2>5, <2>6, BlockIs DEF c
<1> QED BY <1>4, <1>5 DEF IsVerdict

\* An object without members is read to its end, and says nothing.
LEMMA EmptyParses == Parsed(EmptyObject) = "absent"
<1> DEFINE c == EmptyObject
<1>1. c \in Seq(Char) /\ Len(c) = 2
  BY DEF EmptyObject, Char
<1>2. c[2] = "}"
  BY Zenon DEF EmptyObject
<1> HIDE DEF c
<1>3. 2 \in 1..Len(c) /\ 2 \in 1..Len(c) + 1
  BY <1>1
<1>4. Members(c)[2] = Found(2, "absent")
  <2>1. Members(c)[2] = MemberTurn(c, Members(c), 2)
    BY <1>1, <1>3, MembersUnfold
  <2>2. c[2] \notin {"yes", "no", "quote", "{"}
    BY <1>2, Zenon
  <2>3. MemberTurn(c, Members(c), 2) = Found(2, "absent")
    BY <1>1, <1>3, <2>2, MemberTurns, Zenon
  <2> QED BY <2>1, <2>3, Zenon
<1>5. Members(c)[2].end = Len(c) /\ Members(c)[2].verdict = "absent"
  <2>1. Found(2, "absent").end = 2 /\ Found(2, "absent").verdict = "absent"
    BY FoundIs, Zenon
  <2>2. Len(c) = 2
    BY <1>1
  <2> QED BY <1>4, <2>1, <2>2, Zenon
<1>6. Parsed(c) = "absent"
  <2>1. c[Len(c)] = "}"
    BY <1>1, <1>2, Zenon
  <2> QED BY <1>5, <2>1, Zenon DEF Parsed
<1> QED BY <1>6 DEF c

\* A brace, and a pair of them.
BraceAt(c, x) == c[x] = "{"
BraceEndAt(c, x) == c[x] = "}"

\* The scanner ends a pair of braces at once.
LEMMA EmptyScanned ==
  ASSUME NEW c \in Seq(Char), NEW x \in Nat, x >= 1, x + 1 <= Len(c), BraceAt(c, x), BraceEndAt(c, x + 1)
  PROVE  SubSeq(c, x, ScanEnd(c, x)) = EmptyObject
<1>1. x \in 1..Len(c) /\ x \in x..Len(c) /\ x + 1 \in x..Len(c) /\ (x + 1) - 1 = x /\ x + 1 # 0
  OBVIOUS
<1>2. PICK scan : Scans(c, x, scan) /\ ScanEnd(c, x) = scan[Len(c)].end
  BY <1>1, ScanUnfolds
<1>3. scan[x - 1] = Outside(0) /\ scan[x] = Turned(scan[x - 1], c[x], x)
  BY <1>1, <1>2 DEF Scans
<1>4. scan[x + 1] = Turned(scan[x], c[x + 1], x + 1)
  BY <1>1, <1>2 DEF Scans
<1>5. scan[x] = Outside(1)
  <2>1. 0 \in Nat /\ 0 + 1 = 1
    OBVIOUS
  <2>2. Turned(Outside(0), "{", x) = Outside(0 + 1)
    BY <2>1, Turns, Zenon
  <2> QED BY <1>3, <2>1, <2>2, Zenon DEF BraceAt
<1>6. scan[x + 1] = Ended(x + 1)
  <2>1. 1 \in Nat /\ 1 = 1
    OBVIOUS
  <2>2. Turned(Outside(1), "}", x + 1) = Ended(x + 1)
    BY <2>1, Turns, Zenon
  <2> QED BY <1>4, <1>5, <2>2, Zenon DEF BraceEndAt
<1>7. ScanEnd(c, x) = x + 1
  BY <1>1, <1>2, <1>6, StaysEnded
<1> DEFINE u == SubSeq(c, x, x + 1)
<1>8. u = <<c[x], c[x + 1]>>
  <2> DEFINE a == x - 1
             b == x + 1
  <2>1. a \in Nat /\ b \in Nat /\ a <= b /\ b <= Len(c) /\ a + 1 = x /\ b - a = 2 /\ a + 2 = x + 1
    OBVIOUS
  <2>2. SubSeq(c, a + 1, b) \in Seq(Char) /\ Len(SubSeq(c, a + 1, b)) = b - a
    BY <2>1, Excerpt
  <2>3. \A y \in 1..b - a : SubSeq(c, a + 1, b)[y] = c[a + y]
    BY <2>1, Excerpt
  <2>4. u \in Seq(Char) /\ Len(u) = 2 /\ u[1] = c[x] /\ u[2] = c[x + 1]
    BY <2>1, <2>2, <2>3
  <2> HIDE DEF u
  <2> QED BY <2>4
<1>9. u = EmptyObject
  BY <1>8, Zenon DEF BraceAt, BraceEndAt, EmptyObject
<1> QED BY <1>7, <1>9

\* The brace inside an example is followed by its match.
LEMMA BraceOfExample ==
  ASSUME NEW t \in Seq(Words), NEW p, Lay(t, p), NEW l \in 1..Len(t), t[l] = "example",
         NEW x \in Nat, p[l - 1] < x, x <= p[l], BraceAt(Chars(t), x)
  PROVE  BraceEndAt(Chars(t), x + 1) /\ x + 1 <= Len(Chars(t))
<1> DEFINE c == Chars(t)
           q == p[l - 1]
<1>1. l - 1 \in 0..Len(t) /\ l \in 0..Len(t) /\ Len(t) \in 0..Len(t) /\ l <= Len(t)
  OBVIOUS
<1>2. q \in Nat /\ p[l] \in Nat /\ p[l] <= p[Len(t)] /\ p[Len(t)] = Len(c) /\ p[Len(t)] \in Nat
  BY <1>1 DEF Lay
<1>3. p[l] = q + 5 /\ Quotes(c, q, t[l])
  BY LongWord DEF Long
<1> HIDE DEF c, q
<1>4. x = q + 1 \/ x = q + 2 \/ x = q + 3 \/ x = q + 4 \/ x = q + 5
  <2>1. q < x /\ x <= p[l] /\ p[l] = q + 5
    BY <1>3 DEF q
  <2> QED BY <1>2, <2>1
<1>5. /\ c[q + 1] = "quote" /\ c[q + 2] = "json" /\ c[q + 4] = "}" /\ c[q + 5] = "quote"
  BY <1>3, Zenon DEF Quotes
<1>6. c[x] = "{"
  BY Zenon DEF c, BraceAt
<1>7. x = q + 3
  BY <1>4, <1>5, <1>6, Zenon
<1>8. x + 1 = q + 4
  BY <1>2, <1>7
<1>9. BraceEndAt(c, x + 1)
  BY <1>5, <1>8, Zenon DEF BraceEndAt
<1>10. x + 1 <= Len(c)
  BY <1>2, <1>3, <1>7
<1> QED BY <1>9, <1>10 DEF c

\* A candidate that parses is one whole object of the text, or the pair of braces of
\* an example.
LEMMA ObjectOf ==
  ASSUME NEW t \in Seq(Words), NEW p, Lay(t, p), Chars(t) \in Seq(Char),
         NEW a \in Nat \ {0}, NEW o, o = FirstObject(Chars(t), a), o # NoObject, Parsed(o) # "invalid"
  PROVE  \/ \E i, k \in DOMAIN t : IsObject(t, i, k) /\ ValueOf(t, i, k) = Parsed(o)
         \/ o = EmptyObject
<1> DEFINE c == Chars(t)
           start == IndexFrom(c, a, "{")
<1>1. /\ start # 0 /\ ScanEnd(c, start) # 0 /\ o = SubSeq(c, start, ScanEnd(c, start))
  BY DEF FirstObject
<1>2. start \in a..Len(c)
  BY <1>1, IndexIs
<1>3. BraceAt(c, start)
  BY <1>1, IndexIs, Zenon DEF BraceAt
<1> HIDE DEF start
<1>4. PICK i \in 1..Len(t) : p[i - 1] < start /\ start <= p[i]
  <2>1. start \in 1..Len(c)
    BY <1>2
  <2> QED BY <2>1, Covered
<1>5. t[i] = "example" \/ (t[i] = "open" /\ start = p[i])
  <2>1. start \in Nat
    BY <1>2
  <2>2. StandsIn(c, t, p, i, start)
    BY <1>4, <2>1, CharsOfWord
  <2> HIDE DEF c
  <2> QED BY <1>3, <2>2, Zenon DEF BraceAt, StandsIn
<1>6. CASE t[i] = "example"
  <2>1. start \in Nat /\ start >= 1
    BY <1>2
  <2>2. BraceEndAt(c, start + 1) /\ start + 1 <= Len(c)
    BY <1>3, <1>4, <1>6, <2>1, BraceOfExample
  <2> HIDE DEF c
  <2>3. c \in Seq(Char)
    BY DEF c
  <2>4. SubSeq(c, start, ScanEnd(c, start)) = EmptyObject
    BY <1>3, <2>1, <2>2, <2>3, EmptyScanned
  <2> QED BY <1>1, <2>4, Zenon
<1>7. CASE t[i] = "open" /\ start = p[i]
  <2>1. PICK k \in i + 1..Len(t) : Balanced(t, i, k)
    BY <1>1, <1>7, ScanEndIs
  <2>2. t[k] = "close" /\ ScanEnd(c, p[i]) = p[k]
    BY <1>7, <2>1, ScanEnds
  <2>3. o = SubSeq(c, p[i], p[k])
    BY <1>1, <1>7, <2>2, Zenon
  <2>4. /\ Fenceless(t, i, k) => Parsed(SubSeq(c, p[i], p[k])) = ValueOf(t, i, k)
        /\ ~ Fenceless(t, i, k) => Parsed(SubSeq(c, p[i], p[k])) = "invalid"
    BY <1>7, <2>1, <2>2, Parses
  <2>5. Fenceless(t, i, k) /\ Parsed(o) = ValueOf(t, i, k)
    BY <2>3, <2>4, Zenon
  <2>6. IsObject(t, i, k)
    BY <1>7, <2>1, <2>5 DEF IsObject, Balanced, Fenceless
  <2>7. i \in DOMAIN t /\ k \in DOMAIN t
    OBVIOUS
  <2> QED BY <2>5, <2>6, <2>7
<1> QED BY <1>5, <1>6, <1>7

\* Conversely, for every text: what is parsed is the value of one whole object of it,
\* or a pair of braces with nothing between them, as a string may quote one.
THEOREM ParsedIsWhole ==
  ASSUME NEW t \in Seq(Words), JsonBlock(t) # "null"
  PROVE  \/ \E i, k \in DOMAIN t : IsObject(t, i, k) /\ ValueOf(t, i, k) = JsonBlock(t)
         \/ Block(t) = EmptyObject
<1>1. Chars(t) \in Seq(Char)
  BY LaidOut
<1>2. PICK p : Lay(t, p)
  BY LaidOut
<1> DEFINE c == Chars(t)
           found == Candidates(c)
           parseable == {i \in 1..3 : found[i] # NoObject /\ Parsed(found[i]) # "invalid"}
<1>3. Block(t) # NoObject /\ JsonBlock(t) = Parsed(Block(t))
  BY DEF JsonBlock
<1>4. Block(t) = IF parseable = {} THEN NoObject
                 ELSE found[CHOOSE i \in parseable : \A k \in parseable : i <= k]
  BY DEF Block
<1>5. parseable \in SUBSET Nat
  OBVIOUS
<1> HIDE DEF parseable
<1>6. PICK n \in parseable : Block(t) = found[n]
  <2>1. parseable # {}
    BY <1>3, <1>4
  <2>2. \E n \in parseable : \A k \in parseable : n <= k
    BY <1>5, <2>1, LeastOf
  <2>3. (CHOOSE i \in parseable : \A k \in parseable : i <= k) \in parseable
    BY <2>2
  <2> QED BY <1>4, <2>1, <2>3
<1>7. n \in 1..3 /\ found[n] # NoObject /\ Parsed(found[n]) # "invalid"
  BY <1>6 DEF parseable
<1> HIDE DEF c
<1>8. ASSUME NEW fence, fence # 0 => fence \in Nat, After(c, fence) # NoObject
      PROVE  \E a \in Nat \ {0} : After(c, fence) = FirstObject(c, a)
  <2>1. fence # 0 /\ After(c, fence) = FirstObject(c, fence + 1)
    BY <1>8 DEF After
  <2>2. fence + 1 \in Nat \ {0}
    BY <1>8, <2>1
  <2> QED BY <2>1, <2>2
<1>9. \A ch : IndexFrom(c, 1, ch) # 0 => IndexFrom(c, 1, ch) \in Nat
  <2>1. 1 \in Nat \ {0} /\ c \in Seq(Char)
    BY <1>1 DEF c
  <2>2. \A ch : IndexFrom(c, 1, ch) # 0 => IndexFrom(c, 1, ch) \in 1..Len(c)
    BY <2>1, IndexIs
  <2> QED BY <2>2
<1>10. PICK a \in Nat \ {0} : found[n] = FirstObject(c, a)
  <2>1. /\ found[1] = After(c, Fence(c))
        /\ found[2] = After(c, IndexFrom(c, 1, "plain"))
        /\ found[3] = FirstObject(c, 1)
    BY DEF Candidates
  <2>2. n = 1 \/ n = 2 \/ n = 3
    BY <1>7
  <2>3. Fence(c) # 0 => Fence(c) \in Nat
    BY <1>9 DEF Fence
  <2>4. IndexFrom(c, 1, "plain") # 0 => IndexFrom(c, 1, "plain") \in Nat
    BY <1>9
  <2>5. 1 \in Nat \ {0}
    OBVIOUS
  <2> HIDE DEF found
  <2>6. CASE n = 1
    BY <1>7, <1>8, <2>1, <2>3, <2>6
  <2>7. CASE n = 2
    BY <1>7, <1>8, <2>1, <2>4, <2>7
  <2>8. CASE n = 3
    BY <2>1, <2>5, <2>8
  <2> QED BY <2>2, <2>6, <2>7, <2>8
<1> DEFINE o == found[n]
<1>11. o = FirstObject(Chars(t), a) /\ o # NoObject /\ Parsed(o) # "invalid" /\ Block(t) = o
  BY <1>6, <1>7, <1>10 DEF c
<1> HIDE DEF o, found
<1>12. \/ \E i, k \in DOMAIN t : IsObject(t, i, k) /\ ValueOf(t, i, k) = Parsed(o)
       \/ o = EmptyObject
  BY <1>1, <1>2, <1>11, ObjectOf
<1>13. JsonBlock(t) = Parsed(o)
  BY <1>3, <1>11, Zenon
<1> QED BY <1>11, <1>12, <1>13, Zenon

-------------------------------------------------------------------------------
(* The judge, and the runs.                                                 *)

\* parseJudgeVerdict, for every text: without another mention up to its end, the one
\* verdict of an object is the one the expression matches.
THEOREM JudgedIsTheVerdict ==
  ASSUME NEW t \in Seq(Words), NEW i \in DOMAIN t, NEW k \in DOMAIN t,
         {m \in Mentions(t) : m <= k} = OwnVerdicts(t, i, k),
         Cardinality(OwnVerdicts(t, i, k)) = 1
  PROVE  Judged(t) = ValueOf(t, i, k) /\ Judged(t) \in {"yes", "no"}
<1> DEFINE own == OwnVerdicts(t, i, k)
           all == Mentions(t)
<1>1. own \in SUBSET Nat /\ IsFiniteSet(own) /\ i \in Nat /\ k \in Nat
  <2>1. i \in Int /\ k \in Int /\ i \in Nat
    OBVIOUS
  <2>2. own \subseteq i..k /\ IsFiniteSet(i..k)
    BY <2>1, FS_Interval DEF OwnVerdicts
  <2>3. IsFiniteSet(own)
    <3> HIDE DEF own
    <3> QED BY <2>2, FS_Subset
  <2> QED BY <2>1, <2>2, <2>3
<1>2. PICK x : own = {x}
  <2>1. Cardinality(own) = 1
    OBVIOUS
  <2> HIDE DEF own
  <2> QED BY <1>1, <2>1, FS_Singleton
<1>3. x \in own /\ t[x] \in {"yes", "no"} /\ x \in Nat
  BY <1>1, <1>2 DEF OwnVerdicts
<1>4. all \in SUBSET Nat /\ {m \in all : m <= k} = {x}
  <2>1. all \in SUBSET Nat
    BY DEF Mentions
  <2> QED BY <1>2, <2>1
<1> HIDE DEF all, own
<1>5. x \in all /\ \A m \in all : x <= m
  BY <1>1, <1>3, <1>4
<1>6. \A m \in all : (\A n \in all : m <= n) => m = x
  BY <1>4, <1>5
<1>7. (CHOOSE m \in all : \A n \in all : m <= n) = x
  BY <1>5, <1>6
<1>8. Judged(t) = t[x]
  BY <1>5, <1>7 DEF Judged, all
<1>9. IsLast(t, own, t[x])
  BY <1>2, <1>3 DEF IsLast
<1>10. ValueOf(t, i, k) = t[x]
  BY <1>1, <1>9, ValueIs DEF own
<1> QED BY <1>3, <1>8, <1>10

\* The inductive invariant: a run that succeeded was neither killed nor late, and what
\* was read of a run is what its whole output says.
Readings ==
  /\ run = "SUCCEEDED" => child = "exited" /\ ~ timedOut
  /\ reading.by = "VERIFY" =>
       /\ reading.verdict = "threw" \/ (run = "SUCCEEDED" /\ reading.verdict = JsonBlock(stdout))
       /\ reading.ok = (reading.verdict = "yes")
  /\ reading.by = "JUDGE" => reading.ok = (Judged(stdout) # "no")
  /\ reading.by = "REVIEW" /\ reading.ok =>
       /\ run = "SUCCEEDED" /\ JsonBlock(stdout) \in {"yes", "absent"}
       /\ Block(stdout) # EmptyObject

\* With the types, which hold a settled run to a process that is gone.
OutputInv == OutputTypeOK /\ Readings

\* A review that meets the threshold had a verdict to parse, and a confidence.
LEMMA Approved ==
  ASSUME NEW v, NEW r, MeetsThreshold(ReviewVerdict(v, r), r)
  PROVE  v \in {"yes", "absent"} /\ r.confident
BY DEF MeetsThreshold, ReviewVerdict

\* meetsThreshold answers yes or no.
LEMMA ThresholdIsBoolean == \A v, r : MeetsThreshold(v, r) \in BOOLEAN
BY DEF MeetsThreshold

\* A process that has not written is not read.
LEMMA OutputInvHoldsAtFirst == OutputInit => OutputInv
<1> SUFFICES ASSUME OutputInit PROVE OutputInv
  OBVIOUS
<1>1. OutputTypeOK
  <2>1. stdout \in Seq(Vocabulary) /\ Len(stdout) = 0
    BY DEF OutputInit
  <2>2. reading.by = "nobody"
    BY DEF OutputInit, NotRead
  <2>3. Len(stdout) <= StdoutCap
    BY <2>1, AgentOutputAssumption
  <2> QED BY <2>1, <2>2, <2>3 DEF OutputInit, OutputTypeOK
<1>2. Readings
  BY DEF OutputInit, NotRead, Readings
<1> QED BY <1>1, <1>2 DEF OutputInv

\* Every byte, exit, timeout and reading keeps the invariant: once a run is settled its
\* output does not change.
LEMMA OutputInvIsKept == OutputInv /\ [OutputNext]_outputVars => OutputInv'
<1> SUFFICES ASSUME OutputInv, [OutputNext]_outputVars PROVE OutputInv'
  OBVIOUS
<1>0. /\ StdoutCap \in Nat
      /\ stdout \in Seq(Vocabulary) /\ Len(stdout) <= StdoutCap
      /\ child \in {"running", "exited", "crashed", "killed"}
      /\ helper \in BOOLEAN /\ timedOut \in BOOLEAN
      /\ run \in {"RUNNING", "SUCCEEDED", "FAILED", "TIMED_OUT"}
      /\ run # "RUNNING" => child # "running" /\ ~ helper
      /\ reading.by \in {"nobody", "REVIEW", "JUDGE", "VERIFY"}
      /\ reading # NotRead => run # "RUNNING"
  BY AgentOutputAssumption DEF OutputInv, OutputTypeOK
<1>1. Readings
  BY DEF OutputInv
<1>2. ASSUME stdout' = stdout, reading' = reading,
             child' \in {"running", "exited", "crashed", "killed"},
             helper' \in BOOLEAN, timedOut' \in BOOLEAN,
             run' \in {"RUNNING", "SUCCEEDED", "FAILED", "TIMED_OUT"},
             run' # "RUNNING" => child' # "running" /\ ~ helper',
             run # "RUNNING" => run' = run,
             run' = "SUCCEEDED" => child' = "exited" /\ ~ timedOut'
      PROVE  OutputInv'
  <2>1. OutputTypeOK'
    BY <1>0, <1>2 DEF OutputTypeOK, NotRead
  <2>2. reading.by # "nobody" => run' = run
    BY <1>0, <1>2 DEF NotRead
  <2>3. Readings'
    BY <1>1, <1>2, <2>2 DEF Readings
  <2> QED BY <2>1, <2>3 DEF OutputInv
<1>3. ASSUME NEW w \in Vocabulary, Write(w) PROVE OutputInv'
  <2>1. stdout' \in Seq(Vocabulary) /\ Len(stdout') <= StdoutCap
    BY <1>0, <1>3 DEF Write, Kept
  <2>2. /\ run = "RUNNING" /\ UNCHANGED <<child, helper, timedOut, run, reading>>
        /\ reading = NotRead
    BY <1>0, <1>3 DEF Write
  <2>3. OutputTypeOK'
    BY <1>0, <2>1, <2>2 DEF OutputTypeOK, NotRead
  <2>4. Readings'
    BY <2>2 DEF Readings, NotRead
  <2> QED BY <2>3, <2>4 DEF OutputInv
<1>4. CASE StartHelper
  BY <1>0, <1>1, <1>2, <1>4 DEF StartHelper
<1>5. CASE HelperEnds
  BY <1>0, <1>1, <1>2, <1>5 DEF HelperEnds, Readings
<1>6. ASSUME NEW how \in {"exited", "crashed"}, ProcessExit(how) PROVE OutputInv'
  BY <1>0, <1>1, <1>2, <1>6 DEF ProcessExit
<1>7. CASE Timeout
  BY <1>0, <1>1, <1>2, <1>7 DEF Timeout, Killed
<1>8. CASE Close
  BY <1>0, <1>1, <1>2, <1>8 DEF Close, Status
<1>9. CASE SpawnFails
  BY <1>0, <1>1, <1>2, <1>9 DEF SpawnFails
<1>10. ASSUME run # "RUNNING", reading = NotRead, UNCHANGED <<stdout, child, helper, timedOut, run>>,
              reading'.by \in {"REVIEW", "JUDGE", "VERIFY"}, Readings'
       PROVE  OutputInv'
  <2>1. OutputTypeOK'
    BY <1>0, <1>10 DEF OutputTypeOK, NotRead
  <2> QED BY <1>10, <2>1 DEF OutputInv
<1>11. CASE ReviewThrows
  <2>1. reading'.by = "REVIEW" /\ ~ reading'.ok
    BY <1>11 DEF ReviewThrows
  <2>2. Readings'
    BY <1>1, <1>11, <2>1 DEF Readings, ReviewThrows
  <2> QED BY <1>10, <1>11, <2>1, <2>2 DEF ReviewThrows
<1>12. CASE ReadReview
  <2>1. PICK r \in Reviews :
          reading' = [by |-> "REVIEW", verdict |-> ReviewVerdict(JsonBlock(stdout), r),
                      ok |-> MeetsThreshold(ReviewVerdict(JsonBlock(stdout), r), r)]
          /\ (Block(stdout) = EmptyObject => ~ r.confident)
    BY <1>12 DEF ReadReview
  <2>2. /\ reading'.by = "REVIEW"
        /\ reading'.ok => JsonBlock(stdout) \in {"yes", "absent"} /\ Block(stdout) # EmptyObject
    <3> DEFINE b == JsonBlock(stdout)
    <3> HIDE DEF b
    <3>1. reading'.by = "REVIEW" /\ reading'.ok = MeetsThreshold(ReviewVerdict(b, r), r)
      BY <2>1 DEF b
    <3>2. reading'.ok => b \in {"yes", "absent"} /\ r.confident
      BY <3>1, Approved
    <3> QED BY <2>1, <3>1, <3>2 DEF b
  <2>3. run = "SUCCEEDED" /\ reading = NotRead /\ UNCHANGED <<stdout, child, helper, timedOut, run>>
    BY <1>12 DEF ReadReview
  <2>4. Readings'
    BY <1>1, <2>2, <2>3 DEF Readings
  <2> QED BY <1>10, <2>2, <2>3, <2>4
<1>13. CASE ReadJudge
  <2>1. reading'.by = "JUDGE" /\ reading'.ok = (Judged(stdout) # "no")
    BY <1>13 DEF ReadJudge
  <2>3. run # "RUNNING" /\ reading = NotRead /\ UNCHANGED <<stdout, child, helper, timedOut, run>>
    BY <1>13 DEF ReadJudge
  <2>4. Readings'
    BY <1>1, <2>1, <2>3 DEF Readings
  <2> QED BY <1>10, <2>1, <2>3, <2>4
<1>14. CASE ReadVerify
  <2>1. /\ reading'.by = "VERIFY" /\ reading'.ok = (reading'.verdict = "yes")
        /\ reading'.verdict = IF run = "SUCCEEDED" THEN JsonBlock(stdout) ELSE "threw"
    BY <1>14 DEF ReadVerify
  <2>3. run # "RUNNING" /\ reading = NotRead /\ UNCHANGED <<stdout, child, helper, timedOut, run>>
    BY <1>14 DEF ReadVerify
  <2>4. Readings'
    BY <1>1, <2>1, <2>3 DEF Readings
  <2> QED BY <1>10, <2>1, <2>3, <2>4
<1>15. CASE UNCHANGED outputVars
  BY <1>0, <1>1, <1>2, <1>15 DEF outputVars, Readings
<1> QED BY <1>3, <1>4, <1>5, <1>6, <1>7, <1>8, <1>9, <1>11, <1>12, <1>13, <1>14, <1>15 DEF OutputNext

\* The invariant holds, for any cap and vocabulary.
THEOREM OutputInvHolds == OutputSpec => []OutputInv
<1>1. OutputInit => OutputInv
  BY OutputInvHoldsAtFirst
<1>2. OutputInv /\ [OutputNext]_outputVars => OutputInv'
  BY OutputInvIsKept
<1> QED BY <1>1, <1>2, PTL DEF OutputSpec

\* Every variable has its type, for any cap and vocabulary.
THEOREM OutputTypeCorrect == OutputSpec => []OutputTypeOK
<1>1. OutputInv => OutputTypeOK
  BY DEF OutputInv
<1> QED BY <1>1, OutputInvHolds, PTL

\* The output is a text.
LEMMA TextOfWords == OutputInv => stdout \in Seq(Words)
BY AgentOutputAssumption DEF OutputInv, OutputTypeOK

\* The verdict the prompts ask for is the one that is read, by the parser and by the
\* judge, for every output of any length.
THEOREM VerdictIsReadHolds == OutputSpec => []VerdictIsRead
<1>1. OutputInv => VerdictIsRead
  <2>1. SUFFICES ASSUME OutputInv PROVE VerdictIsRead
    OBVIOUS
  <2>2. stdout \in Seq(Words) /\ Readings
    BY <2>1, TextOfWords DEF OutputInv
  <2>3. ParserReadsIt
    <3>1. SUFFICES ASSUME reading.by = "VERIFY", reading.verdict # "threw",
                          NEW i \in DOMAIN stdout, NEW k \in DOMAIN stdout, IsVerdict(stdout, i, k)
                   PROVE  reading.verdict = ValueOf(stdout, i, k)
      BY DEF ParserReadsIt
    <3>2. reading.verdict = JsonBlock(stdout)
      BY <2>2, <3>1 DEF Readings
    <3> QED BY <2>2, <3>1, <3>2, VerdictIsParsed
  <2>4. JudgeReadsIt
    <3>1. SUFFICES ASSUME reading.by = "JUDGE",
                          NEW i \in DOMAIN stdout, NEW k \in DOMAIN stdout,
                          {m \in Mentions(stdout) : m <= k} = OwnVerdicts(stdout, i, k),
                          Cardinality(OwnVerdicts(stdout, i, k)) = 1
                   PROVE  reading.ok = (ValueOf(stdout, i, k) = "yes")
      BY DEF JudgeReadsIt
    <3>2. reading.ok = (Judged(stdout) # "no")
      BY <2>2, <3>1 DEF Readings
    <3>3. Judged(stdout) = ValueOf(stdout, i, k) /\ Judged(stdout) \in {"yes", "no"}
      BY <2>2, <3>1, JudgedIsTheVerdict
    <3> QED BY <3>2, <3>3
  <2> QED BY <2>3, <2>4 DEF VerdictIsRead
<1> QED BY <1>1, OutputInvHolds, PTL

\* What is approved or adopted stands in one whole object of the output of a run that
\* was neither killed nor late, whatever was cut off.
THEOREM ApprovalIsWholeHolds == OutputSpec => []ApprovalIsWhole
<1>1. OutputInv => ApprovalIsWhole
  <2>1. SUFFICES ASSUME OutputInv, reading.by \in {"REVIEW", "VERIFY"}, reading.ok
                 PROVE  /\ child = "exited" /\ ~ timedOut
                        /\ \E i, k \in DOMAIN stdout :
                             /\ IsObject(stdout, i, k) /\ ValueOf(stdout, i, k) # "no"
                             /\ reading.by = "VERIFY" => ValueOf(stdout, i, k) = "yes"
    BY DEF ApprovalIsWhole
  <2>2. stdout \in Seq(Words) /\ Readings
    BY <2>1, TextOfWords DEF OutputInv
  <2>3. run = "SUCCEEDED" /\ JsonBlock(stdout) \in {"yes", "absent"}
    BY <2>1, <2>2 DEF Readings
  <2>4. child = "exited" /\ ~ timedOut
    BY <2>2, <2>3 DEF Readings
  <2>5. reading.by = "VERIFY" => JsonBlock(stdout) = "yes"
    BY <2>1, <2>2 DEF Readings
  <2>6. Block(stdout) # EmptyObject
    <3>1. CASE reading.by = "REVIEW"
      BY <2>1, <2>2, <3>1 DEF Readings
    <3>2. CASE reading.by = "VERIFY"
      <4>1. Block(stdout) = EmptyObject => JsonBlock(stdout) \in {"null", "absent"}
        BY EmptyParses DEF JsonBlock
      <4> QED BY <2>5, <3>2, <4>1
    <3> QED BY <2>1, <3>1, <3>2
  <2>7. PICK i, k \in DOMAIN stdout :
          IsObject(stdout, i, k) /\ ValueOf(stdout, i, k) = JsonBlock(stdout)
    <3>1. JsonBlock(stdout) # "null"
      BY <2>3
    <3> QED BY <2>2, <2>6, <3>1, ParsedIsWhole
  <2>8. /\ IsObject(stdout, i, k) /\ ValueOf(stdout, i, k) # "no"
        /\ reading.by = "VERIFY" => ValueOf(stdout, i, k) = "yes"
    BY <2>3, <2>5, <2>7
  <2> QED BY <2>4, <2>7, <2>8, Zenon
<1> QED BY <1>1, OutputInvHolds, PTL
===============================================================================

------------------------------- MODULE AgentMemory -------------------------------
(***************************************************************************)
(* The persist_state plugin, api/.hermes/plugins/persist_state: the agent  *)
(* run's todo list and the reports of its sub-agents, kept in memory and   *)
(* mirrored to .olympian/PROGRESS.md in the workspace.                     *)
(*                                                                         *)
(* Each hook runs under the plugin's lock, so a hook is one step.  memory  *)
(* is _STATE; seeded stands for "checklist and findings are not None".  A  *)
(* task id is "" when Hermes gives none.  An entry of the findings has its *)
(* number and the report it holds; all entries have the same size, and     *)
(* Budget of them fit.                                                     *)
(***************************************************************************)
EXTENDS Integers, Sequences, SequencesExt, FiniteSetsExt

CONSTANTS
  Budget  \* _FINDINGS_BUDGET, in entries

ASSUME BudgetAssumption == Budget \in Nat \ {0}

VARIABLES
  memory,  \* _STATE of the running agent process
  file     \* PROGRESS.md: [there, checklist, findings]

NoList == [by |-> "nobody", n |-> 0]

NewMemory == [primary |-> "", active |-> 0, subagents |-> {}, seeded |-> FALSE,
              checklist |-> NoList, findings |-> <<>>, delegations |-> 0]

NoFile == [there |-> FALSE, checklist |-> NoList, findings |-> <<>>]

\* Fault: a judge writes its todos to the file as well.
WorkPhasesAll == {"IMPLEMENT", "REVISE", "JUDGE"}

\* The phases that own the file; in another one the hooks do nothing.
WorkPhases == {"IMPLEMENT", "REVISE"}

\* _trim_findings: the oldest whole entries are dropped.
Trimmed(findings) ==
  IF Len(findings) <= Budget THEN findings
  ELSE SubSeq(findings, Len(findings) - Budget + 1, Len(findings))

\* _flush: the file made of the memory, replaced atomically.
Composed(m) == [there |-> TRUE, checklist |-> m.checklist, findings |-> Trimmed(m.findings)]

\* Fault: a file is written again only if it had both sections.
HealedIfBoth(m) ==
  IF ~ file.there /\ m.checklist # NoList /\ m.findings # <<>> THEN Composed(m) ELSE file

\* _heal: a file that has gone missing is written again, if there is something
\* to write.
Healed(m) ==
  IF ~ file.there /\ (m.checklist # NoList \/ m.findings # <<>>) THEN Composed(m) ELSE file

\* _seed: once per process, from the file; the numbering goes on after the
\* highest number there. An empty part is read as empty, not as its placeholder.
Seeded(m) ==
  IF m.seeded THEN m
  ELSE [m EXCEPT !.seeded = TRUE, !.checklist = file.checklist, !.findings = file.findings,
                 !.delegations = Max({0} \cup {e.n : e \in ToSet(file.findings)})]

NotePrimary(m, id) == IF m.primary = "" THEN [m EXCEPT !.primary = id] ELSE m

\* Fault: a child is told only while it is the primary that is unknown.
ObservedLate(m, id) ==
  IF m.active > 0 /\ id # "" /\ m.primary = ""
  THEN [m EXCEPT !.subagents = @ \cup {id}] ELSE m

\* A call while a delegation is in flight, under another id than the primary's,
\* is a sub-agent's.
Observed(m, id) ==
  IF m.active > 0 /\ id # "" /\ id # m.primary
  THEN [m EXCEPT !.subagents = @ \cup {id}] ELSE m

-------------------------------------------------------------------------------
(* The hooks, in a work phase.                                             *)

PreDelegate(id) ==
  /\ memory' = [NotePrimary(memory, id) EXCEPT !.active = @ + 1]
  /\ UNCHANGED file

PreCall(id) ==
  /\ memory' = Observed(memory, id)
  /\ UNCHANGED file

\* A dispatch acknowledgement is not a report.  report = 0 stands for one.
PostDelegate(id, report) ==
  LET m == [NotePrimary(Seeded(memory), id) EXCEPT !.active = Max({0, @ - 1})]
      entry == [n |-> m.delegations + 1, report |-> report]
      noted == [m EXCEPT !.delegations = @ + 1, !.findings = Append(@, entry)]
  IN IF report = 0
     THEN memory' = m /\ file' = Healed(m)
     ELSE memory' = noted /\ file' = Composed(noted)

\* An empty list never replaces one, and a sub-agent's list is not taken.
PostTodo(id, list) ==
  LET m == Observed(Seeded(memory), id)
      noted == [m EXCEPT !.checklist = list]
  IN IF id \in m.subagents \/ list = NoList
     THEN memory' = m /\ file' = Healed(m)
     ELSE memory' = noted /\ file' = Composed(noted)

PostCall ==
  /\ memory' = Seeded(memory)
  /\ file' = Healed(Seeded(memory))
================================================================================

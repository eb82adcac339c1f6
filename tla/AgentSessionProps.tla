---------------------------- MODULE AgentSessionProps ----------------------------
(***************************************************************************)
(* What the plugins promise of the agent runs.                             *)
(***************************************************************************)
EXTENDS AgentSession

Lists == {NoList, [by |-> "other", n |-> 0]} \cup [by : {"main"}, n : 1..MaxLists]
Ids == {"", "main"} \cup Children

\* Every variable has its type; a process that is not there has no call.
TypeOK ==
  /\ stage \in {"IMPLEMENT", "JUDGE", "VERIFY", "REVIEW", "REVISE", "OPEN_PR"}
  /\ work \in WorkStages /\ checks \in BOOLEAN /\ passes \in 0..MaxPasses
  /\ phase \in {"none", "JUDGE"} \cup WorkStages
  /\ mainId \in {"", "main"} /\ supported \in {"default", "elsewhere", "forced"}
  /\ deleg \in [Children -> {"none", "running", "finished", "detached", "over"}]
  /\ call \in [Agents -> Kinds \cup {"none"}]
  /\ phase = "none" => call = [a \in Agents |-> "none"]
  /\ memory.primary \in Ids /\ guard.primary \in Ids
  /\ memory.active \in Nat /\ guard.active \in Nat
  /\ memory.subagents \subseteq Ids /\ guard.subagents \subseteq Ids
  /\ memory.checklist \in Lists /\ file.checklist \in Lists
  /\ Len(file.findings) <= Budget

\* The plugins are where they were written for: Hermes has the helper that
\* synchronous_delegate forces.
Attached == supported # "elsewhere"

\* "Keep the IMPLEMENT/REVISE primary an orchestrator" (worker_guard): in no
\* order of its own and its children's calls does the primary edit a file, or
\* read a long one whole; and "sub-agents are never affected — they edit and
\* read in full": no child's edit is blocked and none of its reads is capped,
\* whatever the primary's task id.
GuardFitsAgent ==
  /\ "primary free" \notin slips
  /\ Attached => "child held" \notin slips

\* The same with detached delegations.  Does not hold: after the
\* acknowledgement no delegation counts as in flight, and the first call of a
\* child is taken for the primary's.
DetachedChildrenFree == "child held" \notin slips

\* "A child can't clobber the primary checklist" (persist_state): the file's
\* checklist is the primary's last one of this unit of work, through children
\* and judges with lists of their own, removals, and processes that die.
ChecklistIsPrimarys ==
  Attached /\ lost = "no" /\ file.there /\ stage \in WorkStages \cup {"JUDGE"} =>
    file.checklist = IF noted = 0 THEN NoList ELSE [by |-> "main", n |-> noted]

ReportsOf(findings) == [i \in DOMAIN findings |-> findings[i].report]

Newest(s) == IF Len(s) <= Budget THEN s ELSE SubSeq(s, Len(s) - Budget + 1, Len(s))

\* A retry does not "produce a jumbled 1, 2, 1 sequence": the numbers go up.
NumbersGoUp ==
  \A f \in {file.findings, memory.findings} :
    \A i, j \in DOMAIN f : i < j => f[i].n < f[j].n

\* "So a re-run resumes instead of starting over": the file has the newest
\* reports of this unit of work, as many as fit and in order, and it is there
\* unless a command that may have removed it is still running.  Whatever was
\* lost, the numbers go up.
ReportsKept ==
  /\ NumbersGoUp
  /\ lost = "no" /\ stage \in WorkStages \cup {"JUDGE"} =>
       IF file.there THEN ReportsOf(file.findings) = Newest(posted)
       ELSE posted = <<>> \/ \E a \in Agents : call[a] = "build"

\* "Restore the whole file on the very next tool call if it has gone missing":
\* the same if no process died and no judge removed the notes.  Does not hold: the
\* memory is seeded after the first call of a process, so what that call removes
\* is not restored.
NotesRestored ==
  lost # "outside" /\ stage \in WorkStages =>
    file.there \/ posted = <<>> \/ \E a \in Agents : call[a] = "build"

\* The notes a pass is given as "from an earlier pass at THIS task" were made in
\* the unit of work it belongs to: VERIFY or REVIEW removes what an earlier one
\* left, with and without a verification command.
NotesOfThisUnit ==
  stage \in WorkStages /\ file.there =>
    /\ file.checklist.n > unit.lists \/ file.checklist.by # "main"
    /\ \A i \in DOMAIN file.findings : file.findings[i].report > unit.reports
================================================================================

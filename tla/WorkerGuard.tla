------------------------------- MODULE WorkerGuard -------------------------------
(***************************************************************************)
(* The worker_guard plugin, api/.hermes/plugins/worker_guard: it tells the *)
(* sub-agents of a run from its primary agent, blocks the primary's edits  *)
(* and caps what it reads.                                                 *)
(*                                                                         *)
(* A call is of a kind: "edit" for write_file, patch, code execution and   *)
(* shell commands that write, "commit" for git commit and git push, "read" *)
(* for a read over the cap, "build" for a terminal command that does not   *)
(* count as a write, "todo" for the rest.  The hook changes guard under    *)
(* the lock and decides after it with what it saw there.                   *)
(***************************************************************************)
EXTENDS Integers, FiniteSetsExt

VARIABLES
  guard  \* _STATE: [primary, active, subagents]

NewGuard == [primary |-> "", active |-> 0, subagents |-> {}]

GuardPreDelegate(id) ==
  guard' = [guard EXCEPT !.primary = IF @ = "" THEN id ELSE @, !.active = @ + 1]

\* The ids after a call other than delegate_task.
Seen(id) ==
  LET g == IF guard.active > 0 /\ id # "" /\ id # guard.primary
           THEN [guard EXCEPT !.subagents = @ \cup {id}] ELSE guard
  IN IF g.primary = "" THEN [g EXCEPT !.primary = id] ELSE g

GuardPreCall(id) == guard' = Seen(id)

\* Fault: the primary is known by its id.
BlockedById(id, kind) ==
  kind = "commit" \/ (kind = "edit" /\ id # "" /\ id = Seen(id).primary)

\* What on_pre_tool_call answers: no one may commit, the primary may not edit.
Blocked(id, kind) ==
  kind = "commit" \/ (kind = "edit" /\ id \notin Seen(id).subagents)

\* on_transform_tool_result, after the call: the primary's long read is cut.
Capped(id, kind) == kind = "read" /\ ~ (id # "" /\ id \in guard.subagents)

GuardPostDelegate == guard' = [guard EXCEPT !.active = Max({0, @ - 1})]
================================================================================

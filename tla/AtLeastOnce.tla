------------------------------ MODULE AtLeastOnce ------------------------------
(***************************************************************************)
(* What a receiver promises that remembers the messages it has handled:    *)
(* the comment on WebhookService (api/src/webhook/webhook.service.ts),     *)
(* without its rows and handlers.  A message may be tried as often as it   *)
(* is sent, until a try went all the way; none starts after that, the      *)
(* message does not count as handled before, and only then it is skipped.  *)
(***************************************************************************)

CONSTANTS
  Messages,
  Tries      \* numbers of the tries of a message

VARIABLES
  trying,     \* the <<message, try>> in progress
  completed,  \* messages of which a try went all the way
  handled,    \* messages that are not tried again
  skipped     \* the <<message, try>> that were not made

abstractVars == <<trying, completed, handled, skipped>>

Init == trying = {} /\ completed = {} /\ handled = {} /\ skipped = {}

Begin(m, t) ==
  /\ m \notin handled
  /\ <<m, t>> \notin trying
  /\ trying' = trying \cup {<<m, t>>}
  /\ UNCHANGED <<completed, handled, skipped>>

Skip(m, t) ==
  /\ m \in handled
  /\ skipped' = skipped \cup {<<m, t>>}
  /\ UNCHANGED <<trying, completed, handled>>

Complete(m, t) ==
  /\ <<m, t>> \in trying
  /\ completed' = completed \cup {m}
  /\ UNCHANGED <<trying, handled, skipped>>

Acknowledge(m, t) ==
  /\ <<m, t>> \in trying /\ m \in completed
  /\ handled' = handled \cup {m}
  /\ trying' = trying \ {<<m, t>>}
  /\ UNCHANGED <<completed, skipped>>

\* Some tries come to nothing: one that failed, or all of them in a crash.
Abandon(lost) ==
  /\ lost # {}
  /\ trying' = trying \ lost
  /\ UNCHANGED <<completed, handled, skipped>>

Next ==
  \/ \E m \in Messages, t \in Tries :
       Begin(m, t) \/ Skip(m, t) \/ Complete(m, t) \/ Acknowledge(m, t)
  \/ \E lost \in SUBSET trying : Abandon(lost)

Spec == Init /\ [][Next]_abstractVars
================================================================================

--------------------------------- MODULE Chat ---------------------------------
(***************************************************************************)
(* Chat sessions: api/src/chat/chat.service.ts.  sendMessage records the   *)
(* message and dispatches an agent run in the background, under a          *)
(* semaphore of the service's own; the first message of an untitled        *)
(* session dispatches a TITLE run besides.  Sessions may be deleted at any *)
(* moment, which makes every later statement that names the session throw. *)
(*                                                                         *)
(* A send is numbered by arrival.  Its run is <<i, "CHAT">>, its title run *)
(* <<i, "TITLE">>.  acquire and release have no await in them, so each is  *)
(* part of the step that calls it.  touch (updatedAt only) and the agent's *)
(* output are left out.                                                    *)
(***************************************************************************)
EXTENDS Integers, FiniteSets, Sequences

CONSTANTS
  Sessions,     \* the chat sessions, all of them untitled
  Slots,        \* WORKER_CONCURRENCY, as the semaphore reads it
  MaxSends,     \* bound: messages ever sent
  MaxCrashes    \* bound: process crashes

ASSUME ChatAssumption ==
  /\ Slots \in Int
  /\ MaxSends \in Nat
  /\ MaxCrashes \in Nat

VARIABLES
  sessions,   \* the ChatSession rows
  titled,     \* those whose title is no longer the default
  messages,   \* the ChatMessage rows of each session, in order
  sends,      \* send -> [session, pc, first, history]
  agents,     \* dispatched runs -> [session, pc]
  active,     \* slots taken
  waiters,    \* runs waiting for a slot
  crashes     \* ghost: crashes so far

chatVars == <<sessions, titled, messages, sends, agents, active, waiters, crashes>>

Limit == IF Slots > 1 THEN Slots ELSE 1

Dispatched == (1..MaxSends) \X {"CHAT", "TITLE"}

ChatInit ==
  /\ sessions = Sessions
  /\ titled = {}
  /\ messages = [s \in Sessions |-> <<>>]
  /\ sends = <<>>
  /\ agents = <<>>
  /\ active = 0
  /\ waiters = <<>>
  /\ crashes = 0

-------------------------------------------------------------------------------
(* The semaphore.                                                          *)

\* acquire for the runs of R, one after the other: those beyond the free
\* slots wait.
Free == IF active < Limit THEN Limit - active ELSE 0

Least(a, b) == IF a < b THEN a ELSE b

Granted(R) == SubSeq(R, 1, Least(Free, Len(R)))

Queued(R) == SubSeq(R, Least(Free, Len(R)) + 1, Len(R))

InSeq(r, R) == \E i \in 1..Len(R) : R[i] = r

Acquire(R, s) ==
  /\ active' = active + Least(Free, Len(R))
  /\ waiters' = waiters \o Queued(R)
  /\ agents' = [r \in DOMAIN agents \cup {R[i] : i \in 1..Len(R)} |->
                  IF r \in DOMAIN agents THEN agents[r]
                  ELSE [session |-> s,
                        pc |-> IF InSeq(r, Granted(R)) THEN "start" ELSE "wait"]]

\* Fault: the slot is handed back, but nobody is woken.
ReleaseUnheard(a) ==
  /\ active' = active - 1
  /\ waiters' = waiters
  /\ agents' = [r \in DOMAIN agents \ {a} |-> agents[r]]

\* release, in the `finally` of both kinds of run: the first waiter takes the
\* slot over.
Release(a) ==
  /\ active' = IF waiters = <<>> THEN active - 1 ELSE active
  /\ waiters' = IF waiters = <<>> THEN <<>> ELSE Tail(waiters)
  /\ agents' = [r \in DOMAIN agents \ {a} |->
                  IF waiters # <<>> /\ r = Head(waiters)
                  THEN [agents[r] EXCEPT !.pc = "start"] ELSE agents[r]]

-------------------------------------------------------------------------------
(* sendMessage.                                                            *)

\* The session is read, then its messages are counted.
Receive(s) ==
  /\ s \in sessions
  /\ Cardinality(DOMAIN sends) < MaxSends
  /\ sends' = Append(sends, [session |-> s, pc |-> "count", first |-> s \notin titled,
                             history |-> <<>>])
  /\ UNCHANGED <<sessions, titled, messages, agents, active, waiters, crashes>>

SendAt(i, at) == i \in DOMAIN sends /\ sends[i].pc = at

Finish(i, pc) == sends' = [sends EXCEPT ![i].pc = pc]

Count(i) ==
  /\ SendAt(i, "count")
  /\ sends' = [sends EXCEPT ![i].pc = "insert",
                            ![i].first = @ /\ messages[sends[i].session] = <<>>]
  /\ UNCHANGED <<sessions, titled, messages, agents, active, waiters, crashes>>

Said(s, role, i) ==
  messages' = [messages EXCEPT ![s] = Append(@, [role |-> role, send |-> i])]

Insert(i) ==
  /\ SendAt(i, "insert")
  /\ IF sends[i].session \in sessions
     THEN Finish(i, "history") /\ Said(sends[i].session, "user", i)
     ELSE Finish(i, "thrown") /\ UNCHANGED messages
  /\ UNCHANGED <<sessions, titled, agents, active, waiters, crashes>>

\* Fault: the message just sent is left out.
ReadHistoryBefore(i) ==
  /\ SendAt(i, "history")
  /\ sends' = [sends EXCEPT ![i].pc = "prepare",
                 ![i].history = SelectSeq(messages[sends[i].session], LAMBDA m : m.send # i)]
  /\ UNCHANGED <<sessions, titled, messages, agents, active, waiters, crashes>>

\* The history that goes into the prompt.
ReadHistory(i) ==
  /\ SendAt(i, "history")
  /\ sends' = [sends EXCEPT ![i].pc = "prepare", ![i].history = messages[sends[i].session]]
  /\ UNCHANGED <<sessions, titled, messages, agents, active, waiters, crashes>>

\* workspace.prepare succeeds, and both runs are dispatched at once: the title
\* asks for its slot first.
Dispatch(i) ==
  /\ SendAt(i, "prepare")
  /\ Finish(i, "dispatched")
  /\ Acquire(IF sends[i].first THEN <<<<i, "TITLE">>, <<i, "CHAT">>>> ELSE <<<<i, "CHAT">>>>,
             sends[i].session)
  /\ UNCHANGED <<sessions, titled, messages, crashes>>

\* workspace.prepare fails: the message stays, and nobody answers it.
PrepareFails(i) ==
  /\ SendAt(i, "prepare")
  /\ Finish(i, "thrown")
  /\ UNCHANGED <<sessions, titled, messages, agents, active, waiters, crashes>>

-------------------------------------------------------------------------------
(* dispatchRun and generateTitle, once they have their slot.               *)

AgentAt(a, at) == a \in DOMAIN agents /\ agents[a].pc = at

\* A TITLE run has no owner, so a deleted session does not disturb it.
Exists(a) == a[2] = "TITLE" \/ agents[a].session \in sessions

\* Fault: an exception leaves the slot taken.
StartRunLeaking(a) ==
  /\ AgentAt(a, "start")
  /\ IF Exists(a)
     THEN agents' = [agents EXCEPT ![a].pc = "agent"]
     ELSE agents' = [r \in DOMAIN agents \ {a} |-> agents[r]]
  /\ UNCHANGED <<active, waiters, sessions, titled, messages, sends, crashes>>

\* agent.run creates its AgentRun row.
StartRun(a) ==
  /\ AgentAt(a, "start")
  /\ IF Exists(a)
     THEN agents' = [agents EXCEPT ![a].pc = "agent"] /\ UNCHANGED <<active, waiters>>
     ELSE Release(a)
  /\ UNCHANGED <<sessions, titled, messages, sends, crashes>>

\* The agent process ends, in whatever way, and the row is updated.
EndRun(a) ==
  /\ AgentAt(a, "agent")
  /\ IF Exists(a)
     THEN agents' = [agents EXCEPT ![a].pc = "reply"] /\ UNCHANGED <<active, waiters>>
     ELSE Release(a)
  /\ UNCHANGED <<sessions, titled, messages, sends, crashes>>

\* A failed run is answered as well, with a note that says so.
Reply(a) ==
  /\ AgentAt(a, "reply") /\ a[2] = "CHAT"
  /\ IF Exists(a) THEN Said(agents[a].session, "assistant", a[1]) ELSE UNCHANGED messages
  /\ Release(a)
  /\ UNCHANGED <<sessions, titled, sends, crashes>>

\* updateMany, on a session that still has the default title; or no title came.
SetTitle(a) ==
  /\ AgentAt(a, "reply") /\ a[2] = "TITLE"
  /\ titled' \in {titled, titled \cup ({agents[a].session} \cap sessions)}
  /\ Release(a)
  /\ UNCHANGED <<sessions, messages, sends, crashes>>

-------------------------------------------------------------------------------
\* The delete cascades to the messages; agents at work are not told.
DeleteSession(s) ==
  /\ s \in sessions
  /\ sessions' = sessions \ {s}
  /\ titled' = titled \ {s}
  /\ messages' = [messages EXCEPT ![s] = <<>>]
  /\ UNCHANGED <<sends, agents, active, waiters, crashes>>

\* Runs in the background are lost, and their messages stay unanswered.
ChatCrash ==
  /\ crashes < MaxCrashes
  /\ crashes' = crashes + 1
  /\ sends' = [i \in DOMAIN sends |-> [sends[i] EXCEPT !.pc = "lost"]]
  /\ agents' = <<>>
  /\ active' = 0
  /\ waiters' = <<>>
  /\ UNCHANGED <<sessions, titled, messages>>

RunProceeds(a) == StartRun(a) \/ EndRun(a) \/ Reply(a) \/ SetTitle(a)

ChatNext ==
  \/ \E s \in Sessions : Receive(s) \/ DeleteSession(s)
  \/ \E i \in 1..MaxSends :
       Count(i) \/ Insert(i) \/ ReadHistory(i) \/ Dispatch(i) \/ PrepareFails(i)
  \/ \E a \in Dispatched : RunProceeds(a)
  \/ ChatCrash

ChatSpec == ChatInit /\ [][ChatNext]_chatVars
================================================================================

------------------------------- MODULE ChatProps -------------------------------
(***************************************************************************)
(* What the chat service promises.                                         *)
(***************************************************************************)
EXTENDS Chat

Holding == {a \in DOMAIN agents : agents[a].pc # "wait"}

\* Every variable has its type, and the waiters are the runs that wait, each
\* of them once.
ChatTypeOK ==
  /\ sessions \subseteq Sessions /\ titled \subseteq sessions
  /\ \A s \in Sessions : \A i \in DOMAIN messages[s] :
       messages[s][i] \in [role: {"user", "assistant"}, send: 1..MaxSends]
  /\ \A i \in DOMAIN sends :
       /\ sends[i].session \in Sessions
       /\ sends[i].pc \in {"count", "insert", "history", "prepare", "dispatched",
                           "thrown", "lost"}
  /\ DOMAIN agents \subseteq Dispatched
  /\ \A i, k \in DOMAIN waiters : i # k => waiters[i] # waiters[k]
  /\ {waiters[i] : i \in DOMAIN waiters} = DOMAIN agents \ Holding

\* The semaphore counts right through every exception, deletion and crash: a
\* slot is held by exactly one run, so no more runs than slots are at work.
SlotsAccounted == active = Cardinality(Holding) /\ active <= Limit

\* No wakeup is lost: a run waits only while every slot is taken.
NoIdleSlot == waiters # <<>> => active = Limit

\* The prompt of a run ends with the conversation as far as the message it
\* answers, and nothing that was said before that message is missing; no message
\* has two replies, and none stands before its message.
PromptComplete ==
  /\ \A i \in DOMAIN sends : \A s \in sessions :
       sends[i].pc = "dispatched" /\ sends[i].session = s =>
         /\ \E k \in DOMAIN sends[i].history :
              sends[i].history[k] = [role |-> "user", send |-> i]
         /\ sends[i].history = SubSeq(messages[s], 1, Len(sends[i].history))
  /\ \A s \in Sessions : \A i, k \in DOMAIN messages[s] :
       messages[s][i].send = messages[s][k].send /\ i < k =>
         messages[s][i].role = "user" /\ messages[s][k].role = "assistant"

Answered(i) ==
  \E k \in DOMAIN messages[sends[i].session] :
    messages[sends[i].session][k] = [role |-> "assistant", send |-> i]

\* Fairness: an agent process ends (it is killed at its timeout), and the
\* database answers.
FairChatSpec ==
  ChatSpec /\ \A a \in Dispatched : WF_chatVars(RunProceeds(a))

\* Every message that was dispatched is answered, unless its session is
\* deleted or the process crashes first: nobody waits for a slot for ever.
TurnsAnswered ==
  \A i \in 1..MaxSends :
    (i \in DOMAIN sends /\ sends[i].pc = "dispatched") ~>
      (i \in DOMAIN sends
         /\ (sends[i].pc = "lost" \/ sends[i].session \notin sessions \/ Answered(i)))
================================================================================

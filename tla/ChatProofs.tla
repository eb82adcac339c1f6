------------------------------ MODULE ChatProofs ------------------------------
(***************************************************************************)
(* Theorems about Chat, for every number of sessions, slots, sends and     *)
(* crashes: the semaphore first, then what a slot is counted for, and what *)
(* is said in a session and what the prompts hold of it.                   *)
(***************************************************************************)
EXTENDS ChatProps, FiniteSetTheorems, TLAPS

\* The inductive invariant: the count never passes the limit, and is there
\* whenever somebody waits.
SemaphoreInv ==
  /\ active \in Int
  /\ active <= Limit
  /\ waiters \in Seq(Dispatched)
  /\ NoIdleSlot

\* The limit is a positive integer.
LEMMA LimitType == Limit \in Int /\ Limit >= 1
BY ChatAssumption DEF Limit

\* acquire, called for one run or for two, keeps the semaphore in order.
LEMMA AcquireKeeps ==
  ASSUME SemaphoreInv, NEW R \in Seq(Dispatched), NEW s, Acquire(R, s)
  PROVE  SemaphoreInv'
<1> DEFINE g == Least(Free, Len(R))
<1>1. Free \in Nat /\ (active < Limit => Free = Limit - active)
      /\ (active = Limit => Free = 0)
  BY LimitType DEF Free, SemaphoreInv
<1>2. g \in Nat /\ g <= Len(R) /\ g <= Free /\ (g = Free \/ g = Len(R))
  <2>1. Len(R) \in Nat
    OBVIOUS
  <2> QED BY <1>1, <2>1 DEF Least
<1>3. active' = active + g /\ waiters' = waiters \o Queued(R)
  BY DEF Acquire
<1>4. Queued(R) = SubSeq(R, g + 1, Len(R))
  BY DEF Queued
<1>5. Queued(R) \in Seq(Dispatched) /\ (g = Len(R) => Queued(R) = <<>>)
  <2>1. Len(R) \in Nat
    OBVIOUS
  <2> HIDE DEF g
  <2> QED BY <1>2, <1>4, <2>1
<1>6. active' \in Int /\ active' <= Limit
  BY <1>1, <1>2, <1>3, LimitType DEF SemaphoreInv
<1>7. waiters' \in Seq(Dispatched)
  BY <1>3, <1>5 DEF SemaphoreInv
<1>8. ASSUME waiters' # <<>> PROVE active' = Limit
  <2>1. CASE waiters # <<>>
    <3>1. active = Limit
      BY <2>1 DEF SemaphoreInv, NoIdleSlot
    <3> HIDE DEF g
    <3> QED BY <3>1, <1>1, <1>2, <1>3, LimitType
  <2>2. CASE waiters = <<>>
    <3>1. Queued(R) # <<>>
      BY <2>2, <1>3, <1>8, <1>5
    <3>2. g # Len(R)
      BY <3>1, <1>5
    <3> HIDE DEF g
    <3>3. g = Free
      BY <3>2, <1>2
    <3> QED BY <3>3, <1>1, <1>3, LimitType DEF SemaphoreInv
  <2> QED BY <2>1, <2>2
<1> QED BY <1>6, <1>7, <1>8 DEF SemaphoreInv, NoIdleSlot, Limit

\* release keeps it in order: a slot is given back only if nobody wants it.
LEMMA ReleaseKeeps ==
  ASSUME SemaphoreInv, NEW a, Release(a)
  PROVE  SemaphoreInv'
<1>1. CASE waiters = <<>>
  <2>1. active' = active - 1 /\ waiters' = <<>>
    BY <1>1 DEF Release
  <2> QED BY <2>1, LimitType DEF SemaphoreInv, NoIdleSlot, Limit
<1>2. CASE waiters # <<>>
  <2>1. active' = active /\ waiters' = Tail(waiters)
    BY <1>2 DEF Release
  <2>2. Tail(waiters) \in Seq(Dispatched)
    BY <1>2 DEF SemaphoreInv
  <2> QED BY <1>2, <2>1, <2>2 DEF SemaphoreInv, NoIdleSlot, Limit
<1> QED BY <1>1, <1>2

\* Steps that leave the semaphore alone.
LEMMA UntouchedKeeps ==
  ASSUME SemaphoreInv, UNCHANGED <<active, waiters>>
  PROVE  SemaphoreInv'
BY DEF SemaphoreInv, NoIdleSlot, Limit

\* Every step keeps the semaphore in order.
LEMMA SemaphoreStep == SemaphoreInv /\ [ChatNext]_chatVars => SemaphoreInv'
<1> SUFFICES ASSUME SemaphoreInv, [ChatNext]_chatVars PROVE SemaphoreInv'
  OBVIOUS
<1>1. ASSUME NEW s \in Sessions, Receive(s) \/ DeleteSession(s) PROVE SemaphoreInv'
  BY <1>1, UntouchedKeeps DEF Receive, DeleteSession
<1>2. ASSUME NEW i \in 1..MaxSends,
             Count(i) \/ Insert(i) \/ ReadHistory(i) \/ PrepareFails(i)
      PROVE  SemaphoreInv'
  BY <1>2, UntouchedKeeps DEF Count, Insert, ReadHistory, PrepareFails
<1>3. ASSUME NEW i \in 1..MaxSends, Dispatch(i) PROVE SemaphoreInv'
  <2> DEFINE R == IF sends[i].first THEN <<<<i, "TITLE">>, <<i, "CHAT">>>>
                  ELSE <<<<i, "CHAT">>>>
  <2>1. <<i, "TITLE">> \in Dispatched /\ <<i, "CHAT">> \in Dispatched
    BY DEF Dispatched
  <2>2. R \in Seq(Dispatched)
    BY <2>1
  <2>3. Acquire(R, sends[i].session)
    BY <1>3 DEF Dispatch
  <2> QED BY <2>2, <2>3, AcquireKeeps
<1>4. ASSUME NEW a \in Dispatched, RunProceeds(a) PROVE SemaphoreInv'
  <2>1. Release(a) \/ UNCHANGED <<active, waiters>>
    BY <1>4 DEF RunProceeds, StartRun, EndRun, Reply, SetTitle
  <2> QED BY <2>1, ReleaseKeeps, UntouchedKeeps
<1>5. CASE ChatCrash
  <2>1. active' = 0 /\ waiters' = <<>>
    BY <1>5 DEF ChatCrash
  <2> QED BY <2>1, LimitType DEF SemaphoreInv, NoIdleSlot, Limit
<1>6. CASE UNCHANGED chatVars
  BY <1>6, UntouchedKeeps DEF chatVars
<1> QED BY <1>1, <1>2, <1>3, <1>4, <1>5, <1>6 DEF ChatNext

\* No wakeup is lost (acquire and release of chat.service.ts): a run waits
\* only while all of the slots are taken, through every exception and crash.
THEOREM NoIdleSlotHolds == ChatSpec => []NoIdleSlot
<1>1. ChatInit => SemaphoreInv
  BY LimitType DEF ChatInit, SemaphoreInv, NoIdleSlot
<1>2. SemaphoreInv => NoIdleSlot
  BY DEF SemaphoreInv
<1> QED BY <1>1, <1>2, SemaphoreStep, PTL DEF ChatSpec

\* The semaphore never hands out more slots than WORKER_CONCURRENCY, and at
\* least one.
THEOREM SlotsBounded == ChatSpec => [](active <= Limit)
<1>1. ChatInit => SemaphoreInv
  BY LimitType DEF ChatInit, SemaphoreInv, NoIdleSlot
<1>2. SemaphoreInv => active <= Limit
  BY DEF SemaphoreInv
<1> QED BY <1>1, <1>2, SemaphoreStep, PTL DEF ChatSpec

-------------------------------------------------------------------------------
(* Types.                                                                  *)

Message == [role: {"user", "assistant"}, send: 1..MaxSends]

SendPcs ==
  {"count", "insert", "history", "prepare", "dispatched", "thrown", "lost"}

Send == [session: Sessions, pc: SendPcs, first: BOOLEAN, history: Seq(Message)]

AgentRec == [session: Sessions, pc: {"wait", "start", "agent", "reply"}]

Types ==
  /\ sessions \subseteq Sessions /\ titled \subseteq sessions
  /\ messages \in [Sessions -> Seq(Message)]
  /\ sends \in Seq(Send) /\ Len(sends) <= MaxSends
  /\ DOMAIN agents \subseteq Dispatched
  /\ agents \in [DOMAIN agents -> AgentRec]

\* acquire adds the runs it is called for, and no other.
LEMMA AcquireTypes ==
  ASSUME Types, NEW R \in Seq(Dispatched), NEW s \in Sessions, Acquire(R, s)
  PROVE  /\ DOMAIN agents' = DOMAIN agents \cup {R[i] : i \in 1..Len(R)}
         /\ DOMAIN agents' \subseteq Dispatched
         /\ agents' \in [DOMAIN agents' -> AgentRec]
         /\ \A r \in DOMAIN agents : agents'[r] = agents[r]
         /\ \A r \in DOMAIN agents' \ DOMAIN agents :
              /\ agents'[r].session = s
              /\ agents'[r].pc = IF InSeq(r, Granted(R)) THEN "start" ELSE "wait"
<1> DEFINE new(r) == [session |-> s, pc |-> IF InSeq(r, Granted(R)) THEN "start" ELSE "wait"]
<1>1. /\ DOMAIN agents' = DOMAIN agents \cup {R[i] : i \in 1..Len(R)}
      /\ agents' = [r \in DOMAIN agents' |-> IF r \in DOMAIN agents THEN agents[r] ELSE new(r)]
  BY DEF Acquire
<1>2. \A r : /\ new(r) \in AgentRec /\ new(r).session = s
             /\ new(r).pc = IF InSeq(r, Granted(R)) THEN "start" ELSE "wait"
  BY DEF AgentRec
<1> HIDE DEF new
<1>3. \A r \in DOMAIN agents : agents[r] \in AgentRec
  BY DEF Types
<1>4. {R[i] : i \in 1..Len(R)} \subseteq Dispatched
  <2>1. \A i \in 1..Len(R) : R[i] \in Dispatched
    OBVIOUS
  <2> QED BY <2>1
<1>5. /\ \A r \in DOMAIN agents : agents'[r] = agents[r]
      /\ \A r \in DOMAIN agents' \ DOMAIN agents : agents'[r] = new(r)
  BY <1>1
<1>6. agents' \in [DOMAIN agents' -> AgentRec]
  <2>1. \A r \in DOMAIN agents' : agents'[r] \in AgentRec
    BY <1>2, <1>3, <1>5
  <2>2. agents' = [r \in DOMAIN agents' |-> agents'[r]]
    BY <1>1
  <2> QED BY <2>1, <2>2
<1>7. DOMAIN agents' \subseteq Dispatched
  BY <1>1, <1>4 DEF Types
<1> QED BY <1>1, <1>2, <1>5, <1>6, <1>7

\* release removes the run that is over; the first waiter starts.
LEMMA ReleaseTypes ==
  ASSUME Types, NEW a, Release(a)
  PROVE  /\ DOMAIN agents' = DOMAIN agents \ {a}
         /\ DOMAIN agents' \subseteq Dispatched
         /\ agents' \in [DOMAIN agents' -> AgentRec]
         /\ \A r \in DOMAIN agents' :
              /\ agents'[r].session = agents[r].session
              /\ agents'[r].pc = IF waiters # <<>> /\ r = Head(waiters)
                                 THEN "start" ELSE agents[r].pc
<1>1. /\ DOMAIN agents' = DOMAIN agents \ {a}
      /\ \A r \in DOMAIN agents' :
           agents'[r] = IF waiters # <<>> /\ r = Head(waiters)
                        THEN [agents[r] EXCEPT !.pc = "start"] ELSE agents[r]
      /\ agents' = [r \in DOMAIN agents' |-> agents'[r]]
  BY DEF Release
<1>2. \A r \in DOMAIN agents :
        /\ agents[r] \in AgentRec /\ [agents[r] EXCEPT !.pc = "start"] \in AgentRec
        /\ [agents[r] EXCEPT !.pc = "start"].session = agents[r].session
        /\ [agents[r] EXCEPT !.pc = "start"].pc = "start"
  BY DEF Types, AgentRec
<1> QED BY <1>1, <1>2 DEF Types

\* A run that goes on stays what it is.
LEMMA ProceedTypes ==
  ASSUME Types, NEW a \in DOMAIN agents, NEW pc \in {"agent", "reply"},
         agents' = [agents EXCEPT ![a].pc = pc]
  PROVE  /\ DOMAIN agents' = DOMAIN agents
         /\ agents' \in [DOMAIN agents' -> AgentRec]
         /\ \A r \in DOMAIN agents :
              /\ agents'[r].session = agents[r].session
              /\ agents'[r].pc = IF r = a THEN pc ELSE agents[r].pc
<1>1. \A r \in DOMAIN agents :
        /\ agents[r] \in AgentRec /\ [agents[r] EXCEPT !.pc = pc] \in AgentRec
        /\ [agents[r] EXCEPT !.pc = pc].session = agents[r].session
        /\ [agents[r] EXCEPT !.pc = pc].pc = pc
  BY DEF Types, AgentRec
<1>2. /\ DOMAIN agents' = DOMAIN agents
      /\ \A r \in DOMAIN agents :
           agents'[r] = IF r = a THEN [agents[r] EXCEPT !.pc = pc] ELSE agents[r]
      /\ agents' = [r \in DOMAIN agents |-> agents'[r]]
  OBVIOUS
<1> QED BY <1>1, <1>2 DEF Types

\* A send that goes on keeps its session; every other one is left alone.
LEMMA SendTypes ==
  ASSUME Types, NEW i \in DOMAIN sends, NEW e \in Send,
         e.session = sends[i].session, sends' = [sends EXCEPT ![i] = e]
  PROVE  /\ sends' \in Seq(Send) /\ Len(sends') = Len(sends) /\ DOMAIN sends' = DOMAIN sends
         /\ sends'[i] = e
         /\ \A k \in DOMAIN sends : k # i => sends'[k] = sends[k]
BY DEF Types

\* What the updates of a send make of it.
LEMMA SendMoved ==
  ASSUME NEW e \in Send, NEW pc \in SendPcs
  PROVE  /\ [e EXCEPT !.pc = pc] \in Send
         /\ [e EXCEPT !.pc = pc].session = e.session
         /\ [e EXCEPT !.pc = pc].pc = pc
         /\ [e EXCEPT !.pc = pc].history = e.history
         /\ [e EXCEPT !.pc = pc].first = e.first
BY DEF Send

\* Count keeps the session and moves on to the insert.
LEMMA SendCounted ==
  ASSUME NEW e \in Send, NEW first \in BOOLEAN
  PROVE  /\ [e EXCEPT !.pc = "insert", !.first = first] \in Send
         /\ [e EXCEPT !.pc = "insert", !.first = first].session = e.session
         /\ [e EXCEPT !.pc = "insert", !.first = first].pc = "insert"
BY DEF Send, SendPcs

\* ReadHistory keeps the session and takes the history.
LEMMA SendRead ==
  ASSUME NEW e \in Send, NEW h \in Seq(Message)
  PROVE  /\ [e EXCEPT !.pc = "prepare", !.history = h] \in Send
         /\ [e EXCEPT !.pc = "prepare", !.history = h].session = e.session
         /\ [e EXCEPT !.pc = "prepare", !.history = h].pc = "prepare"
         /\ [e EXCEPT !.pc = "prepare", !.history = h].history = h
BY DEF Send, SendPcs

\* What a session's conversation becomes when something is said in it.
LEMMA SaidTypes ==
  ASSUME Types, NEW s \in Sessions, NEW role \in {"user", "assistant"}, NEW i \in 1..MaxSends,
         Said(s, role, i)
  PROVE  /\ messages' \in [Sessions -> Seq(Message)]
         /\ messages'[s] = Append(messages[s], [role |-> role, send |-> i])
         /\ \A u \in Sessions : u # s => messages'[u] = messages[u]
<1>1. [role |-> role, send |-> i] \in Message
  BY DEF Message
<1> DEFINE m == [role |-> role, send |-> i]
<1>2. messages' = [messages EXCEPT ![s] = Append(@, m)] /\ m \in Message
  BY <1>1 DEF Said
<1> HIDE DEF m
<1>3. /\ messages' \in [Sessions -> Seq(Message)]
      /\ messages'[s] = Append(messages[s], m)
      /\ \A u \in Sessions : u # s => messages'[u] = messages[u]
  BY <1>2 DEF Types
<1> QED BY <1>3 DEF m

\* The runs a message is dispatched for.
RunsOf(i) == IF sends[i].first THEN <<<<i, "TITLE">>, <<i, "CHAT">>>> ELSE <<<<i, "CHAT">>>>

\* They are one or two, all of the message's own.
LEMMA RunsOfType ==
  ASSUME NEW i \in 1..MaxSends
  PROVE  /\ RunsOf(i) \in Seq(Dispatched) /\ Len(RunsOf(i)) \in {1, 2}
         /\ \A k \in 1..Len(RunsOf(i)) : RunsOf(i)[k][1] = i
         /\ \A k, l \in 1..Len(RunsOf(i)) : k # l => RunsOf(i)[k] # RunsOf(i)[l]
         /\ Len(RunsOf(i)) = 2 => RunsOf(i)[1] = <<i, "TITLE">> /\ RunsOf(i)[2] = <<i, "CHAT">>
         /\ Len(RunsOf(i)) = 1 => RunsOf(i)[1] = <<i, "CHAT">>
<1>1. <<i, "TITLE">> \in Dispatched /\ <<i, "CHAT">> \in Dispatched
      /\ <<i, "TITLE">> # <<i, "CHAT">> /\ <<i, "TITLE">>[1] = i /\ <<i, "CHAT">>[1] = i
  BY DEF Dispatched
<1> DEFINE x == <<i, "TITLE">>
           y == <<i, "CHAT">>
<1> HIDE DEF x, y
<1>2. x \in Dispatched /\ y \in Dispatched /\ x # y /\ x[1] = i /\ y[1] = i
  BY <1>1 DEF x, y
<1>3. RunsOf(i) = IF sends[i].first THEN <<x, y>> ELSE <<y>>
  BY DEF RunsOf, x, y
<1>4. /\ RunsOf(i) \in Seq(Dispatched) /\ Len(RunsOf(i)) \in {1, 2}
      /\ \A k \in 1..Len(RunsOf(i)) : RunsOf(i)[k][1] = i
      /\ \A k, l \in 1..Len(RunsOf(i)) : k # l => RunsOf(i)[k] # RunsOf(i)[l]
      /\ Len(RunsOf(i)) = 2 => RunsOf(i)[1] = x /\ RunsOf(i)[2] = y
      /\ Len(RunsOf(i)) = 1 => RunsOf(i)[1] = y
  <2>1. CASE sends[i].first
    BY <1>2, <1>3, <2>1
  <2>2. CASE ~ sends[i].first
    BY <1>2, <1>3, <2>2
  <2> QED BY <2>1, <2>2
<1> QED BY <1>4 DEF x, y

\* Every type is kept by every step.
LEMMA TypesStep == Types /\ SemaphoreInv /\ [ChatNext]_chatVars => Types'
<1> SUFFICES ASSUME Types, SemaphoreInv, [ChatNext]_chatVars PROVE Types'
  OBVIOUS
<1>0. \A i \in DOMAIN sends :
        sends[i] \in Send /\ sends[i].session \in Sessions /\ sends[i].first \in BOOLEAN
  <2>1. \A i \in DOMAIN sends : sends[i] \in Send
    BY DEF Types
  <2> QED BY <2>1 DEF Send
<1>1. ASSUME NEW s \in Sessions, Receive(s) PROVE Types'
  <2> DEFINE e == [session |-> s, pc |-> "count", first |-> s \notin titled, history |-> <<>>]
  <2>1. e \in Send
    BY DEF Send, SendPcs
  <2>2. Cardinality(DOMAIN sends) = Len(sends) /\ Len(sends) \in Nat
    <3>1. DOMAIN sends = 1..Len(sends) /\ Len(sends) \in Nat
      BY DEF Types
    <3>2. Cardinality(1..Len(sends)) = IF 1 > Len(sends) THEN 0 ELSE Len(sends) - 1 + 1
      BY <3>1, FS_Interval
    <3> QED BY <3>1, <3>2
  <2>3. sends' = Append(sends, e) /\ Len(sends) < MaxSends
    BY <1>1, <2>2 DEF Receive
  <2> HIDE DEF e
  <2>4. sends' \in Seq(Send) /\ Len(sends') <= MaxSends
    BY <2>1, <2>2, <2>3, ChatAssumption DEF Types
  <2> QED BY <1>1, <2>4 DEF Receive, Types
<1>2. ASSUME NEW s \in Sessions, DeleteSession(s) PROVE Types'
  BY <1>2 DEF DeleteSession, Types
<1>3. ASSUME NEW i \in 1..MaxSends, Count(i) PROVE Types'
  <2>1. PICK first \in BOOLEAN : sends' = [sends EXCEPT ![i] = [@ EXCEPT !.pc = "insert", !.first = first]]
    <3>1. i \in DOMAIN sends /\ sends[i].first \in BOOLEAN
      BY <1>0, <1>3 DEF Count, SendAt
    <3> QED BY <1>3, <3>1 DEF Count
  <2>2. [sends[i] EXCEPT !.pc = "insert", !.first = first] \in Send
        /\ [sends[i] EXCEPT !.pc = "insert", !.first = first].session = sends[i].session
    BY <1>0, <1>3, SendCounted DEF Count, SendAt
  <2>3. sends' \in Seq(Send) /\ Len(sends') = Len(sends)
    BY <1>3, <2>1, <2>2, SendTypes DEF Count, SendAt
  <2> QED BY <1>3, <2>3 DEF Count, Types
<1>4. ASSUME NEW i \in 1..MaxSends, Insert(i) PROVE Types'
  <2>1. PICK pc \in {"history", "thrown"} : Finish(i, pc)
    BY <1>4 DEF Insert
  <2>2. i \in DOMAIN sends /\ sends' = [sends EXCEPT ![i] = [@ EXCEPT !.pc = pc]]
    BY <1>4, <2>1 DEF Insert, SendAt, Finish
  <2>3. [sends[i] EXCEPT !.pc = pc] \in Send
        /\ [sends[i] EXCEPT !.pc = pc].session = sends[i].session
    <3>1. sends[i] \in Send /\ pc \in SendPcs
      BY <1>0, <2>2 DEF SendPcs
    <3> QED BY <3>1, SendMoved
  <2>4. sends' \in Seq(Send) /\ Len(sends') = Len(sends)
    BY <2>2, <2>3, SendTypes
  <2>5. messages' \in [Sessions -> Seq(Message)]
    <3>1. UNCHANGED messages \/ Said(sends[i].session, "user", i)
      BY <1>4 DEF Insert
    <3> QED BY <1>0, <2>2, <3>1, SaidTypes DEF Types
  <2> QED BY <1>4, <2>4, <2>5 DEF Insert, Types
<1>5. ASSUME NEW i \in 1..MaxSends, ReadHistory(i) PROVE Types'
  <2> DEFINE h == messages[sends[i].session]
  <2>1. i \in DOMAIN sends /\ sends' = [sends EXCEPT ![i] = [@ EXCEPT !.pc = "prepare", !.history = h]]
    BY <1>5 DEF ReadHistory, SendAt
  <2>2. h \in Seq(Message)
    BY <1>0, <2>1 DEF Types
  <2> HIDE DEF h
  <2>3. [sends[i] EXCEPT !.pc = "prepare", !.history = h] \in Send
        /\ [sends[i] EXCEPT !.pc = "prepare", !.history = h].session = sends[i].session
    BY <1>0, <2>1, <2>2, SendRead
  <2>4. sends' \in Seq(Send) /\ Len(sends') = Len(sends)
    BY <2>1, <2>3, SendTypes
  <2> QED BY <1>5, <2>4 DEF ReadHistory, Types
<1>6. ASSUME NEW i \in 1..MaxSends, PrepareFails(i) \/ Dispatch(i) PROVE Types'
  <2>1. PICK pc \in {"thrown", "dispatched"} : Finish(i, pc)
    BY <1>6 DEF PrepareFails, Dispatch
  <2>2. i \in DOMAIN sends /\ sends' = [sends EXCEPT ![i] = [@ EXCEPT !.pc = pc]]
    BY <1>6, <2>1 DEF PrepareFails, Dispatch, SendAt, Finish
  <2>3. [sends[i] EXCEPT !.pc = pc] \in Send
        /\ [sends[i] EXCEPT !.pc = pc].session = sends[i].session
    <3>1. sends[i] \in Send /\ pc \in SendPcs
      BY <1>0, <2>2 DEF SendPcs
    <3> QED BY <3>1, SendMoved
  <2>4. sends' \in Seq(Send) /\ Len(sends') = Len(sends)
    BY <2>2, <2>3, SendTypes
  <2>5. CASE PrepareFails(i)
    BY <2>4, <2>5 DEF PrepareFails, Types
  <2>6. CASE Dispatch(i)
    <3>1. Acquire(RunsOf(i), sends[i].session) /\ sends[i].session \in Sessions
      BY <1>0, <2>2, <2>6 DEF Dispatch, RunsOf
    <3>2. DOMAIN agents' \subseteq Dispatched /\ agents' \in [DOMAIN agents' -> AgentRec]
      BY <3>1, RunsOfType, AcquireTypes
    <3> QED BY <2>4, <2>6, <3>2 DEF Dispatch, Types
  <2> QED BY <1>6, <2>5, <2>6
<1>7. ASSUME NEW a \in Dispatched, RunProceeds(a) PROVE Types'
  <2>1. DOMAIN agents' \subseteq Dispatched /\ agents' \in [DOMAIN agents' -> AgentRec]
    <3>1. CASE Release(a)
      BY <3>1, ReleaseTypes
    <3>2. CASE ~ Release(a)
      <4>1. a \in DOMAIN agents /\ \E pc \in {"agent", "reply"} : agents' = [agents EXCEPT ![a].pc = pc]
        BY <1>7, <3>2 DEF RunProceeds, StartRun, EndRun, Reply, SetTitle, AgentAt
      <4>2. DOMAIN agents \subseteq Dispatched
        BY DEF Types
      <4> QED BY <4>1, <4>2, ProceedTypes
    <3> QED BY <3>1, <3>2
  <2>2. messages' \in [Sessions -> Seq(Message)]
    <3>1. CASE messages' = messages
      BY <3>1 DEF Types
    <3>2. CASE messages' # messages
      <4>1. Said(agents[a].session, "assistant", a[1])
        BY <1>7, <3>2 DEF RunProceeds, StartRun, EndRun, Reply, SetTitle
      <4>2. a \in DOMAIN agents /\ a[1] \in 1..MaxSends
        BY <1>7 DEF RunProceeds, StartRun, EndRun, Reply, SetTitle, AgentAt, Dispatched
      <4>3. agents[a].session \in Sessions
        BY <4>2 DEF Types, AgentRec
      <4> QED BY <4>1, <4>2, <4>3, SaidTypes
    <3> QED BY <3>1, <3>2
  <2>3. sends' = sends /\ sessions' = sessions /\ titled' \subseteq sessions
    <3>1. titled' \in {titled, titled \cup ({agents[a].session} \cap sessions)}
      BY <1>7 DEF RunProceeds, StartRun, EndRun, Reply, SetTitle
    <3> QED BY <1>7, <3>1 DEF RunProceeds, StartRun, EndRun, Reply, SetTitle, Types
  <2> QED BY <2>1, <2>2, <2>3 DEF Types
<1>8. CASE ChatCrash
  <2>1. /\ sends' = [i \in 1..Len(sends) |-> [sends[i] EXCEPT !.pc = "lost"]]
        /\ Len(sends) \in Nat
    BY <1>8 DEF ChatCrash, Types
  <2>2. \A i \in 1..Len(sends) : [sends[i] EXCEPT !.pc = "lost"] \in Send
    <3> TAKE i \in 1..Len(sends)
    <3>1. sends[i] \in Send /\ "lost" \in SendPcs
      BY DEF SendPcs, Types
    <3> QED BY <3>1, SendMoved
  <2>3. sends' \in Seq(Send) /\ Len(sends') = Len(sends)
    BY <2>1, <2>2
  <2> QED BY <1>8, <2>3 DEF ChatCrash, Types
<1>9. CASE UNCHANGED chatVars
  BY <1>9 DEF chatVars, Types
<1> QED BY <1>1, <1>2, <1>3, <1>4, <1>5, <1>6, <1>7, <1>8, <1>9 DEF ChatNext

-------------------------------------------------------------------------------
(* Whose run is whose.                                                     *)

\* A run belongs to a message that was dispatched.
Owned ==
  \A a \in DOMAIN agents :
    /\ a[1] \in DOMAIN sends
    /\ sends[a[1]].pc = "dispatched" /\ sends[a[1]].session = agents[a].session

\* One message moves on from pc to e.pc, all else about the messages is as it was.
SendMoves(i, pc, e) ==
  /\ i \in DOMAIN sends /\ sends[i].pc = pc /\ e \in Send /\ e.session = sends[i].session
  /\ DOMAIN sends' = DOMAIN sends /\ sends'[i] = e
  /\ \A k \in DOMAIN sends : k # i => sends'[k] = sends[k]

\* The steps of sendMessage.
LEMMA SendSteps ==
  ASSUME Types, NEW i \in 1..MaxSends
  PROVE  /\ Count(i) => \E e : SendMoves(i, "count", e) /\ e.pc = "insert"
         /\ Insert(i) =>
              \E e : /\ SendMoves(i, "insert", e)
                     /\ e.pc = IF sends[i].session \in sessions THEN "history" ELSE "thrown"
         /\ ReadHistory(i) =>
              \E e : /\ SendMoves(i, "history", e)
                     /\ e.pc = "prepare" /\ e.history = messages[sends[i].session]
         /\ Dispatch(i) =>
              \E e : /\ SendMoves(i, "prepare", e)
                     /\ e.pc = "dispatched" /\ e.history = sends[i].history
         /\ PrepareFails(i) => \E e : SendMoves(i, "prepare", e) /\ e.pc = "thrown"
<1>0. \A k \in DOMAIN sends :
        sends[k] \in Send /\ sends[k].session \in Sessions /\ sends[k].first \in BOOLEAN
  <2>1. \A k \in DOMAIN sends : sends[k] \in Send
    BY DEF Types
  <2> QED BY <2>1 DEF Send
<1>1. ASSUME Count(i) PROVE \E e : SendMoves(i, "count", e) /\ e.pc = "insert"
  <2>1. i \in DOMAIN sends /\ sends[i].pc = "count"
    BY <1>1 DEF Count, SendAt
  <2>2. PICK first \in BOOLEAN : sends' = [sends EXCEPT ![i] = [@ EXCEPT !.pc = "insert", !.first = first]]
    BY <1>0, <1>1, <2>1 DEF Count
  <2> DEFINE e == [sends[i] EXCEPT !.pc = "insert", !.first = first]
  <2>3. e \in Send /\ e.session = sends[i].session /\ e.pc = "insert"
    <3>1. sends[i] \in Send
      BY <1>0, <2>1
    <3> QED BY <3>1, SendCounted
  <2>4. sends' = [sends EXCEPT ![i] = e]
    BY <2>2
  <2> HIDE DEF e
  <2>5. SendMoves(i, "count", e)
    BY <2>1, <2>3, <2>4, SendTypes DEF SendMoves
  <2> QED BY <2>3, <2>5
<1>2. ASSUME NEW at, SendAt(i, at), NEW pc \in SendPcs, Finish(i, pc)
      PROVE  \E e : SendMoves(i, at, e) /\ e.pc = pc /\ e.history = sends[i].history
  <2>1. i \in DOMAIN sends /\ sends[i].pc = at
    BY <1>2 DEF SendAt
  <2> DEFINE e == [sends[i] EXCEPT !.pc = pc]
  <2>3. /\ e \in Send /\ e.session = sends[i].session /\ e.pc = pc
        /\ e.history = sends[i].history
    BY <1>0, <2>1, SendMoved
  <2>4. sends' = [sends EXCEPT ![i] = e]
    BY <1>2 DEF Finish
  <2> HIDE DEF e
  <2>5. SendMoves(i, at, e)
    BY <2>1, <2>3, <2>4, SendTypes DEF SendMoves
  <2> QED BY <2>3, <2>5
<1>3. ASSUME Insert(i)
      PROVE  \E e : /\ SendMoves(i, "insert", e)
                    /\ e.pc = IF sends[i].session \in sessions THEN "history" ELSE "thrown"
  <2>1. SendAt(i, "insert")
    BY <1>3 DEF Insert
  <2>2. CASE sends[i].session \in sessions
    BY <1>2, <1>3, <2>1, <2>2 DEF Insert, SendPcs
  <2>3. CASE sends[i].session \notin sessions
    BY <1>2, <1>3, <2>1, <2>3 DEF Insert, SendPcs
  <2> QED BY <2>2, <2>3
<1>4. ASSUME ReadHistory(i)
      PROVE  \E e : /\ SendMoves(i, "history", e)
                    /\ e.pc = "prepare" /\ e.history = messages[sends[i].session]
  <2>1. i \in DOMAIN sends /\ sends[i].pc = "history"
    BY <1>4 DEF ReadHistory, SendAt
  <2> DEFINE h == messages[sends[i].session]
             e == [sends[i] EXCEPT !.pc = "prepare", !.history = h]
  <2>2. h \in Seq(Message)
    BY <1>0, <2>1 DEF Types
  <2>3. e \in Send /\ e.session = sends[i].session /\ e.pc = "prepare" /\ e.history = h
    <3> HIDE DEF h
    <3> QED BY <1>0, <2>1, <2>2, SendRead
  <2>4. sends' = [sends EXCEPT ![i] = e]
    BY <1>4 DEF ReadHistory
  <2> HIDE DEF e
  <2>5. SendMoves(i, "history", e)
    BY <2>1, <2>3, <2>4, SendTypes DEF SendMoves
  <2> QED BY <2>3, <2>5
<1>5. ASSUME Dispatch(i)
      PROVE  \E e : /\ SendMoves(i, "prepare", e)
                    /\ e.pc = "dispatched" /\ e.history = sends[i].history
  BY <1>2, <1>5 DEF Dispatch, SendPcs
<1>6. ASSUME PrepareFails(i) PROVE \E e : SendMoves(i, "prepare", e) /\ e.pc = "thrown"
  BY <1>2, <1>6 DEF PrepareFails, SendPcs
<1> QED BY <1>1, <1>3, <1>4, <1>5, <1>6

\* A new message.
LEMMA Received ==
  ASSUME Types, NEW s \in Sessions, Receive(s)
  PROVE  \E k : /\ k \notin DOMAIN sends /\ DOMAIN sends' = DOMAIN sends \cup {k}
                /\ sends'[k].pc = "count" /\ \A i \in DOMAIN sends : sends'[i] = sends[i]
<1> DEFINE e == [session |-> s, pc |-> "count", first |-> s \notin titled, history |-> <<>>]
<1>1. e \in Send /\ e.pc = "count"
  BY DEF Send, SendPcs
<1>2. sends' = Append(sends, e)
  BY DEF Receive
<1> HIDE DEF e
<1>3. /\ DOMAIN sends = 1..Len(sends) /\ Len(sends) \in Nat
      /\ DOMAIN sends' = 1..(Len(sends) + 1)
      /\ sends'[Len(sends) + 1] = e /\ \A i \in 1..Len(sends) : sends'[i] = sends[i]
  BY <1>1, <1>2 DEF Types
<1>4. 1..(Len(sends) + 1) = 1..Len(sends) \cup {Len(sends) + 1}
  BY <1>3
<1> QED BY <1>1, <1>3, <1>4

\* A run that proceeds goes on, or is over and hands its slot on.
LEMMA RunEffect ==
  ASSUME Types, NEW a \in Dispatched, RunProceeds(a)
  PROVE  /\ a \in DOMAIN agents /\ agents[a].pc # "wait"
         /\ DOMAIN agents' \subseteq DOMAIN agents
         /\ \A r \in DOMAIN agents' : agents'[r].session = agents[r].session
         /\ \/ Release(a) /\ DOMAIN agents' = DOMAIN agents \ {a}
            \/ /\ UNCHANGED <<active, waiters>> /\ DOMAIN agents' = DOMAIN agents
               /\ \E pc \in {"agent", "reply"} :
                    \A r \in DOMAIN agents : agents'[r].pc = IF r = a THEN pc ELSE agents[r].pc
<1>1. a \in DOMAIN agents /\ agents[a].pc # "wait"
  BY DEF RunProceeds, StartRun, EndRun, Reply, SetTitle, AgentAt
<1>2. CASE Release(a)
  BY <1>1, <1>2, ReleaseTypes
<1>3. CASE ~ Release(a)
  <2>1. /\ UNCHANGED <<active, waiters>>
        /\ \E pc \in {"agent", "reply"} : agents' = [agents EXCEPT ![a].pc = pc]
    BY <1>3 DEF RunProceeds, StartRun, EndRun, Reply, SetTitle
  <2> QED BY <1>1, <2>1, ProceedTypes
<1> QED BY <1>2, <1>3

\* Every step keeps the runs with their messages.
LEMMA OwnedStep == Types /\ Owned /\ [ChatNext]_chatVars => Owned'
<1> SUFFICES ASSUME Types, Owned, [ChatNext]_chatVars PROVE Owned'
  OBVIOUS
<1>1. ASSUME NEW s \in Sessions, Receive(s) PROVE Owned'
  <2>1. agents' = agents
    BY <1>1 DEF Receive
  <2> QED BY <1>1, <2>1, Received DEF Owned
<1>2. ASSUME NEW s \in Sessions, DeleteSession(s) PROVE Owned'
  BY <1>2 DEF DeleteSession, Owned
<1>3. ASSUME NEW i \in 1..MaxSends, Count(i) \/ Insert(i) \/ ReadHistory(i) \/ PrepareFails(i)
      PROVE  Owned'
  <2>1. agents' = agents
    BY <1>3 DEF Count, Insert, ReadHistory, PrepareFails
  <2>2. \E pc, e : SendMoves(i, pc, e) /\ pc \in {"count", "insert", "history", "prepare"}
    BY <1>3, SendSteps
  <2>3. \A a \in DOMAIN agents : a[1] # i
    BY <2>2 DEF Owned, SendMoves
  <2> QED BY <2>1, <2>2, <2>3 DEF Owned, SendMoves
<1>4. ASSUME NEW i \in 1..MaxSends, Dispatch(i) PROVE Owned'
  <2>1. PICK e : SendMoves(i, "prepare", e) /\ e.pc = "dispatched"
    BY <1>4, SendSteps
  <2>2. \A a \in DOMAIN agents : a[1] # i
    BY <2>1 DEF Owned, SendMoves
  <2>3. sends[i].session \in Sessions
    <3>1. sends[i] \in Send
      BY <2>1 DEF SendMoves, Types
    <3> QED BY <3>1 DEF Send
  <2>4. Acquire(RunsOf(i), sends[i].session)
    BY <1>4 DEF Dispatch, RunsOf
  <2>5. /\ DOMAIN agents' = DOMAIN agents \cup {RunsOf(i)[k] : k \in 1..Len(RunsOf(i))}
        /\ \A r \in DOMAIN agents : agents'[r] = agents[r]
        /\ \A r \in DOMAIN agents' \ DOMAIN agents : agents'[r].session = sends[i].session
    <3>1. RunsOf(i) \in Seq(Dispatched)
      BY RunsOfType
    <3> QED BY <2>3, <2>4, <3>1, AcquireTypes
  <2>6. ASSUME NEW a \in DOMAIN agents'
        PROVE  /\ a[1] \in DOMAIN sends' /\ sends'[a[1]].pc = "dispatched"
               /\ sends'[a[1]].session = agents'[a].session
    <3>1. CASE a \in DOMAIN agents
      BY <2>1, <2>2, <2>5, <3>1 DEF Owned, SendMoves
    <3>2. CASE a \notin DOMAIN agents
      <4>1. a[1] = i
        BY <2>5, <3>2, RunsOfType
      <4> QED BY <2>1, <2>5, <3>2, <4>1 DEF SendMoves
    <3> QED BY <3>1, <3>2
  <2> QED BY <2>6 DEF Owned
<1>5. ASSUME NEW a \in Dispatched, RunProceeds(a) PROVE Owned'
  <2>1. sends' = sends
    BY <1>5 DEF RunProceeds, StartRun, EndRun, Reply, SetTitle
  <2> QED BY <1>5, <2>1, RunEffect DEF Owned
<1>6. CASE ChatCrash
  BY <1>6 DEF ChatCrash, Owned
<1>7. CASE UNCHANGED chatVars
  BY <1>7 DEF chatVars, Owned
<1> QED BY <1>1, <1>2, <1>3, <1>4, <1>5, <1>6, <1>7 DEF ChatNext

-------------------------------------------------------------------------------
(* Who holds a slot, and who waits for one.                                *)

Waiting == {waiters[k] : k \in 1..Len(waiters)}

Slotted ==
  /\ IsFiniteSet(DOMAIN agents)
  /\ active = Cardinality(Holding)
  /\ \A k, l \in 1..Len(waiters) : k # l => waiters[k] # waiters[l]
  /\ Waiting = DOMAIN agents \ Holding

\* acquire, for one run or two that are new: as many as are granted a slot
\* hold one, the others wait in line.
LEMMA AcquireSlots ==
  ASSUME Types, SemaphoreInv, Slotted, NEW R \in Seq(Dispatched), NEW s \in Sessions,
         Acquire(R, s), Len(R) \in {1, 2},
         \A k, l \in 1..Len(R) : k # l => R[k] # R[l],
         \A k \in 1..Len(R) : R[k] \notin DOMAIN agents
  PROVE  Slotted'
<1> DEFINE g == Least(Free, Len(R))
<1>1. g \in 0..2 /\ g <= Len(R)
  <2>1. Free \in Nat
    BY LimitType DEF Free, SemaphoreInv
  <2> QED BY <2>1 DEF Least
<1>2. /\ active' = active + g /\ waiters' = waiters \o SubSeq(R, g + 1, Len(R))
      /\ Granted(R) = SubSeq(R, 1, g)
  BY DEF Acquire, Queued, Granted
<1> HIDE DEF g
<1>3. \A k \in 1..Len(R) : InSeq(R[k], Granted(R)) <=> k <= g
  <2>1. Len(Granted(R)) = g /\ \A l \in 1..g : Granted(R)[l] = R[l]
    BY <1>1, <1>2
  <2> QED BY <1>1, <2>1 DEF InSeq
<1>4. /\ DOMAIN agents' = DOMAIN agents \cup {R[k] : k \in 1..Len(R)}
      /\ \A r \in DOMAIN agents : agents'[r] = agents[r]
      /\ \A k \in 1..Len(R) : agents'[R[k]].pc = IF k <= g THEN "start" ELSE "wait"
  <2>1. /\ DOMAIN agents' = DOMAIN agents \cup {R[i] : i \in 1..Len(R)}
        /\ \A r \in DOMAIN agents : agents'[r] = agents[r]
        /\ \A r \in DOMAIN agents' \ DOMAIN agents :
             agents'[r].pc = IF InSeq(r, Granted(R)) THEN "start" ELSE "wait"
    BY AcquireTypes
  <2>2. \A k \in 1..Len(R) : R[k] \in DOMAIN agents' \ DOMAIN agents
    BY <2>1
  <2> QED BY <1>3, <2>1, <2>2
<1> DEFINE new == {R[k] : k \in 1..g}
           old == {R[k] : k \in (g + 1)..Len(R)}
<1>5. Holding' = Holding \cup new
  <2>1. \A k \in 1..Len(R) : k \in 1..g <=> k <= g
    BY <1>1
  <2>2. \A r : r \in Holding' <=> r \in Holding \/ \E k \in 1..Len(R) : r = R[k] /\ k <= g
    BY <1>4 DEF Holding
  <2>3. 1..g \subseteq 1..Len(R)
    BY <1>1
  <2> QED BY <2>1, <2>2, <2>3
<1>6. /\ IsFiniteSet(Holding) /\ Cardinality(Holding) \in Nat
      /\ IsFiniteSet(DOMAIN agents')
  <2>1. Holding \subseteq DOMAIN agents
    BY DEF Holding
  <2>2. IsFiniteSet(Holding)
    BY <2>1, FS_Subset DEF Slotted
  <2>3. CASE Len(R) = 1
    <3>1. DOMAIN agents' = DOMAIN agents \cup {R[1]}
      BY <1>4, <2>3
    <3> QED BY <2>2, <3>1, FS_AddElement, FS_CardinalityType DEF Slotted
  <2>4. CASE Len(R) = 2
    <3>1. DOMAIN agents' = (DOMAIN agents \cup {R[1]}) \cup {R[2]}
      BY <1>4, <2>4
    <3>2. IsFiniteSet(DOMAIN agents \cup {R[1]})
      BY FS_AddElement DEF Slotted
    <3>3. IsFiniteSet((DOMAIN agents \cup {R[1]}) \cup {R[2]})
      BY <3>2, FS_AddElement
    <3>4. Cardinality(Holding) \in Nat
      BY <2>2, FS_CardinalityType
    <3> QED BY <2>2, <3>1, <3>3, <3>4
  <2> QED BY <2>3, <2>4
<1>7. Cardinality(Holding') = Cardinality(Holding) + g
  <2>0. \A k \in 1..Len(R) : R[k] \notin Holding
    BY DEF Holding
  <2>1. CASE g = 0
    <3>1. Holding' = Holding
      BY <1>5, <2>1
    <3> QED BY <1>6, <2>1, <3>1
  <2>2. CASE g = 1
    <3>1. Holding' = Holding \cup {R[1]} /\ R[1] \notin Holding
      BY <1>1, <1>5, <2>0, <2>2
    <3> QED BY <1>6, <2>2, <3>1, FS_AddElement
  <2>3. CASE g = 2
    <3>1. Holding' = (Holding \cup {R[1]}) \cup {R[2]}
      BY <1>5, <2>3
    <3>2. R[1] \notin Holding /\ R[2] \notin Holding \cup {R[1]}
      BY <1>1, <2>0, <2>3
    <3>3. /\ IsFiniteSet(Holding \cup {R[1]})
          /\ Cardinality(Holding \cup {R[1]}) = Cardinality(Holding) + 1
      BY <1>6, <3>2, FS_AddElement
    <3>4. Cardinality((Holding \cup {R[1]}) \cup {R[2]}) = Cardinality(Holding \cup {R[1]}) + 1
      BY <3>2, <3>3, FS_AddElement
    <3> QED BY <1>6, <2>3, <3>1, <3>3, <3>4
  <2> QED BY <1>1, <2>1, <2>2, <2>3
<1>8. active' = Cardinality(Holding')
  BY <1>2, <1>7 DEF Slotted
<1> DEFINE n == Len(waiters)
<1>9. /\ n \in Nat /\ Len(waiters') = n + (Len(R) - g)
      /\ \A k \in 1..n : waiters'[k] = waiters[k]
      /\ \A k \in 1..(Len(R) - g) : waiters'[n + k] = R[g + k]
  <2> DEFINE Q == SubSeq(R, g + 1, Len(R))
  <2>1. /\ Q \in Seq(Dispatched) /\ Len(Q) = Len(R) - g
        /\ \A k \in 1..(Len(R) - g) : Q[k] = R[g + k]
    BY <1>1
  <2>2. waiters \in Seq(Dispatched) /\ waiters' = waiters \o Q
    BY <1>2 DEF SemaphoreInv
  <2> HIDE DEF Q
  <2>3. /\ Len(waiters) \in Nat /\ Len(waiters') = Len(waiters) + Len(Q)
        /\ \A k \in 1..Len(waiters) : waiters'[k] = waiters[k]
        /\ \A k \in 1..Len(Q) : waiters'[Len(waiters) + k] = Q[k]
    BY <2>1, <2>2
  <2> QED BY <1>1, <2>1, <2>3
<1>10. \A k \in 1..Len(waiters') :
         \/ k \in 1..n
         \/ \E l \in 1..(Len(R) - g) : k = n + l
  <2> SUFFICES ASSUME NEW k \in 1..Len(waiters'), k \notin 1..n
               PROVE  \E l \in 1..(Len(R) - g) : k = n + l
    OBVIOUS
  <2>1. k - n \in 1..(Len(R) - g) /\ k = n + (k - n)
    BY <1>1, <1>9
  <2> QED BY <2>1
<1>11. \A k \in 1..n : waiters[k] \in DOMAIN agents
  BY DEF Slotted, Waiting
<1>12. \A k, l \in 1..Len(waiters') : k # l => waiters'[k] # waiters'[l]
  <2> SUFFICES ASSUME NEW k \in 1..Len(waiters'), NEW l \in 1..Len(waiters'), k # l
               PROVE  waiters'[k] # waiters'[l]
    OBVIOUS
  <2>0. \A m \in 1..(Len(R) - g) : g + m \in 1..Len(R)
    BY <1>1
  <2>1. CASE k \in 1..n /\ l \in 1..n
    BY <1>9, <2>1 DEF Slotted
  <2>2. CASE k \in 1..n /\ l \notin 1..n
    <3>1. PICK m \in 1..(Len(R) - g) : l = n + m
      BY <1>10, <2>2
    <3>2. waiters'[l] \notin DOMAIN agents
      BY <1>9, <2>0, <3>1
    <3> QED BY <1>9, <1>11, <2>2, <3>2
  <2>3. CASE k \notin 1..n /\ l \in 1..n
    <3>1. PICK m \in 1..(Len(R) - g) : k = n + m
      BY <1>10, <2>3
    <3>2. waiters'[k] \notin DOMAIN agents
      BY <1>9, <2>0, <3>1
    <3> QED BY <1>9, <1>11, <2>3, <3>2
  <2>4. CASE k \notin 1..n /\ l \notin 1..n
    <3>1. PICK x \in 1..(Len(R) - g) : k = n + x
      BY <1>10, <2>4
    <3>2. PICK y \in 1..(Len(R) - g) : l = n + y
      BY <1>10, <2>4
    <3>3. g + x \in 1..Len(R) /\ g + y \in 1..Len(R) /\ g + x # g + y
      BY <1>1, <1>9, <2>0, <3>1, <3>2
    <3> QED BY <1>9, <3>1, <3>2, <3>3
  <2> QED BY <2>1, <2>2, <2>3, <2>4
<1>13. Waiting' = DOMAIN agents' \ Holding'
  <2>1. \A r : r \in Waiting' <=> r \in Waiting \/ \E k \in 1..Len(R) : r = R[k] /\ k > g
    <3> TAKE r
    <3>1. ASSUME r \in Waiting' PROVE r \in Waiting \/ \E k \in 1..Len(R) : r = R[k] /\ k > g
      <4>1. PICK k \in 1..Len(waiters') : r = waiters'[k]
        BY <3>1 DEF Waiting
      <4>2. CASE k \in 1..n
        BY <1>9, <4>1, <4>2 DEF Waiting
      <4>3. CASE k \notin 1..n
        <5>1. PICK l \in 1..(Len(R) - g) : k = n + l
          BY <1>10, <4>3
        <5>2. g + l \in 1..Len(R) /\ g + l > g
          BY <1>1
        <5> QED BY <1>9, <4>1, <5>1, <5>2
      <4> QED BY <4>2, <4>3
    <3>2. ASSUME r \in Waiting PROVE r \in Waiting'
      <4>1. PICK k \in 1..n : r = waiters[k]
        BY <3>2 DEF Waiting
      <4>2. k \in 1..Len(waiters')
        BY <1>1, <1>9
      <4> QED BY <1>9, <4>1, <4>2 DEF Waiting
    <3>3. ASSUME NEW k \in 1..Len(R), r = R[k], k > g PROVE r \in Waiting'
      <4>1. k - g \in 1..(Len(R) - g) /\ g + (k - g) = k
        BY <1>1, <3>3
      <4>2. n + (k - g) \in 1..Len(waiters')
        BY <1>1, <1>9, <4>1
      <4>3. waiters'[n + (k - g)] = R[k]
        BY <1>9, <4>1
      <4> QED BY <3>3, <4>2, <4>3 DEF Waiting
    <3> QED BY <3>1, <3>2, <3>3
  <2>2. \A r : r \in DOMAIN agents' \ Holding' <=>
              \/ r \in DOMAIN agents \ Holding
              \/ \E k \in 1..Len(R) : r = R[k] /\ k > g
    BY <1>1, <1>4 DEF Holding
  <2> QED BY <2>1, <2>2 DEF Slotted
<1> QED BY <1>6, <1>8, <1>12, <1>13 DEF Slotted

\* release hands the slot to the run that has waited longest, or gives it back.
LEMMA ReleaseSlots ==
  ASSUME Types, SemaphoreInv, Slotted, NEW a \in DOMAIN agents, agents[a].pc # "wait",
         Release(a)
  PROVE  Slotted'
<1>1. /\ DOMAIN agents' = DOMAIN agents \ {a}
      /\ \A r \in DOMAIN agents' :
           agents'[r].pc = IF waiters # <<>> /\ r = Head(waiters) THEN "start" ELSE agents[r].pc
  BY ReleaseTypes
<1>2. /\ a \in Holding /\ Holding \subseteq DOMAIN agents
      /\ IsFiniteSet(DOMAIN agents')
  BY <1>1, FS_RemoveElement DEF Holding, Slotted
<1>3. /\ IsFiniteSet(Holding) /\ IsFiniteSet(Holding \ {a})
      /\ Cardinality(Holding \ {a}) = Cardinality(Holding) - 1 /\ Cardinality(Holding) \in Nat
  BY <1>2, FS_Subset, FS_RemoveElement, FS_CardinalityType DEF Slotted
<1>4. CASE waiters = <<>>
  <2>1. active' = active - 1 /\ waiters' = <<>>
    BY <1>4 DEF Release
  <2>2. Holding' = Holding \ {a}
    BY <1>1, <1>4 DEF Holding
  <2>3. Waiting = {} /\ Waiting' = {}
    BY <1>4, <2>1 DEF Waiting
  <2>4. Waiting' = DOMAIN agents' \ Holding'
    BY <1>1, <2>2, <2>3 DEF Slotted
  <2> QED BY <1>2, <1>3, <2>1, <2>2, <2>4 DEF Slotted
<1>5. CASE waiters # <<>>
  <2> DEFINE w == Head(waiters)
             n == Len(waiters)
  <2>1. active' = active /\ waiters' = Tail(waiters)
    BY <1>5 DEF Release
  <2>2. /\ n \in Nat /\ n >= 1 /\ w = waiters[1] /\ Len(waiters') = n - 1
        /\ \A k \in 1..(n - 1) : waiters'[k] = waiters[k + 1]
    BY <1>5, <2>1 DEF SemaphoreInv
  <2>3. w \in DOMAIN agents \ Holding /\ w # a
    <3>1. w \in Waiting
      BY <2>2 DEF Waiting
    <3> QED BY <1>2, <3>1 DEF Slotted
  <2>4. Holding' = (Holding \ {a}) \cup {w}
    <3> HIDE DEF w
    <3>1. \A r \in DOMAIN agents' : agents'[r].pc = IF r = w THEN "start" ELSE agents[r].pc
      BY <1>1, <1>5 DEF w
    <3> QED BY <1>1, <2>3, <3>1 DEF Holding
  <2>5. Cardinality(Holding') = Cardinality(Holding)
    <3> HIDE DEF w
    <3>1. Cardinality((Holding \ {a}) \cup {w}) = Cardinality(Holding \ {a}) + 1
      BY <1>3, <2>3, FS_AddElement
    <3>2. Cardinality(Holding \ {a}) + 1 = Cardinality(Holding)
      BY <1>3
    <3> QED BY <2>4, <3>1, <3>2
  <2>6. \A k, l \in 1..Len(waiters') : k # l => waiters'[k] # waiters'[l]
    <3> SUFFICES ASSUME NEW k \in 1..(n - 1), NEW l \in 1..(n - 1), k # l
                 PROVE  waiters'[k] # waiters'[l]
      BY <2>2
    <3>1. k + 1 \in 1..n /\ l + 1 \in 1..n /\ k + 1 # l + 1
      BY <2>2
    <3> QED BY <2>2, <3>1 DEF Slotted
  <2>7. Waiting' = Waiting \ {w}
    <3>1. \A k \in 1..(n - 1) : k + 1 \in 1..n /\ k + 1 # 1
      BY <2>2
    <3>2. \A k \in 1..n : k = 1 \/ (k - 1 \in 1..(n - 1) /\ (k - 1) + 1 = k)
      BY <2>2
    <3>3. ASSUME NEW r \in Waiting' PROVE r \in Waiting \ {w}
      <4>1. PICK k \in 1..(n - 1) : r = waiters'[k]
        BY <2>2, <3>3 DEF Waiting
      <4>2. r = waiters[k + 1] /\ k + 1 \in 1..n /\ k + 1 # 1 /\ 1 \in 1..n
        BY <2>2, <3>1, <4>1
      <4> QED BY <2>2, <4>2 DEF Waiting, Slotted
    <3>4. ASSUME NEW r \in Waiting \ {w} PROVE r \in Waiting'
      <4>1. PICK k \in 1..n : r = waiters[k]
        BY <3>4 DEF Waiting
      <4>2. k # 1
        BY <2>2, <3>4, <4>1
      <4>3. waiters'[k - 1] = waiters[k] /\ k - 1 \in 1..(n - 1)
        BY <2>2, <3>2, <4>2
      <4> QED BY <2>2, <4>1, <4>3 DEF Waiting
    <3> QED BY <3>3, <3>4
  <2>8. Waiting' = DOMAIN agents' \ Holding'
    <3> HIDE DEF w
    <3> QED BY <1>1, <1>2, <2>3, <2>4, <2>7 DEF Slotted
  <2> QED BY <1>2, <2>1, <2>5, <2>6, <2>8 DEF Slotted
<1> QED BY <1>4, <1>5

\* Every step keeps the slots accounted for.
LEMMA SlottedStep ==
  Types /\ SemaphoreInv /\ Owned /\ Slotted /\ [ChatNext]_chatVars => Slotted'
<1> SUFFICES ASSUME Types, SemaphoreInv, Owned, Slotted, [ChatNext]_chatVars PROVE Slotted'
  OBVIOUS
<1>1. ASSUME NEW i \in 1..MaxSends, Dispatch(i) PROVE Slotted'
  <2>1. i \in DOMAIN sends /\ sends[i].pc = "prepare" /\ sends[i].session \in Sessions
    <3>1. i \in DOMAIN sends /\ sends[i].pc = "prepare"
      BY <1>1 DEF Dispatch, SendAt
    <3>2. sends[i] \in Send
      BY <3>1 DEF Types
    <3> QED BY <3>1, <3>2 DEF Send
  <2>2. \A a \in DOMAIN agents : a[1] # i
    BY <2>1 DEF Owned
  <2>3. Acquire(RunsOf(i), sends[i].session)
    BY <1>1 DEF Dispatch, RunsOf
  <2>4. /\ RunsOf(i) \in Seq(Dispatched) /\ Len(RunsOf(i)) \in {1, 2}
        /\ \A k \in 1..Len(RunsOf(i)) : RunsOf(i)[k] \notin DOMAIN agents
        /\ \A k, l \in 1..Len(RunsOf(i)) : k # l => RunsOf(i)[k] # RunsOf(i)[l]
    BY <2>2, RunsOfType
  <2> QED BY <2>1, <2>3, <2>4, AcquireSlots
<1>2. ASSUME NEW a \in Dispatched, RunProceeds(a) PROVE Slotted'
  <2>1. CASE Release(a)
    BY <1>2, <2>1, RunEffect, ReleaseSlots
  <2>2. CASE ~ Release(a)
    <3>1. /\ UNCHANGED <<active, waiters>> /\ DOMAIN agents' = DOMAIN agents
          /\ a \in DOMAIN agents /\ agents[a].pc # "wait"
          /\ \E pc \in {"agent", "reply"} :
               \A r \in DOMAIN agents : agents'[r].pc = IF r = a THEN pc ELSE agents[r].pc
      BY <1>2, <2>2, RunEffect
    <3>2. Holding' = Holding
      BY <3>1 DEF Holding
    <3> QED BY <3>1, <3>2 DEF Slotted, Waiting
  <2> QED BY <2>1, <2>2
<1>3. CASE ChatCrash
  <2>1. agents' = <<>> /\ active' = 0 /\ waiters' = <<>>
    BY <1>3 DEF ChatCrash
  <2>2. DOMAIN agents' = {} /\ Holding' = {} /\ Waiting' = {}
    BY <2>1 DEF Holding, Waiting
  <2> QED BY <2>1, <2>2, FS_EmptySet DEF Slotted
<1>4. CASE UNCHANGED <<agents, active, waiters>>
  <2>1. Holding' = Holding /\ Waiting' = Waiting
    BY <1>4 DEF Holding, Waiting
  <2> QED BY <1>4, <2>1 DEF Slotted
<1> QED
  BY <1>1, <1>2, <1>3, <1>4
  DEF ChatNext, Receive, DeleteSession, Count, Insert, ReadHistory, PrepareFails, chatVars

-------------------------------------------------------------------------------
(* What is said in a session, and what a prompt holds of it.               *)

\* The history h is the beginning of the conversation m.
Begins(h, m) == Len(h) <= Len(m) /\ \A k \in 1..Len(h) : h[k] = m[k]

Asked(h, i) == \E k \in 1..Len(h) : h[k] = [role |-> "user", send |-> i]

\* What is known of message i and its session's conversation.
PromptOf(i) ==
  sends[i].session \in sessions =>
    /\ sends[i].pc = "history" => Asked(messages[sends[i].session], i)
    /\ sends[i].pc \in {"prepare", "dispatched"} =>
         /\ Asked(sends[i].history, i)
         /\ Begins(sends[i].history, messages[sends[i].session])

\* What stands at place k of a conversation belongs to a message of that
\* session; a reply has been given by a run that is over; and of the places
\* before it at most one, the question, is of the same message.
PlaceOf(s, k) ==
  LET m == messages[s][k]
  IN  /\ m.send \in DOMAIN sends /\ sends[m.send].session = s
      /\ sends[m.send].pc \notin {"count", "insert"}
      /\ m.role = "assistant" =>
           /\ sends[m.send].pc \in {"dispatched", "lost"}
           /\ <<m.send, "CHAT">> \notin DOMAIN agents
      /\ \A l \in 1..(k - 1) :
           messages[s][l].send = m.send => messages[s][l].role = "user" /\ m.role = "assistant"

Talk ==
  /\ \A i \in DOMAIN sends : PromptOf(i)
  /\ \A s \in Sessions : \A k \in 1..Len(messages[s]) : PlaceOf(s, k)

\* The place of a conversation that nothing was said in.
LEMMA PlaceKeeps ==
  ASSUME NEW s \in Sessions, NEW k \in 1..Len(messages[s]), PlaceOf(s, k),
         Len(messages[s]) \in Nat,
         \A l \in 1..k : messages'[s][l] = messages[s][l],
         \A i \in DOMAIN sends :
           /\ i \in DOMAIN sends' /\ sends'[i].session = sends[i].session
           /\ sends[i].pc \notin {"count", "insert"} => sends'[i].pc \notin {"count", "insert"}
           /\ sends[i].pc \in {"dispatched", "lost"} =>
                /\ sends'[i].pc \in {"dispatched", "lost"}
                /\ <<i, "CHAT">> \in DOMAIN agents' => <<i, "CHAT">> \in DOMAIN agents
  PROVE  PlaceOf(s, k)'
<1>1. k \in 1..k /\ \A l \in 1..(k - 1) : l \in 1..k
  OBVIOUS
<1>2. messages'[s][k] = messages[s][k] /\ \A l \in 1..(k - 1) : messages'[s][l] = messages[s][l]
  BY <1>1
<1> QED BY <1>2 DEF PlaceOf

\* A conversation that goes on still begins the same.
LEMMA BeginsOn ==
  ASSUME NEW h \in Seq(Message), NEW m \in Seq(Message), NEW e \in Message
  PROVE  /\ Begins(h, m) => Begins(h, Append(m, e))
         /\ \A i : Asked(m, i) => Asked(Append(m, e), i)
         /\ Begins(m, m)
BY DEF Begins, Asked

\* Every step keeps what is known of prompts and conversations.
LEMMA TalkStep == Types /\ Owned /\ Talk /\ [ChatNext]_chatVars => Talk'
<1> SUFFICES ASSUME Types, Owned, Talk, [ChatNext]_chatVars PROVE Talk'
  OBVIOUS
<1>0. /\ \A i \in DOMAIN sends :
           /\ sends[i] \in Send /\ sends[i].session \in Sessions
           /\ sends[i].history \in Seq(Message) /\ sends[i].pc \in SendPcs
      /\ \A s \in Sessions : messages[s] \in Seq(Message) /\ Len(messages[s]) \in Nat
      /\ \A a \in DOMAIN agents : agents[a].session \in Sessions
  <2>1. \A i \in DOMAIN sends : sends[i] \in Send
    BY DEF Types
  <2>2. \A s \in Sessions : messages[s] \in Seq(Message)
    BY DEF Types
  <2> QED BY <2>1, <2>2 DEF Send, Types, AgentRec
\* Steps that leave the conversations and the sessions alone.
<1>a. ASSUME UNCHANGED <<messages, sessions>>,
             \A i \in DOMAIN sends :
               /\ i \in DOMAIN sends' /\ sends'[i].session = sends[i].session
               /\ sends[i].pc \notin {"count", "insert"} => sends'[i].pc \notin {"count", "insert"}
               /\ sends[i].pc \in {"dispatched", "lost"} =>
                    /\ sends'[i].pc \in {"dispatched", "lost"}
                    /\ <<i, "CHAT">> \in DOMAIN agents' => <<i, "CHAT">> \in DOMAIN agents
      PROVE  \A s \in Sessions : \A k \in 1..Len(messages'[s]) : PlaceOf(s, k)'
  BY <1>0, <1>a, PlaceKeeps DEF Talk
<1>1. ASSUME NEW s \in Sessions, Receive(s) PROVE Talk'
  <2>1. PICK n : /\ n \notin DOMAIN sends /\ DOMAIN sends' = DOMAIN sends \cup {n}
                 /\ sends'[n].pc = "count" /\ \A i \in DOMAIN sends : sends'[i] = sends[i]
    BY <1>1, Received
  <2>2. UNCHANGED <<messages, sessions, agents>>
    BY <1>1 DEF Receive
  <2>3. \A u \in Sessions : \A k \in 1..Len(messages'[u]) : PlaceOf(u, k)'
    BY <1>a, <2>1, <2>2
  <2>4. \A i \in DOMAIN sends' : PromptOf(i)'
    BY <2>1, <2>2 DEF Talk, PromptOf
  <2> QED BY <2>3, <2>4 DEF Talk
<1>2. ASSUME NEW s \in Sessions, DeleteSession(s) PROVE Talk'
  <2>1. /\ UNCHANGED <<sends, agents>> /\ sessions' = sessions \ {s}
        /\ messages'[s] = <<>> /\ \A u \in Sessions : u # s => messages'[u] = messages[u]
    BY <1>2 DEF DeleteSession, Types
  <2>2. ASSUME NEW u \in Sessions, NEW k \in 1..Len(messages'[u]) PROVE PlaceOf(u, k)'
    <3>1. u # s
      BY <2>1, <2>2
    <3> QED BY <1>0, <2>1, <2>2, <3>1, PlaceKeeps DEF Talk
  <2>3. \A i \in DOMAIN sends' : PromptOf(i)'
    BY <1>0, <2>1 DEF Talk, PromptOf
  <2> QED BY <2>2, <2>3 DEF Talk
<1>3. ASSUME NEW i \in 1..MaxSends, Count(i) \/ PrepareFails(i) PROVE Talk'
  <2>1. PICK at, e :
          /\ SendMoves(i, at, e) /\ at \in {"count", "prepare"}
          /\ e.pc \in {"insert", "thrown"} /\ (at = "prepare" => e.pc = "thrown")
    BY <1>3, SendSteps
  <2>2. UNCHANGED <<messages, sessions, agents>>
    BY <1>3 DEF Count, PrepareFails
  <2>3. \A u \in Sessions : \A k \in 1..Len(messages'[u]) : PlaceOf(u, k)'
    BY <1>a, <2>1, <2>2 DEF SendMoves
  <2>4. \A n \in DOMAIN sends' : PromptOf(n)'
    BY <2>1, <2>2 DEF Talk, PromptOf, SendMoves
  <2> QED BY <2>3, <2>4 DEF Talk
<1>4. ASSUME NEW i \in 1..MaxSends, Insert(i) PROVE Talk'
  <2> DEFINE s == sends[i].session
  <2>1. PICK e : /\ SendMoves(i, "insert", e)
                 /\ e.pc = IF s \in sessions THEN "history" ELSE "thrown"
    BY <1>4, SendSteps
  <2>2. UNCHANGED <<sessions, agents>> /\ s \in Sessions
    BY <1>0, <1>4, <2>1 DEF Insert, SendMoves
  <2>3. CASE s \notin sessions
    <3>1. messages' = messages
      BY <1>4, <2>3 DEF Insert
    <3>2. \A u \in Sessions : \A k \in 1..Len(messages'[u]) : PlaceOf(u, k)'
      BY <1>a, <2>1, <2>2, <2>3, <3>1 DEF SendMoves
    <3>3. \A n \in DOMAIN sends' : PromptOf(n)'
      BY <2>1, <2>2, <2>3, <3>1 DEF Talk, PromptOf, SendMoves
    <3> QED BY <3>2, <3>3 DEF Talk
  <2>4. CASE s \in sessions
    <3> DEFINE m == [role |-> "user", send |-> i]
    <3>1. Said(s, "user", i)
      BY <1>4, <2>4 DEF Insert
    <3>2. /\ m \in Message /\ m.role = "user" /\ m.send = i
          /\ messages'[s] = Append(messages[s], m)
          /\ \A u \in Sessions : u # s => messages'[u] = messages[u]
      BY <2>2, <3>1, SaidTypes DEF Message
    <3>3. Asked(messages'[s], i)
      <4> DEFINE n == Len(messages[s])
      <4>1. n \in Nat /\ Len(messages'[s]) = n + 1 /\ messages'[s][n + 1] = m
        BY <1>0, <2>2, <3>2
      <4> QED BY <4>1 DEF Asked
    <3> HIDE DEF m, s
    <3>4. ASSUME NEW u \in Sessions, NEW k \in 1..Len(messages'[u]) PROVE PlaceOf(u, k)'
      <4>1. CASE k \in 1..Len(messages[u])
        <5>1. \A l \in 1..k : messages'[u][l] = messages[u][l]
          BY <1>0, <3>2, <4>1
        <5> QED BY <1>0, <2>1, <2>2, <2>4, <4>1, <5>1, PlaceKeeps DEF Talk, SendMoves
      <4>2. CASE k \notin 1..Len(messages[u])
        <5>1. u = s /\ k = Len(messages[s]) + 1 /\ messages'[u][k] = m
          BY <1>0, <3>2, <4>2
        <5>2. \A l \in 1..(k - 1) : messages'[u][l] = messages[s][l] /\ messages[s][l].send # i
          <6>1. ASSUME NEW l \in 1..Len(messages[s]) PROVE messages[s][l].send # i
            <7>1. PlaceOf(s, l)
              BY <2>2, <6>1 DEF Talk
            <7> QED BY <2>1, <7>1 DEF PlaceOf, SendMoves
          <6> QED BY <1>0, <2>2, <3>2, <5>1, <6>1
        <5>3. /\ i \in DOMAIN sends' /\ sends'[i].session = s
              /\ sends'[i].pc = "history"
          BY <2>1, <2>4 DEF SendMoves, s
        <5> QED BY <3>2, <5>1, <5>2, <5>3 DEF PlaceOf
      <4> QED BY <4>1, <4>2
    <3>5. ASSUME NEW n \in DOMAIN sends' PROVE PromptOf(n)'
      <4>1. CASE n = i
        BY <2>1, <2>4, <3>3, <4>1 DEF PromptOf, SendMoves, s
      <4>2. CASE n # i
        <5>1. n \in DOMAIN sends /\ sends'[n] = sends[n] /\ PromptOf(n)
          BY <2>1, <4>2 DEF SendMoves, Talk
        <5>2. CASE sends[n].session = s
          <6>1. /\ \A h \in Seq(Message) : Begins(h, messages[s]) => Begins(h, messages'[s])
                /\ Asked(messages[s], n) => Asked(messages'[s], n)
            BY <1>0, <2>2, <3>2, BeginsOn
          <6> QED BY <1>0, <2>2, <5>1, <5>2, <6>1 DEF PromptOf
        <5>3. CASE sends[n].session # s
          BY <1>0, <2>2, <3>2, <5>1, <5>3 DEF PromptOf
        <5> QED BY <5>2, <5>3
      <4> QED BY <4>1, <4>2
    <3> QED BY <3>4, <3>5 DEF Talk
  <2> QED BY <2>3, <2>4
<1>5. ASSUME NEW i \in 1..MaxSends, ReadHistory(i) PROVE Talk'
  <2>1. PICK e : /\ SendMoves(i, "history", e)
                 /\ e.pc = "prepare" /\ e.history = messages[sends[i].session]
    BY <1>5, SendSteps
  <2>2. UNCHANGED <<messages, sessions, agents>>
    BY <1>5 DEF ReadHistory
  <2>3. \A u \in Sessions : \A k \in 1..Len(messages'[u]) : PlaceOf(u, k)'
    BY <1>a, <2>1, <2>2 DEF SendMoves
  <2>4. ASSUME NEW n \in DOMAIN sends' PROVE PromptOf(n)'
    <3>1. CASE n = i
      <4>1. Begins(messages[sends[i].session], messages[sends[i].session])
        BY DEF Begins
      <4>2. PromptOf(i) /\ sends[i].pc = "history" /\ sends'[i] = e
            /\ e.session = sends[i].session
        BY <2>1 DEF SendMoves, Talk
      <4> QED BY <2>1, <2>2, <3>1, <4>1, <4>2 DEF PromptOf
    <3>2. CASE n # i
      BY <2>1, <2>2, <3>2 DEF Talk, PromptOf, SendMoves
    <3> QED BY <3>1, <3>2
  <2> QED BY <2>3, <2>4 DEF Talk
<1>6. ASSUME NEW i \in 1..MaxSends, Dispatch(i) PROVE Talk'
  <2>1. PICK e : /\ SendMoves(i, "prepare", e)
                 /\ e.pc = "dispatched" /\ e.history = sends[i].history
    BY <1>6, SendSteps
  <2>2. UNCHANGED <<messages, sessions>>
    BY <1>6 DEF Dispatch
  <2>3. \A n \in 1..MaxSends :
          n # i /\ <<n, "CHAT">> \in DOMAIN agents' => <<n, "CHAT">> \in DOMAIN agents
    <3>1. Acquire(RunsOf(i), sends[i].session)
      BY <1>6 DEF Dispatch, RunsOf
    <3>2. DOMAIN agents' = DOMAIN agents \cup {RunsOf(i)[k] : k \in 1..Len(RunsOf(i))}
      BY <3>1 DEF Acquire
    <3>3. \A k \in 1..Len(RunsOf(i)) : RunsOf(i)[k][1] = i
      BY RunsOfType
    <3> QED BY <3>2, <3>3
  <2>4. \A n \in DOMAIN sends : n \in 1..MaxSends
    BY ChatAssumption DEF Types
  <2>5. \A u \in Sessions : \A k \in 1..Len(messages'[u]) : PlaceOf(u, k)'
    BY <1>a, <2>1, <2>2, <2>3, <2>4 DEF SendMoves
  <2>6. \A n \in DOMAIN sends' : PromptOf(n)'
    BY <2>1, <2>2 DEF Talk, PromptOf, SendMoves
  <2> QED BY <2>5, <2>6 DEF Talk
<1>7. ASSUME NEW a \in Dispatched, RunProceeds(a) PROVE Talk'
  <2>1. UNCHANGED <<sends, sessions>> /\ a \in DOMAIN agents
        /\ DOMAIN agents' \subseteq DOMAIN agents
    BY <1>7, RunEffect DEF RunProceeds, StartRun, EndRun, Reply, SetTitle
  <2>2. CASE messages' = messages
    <3>1. \A u \in Sessions : \A k \in 1..Len(messages'[u]) : PlaceOf(u, k)'
      BY <1>a, <2>1, <2>2
    <3>2. \A n \in DOMAIN sends' : PromptOf(n)'
      BY <2>1, <2>2 DEF Talk, PromptOf
    <3> QED BY <3>1, <3>2 DEF Talk
  <2>3. CASE messages' # messages
    <3> DEFINE s == agents[a].session
               i == a[1]
               m == [role |-> "assistant", send |-> i]
    <3>1. Said(s, "assistant", i) /\ a[2] = "CHAT" /\ Release(a)
      BY <1>7, <2>3 DEF RunProceeds, StartRun, EndRun, Reply, SetTitle
    <3>2. /\ a = <<i, "CHAT">> /\ i \in 1..MaxSends /\ s \in Sessions
          /\ a \notin DOMAIN agents'
      BY <1>0, <2>1, <3>1 DEF Dispatched, Release
    <3>3. i \in DOMAIN sends /\ sends[i].pc = "dispatched" /\ sends[i].session = s
      BY <2>1 DEF Owned
    <3>4. /\ m \in Message /\ m.role = "assistant" /\ m.send = i
          /\ messages'[s] = Append(messages[s], m)
          /\ \A u \in Sessions : u # s => messages'[u] = messages[u]
      BY <3>1, <3>2, SaidTypes DEF Message
    <3> HIDE DEF s, i, m
    <3>5. ASSUME NEW u \in Sessions, NEW k \in 1..Len(messages'[u]) PROVE PlaceOf(u, k)'
      <4>1. CASE k \in 1..Len(messages[u])
        <5>1. \A l \in 1..k : messages'[u][l] = messages[u][l]
          <6>1. CASE u = s
            BY <1>0, <3>2, <3>4, <4>1, <6>1
          <6>2. CASE u # s
            BY <3>4, <6>2
          <6> QED BY <6>1, <6>2
        <5> QED BY <1>0, <2>1, <4>1, <5>1, PlaceKeeps DEF Talk
      <4>2. CASE k \notin 1..Len(messages[u])
        <5>1. u = s /\ k = Len(messages[s]) + 1 /\ messages'[u][k] = m
          BY <1>0, <3>4, <4>2
        <5>2. ASSUME NEW l \in 1..(k - 1), messages'[u][l].send = i
              PROVE  messages'[u][l].role = "user"
          <6>1. l \in 1..Len(messages[s]) /\ messages'[u][l] = messages[s][l]
            BY <1>0, <3>2, <3>4, <5>1
          <6>2. PlaceOf(s, l)
            BY <3>2, <6>1 DEF Talk
          <6>3. messages[s][l].role # "assistant"
            BY <2>1, <3>2, <5>2, <6>1, <6>2 DEF PlaceOf
          <6>4. messages[s][l] \in Message
            BY <1>0, <3>2, <6>1
          <6> QED BY <6>1, <6>3, <6>4 DEF Message
        <5>3. /\ messages'[u][k].send = i /\ messages'[u][k].role = "assistant"
              /\ i \in DOMAIN sends' /\ sends'[i].session = u /\ sends'[i].pc = "dispatched"
              /\ <<i, "CHAT">> \notin DOMAIN agents'
          BY <2>1, <3>2, <3>3, <3>4, <5>1
        <5> QED BY <5>2, <5>3 DEF PlaceOf
      <4> QED BY <4>1, <4>2
    <3>6. ASSUME NEW n \in DOMAIN sends' PROVE PromptOf(n)'
      <4>1. n \in DOMAIN sends /\ sends'[n] = sends[n] /\ PromptOf(n)
        BY <2>1 DEF Talk
      <4>2. CASE sends[n].session = s
        <5>1. /\ \A h \in Seq(Message) : Begins(h, messages[s]) => Begins(h, messages'[s])
              /\ Asked(messages[s], n) => Asked(messages'[s], n)
          BY <1>0, <3>2, <3>4, BeginsOn
        <5> QED BY <1>0, <2>1, <4>1, <4>2, <5>1 DEF PromptOf
      <4>3. CASE sends[n].session # s
        BY <1>0, <2>1, <3>4, <4>1, <4>3 DEF PromptOf
      <4> QED BY <4>2, <4>3
    <3> QED BY <3>5, <3>6 DEF Talk
  <2> QED BY <2>2, <2>3
<1>8. CASE ChatCrash
  <2>1. /\ UNCHANGED <<messages, sessions>> /\ DOMAIN agents' = {} /\ DOMAIN sends' = DOMAIN sends
    BY <1>8 DEF ChatCrash
  <2>2. \A n \in DOMAIN sends : sends'[n].pc = "lost" /\ sends'[n].session = sends[n].session
    <3> TAKE n \in DOMAIN sends
    <3>1. sends'[n] = [sends[n] EXCEPT !.pc = "lost"]
      BY <1>8 DEF ChatCrash
    <3>2. sends[n] \in Send /\ "lost" \in SendPcs
      BY <1>0 DEF SendPcs
    <3> QED BY <3>1, <3>2, SendMoved
  <2>3. \A u \in Sessions : \A k \in 1..Len(messages'[u]) : PlaceOf(u, k)'
    BY <1>a, <2>1, <2>2
  <2>4. \A n \in DOMAIN sends' : PromptOf(n)'
    BY <2>1, <2>2 DEF PromptOf
  <2> QED BY <2>3, <2>4 DEF Talk
<1>9. CASE UNCHANGED chatVars
  <2>1. \A u \in Sessions : \A k \in 1..Len(messages'[u]) : PlaceOf(u, k)'
    BY <1>a, <1>9 DEF chatVars
  <2>2. \A n \in DOMAIN sends' : PromptOf(n)'
    BY <1>9 DEF Talk, PromptOf, chatVars
  <2> QED BY <2>1, <2>2 DEF Talk
<1> QED BY <1>1, <1>2, <1>3, <1>4, <1>5, <1>6, <1>7, <1>8, <1>9 DEF ChatNext

-------------------------------------------------------------------------------
(* The theorems.                                                           *)

ChatInv == Types /\ SemaphoreInv /\ Owned /\ Slotted /\ Talk

\* The inductive invariant holds always.
LEMMA ChatInvAlways == ChatSpec => []ChatInv
<1>1. ChatInit => ChatInv
  <2> SUFFICES ASSUME ChatInit PROVE ChatInv
    OBVIOUS
  <2>1. DOMAIN agents = {} /\ DOMAIN sends = {} /\ waiters = <<>> /\ active = 0
    BY DEF ChatInit
  <2>2. \A s \in Sessions : messages[s] = <<>>
    BY DEF ChatInit
  <2>3. Types
    <3>1. messages \in [Sessions -> Seq(Message)]
      BY DEF ChatInit
    <3>2. sends \in Seq(Send) /\ Len(sends) = 0
      BY DEF ChatInit
    <3>3. agents \in [DOMAIN agents -> AgentRec]
      BY <2>1 DEF ChatInit
    <3> QED BY <2>1, <3>1, <3>2, <3>3, ChatAssumption DEF ChatInit, Types
  <2>4. SemaphoreInv
    BY LimitType DEF ChatInit, SemaphoreInv, NoIdleSlot
  <2>5. Owned
    BY <2>1 DEF Owned
  <2>6. Slotted
    <3>1. Holding = {} /\ Waiting = {}
      BY <2>1 DEF Holding, Waiting
    <3>2. IsFiniteSet({}) /\ Cardinality({}) = 0
      BY FS_EmptySet
    <3> QED BY <2>1, <3>1, <3>2 DEF Slotted
  <2>7. Talk
    BY <2>1, <2>2 DEF Talk
  <2> QED BY <2>3, <2>4, <2>5, <2>6, <2>7 DEF ChatInv
<1>2. ChatInv /\ [ChatNext]_chatVars => ChatInv'
  BY TypesStep, SemaphoreStep, OwnedStep, SlottedStep, TalkStep DEF ChatInv
<1> QED BY <1>1, <1>2, PTL DEF ChatSpec

\* Every variable of the chat service keeps its type, and the queue of waiters
\* is the runs that wait.
THEOREM ChatTypes == ChatSpec => []ChatTypeOK
<1>1. ChatInv => ChatTypeOK
  <2> SUFFICES ASSUME ChatInv PROVE ChatTypeOK
    OBVIOUS
  <2>1. ASSUME NEW s \in Sessions, NEW i \in DOMAIN messages[s]
        PROVE  messages[s][i] \in [role: {"user", "assistant"}, send: 1..MaxSends]
    <3>1. messages[s] \in Seq(Message)
      BY DEF ChatInv, Types
    <3>2. messages[s][i] \in Message
      BY <2>1, <3>1
    <3> QED BY <3>2 DEF Message
  <2>2. ASSUME NEW i \in DOMAIN sends
        PROVE  /\ sends[i].session \in Sessions
               /\ sends[i].pc \in {"count", "insert", "history", "prepare", "dispatched",
                                   "thrown", "lost"}
    <3>1. sends[i] \in Send
      BY DEF ChatInv, Types
    <3> QED BY <3>1 DEF Send, SendPcs
  <2>3. /\ \A i, k \in DOMAIN waiters : i # k => waiters[i] # waiters[k]
        /\ {waiters[i] : i \in DOMAIN waiters} = DOMAIN agents \ Holding
    <3>1. DOMAIN waiters = 1..Len(waiters)
      BY DEF ChatInv, SemaphoreInv
    <3> QED BY <3>1 DEF ChatInv, Slotted, Waiting
  <2> QED BY <2>1, <2>2, <2>3 DEF ChatInv, Types, ChatTypeOK
<1> QED BY <1>1, ChatInvAlways, PTL

\* The semaphore counts right: the slots taken are the runs at work, through
\* every exception, deletion and crash, and they are never more than there are.
THEOREM SlotsAccountedHolds == ChatSpec => []SlotsAccounted
<1>1. ChatInv => SlotsAccounted
  BY DEF ChatInv, Slotted, SemaphoreInv, SlotsAccounted
<1> QED BY <1>1, ChatInvAlways, PTL

\* A prompt ends with its message and lacks nothing said before, and no message
\* is answered twice or ahead of its turn.
THEOREM PromptCompleteHolds == ChatSpec => []PromptComplete
<1>1. ChatInv => PromptComplete
  <2> SUFFICES ASSUME ChatInv PROVE PromptComplete
    OBVIOUS
  <2>0. /\ \A i \in DOMAIN sends : sends[i] \in Send
        /\ \A s \in Sessions : messages[s] \in Seq(Message) /\ DOMAIN messages[s] = 1..Len(messages[s])
    <3>1. \A s \in Sessions : messages[s] \in Seq(Message)
      BY DEF ChatInv, Types
    <3> QED BY <3>1 DEF ChatInv, Types
  <2>1. ASSUME NEW i \in DOMAIN sends, NEW s \in sessions,
               sends[i].pc = "dispatched" /\ sends[i].session = s
        PROVE  /\ \E k \in DOMAIN sends[i].history :
                    sends[i].history[k] = [role |-> "user", send |-> i]
               /\ sends[i].history = SubSeq(messages[s], 1, Len(sends[i].history))
    <3> DEFINE h == sends[i].history
               m == messages[s]
    <3>1. h \in Seq(Message) /\ m \in Seq(Message)
      BY <2>0 DEF Send, ChatInv, Types
    <3>2. Asked(h, i) /\ Begins(h, m)
      BY <2>1 DEF ChatInv, Talk, PromptOf
    <3> HIDE DEF h, m
    <3>3. h = SubSeq(m, 1, Len(h))
      BY <3>1, <3>2 DEF Begins
    <3>4. \E k \in DOMAIN h : h[k] = [role |-> "user", send |-> i]
      BY <3>1, <3>2 DEF Asked
    <3> QED BY <3>3, <3>4 DEF h, m
  <2>2. ASSUME NEW s \in Sessions, NEW i \in DOMAIN messages[s], NEW k \in DOMAIN messages[s],
               messages[s][i].send = messages[s][k].send /\ i < k
        PROVE  messages[s][i].role = "user" /\ messages[s][k].role = "assistant"
    <3>1. i \in 1..(k - 1) /\ k \in 1..Len(messages[s])
      BY <2>0, <2>2
    <3>2. PlaceOf(s, k)
      BY <3>1 DEF ChatInv, Talk
    <3> QED BY <2>2, <3>1, <3>2 DEF PlaceOf
  <2> QED BY <2>1, <2>2 DEF PromptComplete
<1> QED BY <1>1, ChatInvAlways, PTL
================================================================================

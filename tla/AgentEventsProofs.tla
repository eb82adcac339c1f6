--------------------------- MODULE AgentEventsProofs ---------------------------
(***************************************************************************)
(* Theorems about AgentEvents, for any viewers, buffer, events and crashes. *)
(***************************************************************************)
EXTENDS AgentEventsProps, TLAPS, FiniteSetTheorems, SequenceTheorems

-------------------------------------------------------------------------------
(* The inductive invariant.                                                *)

\* What is pending comes next, and is all that is not numbered yet for as long
\* as the persister is subscribed.
PendingNext ==
  /\ \A i \in DOMAIN pending : pending[i] = seq + i
  /\ run \in {"created", "agent", "stop"} => seq + Len(pending) = arrived
  /\ run \notin {"agent", "stop"} => pending = <<>>
  /\ Persister \in subscribed <=> run \in {"agent", "stop"}

EndOf(batch) == batch.first + Len(batch.events)

\* Each batch has the events its numbers say; batches and rows follow each other.
ChainInOrder ==
  /\ \A k \in DOMAIN chain :
       /\ EndOf(chain[k]) <= seq
       /\ \A i \in DOMAIN chain[k].events : chain[k].events[i] = chain[k].first + i
  /\ \A j, k \in DOMAIN chain : j < k => EndOf(chain[j]) <= chain[k].first
  /\ \A i \in DOMAIN rows :
       rows[i].seq < seq /\ \A k \in DOMAIN chain : rows[i].seq < chain[k].first

InBatch(e, batch) == batch.first < e /\ e <= EndOf(batch)

\* Every event that has a number is written, failed, or on its way.
Logged ==
  /\ failed \subseteq 1..seq
  /\ run = "done" => chain = <<>>
  /\ run # "lost" =>
       \A e \in 1..seq :
         \/ \E i \in DOMAIN rows : rows[i].event = e
         \/ e \in failed
         \/ \E k \in DOMAIN chain : InBatch(e, chain[k])

-------------------------------------------------------------------------------
(* Types.                                                                  *)

\* The next n events.
Arrivals(n) == [i \in 1..n |-> arrived + i]

\* An accepted request brings some.
LEMMA SomeArrive ==
  ASSUME TypeOK, NEW request \in Requests, IngestOtlp(request)
  PROVE  \E n \in Nat \ {0} : run # "created" /\ arrived + n <= MaxEvents /\ Ingest(n)
<1> DEFINE n == Cardinality(Decoded(request))
<1>1. request.spans \in Seq(Span)
  BY EventsAssumption
<1>2. /\ Decoded(request) \subseteq 1..Len(request.spans) /\ Len(request.spans) \in Nat
  BY <1>1 DEF Decoded
<1>3. IsFiniteSet(Decoded(request)) /\ n \in Nat
  <2>1. IsFiniteSet(1..Len(request.spans))
    BY <1>2, FS_Interval
  <2>2. IsFiniteSet(Decoded(request))
    BY <1>2, <2>1, FS_Subset
  <2> QED BY <2>2, FS_CardinalityType
<1>4. n # 0
  BY <1>3, FS_EmptySet DEF IngestOtlp
<1>5. run # "created" /\ arrived + n <= MaxEvents /\ Ingest(n)
  BY DEF IngestOtlp
<1> HIDE DEF n
<1> QED BY <1>3, <1>4, <1>5

\* They are numbers, and stand behind whatever they are appended to.
LEMMA ArrivalsAppended ==
  ASSUME NEW n \in Nat, arrived \in Nat, NEW s \in Seq(Nat)
  PROVE  /\ Arrivals(n) \in Seq(Nat) /\ Len(Arrivals(n)) = n
         /\ s \o Arrivals(n) \in Seq(Nat)
         /\ Len(s) \in Nat /\ Len(s \o Arrivals(n)) = Len(s) + n
         /\ \A k \in 1..Len(s) : (s \o Arrivals(n))[k] = s[k]
         /\ \A k \in 1..n : (s \o Arrivals(n))[Len(s) + k] = arrived + k
<1>1. Arrivals(n) \in [1..n -> Nat]
  BY DEF Arrivals
<1>2. Arrivals(n) \in Seq(Nat) /\ Len(Arrivals(n)) = n /\ \A k \in 1..n : Arrivals(n)[k] = arrived + k
  BY <1>1 DEF Arrivals
<1>3. Len(s) \in Nat
  OBVIOUS
<1>6. /\ s \o Arrivals(n) \in Seq(Nat)
      /\ Len(s \o Arrivals(n)) = Len(s) + n
      /\ \A k \in 1..Len(s) + n :
           (s \o Arrivals(n))[k] = IF k <= Len(s) THEN s[k] ELSE Arrivals(n)[k - Len(s)]
  <2> DEFINE t == Arrivals(n)
  <2>1. t \in Seq(Nat) /\ Len(t) = n
    BY <1>2
  <2> HIDE DEF t
  <2> SUFFICES /\ s \o t \in Seq(Nat) /\ Len(s \o t) = Len(s) + n
               /\ \A k \in 1..Len(s) + n : (s \o t)[k] = IF k <= Len(s) THEN s[k] ELSE t[k - Len(s)]
    BY DEF t
  <2> QED BY <2>1, ConcatProperties
<1>4. ASSUME NEW k \in 1..n PROVE (s \o Arrivals(n))[Len(s) + k] = arrived + k
  <2>1. Len(s) + k \in 1..Len(s) + n /\ ~ (Len(s) + k <= Len(s)) /\ Len(s) + k - Len(s) = k
    BY <1>3
  <2> QED BY <2>1, <1>2, <1>3, <1>6
<1>5. \A k \in 1..Len(s) : k \in 1..Len(s) + n /\ k <= Len(s)
  BY <1>3
<1> QED BY <1>2, <1>3, <1>6, <1>4, <1>5

\* What the buffer keeps is the end, within its capacity.
LEMMA KeptEnd ==
  ASSUME NEW s \in Seq(Nat)
  PROVE  /\ Kept(s) \in Seq(Nat) /\ Len(Kept(s)) \in 0..BufferSize
         /\ Len(Kept(s)) <= Len(s) /\ Len(s) \in Nat
         /\ \A k \in 1..Len(Kept(s)) : Kept(s)[k] = s[k + (Len(s) - Len(Kept(s)))]
         /\ s # <<>> => Kept(s) # <<>>
<1>1. CASE Len(s) > BufferSize
  <2> DEFINE m == Len(s) - BufferSize + 1
  <2>1. Len(s) \in Nat /\ BufferSize \in Nat \ {0} /\ m \in 1..Len(s) /\ m \in Int
    BY <1>1, EventsAssumption
  <2>a. Kept(s) = SubSeq(s, m, Len(s)) /\ Len(s) - m + 1 = BufferSize /\ m <= Len(s)
    BY <1>1, <2>1 DEF Kept
  <2> HIDE DEF m
  <2>b. \A k \in m..Len(s) : s[k] \in Nat
    BY <2>1
  <2>2. /\ Kept(s) \in Seq(Nat) /\ Len(Kept(s)) = BufferSize
        /\ \A k \in 1..BufferSize : Kept(s)[k] = s[m + k - 1]
    BY <2>1, <2>a, <2>b, SubSeqProperties
  <2>3. \A k \in 1..BufferSize : m + k - 1 = k + (Len(s) - BufferSize)
    BY <2>1 DEF m
  <2>4. Kept(s) # <<>>
    BY <2>1, <2>2
  <2>5. Len(Kept(s)) \in 0..BufferSize /\ Len(Kept(s)) <= Len(s)
    BY <1>1, <2>1, <2>2
  <2>6. \A k \in 1..Len(Kept(s)) : Kept(s)[k] = s[k + (Len(s) - Len(Kept(s)))]
    BY <2>2, <2>3
  <2> QED BY <2>1, <2>2, <2>4, <2>5, <2>6
<1>2. CASE ~ (Len(s) > BufferSize)
  <2>1. Kept(s) = s /\ Len(s) \in 0..BufferSize /\ Len(s) - Len(s) = 0
    BY <1>2, EventsAssumption DEF Kept
  <2> QED BY <2>1
<1> QED BY <1>1, <1>2

Row == [seq : Nat, event : Nat]
RowsOf(batch) == [i \in 1..Len(batch.events) |->
                    [seq |-> batch.first + i - 1, event |-> batch.events[i]]]

\* The rows of a batch.
LEMMA RowsOfType ==
  ASSUME NEW batch \in [first : Nat, events : Seq(Nat)]
  PROVE  /\ RowsOf(batch) \in Seq(Row)
         /\ Len(RowsOf(batch)) = Len(batch.events)
         /\ \A i \in 1..Len(batch.events) :
              RowsOf(batch)[i] = [seq |-> batch.first + i - 1, event |-> batch.events[i]]
<1> DEFINE n == Len(batch.events)
<1>1. n \in Nat /\ DOMAIN batch.events = 1..n
  OBVIOUS
<1>2. \A i \in 1..n : batch.events[i] \in Nat /\ batch.first + i - 1 \in Nat
  BY <1>1
<1>3. RowsOf(batch) \in [1..n -> Row]
  BY <1>2 DEF RowsOf, Row
<1>4. RowsOf(batch) \in Seq(Row)
  BY <1>1, <1>3
<1> QED BY <1>1, <1>3, <1>4 DEF RowsOf

Batches == [first : Nat, events : Seq(Nat)]

\* The head of a sequence, and where its tail's elements were.
LEMMA TailParts ==
  ASSUME NEW S, NEW s \in Seq(S), s # <<>>
  PROVE  /\ Head(s) \in S /\ Head(s) = s[1] /\ 1 \in DOMAIN s
         /\ Tail(s) \in Seq(S)
         /\ \A k \in DOMAIN Tail(s) : k + 1 \in DOMAIN s /\ Tail(s)[k] = s[k + 1]
         /\ \A k \in DOMAIN s : k # 1 => k - 1 \in DOMAIN Tail(s)
<1>1. Len(s) \in Nat /\ Len(s) # 0 /\ DOMAIN s = 1..Len(s) /\ Head(s) = s[1]
  OBVIOUS
<1>2. /\ Tail(s) \in Seq(S) /\ Len(Tail(s)) = Len(s) - 1
      /\ DOMAIN Tail(s) = 1..Len(s) - 1
      /\ \A k \in 1..Len(s) - 1 : Tail(s)[k] = s[k + 1]
  BY <1>1, HeadTailProperties
<1> QED BY <1>1, <1>2

\* The empty sequence.
LEMMA NoneType ==
  /\ <<>> \in Seq(Nat) /\ Len(<<>>) = 0
  /\ <<>> \in Seq(Batches) /\ <<>> \in Seq(Row)
OBVIOUS

\* The initial states.
LEMMA InitType == Init => TypeOK
<1> SUFFICES ASSUME Init PROVE TypeOK
  OBVIOUS
<1>1. view \in [Viewers -> [pc : {"idle", "RUNNING", "ended", "streaming", "closed"},
                         seen : Seq(Nat)]]
  BY NoneType DEF Init
<1>2. /\ buffer \in Seq(Nat) /\ Len(buffer) = 0 /\ pending \in Seq(Nat)
      /\ chain \in Seq(Batches) /\ rows \in Seq(Row)
  BY NoneType DEF Init
<1>3. Len(buffer) <= BufferSize /\ seq \in 0..arrived /\ arrived \in 0..MaxEvents
      /\ crashes \in 0..MaxCrashes
  BY <1>2, EventsAssumption DEF Init
<1>4. /\ run = "created" /\ status = "RUNNING" /\ subject = FALSE /\ subscribed = {}
      /\ hasBuffer = FALSE /\ retired = "no" /\ failed = {}
  BY DEF Init
<1> QED BY <1>1, <1>2, <1>3, <1>4 DEF TypeOK, Batches, Row

\* A flush, if only of what the persister holds.
LEMMA FlushedType ==
  ASSUME TypeOK, PendingNext, Flushed, run \in {"agent", "stop"}
  PROVE  /\ pending' \in Seq(Nat) /\ chain' \in Seq(Batches)
         /\ seq' \in 0..arrived
<1>1. CASE pending = <<>>
  BY <1>1 DEF Flushed, TypeOK, Batches
<1>2. CASE pending # <<>>
  <2>1. Len(pending) \in Nat /\ seq + Len(pending) = arrived /\ arrived \in Nat
    BY EventsAssumption DEF TypeOK, PendingNext
  <2>2. Batch \in Batches
    BY DEF Batch, Batches, TypeOK
  <2>3. /\ chain' = Append(chain, Batch) /\ seq' = seq + Len(pending) /\ pending' = <<>>
    BY <1>2 DEF Flushed
  <2>4. chain' \in Seq(Batches)
    BY <2>2, <2>3 DEF TypeOK, Batches
  <2> QED BY <2>1, <2>3, <2>4, NoneType DEF TypeOK
<1> QED BY <1>1, <1>2

\* Every step keeps the types.
LEMMA NextType == TypeOK /\ PendingNext /\ [Next]_vars => TypeOK'
<1> SUFFICES ASSUME TypeOK, PendingNext, [Next]_vars PROVE TypeOK'
  OBVIOUS
<1> USE EventsAssumption
<1> USE DEF TypeOK, displayVars, persistVars
<1>1. CASE \E request \in Requests : IngestOtlp(request)
  <2>0. PICK n \in Nat \ {0} : run # "created" /\ arrived + n <= MaxEvents /\ Ingest(n)
    BY <1>1, SomeArrive
  <2> DEFINE es == Arrivals(n)
  <2>a. \A s \in Seq(Nat) : s \o es \in Seq(Nat)
    <3>1. n \in Nat /\ arrived \in Nat
      OBVIOUS
    <3> QED BY ONLY <3>1, ArrivalsAppended
  <2>1. arrived' = arrived + n /\ arrived' \in 0..MaxEvents /\ seq' \in 0..arrived'
    BY <2>0 DEF Ingest
  <2>2. buffer' \in Seq(Nat) /\ Len(buffer') <= BufferSize
    <3>1. buffer' = Kept(buffer \o es)
      BY <2>0 DEF Ingest, Buffered, Arrivals
    <3>2. buffer \o es \in Seq(Nat)
      BY <2>a
    <3>3. Kept(buffer \o es) \in Seq(Nat) /\ Len(Kept(buffer \o es)) \in 0..BufferSize
      BY <3>2, KeptEnd
    <3> QED BY <3>1, <3>3
  <2>3. pending' \in Seq(Nat)
    <3>1. pending' = pending \/ pending' = pending \o es
      BY <2>0 DEF Ingest, Arrivals
    <3> QED BY <3>1, <2>a
  <2>4. view' \in [Viewers -> [pc : {"idle", "RUNNING", "ended", "streaming", "closed"},
                           seen : Seq(Nat)]]
    <3>1. \A v \in Viewers : view[v].seen \o es \in Seq(Nat)
      BY <2>a
    <3>2. view' = [v \in Viewers |-> IF v \in subscribed
                                    THEN [view[v] EXCEPT !.seen = @ \o es] ELSE view[v]]
      BY <2>0 DEF Ingest, Arrivals
    <3> HIDE DEF es
    <3> QED BY <3>1, <3>2
  <2>5. subject' = TRUE /\ hasBuffer' = TRUE /\ retired' = "no"
        /\ UNCHANGED <<run, status, subscribed, seq, chain, rows, failed, crashes>>
    BY <2>0 DEF Ingest
  <2> QED BY <2>1, <2>2, <2>3, <2>4, <2>5
<1>2. CASE Spawn
  BY <1>2 DEF Spawn, Observe
<1>3. CASE RunEnds
  BY <1>3 DEF RunEnds
<1>4. CASE Stop
  <2>1. pending' \in Seq(Nat) /\ chain' \in Seq(Batches) /\ seq' \in 0..arrived
    BY <1>4, FlushedType DEF Stop
  <2> QED BY <1>4, <2>1 DEF Stop, Batches
<1>5. CASE WriteBatch
  <2>1. Head(chain) \in Batches /\ Tail(chain) \in Seq(Batches)
    BY <1>5, TailParts DEF WriteBatch, Batches
  <2>2. rows' = rows \o RowsOf(Head(chain)) /\ RowsOf(Head(chain)) \in Seq(Row)
    BY <1>5, <2>1, RowsOfType DEF WriteBatch, RowsOf, Batches
  <2>3. rows' \in Seq(Row)
    BY <2>2 DEF Row
  <2> QED BY <1>5, <2>1, <2>3 DEF WriteBatch, Batches, Row
<1>6. CASE WriteFails
  <2>1. Head(chain) \in Batches /\ Tail(chain) \in Seq(Batches)
    BY <1>6, TailParts DEF WriteFails, Batches
  <2>2. ToSet(Head(chain).events) \subseteq Nat
    BY <2>1 DEF ToSet, Batches
  <2> QED BY <1>6, <2>1, <2>2 DEF WriteFails, Batches
<1>7. CASE Complete
  BY <1>7 DEF Complete
<1>8. CASE Flush
  <2>1. pending' \in Seq(Nat) /\ chain' \in Seq(Batches) /\ seq' \in 0..arrived
    BY <1>8, FlushedType DEF Flush
  <2> QED BY <1>8, <2>1 DEF Flush, Batches
<1>9. CASE RetentionElapses
  BY <1>9 DEF RetentionElapses
<1>10. CASE SweepExpired
  <2>1. buffer' \in Seq(Nat) /\ Len(buffer') = 0
    BY <1>10, NoneType DEF SweepExpired
  <2>2. Len(buffer') <= BufferSize
    BY <2>1
  <2> QED BY <1>10, <2>1, <2>2 DEF SweepExpired
<1>11. ASSUME NEW v \in Viewers, ViewAsks(v) \/ ViewStreams(v) \/ ViewReplays(v) \/ ViewDone(v)
       PROVE  TypeOK'
  <2>1. CASE ViewAsks(v)
    BY <2>1 DEF ViewAsks, ViewerAt
  <2>2. CASE ViewStreams(v)
    BY <2>2 DEF ViewStreams, ViewerAt, Observe
  <2>3. CASE ViewReplays(v)
    BY <2>3 DEF ViewReplays, ViewerAt
  <2>4. CASE ViewDone(v)
    BY <2>4 DEF ViewDone, ViewerAt
  <2> QED BY <1>11, <2>1, <2>2, <2>3, <2>4
<1>12. CASE Crash
  <2>1. view' \in [Viewers -> [pc : {"idle", "RUNNING", "ended", "streaming", "closed"},
                            seen : Seq(Nat)]]
    BY <1>12 DEF Crash
  <2>2. /\ buffer' \in Seq(Nat) /\ Len(buffer') = 0 /\ pending' \in Seq(Nat)
        /\ chain' \in Seq(Batches)
    BY <1>12, NoneType DEF Crash
  <2>3. crashes' \in 0..MaxCrashes
    BY <1>12 DEF Crash
  <2>4. Len(buffer') <= BufferSize
    BY <2>2
  <2>5. /\ run' = "lost" /\ status' = "ended" /\ subject' = FALSE /\ subscribed' = {}
        /\ hasBuffer' = FALSE /\ retired' = "no"
        /\ UNCHANGED <<arrived, seq, rows, failed>>
    BY <1>12 DEF Crash
  <2> QED BY <2>1, <2>2, <2>3, <2>4, <2>5 DEF Batches
<1>13. CASE UNCHANGED vars
  BY <1>13 DEF vars
<1> QED
  BY <1>1, <1>2, <1>3, <1>4, <1>5, <1>6, <1>7, <1>8, <1>9, <1>10, <1>11, <1>12, <1>13
  DEF Next, RunProceeds

-------------------------------------------------------------------------------
(* The log.                                                                *)

\* Adding an element at the end.
LEMMA AppendParts ==
  ASSUME NEW S, NEW s \in Seq(S), NEW e \in S
  PROVE  /\ Append(s, e) \in Seq(S) /\ Len(Append(s, e)) = Len(s) + 1
         /\ DOMAIN Append(s, e) = 1..Len(s) + 1 /\ DOMAIN s = 1..Len(s) /\ Len(s) \in Nat
         /\ \A k \in DOMAIN s : Append(s, e)[k] = s[k]
         /\ Append(s, e)[Len(s) + 1] = e /\ Append(s, e) # <<>>
BY AppendProperties

\* The elements of a sequence.
LEMMA Elements ==
  ASSUME NEW S, NEW s \in Seq(S), NEW k \in DOMAIN s
  PROVE  s[k] \in S
BY LenProperties

\* What is pending stays what comes next.
LEMMA PendingStep == TypeOK /\ PendingNext /\ [Next]_vars => PendingNext'
<1> SUFFICES ASSUME TypeOK, PendingNext, [Next]_vars PROVE PendingNext'
  OBVIOUS
<1> USE EventsAssumption
<1>1. CASE \E request \in Requests : IngestOtlp(request)
  <2>0. PICK n \in Nat \ {0} : run # "created" /\ arrived + n <= MaxEvents /\ Ingest(n)
    BY <1>1, SomeArrive
  <2>1. arrived' = arrived + n /\ arrived \in Nat /\ run' = run /\ seq' = seq
        /\ subscribed' = subscribed /\ run # "created"
    BY <2>0 DEF Ingest, TypeOK
  <2>2. CASE Persister \in subscribed
    <3>1. pending' = pending \o Arrivals(n)
      BY <2>0, <2>2 DEF Ingest, Arrivals
    <3>2. seq + Len(pending) = arrived /\ seq \in Nat /\ run \in {"agent", "stop"}
      BY <2>2, <2>1 DEF PendingNext, TypeOK
    <3>3. /\ pending' \in Seq(Nat) /\ Len(pending') = Len(pending) + n /\ Len(pending) \in Nat
          /\ \A k \in 1..Len(pending) : pending'[k] = pending[k]
          /\ \A k \in 1..n : pending'[Len(pending) + k] = arrived + k
      <4>1. n \in Nat /\ arrived \in Nat /\ pending \in Seq(Nat)
        BY <2>1 DEF TypeOK
      <4> DEFINE t == pending \o Arrivals(n)
      <4>2. /\ t \in Seq(Nat) /\ Len(t) = Len(pending) + n /\ Len(pending) \in Nat
            /\ \A k \in 1..Len(pending) : t[k] = pending[k]
            /\ \A k \in 1..n : t[Len(pending) + k] = arrived + k
        BY ONLY <4>1, ArrivalsAppended
      <4> HIDE DEF t
      <4>3. pending' = t
        BY <3>1 DEF t
      <4> QED BY <4>2, <4>3
    <3>4. \A k \in 1..Len(pending) : pending[k] = seq + k
      BY DEF PendingNext, TypeOK
    <3>5. ASSUME NEW i \in DOMAIN pending' PROVE pending'[i] = seq + i
      <4>1. i \in 1..Len(pending) + n
        BY <3>3
      <4>2. CASE i \in 1..Len(pending)
        BY <4>2, <3>3, <3>4
      <4>3. CASE i \notin 1..Len(pending)
        <5>1. i - Len(pending) \in 1..n /\ Len(pending) + (i - Len(pending)) = i
          BY <4>1, <4>3, <3>3
        <5>2. pending'[i] = arrived + (i - Len(pending))
          BY <5>1, <3>3
        <5> QED BY <5>2, <3>2, <3>3, <4>1
      <4> QED BY <4>2, <4>3
    <3>6. seq + Len(pending') = arrived + n
      BY <3>2, <3>3
    <3> QED BY <2>1, <2>2, <3>2, <3>5, <3>6 DEF PendingNext
  <2>3. CASE Persister \notin subscribed
    <3>1. pending' = pending
      BY <2>0, <2>3 DEF Ingest
    <3> QED BY <2>1, <2>3, <3>1 DEF PendingNext
  <2> QED BY <2>2, <2>3
<1>2. CASE Spawn
  BY <1>2 DEF Spawn, Observe, persistVars, PendingNext
<1>3. ASSUME Flushed, PendingNext, run \in {"agent", "stop"}
      PROVE  /\ \A i \in DOMAIN pending' : pending'[i] = seq' + i
             /\ seq' + Len(pending') = arrived /\ pending' = <<>>
  <2>1. seq + Len(pending) = arrived /\ arrived \in Nat /\ pending' = <<>>
        /\ seq' = seq + Len(pending)
    BY <1>3, NoneType DEF Flushed, PendingNext, TypeOK
  <2> QED BY <2>1, NoneType
<1>4. CASE RunEnds \/ WriteBatch \/ WriteFails \/ RetentionElapses \/ SweepExpired
  BY <1>4 DEF RunEnds, WriteBatch, WriteFails, RetentionElapses, SweepExpired, displayVars,
              persistVars, PendingNext
<1>5. CASE Stop
  <2>1. run = "stop" /\ run' = "drain" /\ subscribed' = subscribed \ {Persister} /\ Flushed
    BY <1>5 DEF Stop
  <2> QED BY <2>1, <1>3 DEF PendingNext
<1>6. CASE Flush
  <2>1. run \in {"agent", "stop"} /\ UNCHANGED <<run, arrived, subscribed>> /\ Flushed
    BY <1>6 DEF Flush, displayVars
  <2> QED BY <2>1, <1>3 DEF PendingNext
<1>7. CASE Complete
  <2>1. run = "drain" /\ run' = "done" /\ subscribed' = {} /\ UNCHANGED <<pending, seq, arrived>>
    BY <1>7 DEF Complete, persistVars
  <2> QED BY <2>1 DEF PendingNext
<1>8. ASSUME NEW v \in Viewers, ViewAsks(v) \/ ViewStreams(v) \/ ViewReplays(v) \/ ViewDone(v)
      PROVE  PendingNext'
  <2>1. /\ UNCHANGED <<run, arrived, pending, seq>>
        /\ subscribed' \in {subscribed, subscribed \cup {v}, subscribed \ {v}}
    BY <1>8 DEF ViewAsks, ViewStreams, ViewReplays, ViewDone, Observe, displayVars, persistVars
  <2> QED BY <2>1 DEF PendingNext
<1>9. CASE Crash
  BY <1>9, NoneType DEF Crash, PendingNext
<1>10. CASE UNCHANGED vars
  BY <1>10 DEF vars, displayVars, persistVars, PendingNext
<1> QED
  BY <1>1, <1>2, <1>4, <1>5, <1>6, <1>7, <1>8, <1>9, <1>10 DEF Next, RunProceeds

\* The rows are rows.
LEMMA RowTypes ==
  ASSUME TypeOK, NEW i \in DOMAIN rows
  PROVE  rows[i].seq \in Nat /\ rows[i].event \in Nat
<1>1. rows[i] \in Row
  BY Elements DEF TypeOK, Row
<1> QED BY <1>1 DEF Row

Log == ChainInOrder /\ RowsInOrder /\ Logged

\* Steps that leave the log alone, or give up what is in memory.
LEMMA LogKept ==
  ASSUME TypeOK, Log, UNCHANGED <<seq, rows, failed>>,
         \/ chain' = chain /\ (run' = "done" => chain = <<>>) /\ (run = "lost" => run' = "lost")
         \/ chain' = <<>> /\ run' = "lost"
  PROVE  Log'
BY NoneType DEF Log, ChainInOrder, RowsInOrder, Logged, EndOf, InBatch

\* A flush extends the chain by the numbers that come next.
LEMMA LogFlushed ==
  ASSUME TypeOK, PendingNext, Log, Flushed, run \in {"agent", "stop"}, run' # "done",
         UNCHANGED <<rows, failed>>
  PROVE  Log'
<1>1. CASE pending = <<>>
  <2>1. UNCHANGED <<chain, seq>>
    BY <1>1 DEF Flushed
  <2> QED BY <2>1, LogKept
<1>2. CASE pending # <<>>
  <2> DEFINE n == Len(chain)
  <2>1. chain' = Append(chain, Batch) /\ seq' = seq + Len(pending)
    BY <1>2 DEF Flushed
  <2>2. Batch \in Batches /\ Batch.first = seq /\ Batch.events = pending /\ seq \in Nat
        /\ Len(pending) \in Nat /\ EndOf(Batch) = seq' /\ seq' \in Nat
    <3>1. seq \in Nat /\ pending \in Seq(Nat) /\ Len(pending) \in Nat
      BY DEF TypeOK
    <3>2. Batch \in Batches /\ Batch.first = seq /\ Batch.events = pending
      BY <3>1 DEF Batch, Batches
    <3> QED BY <2>1, <3>1, <3>2 DEF EndOf
  <2>3. /\ n \in Nat /\ DOMAIN chain' = 1..n + 1 /\ DOMAIN chain = 1..n
        /\ \A k \in DOMAIN chain : chain'[k] = chain[k]
        /\ chain'[n + 1] = Batch
    <3>1. chain \in Seq(Batches)
      BY DEF TypeOK, Batches
    <3> QED BY <2>1, <2>2, <3>1, AppendParts
  <2>4. \A k \in DOMAIN chain : chain[k] \in Batches
    BY Elements DEF TypeOK, Batches
  <2> HIDE DEF n
  <2>5. \A k \in DOMAIN chain : chain[k].first \in Nat /\ EndOf(chain[k]) \in Nat
    BY <2>4 DEF Batches, EndOf
  <2>6. ChainInOrder'
    <3>1. ASSUME NEW k \in DOMAIN chain'
          PROVE  /\ EndOf(chain'[k]) <= seq'
                 /\ \A i \in DOMAIN chain'[k].events : chain'[k].events[i] = chain'[k].first + i
      <4>1. CASE k = n + 1
        BY <4>1, <2>2, <2>3 DEF PendingNext
      <4>2. CASE k # n + 1
        <5>1. k \in DOMAIN chain /\ chain'[k] = chain[k]
          BY <4>2, <2>3
        <5> QED BY <5>1, <2>1, <2>2, <2>5 DEF Log, ChainInOrder
      <4> QED BY <4>1, <4>2
    <3>2. ASSUME NEW j \in DOMAIN chain', NEW k \in DOMAIN chain', j < k
          PROVE  EndOf(chain'[j]) <= chain'[k].first
      <4>1. j \in DOMAIN chain /\ chain'[j] = chain[j]
        BY <3>2, <2>3
      <4>2. CASE k = n + 1
        BY <4>1, <4>2, <2>2, <2>3 DEF Log, ChainInOrder
      <4>3. CASE k # n + 1
        BY <4>1, <4>3, <3>2, <2>3 DEF Log, ChainInOrder
      <4> QED BY <4>2, <4>3
    <3>3. ASSUME NEW i \in DOMAIN rows
          PROVE  rows[i].seq < seq' /\ \A k \in DOMAIN chain' : rows[i].seq < chain'[k].first
      <4>1. rows[i].seq \in Nat /\ rows[i].seq < seq
        BY RowTypes DEF Log, ChainInOrder
      <4>2. \A k \in DOMAIN chain : rows[i].seq < chain[k].first
        BY DEF Log, ChainInOrder
      <4> QED BY <4>1, <4>2, <2>1, <2>2, <2>3
    <3> QED BY <3>1, <3>2, <3>3 DEF ChainInOrder, EndOf
  <2>7. RowsInOrder'
    BY DEF Log, RowsInOrder
  <2>8. Logged'
    <3>1. failed' \subseteq 1..seq'
      BY <2>1, <2>2 DEF Log, Logged
    <3>2. ASSUME NEW e \in 1..seq'
          PROVE  \/ \E i \in DOMAIN rows' : rows'[i].event = e
                 \/ e \in failed'
                 \/ \E k \in DOMAIN chain' : InBatch(e, chain'[k])
      <4>1. CASE e > seq
        <5>1. InBatch(e, Batch)
          BY <4>1, <2>2 DEF InBatch
        <5>2. n + 1 \in DOMAIN chain'
          BY <2>3
        <5> QED BY <5>1, <5>2, <2>3
      <4>2. CASE ~ (e > seq)
        <5>1. e \in 1..seq
          BY <4>2, <2>1, <2>2
        <5>2. \/ \E i \in DOMAIN rows : rows[i].event = e
              \/ e \in failed
              \/ \E k \in DOMAIN chain : InBatch(e, chain[k])
          BY <5>1 DEF Log, Logged
        <5>3. DOMAIN chain \subseteq DOMAIN chain'
          BY <2>3
        <5> QED BY <5>2, <5>3, <2>3
      <4> QED BY <4>1, <4>2
    <3> QED BY <3>1, <3>2 DEF Logged, InBatch, EndOf
  <2> QED BY <2>6, <2>7, <2>8 DEF Log
<1> QED BY <1>1, <1>2

\* The first batch leaves the chain; what the rest has is as before.
LEMMA ChainShortened ==
  ASSUME TypeOK, Log, chain # <<>>, chain' = Tail(chain)
  PROVE  /\ Head(chain) \in Batches /\ Head(chain) = chain[1] /\ 1 \in DOMAIN chain
         /\ \A k \in DOMAIN chain' :
              /\ k + 1 \in DOMAIN chain /\ chain'[k] = chain[k + 1]
              /\ chain'[k] \in Batches /\ EndOf(Head(chain)) <= chain'[k].first
         /\ \A k \in DOMAIN chain : k # 1 => k - 1 \in DOMAIN chain' /\ chain'[k - 1] = chain[k]
         /\ DOMAIN chain \subseteq Nat /\ DOMAIN chain' \subseteq Nat \ {0}
<1>1. chain \in Seq(Batches) /\ DOMAIN chain = 1..Len(chain) /\ Len(chain) \in Nat
  BY DEF TypeOK, Batches
<1>2. /\ Head(chain) \in Batches /\ Head(chain) = chain[1] /\ 1 \in DOMAIN chain
      /\ chain' \in Seq(Batches)
      /\ \A k \in DOMAIN chain' : k + 1 \in DOMAIN chain /\ chain'[k] = chain[k + 1]
      /\ \A k \in DOMAIN chain : k # 1 => k - 1 \in DOMAIN chain'
  BY <1>1, TailParts
<1>3. DOMAIN chain' \subseteq Nat \ {0}
  BY <1>2, LenProperties
<1>4. ASSUME NEW k \in DOMAIN chain'
      PROVE  chain'[k] \in Batches /\ EndOf(Head(chain)) <= chain'[k].first
  <2>1. chain'[k] \in Batches
    BY <1>2, Elements
  <2>2. 1 < k + 1
    BY <1>3
  <2> QED BY <2>1, <2>2, <1>2 DEF Log, ChainInOrder
<1>5. ASSUME NEW k \in DOMAIN chain, k # 1
      PROVE  k - 1 \in DOMAIN chain' /\ chain'[k - 1] = chain[k]
  <2>1. k \in Int /\ k - 1 \in DOMAIN chain'
    BY <1>1, <1>2, <1>5
  <2>2. (k - 1) + 1 = k
    BY <2>1
  <2> QED BY <2>1, <2>2, <1>2
<1> QED BY <1>1, <1>2, <1>3, <1>4, <1>5

\* What is left of the chain is in order.
LEMMA ChainStillInOrder ==
  ASSUME TypeOK, Log, chain # <<>>, chain' = Tail(chain), seq' = seq
  PROVE  /\ \A k \in DOMAIN chain' :
              /\ EndOf(chain'[k]) <= seq'
              /\ \A i \in DOMAIN chain'[k].events : chain'[k].events[i] = chain'[k].first + i
         /\ \A j, k \in DOMAIN chain' : j < k => EndOf(chain'[j]) <= chain'[k].first
<1>1. \A k \in DOMAIN chain' : k \in Nat /\ k + 1 \in DOMAIN chain /\ chain'[k] = chain[k + 1]
  BY ChainShortened
<1>2. \A j, k \in DOMAIN chain' : j < k => j + 1 < k + 1
  BY <1>1
<1> QED BY <1>1, <1>2 DEF Log, ChainInOrder

\* Writing the first batch: its rows come after all others and before the rest.
LEMMA LogWritten ==
  ASSUME TypeOK, Log, WriteBatch
  PROVE  Log'
<1> DEFINE b == Head(chain)
           n == Len(rows)
           m == Len(b.events)
<1>1. chain # <<>> /\ chain' = Tail(chain) /\ UNCHANGED <<run, seq, failed>>
      /\ rows' = rows \o RowsOf(b)
  BY DEF WriteBatch, RowsOf
<1>2. b \in Batches /\ b = chain[1] /\ 1 \in DOMAIN chain
  BY <1>1, ChainShortened
<1>3. /\ b.first \in Nat /\ m \in Nat /\ n \in Nat /\ DOMAIN b.events = 1..m
      /\ EndOf(b) = b.first + m
  BY <1>2 DEF Batches, TypeOK, EndOf
<1>4. \A i \in 1..m : b.events[i] = b.first + i
  BY <1>2, <1>3 DEF Log, ChainInOrder
<1>5. /\ RowsOf(b) \in Seq(Row) /\ Len(RowsOf(b)) = m
      /\ \A i \in 1..m : RowsOf(b)[i].seq = b.first + i - 1 /\ RowsOf(b)[i].event = b.first + i
  <2>1. b \in [first : Nat, events : Seq(Nat)]
    BY <1>2 DEF Batches
  <2>2. /\ RowsOf(b) \in Seq(Row) /\ Len(RowsOf(b)) = m
        /\ \A i \in 1..m : RowsOf(b)[i] = [seq |-> b.first + i - 1, event |-> b.events[i]]
    BY <2>1, RowsOfType
  <2>3. ASSUME NEW i \in 1..m
        PROVE  RowsOf(b)[i].seq = b.first + i - 1 /\ RowsOf(b)[i].event = b.first + i
    <3>1. RowsOf(b)[i] = [seq |-> b.first + i - 1, event |-> b.events[i]]
      BY <2>2
    <3>2. b.events[i] = b.first + i
      BY <1>4
    <3> QED BY <3>1, <3>2
  <2> QED BY <2>2, <2>3
<1>6. rows \in Seq(Row)
  BY DEF TypeOK, Row
<1>7. /\ DOMAIN rows' = 1..n + m /\ DOMAIN rows = 1..n
      /\ \A i \in 1..n : rows'[i] = rows[i]
      /\ \A i \in n + 1..n + m : rows'[i] = RowsOf(b)[i - n]
  BY <1>1, <1>3, <1>5, <1>6, ConcatProperties
<1> HIDE DEF b, n, m
<1>8. \A i \in n + 1..n + m :
        rows'[i].seq = b.first + (i - n) - 1 /\ rows'[i].event = b.first + (i - n)
  <2>1. \A i \in n + 1..n + m : i - n \in 1..m
    BY <1>3
  <2> QED BY <2>1, <1>5, <1>7
<1>9. \A i \in 1..n : rows[i].seq \in Nat /\ rows[i].seq < b.first
  BY <1>2, <1>7, RowTypes DEF Log, ChainInOrder
<1>10. /\ EndOf(b) <= seq /\ seq \in Nat
       /\ \A k \in DOMAIN chain' : chain'[k].first \in Nat /\ EndOf(b) <= chain'[k].first
  <2>1. EndOf(b) <= seq
    BY <1>2 DEF Log, ChainInOrder
  <2>2. seq \in Nat
    BY DEF TypeOK
  <2>3. \A k \in DOMAIN chain' : chain'[k] \in Batches /\ EndOf(b) <= chain'[k].first
    BY <1>1, ChainShortened DEF b
  <2> QED BY <2>1, <2>2, <2>3 DEF Batches
<1>11. ChainInOrder'
  <2>1. ASSUME NEW i \in DOMAIN rows'
        PROVE  rows'[i].seq < seq' /\ \A k \in DOMAIN chain' : rows'[i].seq < chain'[k].first
    <3>1. rows'[i].seq \in Int /\ rows'[i].seq < EndOf(b)
      <4>1. CASE i \in 1..n
        BY <4>1, <1>3, <1>7, <1>9
      <4>2. CASE i \in n + 1..n + m
        BY <4>2, <1>3, <1>8
      <4> QED BY <4>1, <4>2, <1>3, <1>7
    <3>2. EndOf(b) \in Int
      BY <1>3
    <3>3. ASSUME NEW k \in DOMAIN chain' PROVE rows'[i].seq < chain'[k].first
      <4>1. chain'[k].first \in Nat /\ EndOf(b) <= chain'[k].first
        BY <1>10
      <4> QED BY <4>1, <3>1, <3>2
    <3>4. rows'[i].seq < seq'
      BY <3>1, <3>2, <1>1, <1>10
    <3> QED BY <3>3, <3>4
  <2> QED BY <2>1, <1>1, ChainStillInOrder DEF ChainInOrder, EndOf
<1>12. RowsInOrder'
  <2>1. ASSUME NEW i \in DOMAIN rows' PROVE rows'[i].seq = rows'[i].event - 1
    <3>1. CASE i \in 1..n
      BY <3>1, <1>7 DEF Log, RowsInOrder
    <3>2. CASE i \in n + 1..n + m
      BY <3>2, <1>3, <1>8
    <3> QED BY <3>1, <3>2, <1>3, <1>7
  <2>2. ASSUME NEW i \in DOMAIN rows', NEW k \in DOMAIN rows', i < k
        PROVE  rows'[i].seq < rows'[k].seq
    <3>1. CASE k \in 1..n
      <4>1. i \in 1..n
        BY <3>1, <2>2, <1>3, <1>7
      <4> QED BY <3>1, <4>1, <2>2, <1>7 DEF Log, RowsInOrder
    <3> DEFINE x == rows'[i].seq
               y == rows'[k].seq
               f == b.first
    <3>0. f \in Nat
      BY <1>3
    <3>2. CASE k \in n + 1..n + m /\ i \in 1..n
      <4>1. x \in Nat /\ x < f
        BY <3>2, <1>7, <1>9
      <4>2. y = f + (k - n) - 1
        BY <3>2, <1>8
      <4> HIDE DEF x, y, f
      <4>3. x < y
        BY <4>1, <4>2, <3>0, <3>2, <1>3
      <4> QED BY <4>3 DEF x, y
    <3>3. CASE k \in n + 1..n + m /\ i \in n + 1..n + m
      <4>1. x = f + (i - n) - 1 /\ y = f + (k - n) - 1
        BY <3>3, <1>8
      <4> HIDE DEF x, y, f
      <4>2. x < y
        BY <4>1, <3>0, <3>3, <2>2, <1>3
      <4> QED BY <4>2 DEF x, y
    <3> QED BY <3>1, <3>2, <3>3, <1>3, <1>7
  <2> QED BY <2>1, <2>2 DEF RowsInOrder
<1>13. Logged'
  <2>1. ASSUME run # "lost", NEW e \in 1..seq
        PROVE  \/ \E i \in DOMAIN rows' : rows'[i].event = e
               \/ e \in failed
               \/ \E k \in DOMAIN chain' : InBatch(e, chain'[k])
    <3>1. CASE \E i \in DOMAIN rows : rows[i].event = e
      <4>1. PICK i \in DOMAIN rows : rows[i].event = e
        BY <3>1
      <4>2. i \in DOMAIN rows' /\ rows'[i] = rows[i]
        BY <1>3, <1>7
      <4> QED BY <4>1, <4>2
    <3>2. CASE e \in failed
      BY <3>2
    <3>3. CASE \E k \in DOMAIN chain : InBatch(e, chain[k])
      <4>1. PICK k \in DOMAIN chain : InBatch(e, chain[k])
        BY <3>3
      <4>2. CASE k = 1
        <5>1. b.first < e /\ e <= b.first + m
          BY <4>1, <4>2, <1>2, <1>3 DEF InBatch
        <5> DEFINE i == n + (e - b.first)
        <5>2. i \in n + 1..n + m /\ b.first + (i - n) = e /\ i \in 1..n + m
          BY <5>1, <1>3
        <5> HIDE DEF i
        <5>3. rows'[i].event = b.first + (i - n)
          BY <5>2, <1>8
        <5>4. i \in DOMAIN rows' /\ rows'[i].event = e
          BY <5>2, <5>3, <1>7
        <5> QED BY <5>4
      <4>3. CASE k # 1
        BY <4>1, <4>3, <1>1, ChainShortened
      <4> QED BY <4>2, <4>3
    <3> QED BY <2>1, <3>1, <3>2, <3>3 DEF Log, Logged
  <2>2. run' # "done"
    BY <1>1 DEF Log, Logged
  <2> QED BY <2>1, <2>2, <1>1 DEF Log, Logged, InBatch, EndOf
<1> QED BY <1>11, <1>12, <1>13 DEF Log

\* A write that fails: its events are noted.
LEMMA LogFailed ==
  ASSUME TypeOK, Log, WriteFails
  PROVE  Log'
<1> DEFINE b == Head(chain)
<1>1. chain # <<>> /\ chain' = Tail(chain) /\ UNCHANGED <<run, seq, rows>>
      /\ failed' = failed \cup ToSet(b.events)
  BY DEF WriteFails
<1>2. b \in Batches /\ b = chain[1] /\ 1 \in DOMAIN chain
  BY <1>1, ChainShortened
<1>3. b.first \in Nat /\ Len(b.events) \in Nat /\ DOMAIN b.events = 1..Len(b.events)
      /\ EndOf(b) = b.first + Len(b.events)
  BY <1>2 DEF Batches, EndOf
<1>4. \A i \in 1..Len(b.events) : b.events[i] = b.first + i
  BY <1>2, <1>3 DEF Log, ChainInOrder
<1>5. EndOf(b) <= seq /\ seq \in Nat
  BY <1>2 DEF Log, ChainInOrder, TypeOK
<1> HIDE DEF b
<1>6. ASSUME NEW e PROVE e \in ToSet(b.events) <=> e \in Int /\ InBatch(e, b)
  <2>1. ASSUME e \in ToSet(b.events) PROVE e \in Int /\ InBatch(e, b)
    BY <2>1, <1>3, <1>4 DEF ToSet, InBatch
  <2>2. ASSUME e \in Int, InBatch(e, b) PROVE e \in ToSet(b.events)
    <3>1. e - b.first \in 1..Len(b.events)
      BY <2>2, <1>3 DEF InBatch
    <3>2. b.events[e - b.first] = e
      BY <3>1, <1>3, <1>4, <2>2
    <3> QED BY <3>1, <3>2, <1>3 DEF ToSet
  <2> QED BY <2>1, <2>2
<1>7. ChainInOrder'
  <2>1. ASSUME NEW i \in DOMAIN rows
        PROVE  rows[i].seq < seq /\ \A k \in DOMAIN chain' : rows[i].seq < chain'[k].first
    BY <1>1, ChainShortened DEF Log, ChainInOrder
  <2> QED BY <2>1, <1>1, ChainStillInOrder DEF ChainInOrder, EndOf
<1>8. RowsInOrder'
  BY <1>1 DEF Log, RowsInOrder
<1>9. Logged'
  <2>1. failed' \subseteq 1..seq
    <3>1. ASSUME NEW e \in ToSet(b.events) PROVE e \in 1..seq
      BY <1>3, <1>5, <1>6 DEF InBatch
    <3> QED BY <3>1, <1>1 DEF Log, Logged
  <2>2. ASSUME run # "lost", NEW e \in 1..seq
        PROVE  \/ \E i \in DOMAIN rows : rows[i].event = e
               \/ e \in failed'
               \/ \E k \in DOMAIN chain' : InBatch(e, chain'[k])
    <3>1. CASE \E k \in DOMAIN chain : InBatch(e, chain[k])
      <4>1. PICK k \in DOMAIN chain : InBatch(e, chain[k])
        BY <3>1
      <4>2. CASE k = 1
        BY <4>1, <4>2, <1>1, <1>2, <1>6
      <4>3. CASE k # 1
        BY <4>1, <4>3, <1>1, ChainShortened
      <4> QED BY <4>2, <4>3
    <3> QED BY <2>2, <3>1, <1>1 DEF Log, Logged
  <2>3. run' # "done"
    BY <1>1 DEF Log, Logged
  <2> QED BY <2>1, <2>2, <2>3, <1>1 DEF Logged, InBatch, EndOf
<1> QED BY <1>7, <1>8, <1>9 DEF Log

\* Every step keeps the log in order.
LEMMA LogStep == TypeOK /\ PendingNext /\ Log /\ [Next]_vars => Log'
<1> SUFFICES ASSUME TypeOK, PendingNext, Log, [Next]_vars PROVE Log'
  OBVIOUS
<1> USE DEF displayVars, persistVars
<1>1. CASE Stop \/ Flush
  <2>1. Flushed /\ run \in {"agent", "stop"} /\ run' # "done" /\ UNCHANGED <<rows, failed>>
    BY <1>1 DEF Stop, Flush
  <2> QED BY <2>1, LogFlushed
<1>2. CASE WriteBatch
  BY <1>2, LogWritten
<1>3. CASE WriteFails
  BY <1>3, LogFailed
<1>4. CASE Crash
  BY <1>4, LogKept DEF Crash
<1>5. CASE Complete
  BY <1>5, LogKept DEF Complete
<1>6. CASE Spawn \/ RunEnds
  BY <1>6, LogKept DEF Spawn, RunEnds
<1>7. CASE \/ \E request \in Requests : IngestOtlp(request)
           \/ RetentionElapses \/ SweepExpired \/ UNCHANGED vars
  <2>1. UNCHANGED <<run, seq, rows, failed, chain>>
    BY <1>7 DEF IngestOtlp, Ingest, RetentionElapses, SweepExpired, vars
  <2> QED BY <2>1, LogKept DEF Log, Logged
<1>8. ASSUME NEW v \in Viewers, ViewAsks(v) \/ ViewStreams(v) \/ ViewReplays(v) \/ ViewDone(v)
      PROVE  Log'
  <2>1. UNCHANGED <<run, seq, rows, failed, chain>>
    BY <1>8 DEF ViewAsks, ViewStreams, ViewReplays, ViewDone
  <2> QED BY <2>1, LogKept DEF Log, Logged
<1> QED
  BY <1>1, <1>2, <1>3, <1>4, <1>5, <1>6, <1>7, <1>8 DEF Next, RunProceeds

\* The initial states.
LEMMA InitLog == Init => PendingNext /\ Log
BY NoneType, EventsAssumption
DEF Init, PendingNext, Log, ChainInOrder, RowsInOrder, Logged

LogInv == TypeOK /\ PendingNext /\ Log

\* The invariant of the log holds of every behaviour.
LEMMA LogHolds == Spec => []LogInv
<1>1. Init => LogInv
  BY InitType, InitLog DEF LogInv
<1>2. LogInv /\ [Next]_vars => LogInv'
  BY NextType, PendingStep, LogStep DEF LogInv
<1> QED BY <1>1, <1>2, PTL DEF Spec

\* Every variable of the event path keeps its type, and the buffer its capacity.
THEOREM TypeCorrect == Spec => []TypeOK
<1>1. LogInv => TypeOK
  BY DEF LogInv
<1> QED BY <1>1, LogHolds, PTL

\* "seq is assigned synchronously at flush-time (call order), so concurrent ticks
\* never collide" (startEventPersister): rows are written in the order of their
\* numbers, which is the order of arrival, for any flushes and failing writes.
THEOREM RowsInOrderHolds == Spec => []RowsInOrder
<1>1. LogInv => RowsInOrder
  BY DEF LogInv, Log
<1> QED BY <1>1, LogHolds, PTL

\* "A long run isn't truncated by the in-memory display buffer cap": once run()
\* is over, each event that arrived before the persister stopped is written, or
\* its write failed, for any number of events and any size of the buffer.
THEOREM PaperTrailHolds == Spec => []PaperTrail
<1>1. LogInv => PaperTrail
  <2> SUFFICES ASSUME LogInv, run = "done" PROVE PaperTrail
    BY DEF PaperTrail
  <2>1. pending = <<>> /\ chain = <<>>
    BY DEF LogInv, PendingNext, Log, Logged
  <2>2. ASSUME NEW e \in 1..seq PROVE e \in {rows[i].event : i \in DOMAIN rows} \cup failed
    BY <2>1, NoneType DEF LogInv, Log, Logged
  <2>3. ASSUME NEW i \in DOMAIN rows PROVE rows[i].event \in 1..seq
    <3>1. rows[i].seq \in Nat /\ rows[i].event \in Nat
      BY RowTypes DEF LogInv
    <3>2. rows[i].seq < seq /\ rows[i].seq = rows[i].event - 1 /\ seq \in Nat
      BY DEF LogInv, Log, ChainInOrder, RowsInOrder, TypeOK
    <3> QED BY <3>1, <3>2
  <2>4. failed \subseteq 1..seq
    BY DEF LogInv, Log, Logged
  <2> QED BY <2>1, <2>2, <2>3, <2>4 DEF PaperTrail
<1> QED BY <1>1, LogHolds, PTL

-------------------------------------------------------------------------------
(* What viewers see.                                                       *)

\* Consecutive events up to the one that arrived last.
UpToDate(s, e) == Contiguous(s) /\ (s # <<>> => Last(s) = e)

\* Counted from its end.
LEMMA UpToDateCounted ==
  ASSUME NEW s \in Seq(Nat), NEW e \in Nat
  PROVE  UpToDate(s, e) <=> \A k \in 1..Len(s) : s[k] = e - Len(s) + k
<1>1. Len(s) \in Nat /\ DOMAIN s = 1..Len(s) /\ \A k \in 1..Len(s) : s[k] \in Nat
  BY Elements
<1>2. CASE Len(s) = 0
  BY <1>1, <1>2 DEF UpToDate, Contiguous
<1>3. CASE Len(s) # 0
  <2>1. s # <<>> /\ 1 \in 1..Len(s) /\ Len(s) \in 1..Len(s) /\ Last(s) = s[Len(s)]
    BY <1>1, <1>3, NoneType DEF Last
  <2>2. ASSUME UpToDate(s, e), NEW k \in 1..Len(s) PROVE s[k] = e - Len(s) + k
    <3>1. \A j \in 1..Len(s) : s[j] = s[1] + j - 1
      BY <1>1, <2>2 DEF UpToDate, Contiguous
    <3>2. s[Len(s)] = e
      BY <2>1, <2>2 DEF UpToDate
    <3>3. s[k] = s[1] + k - 1
      BY <3>1
    <3>4. s[Len(s)] = s[1] + Len(s) - 1
      BY ONLY <2>1, <3>1
    <3>5. s[1] \in Nat /\ Len(s) \in Nat /\ k \in Nat
      BY <1>1, <2>1
    <3>6. e = s[1] + Len(s) - 1
      BY ONLY <3>2, <3>4
    <3>7. s[1] + k - 1 = (s[1] + Len(s) - 1) - Len(s) + k
      BY ONLY <3>5
    <3> QED BY ONLY <3>3, <3>6, <3>7
  <2>3. ASSUME \A k \in 1..Len(s) : s[k] = e - Len(s) + k PROVE UpToDate(s, e)
    <3>1. \A k \in 1..Len(s) : s[k] = s[1] + k - 1
      BY <1>1, <2>1, <2>3
    <3>2. s[Len(s)] = e
      BY <1>1, <2>1, <2>3
    <3> QED BY <1>1, <2>1, <3>1, <3>2 DEF UpToDate, Contiguous
  <2> QED BY <2>2, <2>3
<1> QED BY <1>1, <1>2, <1>3

\* The next events after those that are up to date.
LEMMA UpToDateConcat ==
  ASSUME NEW s \in Seq(Nat), arrived \in Nat, UpToDate(s, arrived), NEW n \in Nat
  PROVE  UpToDate(s \o Arrivals(n), arrived + n)
<1> DEFINE t == s \o Arrivals(n)
<1>1. /\ t \in Seq(Nat) /\ Len(s) \in Nat /\ Len(t) = Len(s) + n
      /\ \A k \in 1..Len(s) : t[k] = s[k]
      /\ \A k \in 1..n : t[Len(s) + k] = arrived + k
  BY ArrivalsAppended
<1>2. \A k \in 1..Len(s) : s[k] = arrived - Len(s) + k
  BY UpToDateCounted
<1> HIDE DEF t
<1>3. ASSUME NEW k \in 1..Len(t) PROVE t[k] = (arrived + n) - Len(t) + k
  <2>1. CASE k \in 1..Len(s)
    BY <1>1, <1>2, <2>1
  <2>2. CASE k \notin 1..Len(s)
    <3>1. k - Len(s) \in 1..n /\ Len(s) + (k - Len(s)) = k
      BY <1>1, <2>2
    <3>2. t[k] = arrived + (k - Len(s))
      BY <1>1, <3>1
    <3> QED BY <1>1, <3>2
  <2> QED BY <2>1, <2>2
<1>4. arrived + n \in Nat
  OBVIOUS
<1>5. UpToDate(t, arrived + n)
  BY ONLY <1>1, <1>3, <1>4, UpToDateCounted
<1> QED BY <1>5 DEF t

\* The end of them.
LEMMA UpToDateKept ==
  ASSUME NEW s \in Seq(Nat), NEW e \in Nat, UpToDate(s, e)
  PROVE  UpToDate(Kept(s), e)
<1> DEFINE t == Kept(s)
<1>1. /\ t \in Seq(Nat) /\ Len(t) \in Nat /\ Len(t) <= Len(s) /\ Len(s) \in Nat
      /\ \A k \in 1..Len(t) : t[k] = s[k + (Len(s) - Len(t))]
  BY KeptEnd, EventsAssumption
<1>2. \A k \in 1..Len(s) : s[k] = e - Len(s) + k
  BY UpToDateCounted
<1> HIDE DEF t
<1>3. ASSUME NEW k \in 1..Len(t) PROVE t[k] = e - Len(t) + k
  <2>1. k + (Len(s) - Len(t)) \in 1..Len(s)
    BY <1>1
  <2> QED BY <1>1, <1>2, <2>1
<1> QED BY <1>1, <1>3, UpToDateCounted DEF t

\* The buffer, and each viewer for as long as it is subscribed, are up to date.
ViewInv ==
  /\ UpToDate(buffer, arrived)
  /\ \A v \in Viewers :
       /\ Contiguous(view[v].seen)
       /\ v \in subscribed => UpToDate(view[v].seen, arrived)

\* Nothing has been seen by anybody.
LEMMA NothingSeen == \A e : UpToDate(<<>>, e)
BY NoneType DEF UpToDate, Contiguous

\* Steps that show nothing: viewers only leave.
LEMMA ViewKept ==
  ASSUME ViewInv, UNCHANGED arrived, buffer' \in {buffer, <<>>},
         \A v \in Viewers : view'[v].seen = view[v].seen /\ (v \in subscribed' => v \in subscribed)
  PROVE  ViewInv'
BY NothingSeen DEF ViewInv, UpToDate

\* Every step keeps buffer and viewers up to date.
LEMMA ViewStep == TypeOK /\ ViewInv /\ [Next]_vars => ViewInv'
<1> SUFFICES ASSUME TypeOK, ViewInv, [Next]_vars PROVE ViewInv'
  OBVIOUS
<1> USE EventsAssumption
<1> USE DEF displayVars, persistVars
<1>1. CASE \E request \in Requests : IngestOtlp(request)
  <2>0. PICK n \in Nat \ {0} : run # "created" /\ arrived + n <= MaxEvents /\ Ingest(n)
    BY <1>1, SomeArrive
  <2> DEFINE es == Arrivals(n)
  <2>1. /\ arrived' = arrived + n /\ subscribed' = subscribed
        /\ buffer' = Kept(buffer \o es)
        /\ view' = [v \in Viewers |-> IF v \in subscribed
                                      THEN [view[v] EXCEPT !.seen = @ \o es] ELSE view[v]]
    BY <2>0 DEF Ingest, Buffered, Arrivals
  <2>a. n \in Nat /\ arrived \in Nat /\ arrived + n \in Nat
    BY DEF TypeOK
  <2>b. \A s \in Seq(Nat) :
          UpToDate(s, arrived) => s \o es \in Seq(Nat) /\ UpToDate(s \o es, arrived + n)
    BY ONLY <2>a, ArrivalsAppended, UpToDateConcat
  <2> HIDE DEF es
  <2>2. UpToDate(buffer', arrived')
    <3>1. buffer \o es \in Seq(Nat) /\ UpToDate(buffer \o es, arrived + n)
      BY <2>b DEF TypeOK, ViewInv
    <3> QED BY ONLY <3>1, <2>1, <2>a, UpToDateKept, EventsAssumption
  <2>3. ASSUME NEW v \in Viewers
        PROVE  Contiguous(view'[v].seen) /\ (v \in subscribed' => UpToDate(view'[v].seen, arrived'))
    <3>1. view[v].seen \in Seq(Nat)
      BY DEF TypeOK
    <3>2. CASE v \in subscribed
      <4>1. view'[v].seen = view[v].seen \o es
        BY <3>2, <2>1 DEF TypeOK
      <4>2. UpToDate(view'[v].seen, arrived + n)
        BY <4>1, <3>1, <3>2, <2>b DEF ViewInv
      <4> QED BY <4>2, <2>1 DEF UpToDate
    <3>3. CASE v \notin subscribed
      BY <3>3, <2>1 DEF ViewInv
    <3> QED BY <3>2, <3>3
  <2> QED BY <2>2, <2>3 DEF ViewInv
<1>2. CASE Spawn
  <2>1. UNCHANGED <<arrived, view>> /\ subscribed' = subscribed \cup {Persister}
        /\ buffer' \in {buffer, <<>>}
    BY <1>2 DEF Spawn, Observe
  <2> QED BY <2>1, ViewKept
<1>3. CASE RunEnds \/ WriteBatch \/ WriteFails \/ RetentionElapses \/ SweepExpired
           \/ Stop \/ Flush \/ Complete \/ UNCHANGED vars
  <2>1. UNCHANGED <<arrived, view>> /\ subscribed' \subseteq subscribed
        /\ buffer' \in {buffer, <<>>}
    BY <1>3 DEF RunEnds, WriteBatch, WriteFails, RetentionElapses, SweepExpired, Stop, Flush,
                Complete, vars
  <2> QED BY <2>1, ViewKept
<1>4. ASSUME NEW v \in Viewers, ViewAsks(v) \/ ViewDone(v) PROVE ViewInv'
  <2>1. UNCHANGED <<arrived, buffer>> /\ subscribed' \subseteq subscribed
    BY <1>4 DEF ViewAsks, ViewDone
  <2>2. \A w \in Viewers : view'[w].seen = view[w].seen
    <3>1. ASSUME NEW w \in Viewers PROVE view'[w].seen = view[w].seen
      <4>1. PICK pc : view' = [view EXCEPT ![v].pc = pc]
        BY <1>4 DEF ViewAsks, ViewDone
      <4>2. view \in [Viewers -> [pc : {"idle", "RUNNING", "ended", "streaming", "closed"},
                               seen : Seq(Nat)]]
        BY DEF TypeOK
      <4> QED BY <4>1, <4>2
    <3> QED BY <3>1
  <2> QED BY <2>1, <2>2, ViewKept
<1>5. ASSUME NEW v \in Viewers, ViewStreams(v) \/ ViewReplays(v) PROVE ViewInv'
  <2>1. /\ UNCHANGED arrived /\ subscribed' \subseteq subscribed \cup {v}
        /\ buffer' \in {buffer, <<>>}
        /\ view'[v].seen = buffer
        /\ \A w \in Viewers \ {v} : view'[w] = view[w]
    BY <1>5 DEF ViewStreams, ViewReplays, Observe, TypeOK
  <2> QED BY <2>1, NothingSeen DEF ViewInv, UpToDate
<1>6. CASE Crash
  <2>1. UNCHANGED arrived /\ subscribed' = {} /\ buffer' = <<>>
        /\ \A w \in Viewers : view'[w].seen = view[w].seen
    BY <1>6 DEF Crash, TypeOK
  <2> QED BY <2>1, ViewKept
<1> QED BY <1>1, <1>2, <1>3, <1>4, <1>5, <1>6 DEF Next, RunProceeds

\* "history" and the live events of streamRun: what a viewer has seen are
\* consecutive events, and while it is subscribed it has seen the latest, for any
\* number of viewers that come at any time.
THEOREM ViewersMissNothingHolds == Spec => []ViewersMissNothing
<1>1. Init => LogInv /\ ViewInv
  <2> SUFFICES ASSUME Init PROVE ViewInv
    BY InitType, InitLog DEF LogInv
  <2> QED BY NothingSeen DEF Init, ViewInv, UpToDate
<1>2. LogInv /\ ViewInv /\ [Next]_vars => (LogInv /\ ViewInv)'
  BY NextType, PendingStep, LogStep, ViewStep DEF LogInv
<1>3. ViewInv => ViewersMissNothing
  BY DEF ViewInv, UpToDate, ViewersMissNothing
<1> QED BY <1>1, <1>2, <1>3, PTL DEF Spec
================================================================================

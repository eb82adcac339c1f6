------------------------------ MODULE AgentEvents ------------------------------
(***************************************************************************)
(* The activity events of one agent run: the requests that export spans    *)
(* (api/src/langfuse/langfuse.utility.ts), ingestion, the display buffer   *)
(* and its retention (langfuse.service.ts), the live stream                *)
(* (langfuse.controller.ts), and the persister that run() of               *)
(* api/src/agent/agent.service.ts keeps from before the process is spawned *)
(* until after it ended.  Runs share nothing: every map is keyed by run.   *)
(*                                                                         *)
(* An event is its arrival number.  A subscription belongs to the Subject  *)
(* it was made on, so completing the Subject ends it.                      *)
(***************************************************************************)
EXTENDS Integers, Sequences, FiniteSets, SequencesExt

CONSTANTS
  Viewers,     \* requests for the run's stream
  BufferSize,  \* BUFFER_EVENTS
  Requests,    \* the export requests that may come
  MaxEvents,   \* bound: events the agent exports
  MaxCrashes   \* bound: process crashes

Persister == "persister"   \* the subscriber that is no viewer

\* The attributes that can name a run, SESSION_ID_KEYS in their order.
Keys == 1..3

\* What decides about a field of an encoded span or resource: it names this run,
\* another, or none under a session key; or it cannot be decoded, since its wire
\* type is unknown or it is a time that is cut short.
Names == [key : Keys, says : {"own", "other", "nothing"}]
Unknowns == [key : {0}, says : {"unknown"}]
Cuts == [key : {0}, says : {"cut"}]

\* A span as it is encoded, with the resource it belongs to.
Span == [fields : Seq(Names \cup Unknowns \cup Cuts), resource : Seq(Names \cup Unknowns)]

ASSUME EventsAssumption ==
  /\ Requests \subseteq [authorised : BOOLEAN, spans : Seq(Span), rest : Seq(Unknowns)]
  /\ Persister \notin Viewers
  /\ BufferSize \in Nat \ {0} /\ MaxEvents \in Nat /\ MaxCrashes \in Nat

VARIABLES
  run,         \* where run() is
  status,      \* AgentRun.status: "RUNNING" or "ended"
  arrived,     \* ghost: events ingested so far
  subject,     \* the run has a Subject
  subscribed,  \* the subscribers of that Subject
  hasBuffer,   \* the run has a buffer
  buffer,      \* its events
  retired,     \* retiredAt: "no", "recent", or "old" once past the retention
  pending,     \* the persister's events not yet flushed
  seq,         \* its next sequence number
  chain,       \* its batches not yet written
  rows,        \* the AgentEvent rows, in the order of their writes
  failed,      \* ghost: events of batches whose write failed
  view,        \* viewer -> [pc, seen]
  crashes      \* ghost: crashes so far

displayVars == <<subject, subscribed, hasBuffer, buffer, retired>>
persistVars == <<pending, seq, chain, rows, failed>>
vars == <<run, status, arrived, displayVars, persistVars, view, crashes>>

Init ==
  /\ run = "created" /\ status = "RUNNING" /\ arrived = 0
  /\ subject = FALSE /\ subscribed = {} /\ hasBuffer = FALSE /\ buffer = <<>>
  /\ retired = "no"
  /\ pending = <<>> /\ seq = 0 /\ chain = <<>> /\ rows = <<>> /\ failed = {}
  /\ view = [v \in Viewers |-> [pc |-> "idle", seen |-> <<>>]]
  /\ crashes = 0

-------------------------------------------------------------------------------
(* deserializeOtlpTraces.                                                  *)

\* ProtoReader.skip throws for a wire type it does not know, readFixed64LE
\* beyond the end.
Throws(fields) == \E i \in DOMAIN fields : fields[i].key = 0

\* Of the attributes with one key the last counts.
Attribute(fields, key) ==
  LET under == {i \in DOMAIN fields : fields[i].key = key}
  IN IF under = {} THEN "nothing" ELSE fields[Max(under)].says

\* The session they name: the first key that names any.
Session(fields) ==
  LET naming == {key \in Keys : Attribute(fields, key) # "nothing"}
  IN IF naming = {} THEN "nothing" ELSE Attribute(fields, Min(naming))

\* The resource counts where the span itself is silent.
OfThisRun(span) ==
  \/ Session(span.fields) = "own"
  \/ Session(span.fields) = "nothing" /\ Session(span.resource) = "own"

\* The spans of a request that become events of this run: none if anything in it
\* cannot be decoded, since all of it is before the first is ingested.
Decoded(request) ==
  {i \in DOMAIN request.spans :
     /\ OfThisRun(request.spans[i])
     /\ \A k \in DOMAIN request.spans :
          ~ Throws(request.spans[k].fields) /\ ~ Throws(request.spans[k].resource)
     /\ ~ Throws(request.rest)}

-------------------------------------------------------------------------------
(* LangfuseService.                                                        *)

\* The end of s, as long as the buffer at most.
Kept(s) ==
  IF Len(s) > BufferSize THEN SubSeq(s, Len(s) - BufferSize + 1, Len(s)) ELSE s

\* Fault: events are delivered to the subscribers that are there and kept for
\* later ones only if there were none.
BufferedUnlessLive(es) == IF subscribed # {} THEN buffer ELSE Kept(buffer \o es)

\* A full buffer drops its first event for each that is pushed.
Buffered(es) == Kept(buffer \o es)

\* ingest, for the next n events: late ones take the run out of retirement.
Ingest(n) ==
  LET es == [i \in 1..n |-> arrived + i]
  IN /\ arrived' = arrived + n
     /\ subject' = TRUE
     /\ hasBuffer' = TRUE
     /\ buffer' = Buffered(es)
     /\ retired' = "no"
     /\ pending' = IF Persister \in subscribed THEN pending \o es ELSE pending
     /\ view' = [v \in Viewers |->
                   IF v \in subscribed THEN [view[v] EXCEPT !.seen = @ \o es] ELSE view[v]]
     /\ UNCHANGED <<run, status, subscribed, seq, chain, rows, failed, crashes>>

\* A request that the agent process exports, or what is left of it.  One without
\* credentials, or without spans of this run, changes nothing here.
IngestOtlp(request) ==
  /\ run # "created"
  /\ request.authorised /\ Decoded(request) # {}
  /\ arrived + Cardinality(Decoded(request)) <= MaxEvents
  /\ Ingest(Cardinality(Decoded(request)))

\* observe, and the subscription to what it returns.
Observe(s) ==
  /\ subject' = TRUE
  /\ hasBuffer' = TRUE
  /\ buffer' = IF subject THEN buffer ELSE <<>>
  /\ subscribed' = subscribed \cup {s}
  /\ UNCHANGED retired

RetentionElapses ==
  /\ retired = "recent"
  /\ retired' = "old"
  /\ UNCHANGED <<run, status, arrived, subject, subscribed, hasBuffer, buffer, persistVars,
                 view, crashes>>

SweepExpired ==
  /\ retired = "old"
  /\ hasBuffer' = FALSE /\ buffer' = <<>>
  /\ retired' = "no"
  /\ UNCHANGED <<run, status, arrived, subject, subscribed, persistVars, view, crashes>>

-------------------------------------------------------------------------------
(* run: the row was created; the persister starts before the process does. *)

Spawn ==
  /\ run = "created"
  /\ run' = "agent"
  /\ Observe(Persister)
  /\ UNCHANGED <<status, arrived, persistVars, view, crashes>>

\* The process exited and the row is updated; or something threw on the way.
RunEnds ==
  /\ run = "agent"
  /\ run' = "stop"
  /\ status' \in {status, "ended"}
  /\ UNCHANGED <<arrived, displayVars, persistVars, view, crashes>>

\* Fault: seq is taken from the rows that have been written.
BatchWritten == [first |-> Len(rows), events |-> pending]

Batch == [first |-> seq, events |-> pending]

Flushed ==
  IF pending = <<>> THEN UNCHANGED <<pending, seq, chain>>
  ELSE /\ chain' = Append(chain, Batch)
       /\ seq' = seq + Len(pending)
       /\ pending' = <<>>

\* The interval's flush.
Flush ==
  /\ run \in {"agent", "stop"} /\ pending # <<>>
  /\ Flushed
  /\ UNCHANGED <<run, status, arrived, displayVars, rows, failed, view, crashes>>

\* createMany of the batch at the head of the promise chain.
WriteBatch ==
  /\ chain # <<>>
  /\ chain' = Tail(chain)
  /\ rows' = rows \o [i \in 1..Len(Head(chain).events) |->
                        [seq |-> Head(chain).first + i - 1, event |-> Head(chain).events[i]]]
  /\ UNCHANGED <<run, status, arrived, displayVars, pending, seq, failed, view, crashes>>

\* A failed write is logged, and the chain goes on.
WriteFails ==
  /\ chain # <<>>
  /\ chain' = Tail(chain)
  /\ failed' = failed \cup ToSet(Head(chain).events)
  /\ UNCHANGED <<run, status, arrived, displayVars, pending, seq, rows, view, crashes>>

\* Fault: what is pending is not flushed.
StopUnflushed ==
  /\ run = "stop"
  /\ run' = "drain"
  /\ subscribed' = subscribed \ {Persister}
  /\ UNCHANGED <<status, arrived, subject, hasBuffer, buffer, retired, persistVars, view,
                 crashes>>

\* persist.stop: up to the await of the chain.
Stop ==
  /\ run = "stop"
  /\ run' = "drain"
  /\ subscribed' = subscribed \ {Persister}
  /\ Flushed
  /\ UNCHANGED <<status, arrived, subject, hasBuffer, buffer, retired, rows, failed, view,
                 crashes>>

\* langfuse.complete.
Complete ==
  /\ run = "drain" /\ chain = <<>>
  /\ run' = "done"
  /\ subject' = FALSE
  /\ subscribed' = {}
  /\ retired' = "recent"
  /\ UNCHANGED <<status, arrived, hasBuffer, buffer, persistVars, view, crashes>>

-------------------------------------------------------------------------------
(* streamRun.                                                              *)

ViewerAt(v, at) == view[v].pc = at

\* The row is read; the answer is awaited.
ViewAsks(v) ==
  /\ ViewerAt(v, "idle")
  /\ view' = [view EXCEPT ![v].pc = status]
  /\ UNCHANGED <<run, status, arrived, displayVars, persistVars, crashes>>

\* The run was RUNNING: the history, then the live events.
ViewStreams(v) ==
  /\ ViewerAt(v, "RUNNING")
  /\ view' = [view EXCEPT ![v] = [pc |-> "streaming", seen |-> buffer]]
  /\ Observe(v)
  /\ UNCHANGED <<run, status, arrived, persistVars, crashes>>

\* It was not: the history alone.
ViewReplays(v) ==
  /\ ViewerAt(v, "ended")
  /\ view' = [view EXCEPT ![v] = [pc |-> "closed", seen |-> buffer]]
  /\ UNCHANGED <<run, status, arrived, displayVars, persistVars, crashes>>

\* The poll found the run over.
ViewDone(v) ==
  /\ ViewerAt(v, "streaming") /\ status = "ended"
  /\ view' = [view EXCEPT ![v].pc = "closed"]
  /\ subscribed' = subscribed \ {v}
  /\ UNCHANGED <<run, status, arrived, subject, hasBuffer, buffer, retired, persistVars, crashes>>

-------------------------------------------------------------------------------
\* What is in memory is lost; at startup reclaimOrphaned closes the row.
Crash ==
  /\ crashes < MaxCrashes
  /\ crashes' = crashes + 1
  /\ run' = "lost"
  /\ status' = "ended"
  /\ subject' = FALSE /\ subscribed' = {} /\ hasBuffer' = FALSE /\ buffer' = <<>>
  /\ retired' = "no"
  /\ pending' = <<>> /\ chain' = <<>>
  /\ view' = [v \in Viewers |-> [view[v] EXCEPT !.pc = "closed"]]
  /\ UNCHANGED <<arrived, seq, rows, failed>>

RunProceeds == Spawn \/ RunEnds \/ Stop \/ WriteBatch \/ WriteFails \/ Complete

Next ==
  \/ \E request \in Requests : IngestOtlp(request)
  \/ RunProceeds
  \/ Flush
  \/ RetentionElapses
  \/ SweepExpired
  \/ \E v \in Viewers : ViewAsks(v) \/ ViewStreams(v) \/ ViewReplays(v) \/ ViewDone(v)
  \/ Crash

Spec == Init /\ [][Next]_vars
================================================================================

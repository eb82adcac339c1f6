--------------------------- MODULE AgentEventsProps ---------------------------
(***************************************************************************)
(* What the event path of a run promises.                                  *)
(***************************************************************************)
EXTENDS AgentEvents

\* Every variable has its type, the buffer stays within its capacity, and
\* subscriptions are to a Subject.
TypeOK ==
  /\ run \in {"created", "agent", "stop", "drain", "done", "lost"}
  /\ status \in {"RUNNING", "ended"}
  /\ arrived \in 0..MaxEvents
  /\ subject \in BOOLEAN /\ hasBuffer \in BOOLEAN
  /\ subscribed \subseteq Viewers \cup {Persister} /\ (subscribed # {} => subject)
  /\ buffer \in Seq(Nat) /\ Len(buffer) <= BufferSize
  /\ retired \in {"no", "recent", "old"}
  /\ pending \in Seq(Nat) /\ seq \in 0..arrived
  /\ chain \in Seq([first : Nat, events : Seq(Nat)])
  /\ rows \in Seq([seq : Nat, event : Nat]) /\ failed \subseteq Nat
  /\ view \in [Viewers -> [pc : {"idle", "RUNNING", "ended", "streaming", "closed"},
                           seen : Seq(Nat)]]
  /\ crashes \in 0..MaxCrashes

\* Consecutive arrivals, in order.
Contiguous(s) == \A i \in DOMAIN s : s[i] = s[1] + i - 1

\* "seq is assigned synchronously at flush-time (call order), so concurrent
\* ticks never collide": rows are written in the order of their numbers, which
\* is the order of arrival, however flushes and writes overlap or fail.
RowsInOrder ==
  /\ \A i \in DOMAIN rows : rows[i].seq = rows[i].event - 1
  /\ \A i, k \in DOMAIN rows : i < k => rows[i].seq < rows[k].seq

\* "A long run isn't truncated by the in-memory display buffer cap": once run()
\* is over, whatever arrived before the persister stopped is written, or its
\* write failed, no matter what the buffer dropped.
PaperTrail ==
  run = "done" =>
    pending = <<>> /\ {rows[i].event : i \in DOMAIN rows} \cup failed = 1..seq

\* What a viewer has seen are consecutive events, in order; and as long as it
\* is subscribed it has seen the latest one: none is lost or shown twice where
\* the history ends and the live stream begins.
ViewersMissNothing ==
  \A v \in Viewers :
    /\ Contiguous(view[v].seen)
    /\ v \in subscribed /\ view[v].seen # <<>> => Last(view[v].seen) = arrived

\* Fairness: agents end, writes are answered, timers fire.
FairSpec ==
  /\ Spec
  /\ WF_vars(RunProceeds) /\ WF_vars(RetentionElapses) /\ WF_vars(SweepExpired)

\* "sweepExpired() drops it after BUFFER_RETENTION_MS" (complete): the buffer
\* of a run that is over is dropped some day.  Does not hold: ingest takes the
\* mark of a run away when a span arrives after complete, and nothing sets it
\* again.
BufferDropped == (run = "done") ~> (run = "lost" \/ ~ hasBuffer)

\* "Keep the buffer so the activity can still be fetched/rendered after
\* completion" (complete): before the retention has elapsed,
\* nothing empties it.  Does not hold: a viewer that subscribes late does.
RetainedUntilSwept ==
  [][retired = "recent" /\ run' # "lost" /\ buffer # <<>> => buffer' # <<>>]_vars
================================================================================

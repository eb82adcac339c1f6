----------------------------- MODULE ChatPageProps -----------------------------
(***************************************************************************)
(* What the chat page promises its user.                                   *)
(***************************************************************************)
EXTENDS ChatPage

Events == Runs \X Nat
Words == Seq({"user", "assistant"} \X Runs)

\* Every variable has its type; the stream is open exactly while the page
\* shows a run, and only a send that was answered awaits a request.
TypeOK ==
  /\ run \in [Runs -> {"unsent", "queued", "running", "ended", "replied",
                       "failed", "lost"}]
  /\ said \in Words /\ events \in [Runs -> Nat] /\ buffered \subseteq Runs
  /\ post \in [at : {"idle", "asked", "refresh"}, run : {None} \cup Runs, get : {0} \cup Gets]
  /\ post.at # "idle" => post.run \in Runs
  /\ post.at = "refresh" => post.get \in Gets /\ gets[post.get].at # "free"
  /\ active \in {None} \cup Runs
  /\ session \in [said : Words, active : {None} \cup Runs]
  /\ live \in Seq(Events) /\ activity \in [Runs -> Seq(Events)]
  /\ gets \in [Gets -> [at : {"free", "asked", "answered", "lost"}, said : Words,
                        active : {None} \cup Runs]]
  /\ stream \in {"closed", "asked", "open"} /\ (stream = "closed" <=> active = None)
  /\ severed \in BOOLEAN /\ faults \in 0..MaxFaults

UnderWay(r) == run[r] \in {"queued", "running"}

\* The service starts an agent for every message it gets, in one directory of
\* the session; nothing but the page keeps two of them apart.  It does, however
\* late or out of order its answers come, and when streams are reopened or the
\* service restarts, unless the page itself lost sight of a run.
OneRunFromOnePage ==
  ~ severed => \A q, r \in Runs : UnderWay(q) /\ UnderWay(r) => q = r

\* The same of a page that is reloaded, or whose connection breaks.  Does not
\* hold: a message that waits for its slot has no run the page could be
\* reattached to, and an idle page accepts the next one.
OneRunAlways == \A q, r \in Runs : UnderWay(q) /\ UnderWay(r) => q = r

InOrder(s) == \A i, k \in DOMAIN s : i < k => s[i][1] = s[k][1] /\ s[i][2] < s[k][2]

OwnEvents(r) == \A i \in DOMAIN activity[r] : activity[r][i][1] = r

\* No event is shown twice or out of place, whatever connection it came over,
\* and none under another turn, unless the page itself lost sight of a run.
EventsInOrder ==
  /\ InOrder(live)
  /\ \A r \in Runs : InOrder(activity[r]) /\ (severed \/ OwnEvents(r))

\* "don't carry the prior turn's cards into the new run", without the exception.
\* Does not hold: a late answer can reattach the page to the last run while its
\* POST is under way, after which the live panel has that run's cards when the
\* stream of the new one fails, and is filed under the new turn.
TurnsOwnTheirEvents == \A r \in Runs : OwnEvents(r)

Served == (\E r \in Runs : RunProceeds(r)) \/ StreamProceeds \/ PostProceeds

Polled == Poll \/ \E g \in Gets : GetProceeds(g)

\* Fairness: agents end, the service answers sends and streams; requests are
\* answered or fail, and the poll's timer fires.  None for the user, or for
\* faults.
FairSpec == Spec /\ WF_vars(Served) /\ WF_vars(Polled)

\* The page ends up with the conversation as it is stored, and with no run,
\* though answers may be older than what it shows, and `done' comes before the
\* reply is stored.
PageCatchesUp == <>[](session.said = said /\ active = None /\ post.at = "idle")

\* "so it stays on the turn instead of vanishing after the reply": a turn that
\* has cards has them all.  Does not hold, even without faults: the answer to the
\* POST empties the live panel, which a poll may have attached to the run before,
\* and what was shown by then is gone, since the rest takes precedence over what
\* the service has.
TurnsComplete ==
  faults = 0 =>
    \A r \in Runs :
      run[r] = "replied" /\ activity[r] # <<>> => activity[r] = EventsOf(r)
===============================================================================

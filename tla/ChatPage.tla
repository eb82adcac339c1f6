------------------------------- MODULE ChatPage -------------------------------
(***************************************************************************)
(* The chat page of the dashboard, app/src/components/Chat.tsx, against the *)
(* chat service: GET /chats/:id, GET .../activity, POST .../messages and   *)
(* the event stream of a run.  One page, one session, whose only messages  *)
(* are the page's own.                                                     *)
(*                                                                         *)
(* The service is the part of modules Chat and AgentEvents a page can see: *)
(* a send is stored, queued for a slot, running once its row exists, ended *)
(* once the row says so, and replied to after that.  Events are counted.   *)
(* Each request is answered when the network likes, so answers overtake    *)
(* each other.  State updates of one callback, and the effects they        *)
(* trigger, are one step.                                                  *)
(***************************************************************************)
EXTENDS Integers, Sequences, SequencesExt, Functions

CONSTANTS
  MaxSends,    \* bound: messages the user sends
  MaxEvents,   \* bound: events of all runs
  MaxGets,     \* bound: GETs of the session in flight
  MaxFaults    \* bound: failed requests, dropped streams, reloads and restarts

ASSUME ChatPageAssumption ==
  /\ MaxSends \in Nat /\ MaxEvents \in Nat /\ MaxFaults \in Nat
  /\ MaxGets \in Nat \ {0}

Runs == 1..MaxSends
Gets == 1..MaxGets

None == 0   \* no run

VARIABLES
  run,       \* what became of each send: "unsent", "queued", "running",
             \* "ended", "replied", "failed" (500), "lost" (with the process)
  said,      \* the ChatMessage rows, in order: <<role, run>>
  events,    \* run -> its events
  buffered,  \* the runs whose events are still in memory
  post,      \* the page's send: [at, run, get]
  active,    \* activeRunId
  session,   \* the session as last fetched: [said, active]
  live,      \* liveEvents: a sequence of <<run, event>>
  activity,  \* run -> the events filed under its turn
  gets,      \* GETs of the session: [at, said, active]
  stream,    \* the EventSource of the active run: "closed", "asked", or "open"
  severed,   \* ghost: the page once lost sight of a run
  faults     \* ghost: faults so far

serverVars == <<run, said, events, buffered>>
pageVars == <<post, active, session, live, activity, severed>>
netVars == <<gets, stream>>
vars == <<serverVars, pageVars, netVars, faults>>

NoGet == [at |-> "free", said |-> <<>>, active |-> None]
Asked == [at |-> "asked", said |-> <<>>, active |-> None]
NoPost == [at |-> "idle", run |-> None, get |-> 0]
NoSession == [said |-> <<>>, active |-> None]

\* A page just opened has the request of the mount under way.
MountGets == [g \in Gets |-> IF g = 1 THEN Asked ELSE NoGet]
NoActivity == [r \in Runs |-> <<>>]

Init ==
  /\ run = [r \in Runs |-> "unsent"] /\ said = <<>>
  /\ events = [r \in Runs |-> 0] /\ buffered = {}
  /\ post = NoPost /\ active = None /\ session = NoSession
  /\ live = <<>> /\ activity = NoActivity /\ severed = FALSE
  /\ gets = MountGets /\ stream = "closed"
  /\ faults = 0

Room(s) == \E g \in Gets : s[g].at = "free"

FreeGet(s) == CHOOSE g \in Gets : s[g].at = "free"

\* refresh, up to its await.
Refreshed(s) == [s EXCEPT ![FreeGet(s)] = Asked]

EventsOf(r) == [e \in 1..events[r] |-> <<r, e>>]

Fault == faults < MaxFaults /\ faults' = faults + 1

-------------------------------------------------------------------------------
(* The service.                                                            *)

\* workspace.prepare throws.
PrepareFails(r) ==
  /\ run[r] = "queued" /\ Fault
  /\ run' = [run EXCEPT ![r] = "failed"]
  /\ UNCHANGED <<said, events, buffered, pageVars, netVars>>

\* The semaphore lets it in, and the row is created.
StartRun(r) ==
  /\ run[r] = "queued"
  /\ run' = [run EXCEPT ![r] = "running"]
  /\ buffered' = buffered \cup {r}
  /\ UNCHANGED <<said, events, pageVars, netVars, faults>>

\* The agent exports an event, which an open stream shows.
Export(r) ==
  /\ run[r] = "running" /\ SumFunction(events) < MaxEvents
  /\ events' = [events EXCEPT ![r] = @ + 1]
  /\ live' = IF stream = "open" /\ active = r THEN Append(live, <<r, events[r] + 1>>) ELSE live
  /\ UNCHANGED <<run, said, buffered, post, active, session, activity, severed, netVars, faults>>

EndRun(r) ==
  /\ run[r] = "running"
  /\ run' = [run EXCEPT ![r] = "ended"]
  /\ UNCHANGED <<said, events, buffered, pageVars, netVars, faults>>

\* dispatchRun goes on once agent.run returned.
Reply(r) ==
  /\ run[r] = "ended"
  /\ run' = [run EXCEPT ![r] = "replied"]
  /\ said' = Append(said, <<"assistant", r>>)
  /\ UNCHANGED <<events, buffered, pageVars, netVars, faults>>

Running == {r \in Runs : run[r] = "running"}

\* activeRunId: the newest run that is RUNNING, or none.
ActiveRun == IF Running = {} THEN {None} ELSE {r \in Running : \A q \in Running : q <= r}

\* getSession.
AnswerGet(g) ==
  /\ gets[g].at = "asked"
  /\ \E r \in ActiveRun :
       gets' = [gets EXCEPT ![g] = [at |-> "answered", said |-> said, active |-> r]]
  /\ UNCHANGED <<serverVars, pageVars, stream, faults>>

History(r) == IF r \in buffered THEN EventsOf(r) ELSE <<>>

\* Fault: the history is shown after what was there already.
ShownAfter(r) == live \o History(r)

Shown(r) == History(r)

\* streamRun, and the history it begins with, which replaces what was shown.
\* Events of an open stream reach the page at once: the other answers may be as
\* late as they like, so every order of them and the events is still there.
AnswerStream ==
  /\ stream = "asked"
  /\ stream' = "open"
  /\ live' = Shown(active)
  /\ UNCHANGED <<serverVars, post, active, session, activity, severed, gets, faults>>

-------------------------------------------------------------------------------
(* The page.                                                               *)

\* The effects of a changed activeRunId: the session is requested again, and the
\* stream of the new run takes the place of the old one's.
Attach(r, s) ==
  /\ active' = r
  /\ IF r = active
     THEN gets' = s /\ UNCHANGED stream
     ELSE /\ Room(s)
          /\ gets' = Refreshed(s)
          /\ stream' = IF r = None THEN "closed" ELSE "asked"

\* Fault: the condition is the wrong way round.
PollWhileRunning ==
  /\ active # None /\ \A g \in Gets : gets[g].at = "free"
  /\ gets' = Refreshed(gets)
  /\ UNCHANGED <<serverVars, pageVars, stream, faults>>

\* Bound: one poll at a time, and none while another GET is under way.
Poll ==
  /\ active = None /\ \A g \in Gets : gets[g].at = "free"
  /\ gets' = Refreshed(gets)
  /\ UNCHANGED <<serverVars, pageVars, stream, faults>>

\* Fault: the page only looks at its own request, not at the run it shows.
MaySendUnlessPosting == post.at = "idle"

MaySend == post.at = "idle" /\ active = None

Send(r) ==
  /\ MaySend
  /\ run[r] = "unsent" /\ \A q \in 1..r - 1 : run[q] # "unsent"
  /\ post' = [at |-> "asked", run |-> r, get |-> 0]
  /\ run' = [run EXCEPT ![r] = "queued"]
  /\ said' = Append(said, <<"user", r>>)
  /\ UNCHANGED <<events, buffered, active, session, live, activity, severed, netVars, faults>>

\* Fault: the page is free for the next message before it shows this run.
PostAnsweredFreed ==
  /\ post.at = "asked" /\ run[post.run] \in {"running", "ended", "replied"}
  /\ Room(gets)
  /\ gets' = Refreshed(gets)
  /\ post' = NoPost
  /\ live' = <<>>
  /\ UNCHANGED <<serverVars, active, session, activity, severed, stream, faults>>

\* The run has started: its id arrives.
PostAnswered ==
  /\ post.at = "asked" /\ run[post.run] \in {"running", "ended", "replied"}
  /\ Room(gets)
  /\ gets' = Refreshed(gets)
  /\ post' = [post EXCEPT !.at = "refresh", !.get = FreeGet(gets)]
  /\ live' = <<>>
  /\ UNCHANGED <<serverVars, active, session, activity, severed, stream, faults>>

\* An error answer, or none because the service went away.
PostRefused ==
  /\ post.at = "asked" /\ run[post.run] \in {"failed", "lost"}
  /\ post' = NoPost
  /\ UNCHANGED <<serverVars, active, session, live, activity, severed, netVars, faults>>

\* The connection breaks; the service goes on with the message.
PostBreaks ==
  /\ post.at = "asked" /\ Fault
  /\ post' = NoPost
  /\ severed' = TRUE
  /\ UNCHANGED <<serverVars, active, session, live, activity, netVars>>

\* What follows a refresh: the send that awaited it attaches to its run, and
\* otherwise a change of session.activeRunId does, if the page has no run.
AfterRefresh(g, was, now, s) ==
  IF post.at = "refresh" /\ post.get = g
  THEN Attach(post.run, s) /\ post' = NoPost
  ELSE /\ Attach(IF now # None /\ now # was /\ active = None THEN now ELSE active, s)
       /\ UNCHANGED post

Refresh(g) ==
  /\ gets[g].at = "answered"
  /\ session' = [said |-> gets[g].said, active |-> gets[g].active]
  /\ AfterRefresh(g, session.active, gets[g].active, [gets EXCEPT ![g] = NoGet])
  /\ UNCHANGED <<serverVars, live, activity, severed, faults>>

\* "keep polling": the answer does not come.
RefreshFails(g) ==
  /\ gets[g].at # "free"
  /\ IF gets[g].at = "lost" THEN UNCHANGED faults ELSE Fault
  /\ AfterRefresh(g, session.active, session.active, [gets EXCEPT ![g] = NoGet])
  /\ UNCHANGED <<serverVars, session, live, activity, severed>>

\* Events captured live take precedence over those of getActivity, which has the
\* runs that were answered: their rows were written before the answer was.
Merged(r) == IF activity[r] = <<>> /\ run[r] = "replied" THEN EventsOf(r) ELSE activity[r]

\* loadActivity is called whenever the run changes; how late its answers come, and
\* so how many are under way, is left open.
LoadActivity ==
  /\ activity' = [r \in Runs |-> Merged(r)]
  /\ UNCHANGED <<serverVars, post, active, session, live, severed, netVars, faults>>

\* Fault: the live panel is left as it is.
FiledKeeping == live' = live

Filed == live' = <<>>

\* finish: the events go to their turn, and the page has no run any more.  Its
\* refresh and that of the effect leave together and count as one.
StreamOver ==
  /\ activity' = [activity EXCEPT ![active] = live]
  /\ Filed
  /\ Attach(None, gets)

\* `done': within three seconds of the end of the run, or right after the history
\* when the run was over before.
OnDone ==
  /\ stream = "open" /\ run[active] # "running"
  /\ StreamOver
  /\ UNCHANGED <<serverVars, post, session, severed, faults>>

\* The connection drops, and the EventSource opens it anew.
StreamReconnects ==
  /\ stream # "closed" /\ Fault
  /\ stream' = "asked"
  /\ UNCHANGED <<serverVars, pageVars, gets>>

\* onerror with CLOSED: an answer that was no stream, from a proxy say.
StreamFails ==
  /\ stream # "closed" /\ Fault
  /\ StreamOver
  /\ severed' = TRUE
  /\ UNCHANGED <<serverVars, post, session>>

Reload ==
  /\ Fault
  /\ post' = NoPost /\ active' = None /\ session' = NoSession
  /\ live' = <<>> /\ activity' = NoActivity
  /\ gets' = MountGets /\ stream' = "closed"
  /\ severed' = TRUE
  /\ UNCHANGED serverVars

\* The service crashes.  Sends under way are gone, runs are closed at startup
\* without an answer, and what was requested of it fails.
Restart ==
  /\ Fault
  /\ run' = [r \in Runs |-> IF run[r] \in {"queued", "running", "ended"}
                            THEN "lost" ELSE run[r]]
  /\ buffered' = {}
  /\ gets' = [g \in Gets |-> IF gets[g].at = "free" THEN NoGet
                             ELSE [NoGet EXCEPT !.at = "lost"]]
  /\ stream' = IF stream = "closed" THEN "closed" ELSE "asked"
  /\ UNCHANGED <<said, events, pageVars>>

-------------------------------------------------------------------------------
RunProceeds(r) == StartRun(r) \/ EndRun(r) \/ Reply(r)
GetProceeds(g) == AnswerGet(g) \/ Refresh(g) \/ RefreshFails(g)
StreamProceeds == AnswerStream \/ OnDone
PostProceeds == PostAnswered \/ PostRefused

Next ==
  \/ \E r \in Runs : RunProceeds(r) \/ PrepareFails(r) \/ Export(r) \/ Send(r)
  \/ \E g \in Gets : GetProceeds(g)
  \/ LoadActivity
  \/ StreamProceeds
  \/ PostProceeds \/ PostBreaks
  \/ Poll
  \/ StreamReconnects \/ StreamFails \/ Reload \/ Restart

Spec == Init /\ [][Next]_vars
===============================================================================

---------------------------- MODULE ChatPageProofs ----------------------------
(***************************************************************************)
(* Theorems about ChatPage, for any number of messages, events, requests   *)
(* under way and faults.                                                   *)
(***************************************************************************)
EXTENDS ChatPageProps, TLAPS, SequenceTheorems

-------------------------------------------------------------------------------
(* The inductive invariants.                                               *)

\* The page's view of a run: its send is not over yet, or the page shows it.
InSight(r) == IF post.at # "idle" THEN post.run = r ELSE active = r

\* As long as the page has lost sight of none, each run under way is the one it
\* waits for or shows; and one that is queued has not been answered.
Watched ==
  ~ severed =>
    \A r \in Runs : UnderWay(r) => InSight(r) /\ (run[r] = "queued" => post.at = "asked")

\* The live panel of an open stream has events of the run it shows.
LiveIsActive ==
  stream = "open" =>
    \A i \in DOMAIN live : live[i][1] = active /\ live[i][2] <= events[active]
-------------------------------------------------------------------------------
(* Types.                                                                  *)

Requests == [at : {"free", "asked", "answered", "lost"}, said : Words,
             active : {None} \cup Runs]

\* The empty sequence, and the requests that have no answer.
LEMMA NoneType ==
  /\ <<>> \in Seq(Events) /\ Len(<<>>) = 0 /\ DOMAIN <<>> = {} /\ <<>> \in Words
  /\ NoGet \in Requests /\ Asked \in Requests
  /\ [NoGet EXCEPT !.at = "lost"] \in Requests
  /\ NoGet.at = "free" /\ Asked.at = "asked" /\ [NoGet EXCEPT !.at = "lost"].at = "lost"
<1>1. <<>> \in Seq(Events) /\ Len(<<>>) = 0 /\ DOMAIN <<>> = {} /\ <<>> \in Words
  BY DEF Words
<1> QED BY <1>1 DEF NoGet, Asked, Requests

\* Adding an element to a sequence.
LEMMA AppendParts ==
  ASSUME NEW S, NEW s \in Seq(S), NEW e \in S
  PROVE  /\ Append(s, e) \in Seq(S)
         /\ Len(s) \in Nat /\ DOMAIN s = 1..Len(s)
         /\ DOMAIN Append(s, e) = 1..Len(s) + 1
         /\ \A i \in 1..Len(s) : Append(s, e)[i] = s[i]
         /\ Append(s, e)[Len(s) + 1] = e
  BY AppendProperties

\* A message stored is one more of the conversation.
LEMMA WordsGrow ==
  ASSUME NEW s \in Words, NEW r \in Runs, NEW role \in {"user", "assistant"}
  PROVE  Append(s, <<role, r>>) \in Words
  BY AppendParts DEF Words

\* The events of a run, numbered from one.
LEMMA EventsOfParts ==
  ASSUME TypeOK, NEW r \in Runs
  PROVE  /\ EventsOf(r) \in Seq(Events)
         /\ DOMAIN EventsOf(r) = 1..events[r] /\ events[r] \in Nat
         /\ \A i \in 1..events[r] : EventsOf(r)[i] = <<r, i>>
<1>1. events[r] \in Nat
  BY DEF TypeOK
<1>2. /\ DOMAIN EventsOf(r) = 1..events[r]
      /\ \A i \in 1..events[r] : EventsOf(r)[i] = <<r, i>>
  BY <1>1 DEF EventsOf
<1>3. \A i \in 1..events[r] : <<r, i>> \in Events
  BY <1>1 DEF Events
<1>4. EventsOf(r) \in [1..events[r] -> Events]
  BY <1>3 DEF EventsOf
<1>5. EventsOf(r) \in Seq(Events)
  BY <1>1, <1>4
<1> QED BY <1>1, <1>2, <1>5

\* A request put in a free place: the others keep theirs.
LEMMA RefreshedType ==
  ASSUME NEW s \in [Gets -> Requests]
  PROVE  /\ Refreshed(s) \in [Gets -> Requests]
         /\ \A g \in Gets : s[g].at # "free" => Refreshed(s)[g].at # "free"
         /\ Room(s) => /\ FreeGet(s) \in Gets
                       /\ Refreshed(s)[FreeGet(s)].at # "free"
<1>1. /\ \A g \in Gets : Refreshed(s)[g] = IF g = FreeGet(s) THEN Asked ELSE s[g]
      /\ Refreshed(s) \in [Gets -> Requests]
  BY NoneType DEF Refreshed
<1>2. Room(s) => FreeGet(s) \in Gets
  BY DEF Room, FreeGet
<1> QED BY <1>1, <1>2, NoneType

\* What the effects of a changed run leave.
LEMMA AttachType ==
  ASSUME TypeOK, NEW r \in {None} \cup Runs, NEW s \in [Gets -> Requests], Attach(r, s)
  PROVE  /\ active' = r /\ gets' \in [Gets -> Requests]
         /\ stream' \in {"closed", "asked", "open"} /\ (stream' = "closed" <=> active' = None)
         /\ stream' = "open" => active' = active /\ stream = "open"
         /\ \A g \in Gets : s[g].at # "free" => gets'[g].at # "free"
<1>1. CASE r = active
  BY <1>1 DEF Attach, TypeOK
<1>2. CASE r # active
  <2>1. gets' = Refreshed(s) /\ stream' = IF r = None THEN "closed" ELSE "asked"
    BY <1>2 DEF Attach
  <2> QED BY <2>1, RefreshedType DEF Attach
<1> QED BY <1>1, <1>2

\* What follows a refresh.
LEMMA AfterRefreshType ==
  ASSUME TypeOK, NEW g \in Gets, NEW was, NEW now \in {None} \cup Runs,
         AfterRefresh(g, was, now, [gets EXCEPT ![g] = NoGet])
  PROVE  /\ active' \in {None} \cup Runs /\ gets' \in [Gets -> Requests]
         /\ stream' \in {"closed", "asked", "open"} /\ (stream' = "closed" <=> active' = None)
         /\ stream' = "open" => active' = active /\ stream = "open"
         /\ post' \in [at : {"idle", "asked", "refresh"}, run : {None} \cup Runs,
                       get : {0} \cup Gets]
         /\ post'.at # "idle" => post'.run \in Runs
         /\ post'.at = "refresh" => post'.get \in Gets /\ gets'[post'.get].at # "free"
         /\ \/ post.at = "refresh" /\ active' = post.run /\ post'.at = "idle"
            \/ post' = post /\ (active' = active \/ active = None)
<1> DEFINE s == [gets EXCEPT ![g] = NoGet]
<1>1. /\ s \in [Gets -> Requests]
      /\ \A h \in Gets : s[h] = IF h = g THEN NoGet ELSE gets[h]
  BY NoneType DEF TypeOK, Requests
<1> HIDE DEF s
<1>2. CASE post.at = "refresh" /\ post.get = g
  <2>1. Attach(post.run, s) /\ post' = NoPost
    BY <1>2 DEF AfterRefresh, s
  <2>2. post.run \in {None} \cup Runs
    BY <1>2 DEF TypeOK
  <2>3. /\ active' = post.run /\ gets' \in [Gets -> Requests]
        /\ stream' \in {"closed", "asked", "open"} /\ (stream' = "closed" <=> active' = None)
        /\ stream' = "open" => active' = active /\ stream = "open"
    BY <1>1, <2>1, <2>2, AttachType
  <2>4. /\ post' \in [at : {"idle", "asked", "refresh"}, run : {None} \cup Runs,
                       get : {0} \cup Gets]
        /\ post'.at = "idle"
    BY <2>1 DEF NoPost
  <2> QED BY <1>2, <2>2, <2>3, <2>4
<1>3. CASE ~ (post.at = "refresh" /\ post.get = g)
  <2> DEFINE r == IF now # None /\ now # was /\ active = None THEN now ELSE active
  <2>1. Attach(r, s) /\ post' = post
    BY <1>3 DEF AfterRefresh, s
  <2>2. r \in {None} \cup Runs /\ (r = active \/ active = None)
    BY DEF TypeOK
  <2> HIDE DEF r
  <2>3. /\ active' = r /\ gets' \in [Gets -> Requests]
        /\ stream' \in {"closed", "asked", "open"} /\ (stream' = "closed" <=> active' = None)
        /\ stream' = "open" => active' = active /\ stream = "open"
        /\ \A h \in Gets : s[h].at # "free" => gets'[h].at # "free"
    BY <1>1, <2>1, <2>2, AttachType
  <2>4. post.at = "refresh" => post.get \in Gets /\ gets'[post.get].at # "free"
    BY <1>1, <1>3, <2>3 DEF TypeOK
  <2>5. /\ post \in [at : {"idle", "asked", "refresh"}, run : {None} \cup Runs,
                     get : {0} \cup Gets]
        /\ post.at # "idle" => post.run \in Runs
    BY DEF TypeOK
  <2> QED BY <2>1, <2>2, <2>3, <2>4, <2>5
<1> QED BY <1>2, <1>3

\* What the end of a stream leaves of a page that shows a run.
LEMMA StreamOverType ==
  ASSUME TypeOK, stream # "closed", StreamOver
  PROVE  /\ active \in Runs /\ active' = None /\ stream' = "closed" /\ live' = <<>>
         /\ gets' \in [Gets -> Requests]
         /\ \A g \in Gets : gets[g].at # "free" => gets'[g].at # "free"
         /\ activity' \in [Runs -> Seq(Events)]
         /\ \A r \in Runs : activity'[r] = IF r = active THEN live ELSE activity[r]
<1>1. active \in Runs /\ gets \in [Gets -> Requests]
  BY DEF TypeOK, Requests
<1>2. Attach(None, gets) /\ live' = <<>> /\ activity' = [activity EXCEPT ![active] = live]
  BY DEF StreamOver, Filed
<1>3. /\ active' = None /\ gets' \in [Gets -> Requests]
      /\ stream' \in {"closed", "asked", "open"} /\ (stream' = "closed" <=> active' = None)
      /\ \A g \in Gets : gets[g].at # "free" => gets'[g].at # "free"
  BY <1>1, <1>2, AttachType
<1> QED BY <1>1, <1>2, <1>3 DEF TypeOK

\* The initial states.
LEMMA InitType == Init => TypeOK
<1> SUFFICES ASSUME Init PROVE TypeOK
  OBVIOUS
<1>1. gets \in [Gets -> Requests]
  BY NoneType DEF Init, MountGets
<1>2. said \in Words /\ live \in Seq(Events) /\ activity \in [Runs -> Seq(Events)]
  BY NoneType DEF Init, NoActivity
<1>3. /\ post \in [at : {"idle", "asked", "refresh"}, run : {None} \cup Runs, get : {0} \cup Gets]
      /\ post.at = "idle"
  BY DEF Init, NoPost
<1>4. session \in [said : Words, active : {None} \cup Runs]
  BY NoneType DEF Init, NoSession
<1>5. faults \in 0..MaxFaults
  BY ChatPageAssumption DEF Init
<1> QED BY <1>1, <1>2, <1>3, <1>4, <1>5 DEF Init, TypeOK, Requests

\* A fault is counted within its bound.
LEMMA FaultType ==
  ASSUME TypeOK, Fault
  PROVE  faults' \in 0..MaxFaults
  BY ChatPageAssumption DEF TypeOK, Fault

\* The service's own steps.
LEMMA RunStepType ==
  ASSUME TypeOK, NEW r \in Runs,
         RunProceeds(r) \/ PrepareFails(r) \/ Export(r) \/ Send(r)
  PROVE  TypeOK'
<1>1. CASE StartRun(r)
  BY <1>1 DEF StartRun, TypeOK, pageVars, netVars
<1>2. CASE EndRun(r)
  BY <1>2 DEF EndRun, TypeOK, pageVars, netVars
<1>3. CASE Reply(r)
  <2>1. said' \in Words
    BY <1>3, WordsGrow DEF Reply, TypeOK
  <2>2. run' \in [Runs -> {"unsent", "queued", "running", "ended", "replied", "failed", "lost"}]
    BY <1>3 DEF Reply, TypeOK
  <2> QED BY <1>3, <2>1, <2>2 DEF Reply, TypeOK, pageVars, netVars
<1>4. CASE PrepareFails(r)
  <2>1. faults' \in 0..MaxFaults
    BY <1>4, FaultType DEF PrepareFails
  <2> QED BY <1>4, <2>1 DEF PrepareFails, TypeOK, pageVars, netVars
<1>5. CASE Export(r)
  <2>1. events[r] \in Nat /\ events' = [events EXCEPT ![r] = @ + 1]
    BY <1>5 DEF Export, TypeOK
  <2>2. events' \in [Runs -> Nat]
    BY <2>1 DEF TypeOK
  <2>3. <<r, events[r] + 1>> \in Events
    BY <2>1 DEF Events
  <2>4. live' \in Seq(Events)
    BY <1>5, <2>3, AppendParts DEF Export, TypeOK
  <2> QED BY <1>5, <2>2, <2>4 DEF Export, TypeOK, netVars
<1>6. CASE Send(r)
  <2>1. said' \in Words
    BY <1>6, WordsGrow DEF Send, TypeOK
  <2>2. /\ post' \in [at : {"idle", "asked", "refresh"}, run : {None} \cup Runs,
                      get : {0} \cup Gets]
        /\ post'.at = "asked" /\ post'.run \in Runs
    BY <1>6 DEF Send
  <2>3. run' \in [Runs -> {"unsent", "queued", "running", "ended", "replied", "failed", "lost"}]
    BY <1>6 DEF Send, TypeOK
  <2> QED BY <1>6, <2>1, <2>2, <2>3 DEF Send, TypeOK, netVars
<1> QED BY <1>1, <1>2, <1>3, <1>4, <1>5, <1>6 DEF RunProceeds

\* The steps of a request.
LEMMA GetStepType ==
  ASSUME TypeOK, NEW g \in Gets, GetProceeds(g)
  PROVE  TypeOK'
<1>0. /\ gets \in [Gets -> Requests] /\ [gets EXCEPT ![g] = NoGet] \in [Gets -> Requests]
  BY NoneType DEF TypeOK, Requests
<1>1. CASE AnswerGet(g)
  <2>1. PICK r \in ActiveRun :
          gets' = [gets EXCEPT ![g] = [at |-> "answered", said |-> said, active |-> r]]
    BY <1>1 DEF AnswerGet
  <2>2. r \in {None} \cup Runs
    BY DEF ActiveRun, Running
  <2>3. [at |-> "answered", said |-> said, active |-> r] \in Requests
    BY <2>2 DEF TypeOK, Requests
  <2>4. /\ gets' \in [Gets -> Requests]
        /\ \A h \in Gets : gets[h].at # "free" => gets'[h].at # "free"
    BY <1>0, <2>1, <2>3
  <2> QED BY <1>1, <2>4 DEF AnswerGet, TypeOK, Requests, serverVars, pageVars
<1>2. CASE Refresh(g)
  <2>1. /\ session' = [said |-> gets[g].said, active |-> gets[g].active]
        /\ AfterRefresh(g, session.active, gets[g].active, [gets EXCEPT ![g] = NoGet])
        /\ UNCHANGED <<run, said, events, buffered, live, activity, severed, faults>>
    BY <1>2 DEF Refresh, serverVars
  <2>2. gets[g].said \in Words /\ gets[g].active \in {None} \cup Runs
    BY <1>0 DEF Requests
  <2>3. session' \in [said : Words, active : {None} \cup Runs]
    BY <2>1, <2>2
  <2>4. /\ active' \in {None} \cup Runs /\ gets' \in [Gets -> Requests]
        /\ stream' \in {"closed", "asked", "open"} /\ (stream' = "closed" <=> active' = None)
        /\ post' \in [at : {"idle", "asked", "refresh"}, run : {None} \cup Runs,
                      get : {0} \cup Gets]
        /\ post'.at # "idle" => post'.run \in Runs
        /\ post'.at = "refresh" => post'.get \in Gets /\ gets'[post'.get].at # "free"
    BY <2>1, <2>2, AfterRefreshType
  <2> QED BY <2>1, <2>3, <2>4 DEF TypeOK, Requests
<1>3. CASE RefreshFails(g)
  <2>1. /\ AfterRefresh(g, session.active, session.active, [gets EXCEPT ![g] = NoGet])
        /\ UNCHANGED <<run, said, events, buffered, session, live, activity, severed>>
    BY <1>3 DEF RefreshFails, serverVars
  <2>2. session.active \in {None} \cup Runs
    BY DEF TypeOK
  <2>3. faults' \in 0..MaxFaults
    BY <1>3, FaultType DEF RefreshFails, TypeOK
  <2>4. /\ active' \in {None} \cup Runs /\ gets' \in [Gets -> Requests]
        /\ stream' \in {"closed", "asked", "open"} /\ (stream' = "closed" <=> active' = None)
        /\ post' \in [at : {"idle", "asked", "refresh"}, run : {None} \cup Runs,
                      get : {0} \cup Gets]
        /\ post'.at # "idle" => post'.run \in Runs
        /\ post'.at = "refresh" => post'.get \in Gets /\ gets'[post'.get].at # "free"
    BY <2>1, <2>2, AfterRefreshType
  <2> QED BY <2>1, <2>3, <2>4 DEF TypeOK, Requests
<1> QED BY <1>1, <1>2, <1>3 DEF GetProceeds

\* The steps of the page's send, of its poll, and of what it shows.
LEMMA PageStepType ==
  ASSUME TypeOK, LoadActivity \/ PostProceeds \/ PostBreaks \/ Poll
  PROVE  TypeOK'
<1>0. gets \in [Gets -> Requests]
  BY DEF TypeOK, Requests
<1>1. CASE LoadActivity
  <2>1. \A r \in Runs : Merged(r) \in Seq(Events)
    BY EventsOfParts DEF Merged, TypeOK
  <2>2. activity' \in [Runs -> Seq(Events)]
    BY <1>1, <2>1 DEF LoadActivity
  <2> QED BY <1>1, <2>2 DEF LoadActivity, TypeOK, serverVars, netVars
<1>2. CASE PostAnswered
  <2>1. /\ gets' = Refreshed(gets) /\ Room(gets) /\ live' = <<>> /\ post.at = "asked"
        /\ post' = [post EXCEPT !.at = "refresh", !.get = FreeGet(gets)]
        /\ UNCHANGED <<run, said, events, buffered, active, session, activity, severed, stream, faults>>
    BY <1>2 DEF PostAnswered, serverVars
  <2>2. /\ gets' \in [Gets -> Requests] /\ FreeGet(gets) \in Gets
        /\ gets'[FreeGet(gets)].at # "free"
    BY <1>0, <2>1, RefreshedType
  <2>3. /\ post' \in [at : {"idle", "asked", "refresh"}, run : {None} \cup Runs,
                      get : {0} \cup Gets]
        /\ post'.run \in Runs /\ post'.get = FreeGet(gets)
    BY <2>1, <2>2 DEF TypeOK
  <2>4. live' \in Seq(Events)
    BY <2>1, NoneType
  <2> QED BY <2>1, <2>2, <2>3, <2>4 DEF TypeOK, Requests
<1>3. CASE PostRefused \/ PostBreaks
  <2>1. /\ post' \in [at : {"idle", "asked", "refresh"}, run : {None} \cup Runs,
                      get : {0} \cup Gets]
        /\ post'.at = "idle"
    BY <1>3 DEF PostRefused, PostBreaks, NoPost
  <2>2. faults' \in 0..MaxFaults /\ severed' \in BOOLEAN
    BY <1>3, FaultType DEF PostRefused, PostBreaks, TypeOK
  <2>3. UNCHANGED <<run, said, events, buffered, active, session, live, activity, gets, stream>>
    BY <1>3 DEF PostRefused, PostBreaks, serverVars, netVars
  <2> QED BY <2>1, <2>2, <2>3 DEF TypeOK
<1>4. CASE Poll
  <2>1. /\ gets' \in [Gets -> Requests]
        /\ \A g \in Gets : gets[g].at # "free" => gets'[g].at # "free"
    BY <1>0, <1>4, RefreshedType DEF Poll
  <2> QED BY <1>4, <2>1 DEF Poll, TypeOK, Requests, serverVars, pageVars
<1> QED BY <1>1, <1>2, <1>3, <1>4 DEF PostProceeds

\* The steps of the stream, a reload and a restart.
LEMMA StreamStepType ==
  ASSUME TypeOK, StreamProceeds \/ StreamReconnects \/ StreamFails \/ Reload \/ Restart
  PROVE  TypeOK'
<1>1. CASE AnswerStream
  <2>1. active \in Runs
    BY <1>1 DEF AnswerStream, TypeOK
  <2>2. live' \in Seq(Events)
    BY <1>1, <2>1, EventsOfParts, NoneType DEF AnswerStream, Shown, History
  <2> QED BY <1>1, <2>1, <2>2 DEF AnswerStream, TypeOK, serverVars
<1>2. CASE OnDone \/ StreamFails
  <2>1. stream # "closed" /\ StreamOver
    BY <1>2 DEF OnDone, StreamFails
  <2>2. /\ active' = None /\ stream' = "closed" /\ live' = <<>>
        /\ gets' \in [Gets -> Requests]
        /\ \A g \in Gets : gets[g].at # "free" => gets'[g].at # "free"
        /\ activity' \in [Runs -> Seq(Events)]
    BY <2>1, StreamOverType
  <2>3. faults' \in 0..MaxFaults /\ severed' \in BOOLEAN
    BY <1>2, FaultType DEF OnDone, StreamFails, TypeOK
  <2>4. UNCHANGED <<run, said, events, buffered, post, session>>
    BY <1>2 DEF OnDone, StreamFails, serverVars
  <2> QED BY <2>2, <2>3, <2>4, NoneType DEF TypeOK, Requests
<1>3. CASE StreamReconnects
  <2>1. faults' \in 0..MaxFaults
    BY <1>3, FaultType DEF StreamReconnects
  <2> QED BY <1>3, <2>1 DEF StreamReconnects, TypeOK, serverVars, pageVars
<1>4. CASE Reload
  <2>1. faults' \in 0..MaxFaults
    BY <1>4, FaultType DEF Reload
  <2>2. gets' \in [Gets -> Requests]
    BY <1>4, NoneType DEF Reload, MountGets
  <2>3. /\ post' \in [at : {"idle", "asked", "refresh"}, run : {None} \cup Runs,
                      get : {0} \cup Gets]
        /\ post'.at = "idle"
    BY <1>4 DEF Reload, NoPost
  <2>4. session' \in [said : Words, active : {None} \cup Runs]
    BY <1>4, NoneType DEF Reload, NoSession
  <2>5. live' \in Seq(Events) /\ activity' \in [Runs -> Seq(Events)]
    BY <1>4, NoneType DEF Reload, NoActivity
  <2>6. /\ active' = None /\ stream' = "closed" /\ severed' = TRUE
        /\ UNCHANGED <<run, said, events, buffered>>
    BY <1>4 DEF Reload, serverVars
  <2> QED BY <2>1, <2>2, <2>3, <2>4, <2>5, <2>6 DEF TypeOK, Requests
<1>5. CASE Restart
  <2>1. faults' \in 0..MaxFaults
    BY <1>5, FaultType DEF Restart
  <2>2. /\ gets' \in [Gets -> Requests]
        /\ \A g \in Gets : gets[g].at # "free" => gets'[g].at # "free"
    BY <1>5, NoneType DEF Restart
  <2>3. run' \in [Runs -> {"unsent", "queued", "running", "ended", "replied", "failed", "lost"}]
    BY <1>5 DEF Restart, TypeOK
  <2>4. stream' \in {"closed", "asked", "open"} /\ (stream' = "closed" <=> active' = None)
    BY <1>5 DEF Restart, TypeOK, pageVars
  <2> QED BY <1>5, <2>1, <2>2, <2>3, <2>4 DEF Restart, TypeOK, Requests, pageVars
<1> QED BY <1>1, <1>2, <1>3, <1>4, <1>5 DEF StreamProceeds

\* No step leaves the types.
LEMMA StepType == TypeOK /\ [Next]_vars => TypeOK'
<1> SUFFICES ASSUME TypeOK, [Next]_vars PROVE TypeOK'
  OBVIOUS
<1>1. CASE UNCHANGED vars
  BY <1>1 DEF vars, serverVars, pageVars, netVars, TypeOK
<1>2. CASE Next
  BY <1>2, RunStepType, GetStepType, PageStepType, StreamStepType DEF Next
<1> QED BY <1>1, <1>2

\* Every variable has its type, whatever the bounds.
THEOREM TypeCorrect == Spec => []TypeOK
BY InitType, StepType, PTL DEF Spec

-------------------------------------------------------------------------------
(* One run at a time.                                                      *)

\* Nothing that leaves the page and its sends alone, and starts or queues no run
\* but a queued one, makes the page lose sight of one.
LEMMA StillWatched ==
  ASSUME Watched, UNCHANGED <<post, active, severed>>,
         \A r \in Runs : run'[r] \in {"queued", "running"} => UnderWay(r),
         \A r \in Runs : run'[r] = "queued" => run[r] = "queued"
  PROVE  Watched'
  BY DEF Watched, UnderWay, InSight

\* The initial states: no run is under way.
LEMMA InitWatched == Init => Watched
  BY DEF Init, Watched, UnderWay

\* The service's own steps, and a send.
LEMMA RunStepWatched ==
  ASSUME TypeOK, Watched, NEW r \in Runs,
         RunProceeds(r) \/ PrepareFails(r) \/ Export(r) \/ Send(r)
  PROVE  Watched'
<1>0. run \in [Runs -> {"unsent", "queued", "running", "ended", "replied", "failed", "lost"}]
  BY DEF TypeOK
<1>1. CASE RunProceeds(r) \/ PrepareFails(r) \/ Export(r)
  <2>1. UNCHANGED <<post, active, severed>>
    BY <1>1 DEF RunProceeds, StartRun, EndRun, Reply, PrepareFails, Export, pageVars
  <2>2. \A q \in Runs : run'[q] \in {"queued", "running"} => UnderWay(q)
    BY <1>0, <1>1
    DEF RunProceeds, StartRun, EndRun, Reply, PrepareFails, Export, UnderWay
  <2>3. \A q \in Runs : run'[q] = "queued" => run[q] = "queued"
    BY <1>0, <1>1 DEF RunProceeds, StartRun, EndRun, Reply, PrepareFails, Export
  <2> QED BY <2>1, <2>2, <2>3, StillWatched
<1>2. CASE Send(r)
  <2>1. /\ post.at = "idle" /\ active = None
        /\ post' = [at |-> "asked", run |-> r, get |-> 0]
        /\ run' = [run EXCEPT ![r] = "queued"] /\ severed' = severed
    BY <1>2 DEF Send, MaySend
  <2>2. ~ severed => \A q \in Runs : ~ UnderWay(q)
    BY <2>1 DEF Watched, InSight, None, Runs
  <2>3. \A q \in Runs : q # r => run'[q] = run[q]
    BY <1>0, <2>1
  <2> QED BY <2>1, <2>2, <2>3 DEF Watched, UnderWay, InSight
<1> QED BY <1>1, <1>2

\* What follows a refresh: the run of the send is shown, or nothing was lost.
LEMMA AfterRefreshWatched ==
  ASSUME TypeOK, Watched, NEW g \in Gets, NEW was, NEW now \in {None} \cup Runs,
         AfterRefresh(g, was, now, [gets EXCEPT ![g] = NoGet]),
         UNCHANGED <<run, severed>>
  PROVE  Watched'
<1>1. \/ post.at = "refresh" /\ active' = post.run /\ post'.at = "idle"
      \/ post' = post /\ (active' = active \/ active = None)
  BY AfterRefreshType
<1>2. CASE post.at = "refresh" /\ active' = post.run /\ post'.at = "idle"
  BY <1>2 DEF Watched, UnderWay, InSight
<1>3. CASE post' = post /\ (active' = active \/ active = None)
  <2> SUFFICES ASSUME ~ severed, NEW r \in Runs, UnderWay(r)
               PROVE  InSight(r)' /\ (run[r] = "queued" => post.at = "asked")
    BY <1>3 DEF Watched, UnderWay
  <2>1. InSight(r) /\ (run[r] = "queued" => post.at = "asked")
    BY DEF Watched
  <2> QED BY <1>3, <2>1 DEF InSight, None, Runs
<1> QED BY <1>1, <1>2, <1>3

\* The other steps of the page.
LEMMA PageStepWatched ==
  ASSUME TypeOK, Watched, LoadActivity \/ PostProceeds \/ PostBreaks \/ Poll
  PROVE  Watched'
<1>1. CASE LoadActivity \/ Poll
  <2>1. UNCHANGED <<run, post, active, severed>>
    BY <1>1 DEF LoadActivity, Poll, serverVars, pageVars
  <2> QED BY <2>1, StillWatched DEF UnderWay
<1>2. CASE PostAnswered
  <2>1. /\ post.at = "asked" /\ run[post.run] \in {"running", "ended", "replied"}
        /\ post'.at = "refresh" /\ post'.run = post.run
        /\ UNCHANGED <<run, active, severed>>
    BY <1>2 DEF PostAnswered, serverVars, TypeOK
  <2> QED BY <2>1 DEF Watched, UnderWay, InSight
<1>3. CASE PostRefused
  <2>1. /\ post.at = "asked" /\ run[post.run] \in {"failed", "lost"}
        /\ UNCHANGED <<run, active, severed>>
    BY <1>3 DEF PostRefused, serverVars
  <2> QED BY <2>1 DEF Watched, UnderWay, InSight
<1>4. CASE PostBreaks
  BY <1>4 DEF PostBreaks, Watched
<1> QED BY <1>1, <1>2, <1>3, <1>4 DEF PostProceeds

\* The steps of the stream, a reload and a restart.
LEMMA StreamStepWatched ==
  ASSUME TypeOK, Watched,
         StreamProceeds \/ StreamReconnects \/ StreamFails \/ Reload \/ Restart
  PROVE  Watched'
<1>1. CASE AnswerStream \/ StreamReconnects
  <2>1. UNCHANGED <<run, post, active, severed>>
    BY <1>1 DEF AnswerStream, StreamReconnects, serverVars, pageVars
  <2> QED BY <2>1, StillWatched DEF UnderWay
<1>2. CASE OnDone
  <2>1. run[active] # "running" /\ UNCHANGED <<run, post, severed>>
    BY <1>2 DEF OnDone, serverVars
  <2>2. ASSUME ~ severed, NEW r \in Runs, UnderWay(r)
        PROVE  post.at # "idle" /\ post.run = r /\ (run[r] = "queued" => post.at = "asked")
    BY <2>1, <2>2 DEF Watched, UnderWay, InSight
  <2> QED BY <2>1, <2>2 DEF Watched, UnderWay, InSight
<1>3. CASE StreamFails \/ Reload
  BY <1>3 DEF StreamFails, Reload, Watched
<1>4. CASE Restart
  <2>1. \A r \in Runs : ~ UnderWay(r)'
    BY <1>4 DEF Restart, UnderWay
  <2> QED BY <2>1 DEF Watched
<1> QED BY <1>1, <1>2, <1>3, <1>4 DEF StreamProceeds

\* No step makes the page lose sight of a run under way, unless it is severed.
LEMMA StepWatched == TypeOK /\ Watched /\ [Next]_vars => Watched'
<1> SUFFICES ASSUME TypeOK, Watched, [Next]_vars PROVE Watched'
  OBVIOUS
<1>1. CASE UNCHANGED vars
  BY <1>1, StillWatched DEF vars, serverVars, pageVars, UnderWay
<1>2. ASSUME NEW g \in Gets, GetProceeds(g)
      PROVE  Watched'
  <2>1. CASE AnswerGet(g)
    BY <2>1, StillWatched DEF AnswerGet, serverVars, pageVars, UnderWay
  <2>2. CASE Refresh(g)
    <3>1. gets[g].active \in {None} \cup Runs
      BY DEF TypeOK
    <3> QED BY <2>2, <3>1, AfterRefreshWatched DEF Refresh, serverVars
  <2>3. CASE RefreshFails(g)
    <3>1. session.active \in {None} \cup Runs
      BY DEF TypeOK
    <3> QED BY <2>3, <3>1, AfterRefreshWatched DEF RefreshFails, serverVars
  <2> QED BY <1>2, <2>1, <2>2, <2>3 DEF GetProceeds
<1>3. CASE Next
  BY <1>2, <1>3, RunStepWatched, PageStepWatched, StreamStepWatched DEF Next
<1> QED BY <1>1, <1>3

\* A page that lost sight of no run never has two of them under way, however
\* many messages it sends, in whatever order its answers come, and however often
\* its streams drop or the service restarts.
THEOREM OneRunFromOnePageHolds == Spec => []OneRunFromOnePage
<1>1. Watched => OneRunFromOnePage
  BY DEF Watched, OneRunFromOnePage, InSight
<1>2. Init => TypeOK /\ Watched
  BY InitType, InitWatched
<1>3. TypeOK /\ Watched /\ [Next]_vars => (TypeOK /\ Watched)'
  BY StepType, StepWatched
<1> QED BY <1>1, <1>2, <1>3, PTL DEF Spec

-------------------------------------------------------------------------------
(* Events in order.                                                        *)

Ordered == LiveIsActive /\ EventsInOrder

\* The empty sequence, and the history of a run.
LEMMA HistoryInOrder ==
  ASSUME TypeOK, NEW r \in Runs
  PROVE  /\ InOrder(<<>>) /\ InOrder(EventsOf(r)) /\ InOrder(History(r))
         /\ \A i \in DOMAIN EventsOf(r) : EventsOf(r)[i][1] = r
         /\ \A i \in DOMAIN History(r) :
              History(r)[i][1] = r /\ History(r)[i][2] <= events[r]
<1>1. /\ DOMAIN EventsOf(r) = 1..events[r] /\ events[r] \in Nat
      /\ \A i \in 1..events[r] : EventsOf(r)[i] = <<r, i>>
  BY EventsOfParts
<1>2. InOrder(<<>>)
  BY NoneType DEF InOrder
<1>3. InOrder(EventsOf(r))
  BY <1>1 DEF InOrder
<1> QED BY <1>1, <1>2, <1>3, NoneType DEF History

\* Nothing that leaves the panel, the turns and the events alone, and opens no
\* stream, disturbs them.
LEMMA StillOrdered ==
  ASSUME Ordered, UNCHANGED <<live, activity, events>>, severed => severed',
         stream' = "open" => stream = "open" /\ active' = active
  PROVE  Ordered'
  BY DEF Ordered, LiveIsActive, EventsInOrder, InOrder, OwnEvents

\* The initial states: nothing is shown.
LEMMA InitOrdered == Init => Ordered
<1> SUFFICES ASSUME Init PROVE Ordered
  OBVIOUS
<1>1. live = <<>> /\ \A r \in Runs : activity[r] = <<>>
  BY DEF Init, NoActivity
<1> QED BY <1>1, NoneType DEF Ordered, LiveIsActive, EventsInOrder, InOrder, OwnEvents

\* An event of the run that is shown comes after those that are.
LEMMA ExportOrdered ==
  ASSUME TypeOK, Ordered, NEW r \in Runs, Export(r)
  PROVE  Ordered'
<1>1. /\ events' = [events EXCEPT ![r] = @ + 1] /\ events \in [Runs -> Nat]
      /\ UNCHANGED <<active, activity, severed, stream>>
  BY DEF Export, TypeOK, netVars
<1>2. events'[r] = events[r] + 1 /\ \A q \in Runs : events[q] \in Nat /\ events'[q] >= events[q]
  BY <1>1
<1>3. live \in Seq(Events) /\ \A i \in DOMAIN live : live[i][1] \in Runs /\ live[i][2] \in Nat
  <2>1. live \in Seq(Events) /\ DOMAIN live = 1..Len(live)
    BY DEF TypeOK
  <2>2. \A i \in DOMAIN live : live[i] \in Events
    BY <2>1
  <2> QED BY <2>1, <2>2 DEF Events
<1>4. CASE ~ (stream = "open" /\ active = r)
  <2>1. live' = live
    BY <1>4 DEF Export
  <2>2. stream = "open" => active \in Runs
    BY DEF TypeOK
  <2> QED BY <1>1, <1>2, <1>3, <2>1, <2>2
      DEF Ordered, LiveIsActive, EventsInOrder, InOrder, OwnEvents
<1>5. CASE stream = "open" /\ active = r
  <2> DEFINE e == <<r, events[r] + 1>>
  <2>1. live' = Append(live, e) /\ e \in Events
    BY <1>2, <1>5 DEF Export, Events
  <2>2. /\ Len(live) \in Nat /\ DOMAIN live = 1..Len(live)
        /\ DOMAIN live' = 1..Len(live) + 1
        /\ \A i \in 1..Len(live) : live'[i] = live[i]
        /\ live'[Len(live) + 1] = e
    BY <1>3, <2>1, AppendParts
  <2>3. e[1] = r /\ e[2] = events[r] + 1
    OBVIOUS
  <2> HIDE DEF e
  <2>4. \A i \in 1..Len(live) : live[i][1] = r /\ live[i][2] <= events[r] /\ live[i][2] \in Nat
    BY <1>3, <1>5, <2>2 DEF Ordered, LiveIsActive
  <2>5. InOrder(live')
    <3>1. InOrder(live)
      BY DEF Ordered, EventsInOrder
    <3> SUFFICES ASSUME NEW i \in DOMAIN live', NEW k \in DOMAIN live', i < k
                 PROVE  live'[i][1] = live'[k][1] /\ live'[i][2] < live'[k][2]
      BY DEF InOrder
    <3>2. CASE k = Len(live) + 1
      BY <1>2, <2>2, <2>3, <2>4, <3>2
    <3>3. CASE k # Len(live) + 1
      BY <2>2, <3>1, <3>3 DEF InOrder
    <3> QED BY <3>2, <3>3
  <2>6. LiveIsActive'
    BY <1>1, <1>2, <1>5, <2>2, <2>3, <2>4 DEF LiveIsActive
  <2> QED BY <1>1, <2>5, <2>6 DEF Ordered, EventsInOrder, OwnEvents, InOrder
<1> QED BY <1>4, <1>5

\* What was shown of a stream that is over is filed under its turn, and if the
\* stream was open, it is of that turn.
LEMMA StreamOverOrdered ==
  ASSUME TypeOK, Ordered, stream # "closed", StreamOver, stream = "open" \/ severed',
         severed => severed', UNCHANGED events
  PROVE  Ordered'
<1>1. /\ stream' = "closed" /\ live' = <<>> /\ active \in Runs
      /\ \A r \in Runs : activity'[r] = IF r = active THEN live ELSE activity[r]
  BY StreamOverType
<1>2. \A r \in Runs : InOrder(activity'[r])
  BY <1>1 DEF Ordered, EventsInOrder
<1>3. \A r \in Runs : severed' \/ \A i \in DOMAIN activity'[r] : activity'[r][i][1] = r
  BY <1>1 DEF Ordered, EventsInOrder, OwnEvents, LiveIsActive
<1>4. InOrder(<<>>)
  BY NoneType DEF InOrder
<1>5. EventsInOrder'
  BY <1>1, <1>2, <1>3, <1>4 DEF EventsInOrder, OwnEvents, InOrder
<1> QED BY <1>1, <1>5 DEF Ordered, LiveIsActive

\* No step brings an event out of its order or, unless the page is severed, under
\* another turn.
LEMMA StepOrdered == TypeOK /\ Ordered /\ [Next]_vars => Ordered'
<1> SUFFICES ASSUME TypeOK, Ordered, [Next]_vars PROVE Ordered'
  OBVIOUS
<1>1. CASE UNCHANGED vars
  BY <1>1, StillOrdered DEF vars, serverVars, pageVars, netVars
<1>2. ASSUME NEW r \in Runs, RunProceeds(r) \/ PrepareFails(r) \/ Send(r)
      PROVE  Ordered'
  BY <1>2, StillOrdered
  DEF RunProceeds, StartRun, EndRun, Reply, PrepareFails, Send, pageVars, netVars
<1>3. ASSUME NEW g \in Gets, GetProceeds(g)
      PROVE  Ordered'
  <2>1. CASE AnswerGet(g)
    BY <2>1, StillOrdered DEF AnswerGet, serverVars, pageVars
  <2>2. CASE Refresh(g)
    <3>1. gets[g].active \in {None} \cup Runs
      BY DEF TypeOK
    <3>2. stream' = "open" => active' = active /\ stream = "open"
      BY <2>2, <3>1, AfterRefreshType DEF Refresh
    <3> QED BY <2>2, <3>2, StillOrdered DEF Refresh, serverVars
  <2>3. CASE RefreshFails(g)
    <3>1. session.active \in {None} \cup Runs
      BY DEF TypeOK
    <3>2. stream' = "open" => active' = active /\ stream = "open"
      BY <2>3, <3>1, AfterRefreshType DEF RefreshFails
    <3> QED BY <2>3, <3>2, StillOrdered DEF RefreshFails, serverVars
  <2> QED BY <1>3, <2>1, <2>2, <2>3 DEF GetProceeds
<1>4. CASE LoadActivity
  <2>1. /\ UNCHANGED <<live, severed, stream, active, events>>
        /\ \A r \in Runs : activity'[r] = Merged(r)
    BY <1>4 DEF LoadActivity, serverVars, netVars
  <2>2. \A r \in Runs : InOrder(Merged(r)) /\
          (severed \/ \A i \in DOMAIN Merged(r) : Merged(r)[i][1] = r)
    BY HistoryInOrder DEF Merged, Ordered, EventsInOrder, OwnEvents
  <2>3. EventsInOrder'
    BY <2>1, <2>2 DEF Ordered, EventsInOrder, OwnEvents, InOrder
  <2> QED BY <2>1, <2>3 DEF Ordered, LiveIsActive
<1>5. CASE PostAnswered
  <2>1. live' = <<>> /\ UNCHANGED <<activity, severed>>
    BY <1>5 DEF PostAnswered
  <2> QED BY <2>1, NoneType
      DEF Ordered, LiveIsActive, EventsInOrder, InOrder, OwnEvents
<1>6. CASE PostRefused \/ PostBreaks \/ Poll \/ StreamReconnects \/ Restart
  BY <1>6, StillOrdered
  DEF PostRefused, PostBreaks, Poll, StreamReconnects, Restart, serverVars, pageVars, netVars
<1>7. CASE AnswerStream
  <2>1. /\ live' = History(active) /\ UNCHANGED <<activity, severed, active, events>>
        /\ active \in Runs
    BY <1>7 DEF AnswerStream, Shown, serverVars, TypeOK
  <2>2. LiveIsActive'
    BY <2>1, HistoryInOrder DEF LiveIsActive
  <2>3. EventsInOrder'
    BY <2>1, HistoryInOrder DEF Ordered, EventsInOrder, OwnEvents, InOrder
  <2> QED BY <2>2, <2>3 DEF Ordered
<1>8. CASE OnDone
  BY <1>8, StreamOverOrdered DEF OnDone, serverVars
<1>9. CASE StreamFails
  BY <1>9, StreamOverOrdered DEF StreamFails, serverVars
<1>10. CASE Reload
  <2>1. live' = <<>> /\ \A r \in Runs : activity'[r] = <<>>
    BY <1>10 DEF Reload, NoActivity
  <2> QED BY <2>1, NoneType DEF Ordered, LiveIsActive, EventsInOrder, InOrder, OwnEvents
<1>11. CASE Next
  BY <1>2, <1>3, <1>4, <1>5, <1>6, <1>7, <1>8, <1>9, <1>10, <1>11, ExportOrdered
  DEF Next, StreamProceeds, PostProceeds
<1> QED BY <1>1, <1>11

\* Whatever is lost, late or opened anew: no event is shown twice or out of place,
\* and none under another turn unless the page lost sight of a run.
THEOREM EventsInOrderHolds == Spec => []EventsInOrder
<1>1. Init => TypeOK /\ Ordered
  BY InitType, InitOrdered
<1>2. TypeOK /\ Ordered /\ [Next]_vars => (TypeOK /\ Ordered)'
  BY StepType, StepOrdered
<1>3. Ordered => EventsInOrder
  BY DEF Ordered
<1> QED BY <1>1, <1>2, <1>3, PTL DEF Spec
===============================================================================

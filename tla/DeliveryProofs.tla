----------------------------- MODULE DeliveryProofs -----------------------------
(***************************************************************************)
(* Theorems about Delivery, for all deliveries, sends and crashes: the     *)
(* receiver implements AtLeastOnce, keeps the comments it is told of, and  *)
(* lets one first send through.                                            *)
(***************************************************************************)
EXTENDS DeliveryProps, TLAPS

-------------------------------------------------------------------------------
(* The inductive invariant.                                                *)

\* A send has left a row only after it got there.
SavedSends == \A s \in feedback : send[s].pc \notin {"idle", "create", "skipped"}

\* Past the creation, the delivery is recorded; at its end, it was routed.
Stations ==
  \A s \in Sends :
    /\ send[s].pc \in {"route", "authorize", "save", "mark"} => Of(s) \in rows
    /\ At(s, "mark") => Of(s) \in routed
    /\ send[s].pc \in {"authorize", "save"} => event[Of(s)] \in {"comment", "outsider"}
    /\ At(s, "skipped") => Of(s) \in processed

\* Whatever was routed is kept or excused, and only that is processed.
RoutedKept ==
  /\ processed \subseteq routed
  /\ \A d \in routed :
       event[d] = "comment" =>
         \/ \E s \in feedback : Of(s) = d
         \/ d \in excused \cup misjudged

\* A send that found no row and went on, or left a row of its own.
Winner(s) ==
  /\ ~ send[s].found
  /\ \/ send[s].pc \in {"route", "authorize", "save", "mark", "done", "failed"}
     \/ s \in feedback

OneWinner ==
  /\ \A s \in Sends : Winner(s) => Of(s) \in rows
  /\ \A s, t \in Sends : Winner(s) /\ Winner(t) /\ Of(s) = Of(t) => s = t

DeliveryInv == TypeOK /\ SavedSends /\ Stations /\ RoutedKept /\ OneWinner

\* A send is one of its delivery.
LEMMA SendParts ==
  ASSUME NEW s \in Sends
  PROVE  Of(s) \in Deliveries /\ s[2] \in 1..MaxSends /\ s = <<s[1], s[2]>>
BY DEF Sends, Of

\* The initial states.
LEMMA InitInv == Init => DeliveryInv
<1> SUFFICES ASSUME Init PROVE DeliveryInv
  OBVIOUS
<1>1. TypeOK
  <2>1. send \in [Sends -> [pc : Pcs, found : BOOLEAN]]
    BY DEF Init, Pcs
  <2>2. crashes \in 0..MaxCrashes
    BY DeliveryAssumption DEF Init
  <2> QED BY <2>1, <2>2 DEF Init, TypeOK
<1>2. SavedSends /\ Stations /\ RoutedKept /\ OneWinner
  BY DEF Init, SavedSends, Stations, RoutedKept, OneWinner, Winner, At
<1> QED BY <1>1, <1>2 DEF DeliveryInv

\* Every step keeps it.
LEMMA NextInv == DeliveryInv /\ [Next]_vars => DeliveryInv'
<1> SUFFICES ASSUME DeliveryInv, [Next]_vars PROVE DeliveryInv'
  OBVIOUS
<1> USE SendParts
<1> USE DEF DeliveryInv, TypeOK, SavedSends, Stations, RoutedKept, OneWinner, Winner, Pcs, Trying,
            At, Goto, Returned, UsesClient, Evicted, ghosts
<1>1. ASSUME NEW s \in Sends, Reject(s) PROVE DeliveryInv'
  BY <1>1 DEF Reject
<1>2. ASSUME NEW s \in Sends, Receive(s) PROVE DeliveryInv'
  <2>1. TypeOK'
    BY <1>2 DEF Receive, Skips
  <2>2. SavedSends'
    BY <1>2 DEF Receive, Skips
  <2>3. Stations'
    BY <1>2 DEF Receive, Skips
  <2>4. RoutedKept'
    BY <1>2 DEF Receive, Skips
  <2>5. OneWinner'
    BY <1>2 DEF Receive, Skips
  <2> QED BY <2>1, <2>2, <2>3, <2>4, <2>5
<1>3. ASSUME NEW s \in Sends, Create(s) PROVE DeliveryInv'
  BY <1>3 DEF Create
<1>4. ASSUME NEW s \in Sends, RouteIgnored(s) PROVE DeliveryInv'
  BY <1>4 DEF RouteIgnored
<1>5. ASSUME NEW s \in Sends, RouteInstallation(s) PROVE DeliveryInv'
  BY <1>5 DEF RouteInstallation
<1>6. ASSUME NEW s \in Sends, RouteComment(s) PROVE DeliveryInv'
  <2>1. TypeOK'
    BY <1>6 DEF RouteComment
  <2>2. SavedSends'
    BY <1>6 DEF RouteComment
  <2>3. Stations'
    BY <1>6 DEF RouteComment
  <2>4. RoutedKept'
    BY <1>6 DEF RouteComment
  <2>5. OneWinner'
    BY <1>6 DEF RouteComment
  <2> QED BY <2>1, <2>2, <2>3, <2>4, <2>5
<1>7. ASSUME NEW s \in Sends, Authorize(s) PROVE DeliveryInv'
  <2>1. TypeOK'
    BY <1>7 DEF Authorize
  <2>2. SavedSends'
    BY <1>7 DEF Authorize
  <2>3. Stations'
    BY <1>7 DEF Authorize
  <2>4. RoutedKept'
    BY <1>7 DEF Authorize
  <2>5. OneWinner'
    BY <1>7 DEF Authorize
  <2> QED BY <2>1, <2>2, <2>3, <2>4, <2>5
<1>8. ASSUME NEW s \in Sends, AuthorizeFails(s) PROVE DeliveryInv'
  BY <1>8 DEF AuthorizeFails
<1>9. ASSUME NEW s \in Sends, Save(s) PROVE DeliveryInv'
  BY <1>9 DEF Save
<1>10. ASSUME NEW s \in Sends, Mark(s) PROVE DeliveryInv'
  BY <1>10 DEF Mark
<1>11. ASSUME NEW s \in Sends, DispatchFails(s) PROVE DeliveryInv'
  BY <1>11 DEF DispatchFails
<1>12. CASE JobEnds
  BY <1>12 DEF JobEnds
<1>13. CASE Crash
  <2>1. TypeOK'
    <3>1. send' \in [Sends -> [pc : Pcs, found : BOOLEAN]]
      BY <1>13 DEF Crash
    <3>2. crashes' \in 0..MaxCrashes
      BY <1>13, DeliveryAssumption DEF Crash
    <3> QED BY <1>13, <3>1, <3>2 DEF Crash
  <2>2. SavedSends'
    BY <1>13, DeliveryAssumption DEF Crash
  <2>3. Stations'
    BY <1>13, DeliveryAssumption DEF Crash
  <2>4. RoutedKept'
    BY <1>13, DeliveryAssumption DEF Crash
  <2>5. OneWinner'
    BY <1>13, DeliveryAssumption DEF Crash
  <2> QED BY <2>1, <2>2, <2>3, <2>4, <2>5
<1>14. CASE UNCHANGED vars
  BY <1>14 DEF vars
<1> QED
  BY <1>1, <1>2, <1>3, <1>4, <1>5, <1>6, <1>7, <1>8, <1>9, <1>10, <1>11, <1>12, <1>13, <1>14
  DEF Next, Dispatch

\* The invariant holds of every behaviour.
LEMMA InvHolds == Spec => []DeliveryInv
BY InitInv, NextInv, PTL DEF Spec

-------------------------------------------------------------------------------

\* Every variable has its type: what is processed was routed, and what was
\* routed is recorded (record and dispatch).
THEOREM TypeCorrect == Spec => []TypeOK
BY InvHolds, PTL DEF DeliveryInv

\* A processed comment of an authorised author left its row, whatever failed
\* or was sent again in between (record, dispatch, onPrReviewComment).
THEOREM CommentIsKept == Spec => []CommentKept
<1>1. DeliveryInv => CommentKept
  BY DEF DeliveryInv, TypeOK, RoutedKept, CommentKept
<1> QED BY <1>1, InvHolds, PTL

\* Of the sends that found no row, one is routed (the unique deliveryId).
THEOREM FirstSendHolds == Spec => []OneFirstSend
<1>1. DeliveryInv => OneFirstSend
  BY DEF DeliveryInv, TypeOK, OneWinner, Winner, OneFirstSend
<1> QED BY <1>1, InvHolds, PTL

-------------------------------------------------------------------------------
(* The refinement.                                                         *)

\* Initial states are initial states of AtLeastOnce.
LEMMA InitRefines == Init => Abstract!Init
BY DEF Init, Abstract!Init, At, Trying

\* A send goes on: nothing the abstract receiver sees.
LEMMA StaysTrying ==
  ASSUME DeliveryInv, NEW s \in Sends, send[s].pc \in Trying, NEW pc \in Trying, Goto(s, pc)
  PROVE  /\ {t \in Sends : send[t].pc \in Trying}' = {t \in Sends : send[t].pc \in Trying}
         /\ {t \in Sends : At(t, "skipped")}' = {t \in Sends : At(t, "skipped")}
BY DEF DeliveryInv, TypeOK, Goto, At, Trying

\* A send stops trying.
LEMMA StopsTrying ==
  ASSUME DeliveryInv, NEW s \in Sends, send[s].pc \in Trying,
         NEW pc \in Pcs \ (Trying \cup {"skipped"}), Goto(s, pc)
  PROVE  /\ {t \in Sends : send[t].pc \in Trying}' = {t \in Sends : send[t].pc \in Trying} \ {s}
         /\ {t \in Sends : At(t, "skipped")}' = {t \in Sends : At(t, "skipped")}
BY DEF DeliveryInv, TypeOK, Goto, At, Trying, Pcs

\* A step that returns from the route completes a try.
LEMMA ReturnRefines ==
  ASSUME DeliveryInv, NEW s \in Sends, send[s].pc \in Trying, Returned(s),
         processed' = processed
  PROVE  Abstract!Next
<1>1. Abstract!Complete(s[1], s[2])
  BY StaysTrying, SendParts DEF Returned, Abstract!Complete, Trying, Of
<1> QED BY <1>1, SendParts DEF Abstract!Next, Of

\* A step that ends a try in vain.
LEMMA AbandonRefines ==
  ASSUME DeliveryInv, NEW s \in Sends, send[s].pc \in Trying,
         NEW pc \in Pcs \ (Trying \cup {"skipped"}), Goto(s, pc),
         UNCHANGED <<processed, routed>>
  PROVE  Abstract!Next
<1>1. Abstract!Abandon({s})
  BY StopsTrying DEF Abstract!Abandon
<1> QED BY <1>1 DEF Abstract!Next

\* Every step is one of AtLeastOnce or invisible to it.
LEMMA NextRefines ==
  DeliveryInv /\ [Next]_vars => [Abstract!Next]_(Abstract!abstractVars)
<1> SUFFICES ASSUME DeliveryInv, [Next]_vars
             PROVE  Abstract!Next \/ UNCHANGED Abstract!abstractVars
  OBVIOUS
<1> DEFINE trying == {t \in Sends : send[t].pc \in Trying}
           skipped == {t \in Sends : At(t, "skipped")}
<1>0. (trying' = trying /\ skipped' = skipped /\ processed' = processed /\ routed' = routed)
      => UNCHANGED Abstract!abstractVars
  BY DEF Abstract!abstractVars
<1>1. ASSUME NEW s \in Sends, Reject(s) PROVE UNCHANGED Abstract!abstractVars
  <2>1. trying' = trying /\ skipped' = skipped /\ processed' = processed /\ routed' = routed
    BY <1>1 DEF Reject, Goto, At, Trying, DeliveryInv, TypeOK, ghosts
  <2> QED BY <2>1, <1>0
<1>2. ASSUME NEW s \in Sends, Receive(s) PROVE Abstract!Next
  <2>1. CASE Of(s) \in processed
    <3>1. trying' = trying /\ skipped' = skipped \cup {s} /\ UNCHANGED <<processed, routed>>
      BY <1>2, <2>1 DEF Receive, Skips, At, Trying, DeliveryInv, TypeOK, ghosts
    <3>2. Abstract!Skip(s[1], s[2])
      BY <2>1, <3>1, SendParts DEF Abstract!Skip, Of
    <3> QED BY <3>2, SendParts DEF Abstract!Next, Of
  <2>2. CASE Of(s) \notin processed
    <3>1. /\ trying' = trying \cup {s} /\ s \notin trying
          /\ skipped' = skipped /\ UNCHANGED <<processed, routed>>
      BY <1>2, <2>2 DEF Receive, Skips, At, Trying, DeliveryInv, TypeOK, ghosts
    <3>2. Abstract!Begin(s[1], s[2])
      BY <2>2, <3>1, SendParts DEF Abstract!Begin, Of
    <3> QED BY <3>2, SendParts DEF Abstract!Next, Of
  <2> QED BY <2>1, <2>2
<1>3. ASSUME NEW s \in Sends, Create(s) PROVE Abstract!Next \/ UNCHANGED Abstract!abstractVars
  <2>1. CASE Of(s) \in rows
    BY <1>3, <2>1, AbandonRefines DEF Create, At, Trying, Pcs, ghosts
  <2>2. CASE Of(s) \notin rows
    BY <1>0, <1>3, <2>2, StaysTrying DEF Create, At, Trying, ghosts
  <2> QED BY <2>1, <2>2
<1>4. ASSUME NEW s \in Sends,
             RouteIgnored(s) \/ RouteInstallation(s) \/ AuthorizeFails(s) \/ Save(s)
      PROVE  Abstract!Next
  BY <1>4, ReturnRefines DEF RouteIgnored, RouteInstallation, AuthorizeFails, Save, At, Trying
<1>5. ASSUME NEW s \in Sends, RouteComment(s) \/ Authorize(s)
      PROVE  Abstract!Next \/ UNCHANGED Abstract!abstractVars
  <2>1. CASE Returned(s)
    BY <1>5, <2>1, ReturnRefines DEF RouteComment, Authorize, At, Trying
  <2>2. CASE ~ Returned(s)
    <3>1. send[s].pc \in Trying /\ UNCHANGED <<processed, routed>>
      BY <1>5, <2>2 DEF RouteComment, Authorize, At, Trying
    <3>2. Goto(s, "authorize") \/ Goto(s, "save")
      BY <1>5, <2>2 DEF RouteComment, Authorize
    <3> QED BY <1>0, <3>1, <3>2, StaysTrying DEF Trying
  <2> QED BY <2>1, <2>2
<1>6. ASSUME NEW s \in Sends, Mark(s) PROVE Abstract!Next
  <2>1. trying' = trying \ {s} /\ skipped' = skipped
    BY <1>6, StopsTrying DEF Mark, At, Trying, Pcs
  <2>2. s \in trying /\ Of(s) \in routed
    BY <1>6 DEF Mark, At, Trying, DeliveryInv, Stations
  <2>3. Abstract!Acknowledge(s[1], s[2])
    BY <1>6, <2>1, <2>2, SendParts DEF Mark, Abstract!Acknowledge, Of, ghosts
  <2> QED BY <2>3, SendParts DEF Abstract!Next, Of
<1>7. ASSUME NEW s \in Sends, DispatchFails(s) PROVE Abstract!Next
  BY <1>7, AbandonRefines DEF DispatchFails, Trying, Pcs, ghosts
<1>8. CASE JobEnds
  BY <1>8 DEF JobEnds, ghosts, Abstract!abstractVars, At
<1>9. CASE Crash
  <2>1. /\ trying' = {} /\ skipped' = skipped /\ UNCHANGED <<processed, routed>>
    BY <1>9 DEF Crash, At, Trying, DeliveryInv, TypeOK, ghosts
  <2>2. CASE trying = {}
    BY <1>0, <2>1, <2>2
  <2>3. CASE trying # {}
    <3>1. \E lost \in SUBSET trying :
            /\ lost # {} /\ trying' = trying \ lost
            /\ skipped' = skipped /\ UNCHANGED <<processed, routed>>
      <4> HIDE DEF trying, skipped
      <4> QED BY <2>1, <2>3
    <3> QED BY <3>1 DEF Abstract!Next, Abstract!Abandon
  <2> QED BY <2>2, <2>3
<1>10. CASE UNCHANGED vars
  BY <1>10 DEF vars, ghosts, Abstract!abstractVars, At
<1> QED
  BY <1>1, <1>2, <1>3, <1>4, <1>5, <1>6, <1>7, <1>8, <1>9, <1>10 DEF Next, Dispatch

\* The receiver implements AtLeastOnce: no try of a delivery begins once it is
\* processed, none counts before the route has returned, and only processed
\* ones are skipped.
THEOREM Refines == Spec => HandledAtLeastOnce
<1>1. Spec => Abstract!Init /\ [][Abstract!Next]_(Abstract!abstractVars)
  BY InitRefines, NextRefines, InvHolds, PTL DEF Spec
<1> QED BY <1>1 DEF HandledAtLeastOnce, Abstract!Spec
================================================================================

-------------------------------- MODULE Delivery --------------------------------
(***************************************************************************)
(* GitHub's webhook deliveries from the request to the row they leave:     *)
(* receive (api/src/webhook/webhook.controller.ts), record, dispatch and   *)
(* route (webhook.service.ts), the handler of an inline PR comment         *)
(* (onPrReviewComment of orchestrator.service.ts) and the calls it makes   *)
(* of github.service.ts.  What the other events make the orchestrator do   *)
(* is in Orchestrator.                                                     *)
(*                                                                         *)
(* GitHub sends a delivery again under its old id whenever somebody asks   *)
(* for it, the first answer notwithstanding, so sends of one delivery      *)
(* overlap.  An await is the end of an action.                             *)
(***************************************************************************)
EXTENDS Integers, FiniteSets

CONSTANTS
  Deliveries,  \* X-GitHub-Delivery ids
  MaxSends,    \* bound: sends of one delivery
  MaxCrashes   \* bound: process crashes

ASSUME DeliveryAssumption == MaxSends \in Nat \ {0} /\ MaxCrashes \in Nat

VARIABLES
  event,      \* delivery -> what it tells
  rows,       \* deliveries that have a WebhookEvent row
  processed,  \* those with processedAt
  send,       \* <<delivery, number>> -> [pc, found], the request and its dispatch
  job,        \* the PR's job: "live" or "terminal"
  feedback,   \* the sends that left a PullRequestFeedback row
  suspended,  \* RepoInstallation.suspended
  client,     \* the installation has a cached client
  routed,     \* ghost: deliveries whose route returned
  excused,    \* ghost: deliveries whose route found the job terminal
  misjudged,  \* ghost: those whose author GitHub could not be asked about
  crashes     \* ghost: crashes so far

ghosts == <<routed, excused, misjudged>>
vars == <<event, rows, processed, send, job, feedback, suspended, client, ghosts, crashes>>

Sends == Deliveries \X (1..MaxSends)
Of(s) == s[1]

\* An inline comment of an author with write access, of one without, of a
\* bot; changes of the installation; whatever route ignores.
Events == {"comment", "outsider", "bot", "suspend", "unsuspend", "ignored"}

Trying == {"create", "route", "authorize", "save", "mark"}
Pcs == Trying \cup {"idle", "skipped", "rejected", "refused", "failed", "done", "lost"}

Init ==
  /\ event \in [Deliveries -> Events]
  /\ rows = {} /\ processed = {}
  /\ send = [s \in Sends |-> [pc |-> "idle", found |-> FALSE]]
  /\ job = "live" /\ feedback = {}
  /\ suspended = FALSE /\ client = FALSE
  /\ routed = {} /\ excused = {} /\ misjudged = {}
  /\ crashes = 0

At(s, pc) == send[s].pc = pc
Goto(s, pc) == send' = [send EXCEPT ![s].pc = pc]

\* The route returned.
Returned(s) == Goto(s, "mark") /\ routed' = routed \cup {Of(s)}

-------------------------------------------------------------------------------
(* receive and record.                                                     *)

IsNextSend(s) == \A k \in 1..(s[2] - 1) : ~ At(<<s[1], k>>, "idle")

\* No body, a bad signature, missing headers: an error answer, nothing else.
Reject(s) ==
  /\ At(s, "idle") /\ IsNextSend(s)
  /\ Goto(s, "rejected")
  /\ UNCHANGED <<event, rows, processed, job, feedback, suspended, client, ghosts, crashes>>

\* Fault: a delivery is skipped as soon as it has a row.
SkipsRecorded(d) == d \in rows

Skips(d) == d \in processed

\* A genuine request, up to the answer of findUnique.
Receive(s) ==
  /\ At(s, "idle") /\ IsNextSend(s)
  /\ send' = [send EXCEPT ![s] =
       [pc    |-> IF Skips(Of(s)) THEN "skipped" ELSE IF Of(s) \in rows THEN "route" ELSE "create",
        found |-> Of(s) \in rows]]
  /\ UNCHANGED <<event, rows, processed, job, feedback, suspended, client, ghosts, crashes>>

\* Fault: the row is upserted, so that the loser of the race goes on as well.
CreateUpserted(s) ==
  /\ At(s, "create")
  /\ Goto(s, "route")
  /\ rows' = rows \cup {Of(s)}
  /\ UNCHANGED <<event, processed, job, feedback, suspended, client, ghosts, crashes>>

\* webhookEvent.create: deliveryId is unique, and the loser answers 500.
Create(s) ==
  /\ At(s, "create")
  /\ Goto(s, IF Of(s) \in rows THEN "refused" ELSE "route")
  /\ rows' = rows \cup {Of(s)}
  /\ UNCHANGED <<event, processed, job, feedback, suspended, client, ghosts, crashes>>

-------------------------------------------------------------------------------
(* The installation's API client.                                          *)

UsesClient == client' = TRUE

Evicted == client' = FALSE

-------------------------------------------------------------------------------
(* dispatch, after the answer 202.                                         *)

RouteIgnored(s) ==
  /\ At(s, "route") /\ event[Of(s)] \in {"ignored", "bot"}
  /\ Returned(s)
  /\ UNCHANGED <<event, rows, processed, job, feedback, suspended, client, excused, misjudged,
                 crashes>>

\* onInstallation: upsert, then evict.
RouteInstallation(s) ==
  /\ At(s, "route") /\ event[Of(s)] \in {"suspend", "unsuspend"}
  /\ suspended' = (event[Of(s)] = "suspend")
  /\ Evicted
  /\ Returned(s)
  /\ UNCHANGED <<event, rows, processed, job, feedback, excused, misjudged, crashes>>

\* onPrReviewComment up to the context.  A PR without a job, or a job without a
\* ref, returns at once like one that is over.
RouteComment(s) ==
  /\ At(s, "route") /\ event[Of(s)] \in {"comment", "outsider"}
  /\ \/ /\ job = "live"
        /\ Goto(s, "authorize")
        /\ UNCHANGED <<routed, excused>>
     \/ /\ job = "terminal"
        /\ Returned(s)
        /\ excused' = excused \cup {Of(s)}
  /\ UNCHANGED <<event, rows, processed, job, feedback, suspended, client, misjudged, crashes>>

\* isAuthorized, and GitHub's answer.
Authorize(s) ==
  /\ At(s, "authorize")
  /\ UsesClient
  /\ \/ event[Of(s)] = "comment" /\ Goto(s, "save") /\ UNCHANGED routed
     \/ event[Of(s)] = "outsider" /\ Returned(s)
  /\ UNCHANGED <<event, rows, processed, job, feedback, suspended, excused, misjudged, crashes>>

\* getCollaboratorPermission turns a failing call into the permission "none".
AuthorizeFails(s) ==
  /\ At(s, "authorize")
  /\ UsesClient
  /\ Returned(s)
  /\ misjudged' = misjudged \cup {Of(s)}
  /\ UNCHANGED <<event, rows, processed, job, feedback, suspended, excused, crashes>>

\* pullRequestFeedback.create.
Save(s) ==
  /\ At(s, "save")
  /\ feedback' = feedback \cup {s}
  /\ Returned(s)
  /\ UNCHANGED <<event, rows, processed, job, suspended, client, excused, misjudged, crashes>>

Mark(s) ==
  /\ At(s, "mark")
  /\ processed' = processed \cup {Of(s)}
  /\ Goto(s, "done")
  /\ UNCHANGED <<event, rows, job, feedback, suspended, client, ghosts, crashes>>

\* Fault: the delivery is marked whatever came of its route.
DispatchFailsMarked(s) ==
  /\ send[s].pc \in {"route", "save", "mark"}
  /\ Goto(s, "failed")
  /\ processed' = processed \cup {Of(s)}
  /\ UNCHANGED <<event, rows, job, feedback, suspended, client, ghosts, crashes>>

\* A statement of the route, or the update after it, throws: dispatch logs it.
DispatchFails(s) ==
  /\ send[s].pc \in {"route", "save", "mark"}
  /\ Goto(s, "failed")
  /\ UNCHANGED <<event, rows, processed, job, feedback, suspended, client, ghosts, crashes>>

-------------------------------------------------------------------------------

\* The job is done, cancelled or failed meanwhile.
JobEnds ==
  /\ job = "live"
  /\ job' = "terminal"
  /\ UNCHANGED <<event, rows, processed, send, feedback, suspended, client, ghosts, crashes>>

Crash ==
  /\ crashes < MaxCrashes
  /\ crashes' = crashes + 1
  /\ send' = [s \in Sends |-> IF send[s].pc \in Trying THEN [send[s] EXCEPT !.pc = "lost"]
                              ELSE send[s]]
  /\ client' = FALSE
  /\ UNCHANGED <<event, rows, processed, job, feedback, suspended, ghosts>>

Dispatch(s) ==
  \/ RouteIgnored(s) \/ RouteInstallation(s) \/ RouteComment(s)
  \/ Authorize(s) \/ AuthorizeFails(s) \/ Save(s) \/ Mark(s) \/ DispatchFails(s)

Next ==
  \/ \E s \in Sends : Reject(s) \/ Receive(s) \/ Create(s) \/ Dispatch(s)
  \/ JobEnds
  \/ Crash

Spec == Init /\ [][Next]_vars
================================================================================

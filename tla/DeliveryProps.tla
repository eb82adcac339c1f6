----------------------------- MODULE DeliveryProps -----------------------------
(***************************************************************************)
(* What the receiver of the deliveries promises.                           *)
(***************************************************************************)
EXTENDS Delivery

\* Every variable has its type; what is processed was routed and recorded.
TypeOK ==
  /\ event \in [Deliveries -> Events]
  /\ rows \subseteq Deliveries /\ processed \subseteq rows
  /\ send \in [Sends -> [pc : Pcs, found : BOOLEAN]]
  /\ job \in {"live", "terminal"}
  /\ feedback \subseteq Sends
  /\ suspended \in BOOLEAN /\ client \in BOOLEAN
  /\ routed \subseteq rows /\ excused \subseteq routed /\ misjudged \subseteq routed
  /\ crashes \in 0..MaxCrashes

\* "Always record the feedback so it's never lost" (onPullRequestReview),
\* through redeliveries, failing statements and crashes: an inline comment of
\* an authorised author whose delivery counts as processed left a row, unless
\* its job was terminal or GitHub could not be asked about the author.
CommentKept ==
  \A d \in processed :
    event[d] = "comment" =>
      \/ \E s \in feedback : Of(s) = d
      \/ d \in excused \cup misjudged

\* The same without the last exception.  Does not hold: a failed
\* permission lookup is taken for a missing permission, the comment is
\* dropped and its delivery marked processed.
NoCommentLost ==
  \A d \in processed :
    event[d] = "comment" => d \in excused \/ \E s \in feedback : Of(s) = d

\* Rows of sends that raced for the delivery's row: the unique deliveryId lets
\* one of the sends that found none go on, so two first sends at the same time
\* leave one PullRequestFeedback row; the others came after the row was there.
OneFirstSend ==
  \A s, t \in feedback : Of(s) = Of(t) /\ s # t => send[s].found \/ send[t].found

\* "A redelivery is skipped only once the original was fully processed, so a
\* mid-processing crash is safely retried": the detailed receiver implements
\* AtLeastOnce.
Abstract == INSTANCE AtLeastOnce WITH
  Messages  <- Deliveries,
  Tries     <- 1..MaxSends,
  trying    <- {s \in Sends : send[s].pc \in Trying},
  completed <- routed,
  handled   <- processed,
  skipped   <- {s \in Sends : At(s, "skipped")}

HandledAtLeastOnce == Abstract!Spec
================================================================================

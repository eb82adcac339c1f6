-------------------------- MODULE RevisionRoundProofs --------------------------
(***************************************************************************)
(* The budgets of a revision round, for every setting of the caps and any  *)
(* number of comments, failures, crashes and retries.                      *)
(***************************************************************************)
EXTENDS RevisionRoundProps, TLAPS

\* Every variable keeps its type.
LEMMA TypeStep == TypeOK /\ [Next]_vars => TypeOK'
<1> SUFFICES ASSUME TypeOK, [Next]_vars PROVE TypeOK'
  OBVIOUS
<1> USE RoundAssumption DEF TypeOK
<1> USE DEF Stages, Outcomes, Verdicts, NoReview, checkVars, feedbackVars, ghostVars,
            taskVars, MoveTo, Handling
<1>1. CASE Claim
  BY <1>1 DEF Claim
<1>2. CASE VerifySkipped
  BY <1>2 DEF VerifySkipped
<1>3. ASSUME NEW ok \in {"ok", "failed"}, VerifyRecord(ok) PROVE TypeOK'
  BY <1>3 DEF VerifyRecord
<1>4. CASE VerifyDecide
  BY <1>4 DEF VerifyDecide, AfterVerify
<1>5. ASSUME NEW v \in Verdicts, ReviewPersist(v) PROVE TypeOK'
  BY <1>5 DEF ReviewPersist
<1>6. CASE ReviewDecide
  BY <1>6 DEF ReviewDecide, AfterReview
<1>7. CASE ReviseRead
  BY <1>7 DEF ReviseRead
<1>8. CASE RevisePass
  BY <1>8 DEF RevisePass
<1>9. CASE ReviseContinue
  BY <1>9 DEF ReviseContinue
<1>10. CASE ReviseDone
  BY <1>10 DEF ReviseDone
<1>11. CASE OpenPrGuard
  BY <1>11 DEF OpenPrGuard
<1>12. CASE OpenPrPresent
  BY <1>12 DEF OpenPrPresent, PrBody, meetsThreshold
<1>13. CASE HandlerThrows
  BY <1>13 DEF HandlerThrows
<1>14. CASE Crash
  BY <1>14 DEF Crash
<1>15. ASSUME NEW f \in Feedback, Comment(f) PROVE TypeOK'
  BY <1>15 DEF Comment, Record
<1>16. ASSUME NEW f \in Feedback, ChangesRequested(f) PROVE TypeOK'
  BY <1>16 DEF ChangesRequested, Record
<1>17. CASE Retry
  BY <1>17 DEF Retry
<1>18. CASE UNCHANGED vars
  BY <1>18 DEF vars
<1> QED
  BY <1>1, <1>2, <1>3, <1>4, <1>5, <1>6, <1>7, <1>8, <1>9, <1>10, <1>11, <1>12,
     <1>13, <1>14, <1>15, <1>16, <1>17, <1>18 DEF Next, Work

\* The rounds keep their types through every handler, crash and comment.
THEOREM TypeCorrect == Spec => []TypeOK
<1>1. Init => TypeOK
  BY RoundAssumption DEF Init, TypeOK, Stages, Outcomes, NoReview, NoBody
<1> QED BY <1>1, TypeStep, PTL DEF Spec

-------------------------------------------------------------------------------
(* RoundBudget is not inductive: it must also count the REVISE that is     *)
(* queued or running, and the one a recorded verdict is about to queue.    *)
(* Each is paid for by a failure or a pass recorded while the cap was not  *)
(* reached yet, or by a loop of the guard.                                 *)

Capped(n, cap) == IF n < cap THEN n ELSE cap - 1

ReviseDue ==
  \/ stage = "REVISE"
  \/ Handling("VERIFY", "recorded") /\ verified # "ok" /\ failures < MaxVerify
  \/ Handling("REVIEW", "recorded") /\ passes < MaxPasses

Paid ==
  revises + (IF ReviseDue THEN 1 ELSE 0)
    <= 1 + Capped(failures, MaxVerify) + Capped(passes, MaxPasses) + loops

\* The counts are below their caps, but for loops and crashes, wherever a
\* handler may still add to them.
Headroom ==
  /\ failures <= MaxVerify + loops + crashes
  /\ passes <= MaxPasses + loops + crashes
  /\ stage \in {"VERIFY", "REVIEW", "REVISE"} =>
       /\ \/ Handling("VERIFY", "recorded") /\ verified = "failed"
          \/ failures < MaxVerify + loops + crashes
       /\ \/ Handling("REVIEW", "recorded")
          \/ passes < MaxPasses + loops + crashes

\* Every step pays for the REVISE it makes due.
LEMMA PaidStep == TypeOK /\ Paid /\ [Next]_vars => Paid'
<1> SUFFICES ASSUME TypeOK, Paid, [Next]_vars PROVE Paid'
  OBVIOUS
<1> USE RoundAssumption DEF Paid, ReviseDue, Capped, Handling
<1> USE DEF checkVars, feedbackVars, ghostVars, taskVars, MoveTo
<1>0. /\ failures \in Nat /\ passes \in Nat /\ revises \in Nat /\ loops \in Nat
      /\ verified \in Outcomes
  BY DEF TypeOK
<1>1. CASE Claim
  BY <1>0, <1>1 DEF Claim
<1>2. CASE VerifySkipped
  BY <1>0, <1>2 DEF VerifySkipped
<1>3. ASSUME NEW ok \in {"ok", "failed"}, VerifyRecord(ok) PROVE Paid'
  <2>1. /\ stage = "VERIFY" /\ pc = "begin" /\ stage' = "VERIFY" /\ pc' = "recorded"
        /\ passes' = passes /\ revises' = revises /\ loops' = loops
    BY <1>3 DEF VerifyRecord
  <2>2. ~ ReviseDue
    BY <2>1
  <2>3. CASE ok = "ok"
    <3>1. ~ ReviseDue' /\ failures' = failures
      BY <1>3, <2>1, <2>3 DEF VerifyRecord
    <3> HIDE DEF ReviseDue
    <3> QED BY <1>0, <2>1, <2>2, <3>1
  <2>4. CASE ok = "failed"
    <3>1. failures' = failures + 1 /\ (ReviseDue' => failures' < MaxVerify)
      BY <1>3, <2>1, <2>4 DEF VerifyRecord
    <3> HIDE DEF ReviseDue
    <3> QED BY <1>0, <2>1, <2>2, <3>1
  <2> QED BY <1>3, <2>3, <2>4
<1>4. CASE VerifyDecide
  BY <1>0, <1>4 DEF VerifyDecide, AfterVerify, Outcomes
<1>5. ASSUME NEW v \in Verdicts, ReviewPersist(v) PROVE Paid'
  BY <1>0, <1>5 DEF ReviewPersist
<1>6. CASE ReviewDecide
  BY <1>0, <1>6 DEF ReviewDecide, AfterReview
<1>7. CASE ReviseRead \/ RevisePass \/ ReviseContinue
  BY <1>0, <1>7 DEF ReviseRead, RevisePass, ReviseContinue
<1>8. CASE ReviseDone
  BY <1>0, <1>8 DEF ReviseDone
<1>9. CASE OpenPrGuard
  BY <1>0, <1>9 DEF OpenPrGuard
<1>10. CASE OpenPrPresent
  BY <1>0, <1>10 DEF OpenPrPresent
<1>11. CASE HandlerThrows
  BY <1>0, <1>11 DEF HandlerThrows
<1>12. CASE Crash
  BY <1>0, <1>12 DEF Crash
<1>13. ASSUME NEW f \in Feedback, Comment(f) PROVE Paid'
  BY <1>0, <1>13 DEF Comment
<1>14. ASSUME NEW f \in Feedback, ChangesRequested(f) PROVE Paid'
  BY <1>0, <1>14 DEF ChangesRequested
<1>15. CASE Retry
  BY <1>0, <1>15 DEF Retry
<1>16. CASE UNCHANGED vars
  BY <1>0, <1>16 DEF vars
<1> QED
  BY <1>1, <1>2, <1>3, <1>4, <1>5, <1>6, <1>7, <1>8, <1>9, <1>10, <1>11, <1>12,
     <1>13, <1>14, <1>15, <1>16 DEF Next, Work

\* Every step leaves headroom where a handler may still record.
LEMMA HeadroomStep == TypeOK /\ Headroom /\ [Next]_vars => Headroom'
<1> SUFFICES ASSUME TypeOK, Headroom, [Next]_vars PROVE Headroom'
  OBVIOUS
<1> USE RoundAssumption DEF Headroom, Handling
<1> USE DEF checkVars, feedbackVars, ghostVars, taskVars, MoveTo
<1>0. /\ failures \in Nat /\ passes \in Nat /\ loops \in Nat /\ crashes \in Nat
      /\ verified \in Outcomes
  BY DEF TypeOK
<1>1. CASE Claim
  BY <1>0, <1>1 DEF Claim
<1>2. CASE VerifySkipped
  BY <1>0, <1>2 DEF VerifySkipped
<1>3. ASSUME NEW ok \in {"ok", "failed"}, VerifyRecord(ok) PROVE Headroom'
  BY <1>0, <1>3 DEF VerifyRecord
<1>4. CASE VerifyDecide
  BY <1>0, <1>4 DEF VerifyDecide, AfterVerify, Outcomes
<1>5. ASSUME NEW v \in Verdicts, ReviewPersist(v) PROVE Headroom'
  BY <1>0, <1>5 DEF ReviewPersist
<1>6. CASE ReviewDecide
  BY <1>0, <1>6 DEF ReviewDecide, AfterReview
<1>7. CASE ReviseRead \/ RevisePass \/ ReviseContinue
  BY <1>0, <1>7 DEF ReviseRead, RevisePass, ReviseContinue
<1>8. CASE ReviseDone
  BY <1>0, <1>8 DEF ReviseDone
<1>9. CASE OpenPrGuard
  BY <1>0, <1>9 DEF OpenPrGuard
<1>10. CASE OpenPrPresent
  BY <1>0, <1>10 DEF OpenPrPresent
<1>11. CASE HandlerThrows
  BY <1>0, <1>11 DEF HandlerThrows
<1>12. CASE Crash
  BY <1>0, <1>12 DEF Crash
<1>13. ASSUME NEW f \in Feedback, Comment(f) PROVE Headroom'
  BY <1>0, <1>13 DEF Comment
<1>14. ASSUME NEW f \in Feedback, ChangesRequested(f) PROVE Headroom'
  BY <1>0, <1>14 DEF ChangesRequested
<1>15. CASE Retry
  BY <1>0, <1>15 DEF Retry
<1>16. CASE UNCHANGED vars
  BY <1>0, <1>16 DEF vars
<1> QED
  BY <1>1, <1>2, <1>3, <1>4, <1>5, <1>6, <1>7, <1>8, <1>9, <1>10, <1>11, <1>12,
     <1>13, <1>14, <1>15, <1>16 DEF Next, Work

\* A round never revises more often than its caps and the guard allow, and its
\* recorded failures and passes overshoot their caps only by the guard's loops
\* and by what a crash made run again.
THEOREM RoundBudgetHolds == Spec => []RoundBudget
<1>1. Init => Paid
  BY RoundAssumption DEF Init, Paid, ReviseDue, Capped, Handling
<1>2. Init => Headroom
  BY RoundAssumption DEF Init, Headroom, Handling
<1>3. TypeOK /\ Paid /\ Headroom => RoundBudget
  BY RoundAssumption DEF TypeOK, Paid, Capped, Headroom, RoundBudget
<1> QED BY <1>1, <1>2, <1>3, TypeCorrect, PaidStep, HeadroomStep, PTL DEF Spec

-------------------------------------------------------------------------------
(* A red build reaches OPEN_PR only from VERIFY: reviews are of green        *)
(* builds, or of repositories without a command.                           *)

RedAtCap ==
  /\ stage = "REVIEW" => verified # "failed"
  /\ stage \in {"OPEN_PR", "AWAITING"} /\ verified = "failed" => failures >= MaxVerify

\* Only VERIFY changes what is known of the build, and it goes to REVIEW on a
\* green one and to OPEN_PR at the cap.
LEMMA RedStep == TypeOK /\ RedAtCap /\ [Next]_vars => RedAtCap'
<1> SUFFICES ASSUME TypeOK, RedAtCap, [Next]_vars PROVE RedAtCap'
  OBVIOUS
<1> USE RoundAssumption DEF RedAtCap, Handling
<1> USE DEF checkVars, feedbackVars, ghostVars, taskVars, MoveTo
<1>0. failures \in Nat /\ verified \in Outcomes
  BY DEF TypeOK
<1>1. CASE Claim
  BY <1>0, <1>1 DEF Claim
<1>2. CASE VerifySkipped
  BY <1>0, <1>2 DEF VerifySkipped
<1>3. ASSUME NEW ok \in {"ok", "failed"}, VerifyRecord(ok) PROVE RedAtCap'
  BY <1>0, <1>3 DEF VerifyRecord
<1>4. CASE VerifyDecide
  BY <1>0, <1>4 DEF VerifyDecide, AfterVerify, Outcomes
<1>5. ASSUME NEW v \in Verdicts, ReviewPersist(v) PROVE RedAtCap'
  BY <1>0, <1>5 DEF ReviewPersist
<1>6. CASE ReviewDecide
  BY <1>0, <1>6 DEF ReviewDecide, AfterReview
<1>7. CASE ReviseRead \/ RevisePass \/ ReviseContinue \/ ReviseDone
  BY <1>0, <1>7 DEF ReviseRead, RevisePass, ReviseContinue, ReviseDone
<1>8. CASE OpenPrGuard \/ OpenPrPresent
  BY <1>0, <1>8 DEF OpenPrGuard, OpenPrPresent
<1>9. CASE HandlerThrows \/ Crash \/ Retry
  BY <1>0, <1>9 DEF HandlerThrows, Crash, Retry
<1>10. ASSUME NEW f \in Feedback, Comment(f) \/ ChangesRequested(f) PROVE RedAtCap'
  BY <1>0, <1>10 DEF Comment, ChangesRequested
<1>11. CASE UNCHANGED vars
  BY <1>0, <1>11 DEF vars
<1> QED
  BY <1>1, <1>2, <1>3, <1>4, <1>5, <1>6, <1>7, <1>8, <1>9, <1>10, <1>11 DEF Next, Work

\* A pull request shows a red build only when the fixes of its round are used up.
THEOREM RedBuildHolds == Spec => []RedBuildAtCapOnly
<1>1. Init => RedAtCap
  BY DEF Init, RedAtCap
<1>2. RedAtCap => RedBuildAtCapOnly
  BY DEF RedAtCap, RedBuildAtCapOnly
<1> QED BY <1>1, <1>2, TypeCorrect, RedStep, PTL DEF Spec
================================================================================

----------------------------- MODULE RevisionRound -----------------------------
(***************************************************************************)
(* The revision rounds of one job after its plan was implemented: the      *)
(* VERIFY, REVIEW, REVISE and OPEN_PR handlers of                          *)
(* api/src/orchestrator/orchestrator.service.ts with the counts they read  *)
(* back from the VerifyRun, ReviewPass, AgentRun and PullRequestFeedback   *)
(* tables, while humans comment on the pull request and handlers fail,     *)
(* crash and are run again.                                                *)
(*                                                                         *)
(* Orchestrator leaves the choices made here open and models instead what  *)
(* is one step here: the transition, the enqueue of the next task and the  *)
(* end of the task (MoveTo).                                               *)
(***************************************************************************)
EXTENDS Integers, FiniteSets

CONSTANTS
  MaxVerify,      \* MAX_VERIFY_ATTEMPTS
  MaxPasses,      \* MAX_REVIEW_PASSES
  MaxUnparsed,    \* MAX_REVIEW_RETRIES
  MaxCompletion,  \* MAX_COMPLETION_RETRIES
  MaxAttempts,    \* QUEUE_MAX_ATTEMPTS
  Feedback,       \* the reviews and inline comments humans leave
  MaxCrashes,     \* bound: crashes in a round
  MaxRetries      \* bound: retryJob requests

ASSUME RoundAssumption ==
  /\ MaxVerify \in Nat \ {0} /\ MaxPasses \in Nat \ {0}
  /\ MaxUnparsed \in Nat /\ MaxCompletion \in Nat /\ MaxAttempts \in Nat \ {0}
  /\ MaxCrashes \in Nat /\ MaxRetries \in Nat

VARIABLES
  stage,      \* the stage whose task is queued or running, or "AWAITING"
  pc,         \* the handler's next statement; "idle" while its task is queued
  attempts,   \* claims of the current task
  failures,   \* failed VerifyRuns of this cycle
  verified,   \* ok of the cycle's last VerifyRun
  passes,     \* ReviewPasses of this cycle
  streak,     \* how many of the last ones had no parseable verdict
  latest,     \* the cycle's last ReviewPass
  given,      \* ghost: PullRequestFeedback rows
  fresh,      \* the rows newer than the last IMPLEMENT or REVISE run
  prompted,   \* the rows in the prompt of the current REVISE handler
  addressed,  \* ghost: the rows some finished REVISE had in its prompt
  continued,  \* completion retries of the current REVISE handler
  body,       \* what the pull request says of its checks
  revises,    \* ghost: REVISE handlers finished in this round
  loops,      \* ghost: times this round the guard sent the job back
  crashes,    \* ghost: crashes in this round
  retries     \* ghost: retryJob requests

taskVars == <<stage, pc, attempts>>
checkVars == <<failures, verified, passes, streak, latest>>
feedbackVars == <<given, fresh, prompted, addressed, continued>>
ghostVars == <<revises, loops, crashes, retries>>
vars == <<taskVars, checkVars, feedbackVars, body, ghostVars>>

Stages == {"VERIFY", "REVIEW", "REVISE", "OPEN_PR"}
Outcomes == {"none", "ok", "failed"}
Verdicts == {"pass", "fail", "unparseable"}
NoReview == [verdict |-> "none", verifyOk |-> "none"]
NoBody == [meets |-> FALSE, verifyOk |-> "none", open |-> FALSE]

\* IMPLEMENT has just moved the job to VERIFYING.
Init ==
  /\ stage = "VERIFY" /\ pc = "idle" /\ attempts = 0
  /\ failures = 0 /\ verified = "none"
  /\ passes = 0 /\ streak = 0 /\ latest = NoReview
  /\ given = {} /\ fresh = {} /\ prompted = {} /\ addressed = {} /\ continued = 0
  /\ body = NoBody
  /\ revises = 0 /\ loops = 0 /\ crashes = 0 /\ retries = 0

-------------------------------------------------------------------------------
(* The task of a stage.                                                    *)

Handling(s, at) == stage = s /\ pc = at

\* Transition, enqueue, and the end of the current task.
MoveTo(s) == stage' = s /\ pc' = "idle" /\ attempts' = 0

\* Fault: a task put back after its last attempt is claimed no more.
ClaimWithinBudget ==
  /\ stage \in Stages /\ pc = "idle"
  /\ attempts < MaxAttempts
  /\ pc' = "begin"
  /\ attempts' = attempts + 1
  /\ UNCHANGED <<stage, checkVars, feedbackVars, body, ghostVars>>

Claim ==
  /\ stage \in Stages /\ pc = "idle"
  /\ pc' = "begin"
  /\ attempts' = attempts + 1
  /\ UNCHANGED <<stage, checkVars, feedbackVars, body, ghostVars>>

\* A failed clone, push, API call or agent run: the task is put back, or the
\* job fails.
HandlerThrows ==
  /\ pc \in {"begin", "agent", "summary"}
  /\ pc' = IF attempts < MaxAttempts THEN "idle" ELSE "failed"
  /\ UNCHANGED <<stage, attempts, checkVars, feedbackVars, body, ghostVars>>

\* reclaimOrphaned puts the task back, whatever its attempts.
Crash ==
  /\ pc \notin {"idle", "failed"}
  /\ crashes < MaxCrashes
  /\ crashes' = crashes + 1
  /\ pc' = "idle"
  /\ UNCHANGED <<stage, attempts, checkVars, feedbackVars, body, revises, loops, retries>>

-------------------------------------------------------------------------------
(* handleVerify.                                                           *)

\* No command was found in the workspace.  One that was found is remembered, so a
\* cycle with a VerifyRun has one.
VerifySkipped ==
  /\ Handling("VERIFY", "begin") /\ verified = "none"
  /\ MoveTo("REVIEW")
  /\ UNCHANGED <<checkVars, feedbackVars, body, ghostVars>>

\* The command, run once more if it failed, and the VerifyRun row.
VerifyRecord(ok) ==
  /\ Handling("VERIFY", "begin")
  /\ verified' = ok
  /\ failures' = IF ok = "failed" THEN failures + 1 ELSE failures
  /\ pc' = "recorded"
  /\ UNCHANGED <<stage, attempts, passes, streak, latest, feedbackVars, body, ghostVars>>

\* Fault: one more fix than the cap allows.
AfterVerifyOffByOne ==
  IF verified = "ok" THEN "REVIEW"
  ELSE IF failures <= MaxVerify THEN "REVISE" ELSE "OPEN_PR"

\* Fault: what the cycle did otherwise counts against the fixes too.
AfterVerifyByRuns ==
  IF verified = "ok" THEN "REVIEW"
  ELSE IF failures + passes < MaxVerify THEN "REVISE" ELSE "OPEN_PR"

AfterVerify ==
  IF verified = "ok" THEN "REVIEW"
  ELSE IF failures < MaxVerify THEN "REVISE" ELSE "OPEN_PR"

VerifyDecide ==
  /\ Handling("VERIFY", "recorded")
  /\ MoveTo(AfterVerify)
  /\ UNCHANGED <<checkVars, feedbackVars, body, ghostVars>>

-------------------------------------------------------------------------------
(* handleReview.  A "pass" is a PASS verdict with every dimension true and *)
(* no blocking issue; verifyOk is carried over from the last VerifyRun.    *)

meetsThreshold(review) == review.verdict = "pass" /\ review.verifyOk # "failed"

ReviewPersist(v) ==
  /\ Handling("REVIEW", "begin")
  /\ passes' = passes + 1
  /\ streak' = IF v = "unparseable" THEN streak + 1 ELSE 0
  /\ latest' = [verdict |-> v, verifyOk |-> verified]
  /\ pc' = "recorded"
  /\ UNCHANGED <<stage, attempts, failures, verified, feedbackVars, body, ghostVars>>

AfterReview ==
  IF meetsThreshold(latest) THEN "OPEN_PR"
  ELSE IF passes < MaxPasses /\ (latest.verdict # "unparseable" \/ streak < MaxUnparsed)
  THEN IF latest.verdict = "unparseable" THEN "REVIEW" ELSE "REVISE"
  ELSE "OPEN_PR"

ReviewDecide ==
  /\ Handling("REVIEW", "recorded")
  /\ MoveTo(AfterReview)
  /\ UNCHANGED <<checkVars, feedbackVars, body, ghostVars>>

-------------------------------------------------------------------------------
(* handleRevise and its completion loop.  The prompt's feedback is read    *)
(* once; every pass of the loop creates an AgentRun row, which is what     *)
(* later readers compare the feedback with.                                *)

ReviseRead ==
  /\ Handling("REVISE", "begin")
  /\ prompted' = fresh
  /\ continued' = 0
  /\ pc' = "prompt"
  /\ UNCHANGED <<stage, attempts, checkVars, given, fresh, addressed, body, ghostVars>>

RevisePass ==
  /\ Handling("REVISE", "prompt")
  /\ fresh' = {}
  /\ pc' = "agent"
  /\ UNCHANGED <<stage, attempts, checkVars, given, prompted, addressed, continued,
                 body, ghostVars>>

\* The judge found the work incomplete and the budget allows another pass.
ReviseContinue ==
  /\ Handling("REVISE", "agent")
  /\ continued < MaxCompletion
  /\ continued' = continued + 1
  /\ pc' = "prompt"
  /\ UNCHANGED <<stage, attempts, checkVars, given, fresh, prompted, addressed, body,
                 ghostVars>>

ReviseDone ==
  /\ Handling("REVISE", "agent")
  /\ addressed' = addressed \cup prompted
  /\ revises' = revises + 1
  /\ MoveTo("VERIFY")
  /\ UNCHANGED <<checkVars, given, fresh, prompted, continued, body, loops, crashes, retries>>

-------------------------------------------------------------------------------
(* handleOpenPr.                                                           *)

OpenPrGuard ==
  /\ Handling("OPEN_PR", "begin")
  /\ IF fresh # {}
     THEN MoveTo("REVISE") /\ loops' = loops + 1
     ELSE pc' = "summary" /\ UNCHANGED <<stage, attempts, loops>>
  /\ UNCHANGED <<checkVars, feedbackVars, body, revises, crashes, retries>>

\* buildPrBody, from the cycle's last review.
PrBody == [meets |-> meetsThreshold(latest), verifyOk |-> latest.verifyOk, open |-> TRUE]

OpenPrPresent ==
  /\ Handling("OPEN_PR", "summary")
  /\ body' = PrBody
  /\ MoveTo("AWAITING")
  /\ UNCHANGED <<checkVars, feedbackVars, ghostVars>>

-------------------------------------------------------------------------------
(* Humans.  Feedback is recorded on any live job that has a pull request.  *)

Record(f) ==
  /\ body.open /\ pc # "failed" /\ f \in Feedback \ given
  /\ given' = given \cup {f}
  /\ fresh' = fresh \cup {f}
  /\ UNCHANGED <<prompted, addressed, continued>>

\* An inline comment at any time, or a review while work is in progress.
Comment(f) ==
  /\ Record(f)
  /\ UNCHANGED <<taskVars, checkVars, body, ghostVars>>

\* A review of the presented pull request: revisionCycle is incremented, so
\* the counts start anew.
ChangesRequested(f) ==
  /\ stage = "AWAITING"
  /\ Record(f)
  /\ failures' = 0 /\ verified' = "none"
  /\ passes' = 0 /\ streak' = 0 /\ latest' = NoReview
  /\ MoveTo("REVISE")
  /\ revises' = 0 /\ loops' = 0 /\ crashes' = 0
  /\ UNCHANGED <<body, retries>>

\* retryJob re-enters the stage that failed with a new task.
Retry ==
  /\ pc = "failed" /\ retries < MaxRetries
  /\ retries' = retries + 1
  /\ pc' = "idle" /\ attempts' = 0
  /\ UNCHANGED <<stage, checkVars, feedbackVars, body, revises, loops, crashes>>

-------------------------------------------------------------------------------
\* What the worker and the handlers do by themselves.
Work ==
  \/ Claim
  \/ VerifySkipped
  \/ \E ok \in {"ok", "failed"} : VerifyRecord(ok)
  \/ VerifyDecide
  \/ \E v \in Verdicts : ReviewPersist(v)
  \/ ReviewDecide
  \/ ReviseRead
  \/ RevisePass
  \/ ReviseContinue
  \/ ReviseDone
  \/ OpenPrGuard
  \/ OpenPrPresent
  \/ HandlerThrows

Next ==
  \/ Work
  \/ Crash
  \/ \E f \in Feedback : Comment(f) \/ ChangesRequested(f)
  \/ Retry

Spec == Init /\ [][Next]_vars
================================================================================

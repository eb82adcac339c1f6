-------------------------- MODULE RevisionRoundProps --------------------------
(***************************************************************************)
(* What a revision round promises.                                         *)
(***************************************************************************)
EXTENDS RevisionRound

\* Every variable has its type.
TypeOK ==
  /\ stage \in Stages \cup {"AWAITING"}
  /\ pc \in {"idle", "begin", "recorded", "prompt", "agent", "summary", "failed"}
  /\ attempts \in Nat /\ failures \in Nat /\ passes \in Nat /\ streak \in Nat
  /\ verified \in Outcomes
  /\ latest \in [verdict: Verdicts \cup {"none"}, verifyOk: Outcomes]
  /\ given \subseteq Feedback /\ fresh \subseteq given
  /\ prompted \subseteq given /\ addressed \subseteq given
  /\ continued \in 0..MaxCompletion
  /\ body \in [meets: BOOLEAN, verifyOk: Outcomes, open: BOOLEAN]
  /\ revises \in Nat /\ loops \in Nat /\ crashes \in Nat /\ retries \in Nat

\* The budget of a round ("fresh verify/review budget"): apart from the REVISE
\* that opens the round and those the OPEN_PR guard sends back for, a round
\* revises at most MAX_VERIFY_ATTEMPTS - 1 times for a red build and
\* MAX_REVIEW_PASSES - 1 times for a review, in any mixture, whatever is run
\* again after a failure, a crash or a human's retry; and the counts the caps are
\* compared with overshoot them only by what is run again after a crash, or
\* after the guard sent a finished round back.
RoundBudget ==
  /\ revises <= 1 + (MaxVerify - 1) + (MaxPasses - 1) + loops
  /\ failures <= MaxVerify + loops + crashes
  /\ passes <= MaxPasses + loops + crashes

\* "counting those would ... prematurely open a draft PR with a red build instead of
\* routing to REVISE": a pull request is presented over a red build only when the
\* fixes of the round are used up, whatever reviews, loops of the guard, failures
\* and retries came between.
RedBuildAtCapOnly ==
  stage = "AWAITING" /\ verified = "failed" => failures >= MaxVerify

\* No job circles between VERIFY, REVIEW and REVISE for ever: a round ends with
\* the pull request presented, or the job failed.
RoundEnds == []<>(stage = "AWAITING" \/ pc = "failed")

\* The loop of the worker goes on, and agents are killed at their timeout.
FairSpec == Spec /\ WF_vars(Work)

\* buildPrBody "reflects the current work": a pull request that claims a green
\* build is not presented after a red one.  Does not hold: the body takes the
\* newest review of the round, which may be older than the last build.
PresentedAsBuilt ==
  stage = "AWAITING" /\ body.verifyOk = "ok" => verified # "failed"

\* handleRevise leaves out the feedback older than the last work run because
\* it "was already incorporated by that pass": all feedback is newer than
\* that run, or was in the prompt of a pass that finished.
FeedbackIncorporated ==
  stage = "AWAITING" => given \subseteq fresh \cup addressed

\* "The OPEN_PR gate won't present the PR until it's been through a work pass":
\* no feedback is newer than the last work run when the job is presented.
\* Does not hold: the gate looks before the summary is written.
GateHolds == [][stage # "AWAITING" /\ stage' = "AWAITING" => fresh = {}]_vars
===============================================================================

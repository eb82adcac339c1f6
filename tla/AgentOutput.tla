------------------------------ MODULE AgentOutput ------------------------------
(***************************************************************************)
(* One agent process, from its first byte to the decision taken from what   *)
(* it wrote: spawnProcess (agent.utility.ts), the status HermesAgentService *)
(* gives the run, and the readings of the review handler, the judge and the *)
(* discovery of the verify command.                                         *)
(*                                                                         *)
(* `close' comes once the process is gone and nobody holds its stdout any   *)
(* more.  Without a sandbox the agent's own children inherit it.            *)
(***************************************************************************)
EXTENDS AgentText

CONSTANTS
  StdoutCap,   \* STDOUT_CAP, in words
  Vocabulary   \* the words agents use

ASSUME AgentOutputAssumption == StdoutCap \in Nat /\ Vocabulary \subseteq Words

VARIABLES
  stdout,   \* what was captured
  child,    \* "running", "exited" (0), "crashed" (another code), "killed"
  helper,   \* a child of the agent's holds its stdout
  timedOut,
  run,      \* AgentRun.status
  reading   \* what the caller made of the run

outputVars == <<stdout, child, helper, timedOut, run, reading>>

NotRead == [by |-> "nobody"]

OutputInit ==
  /\ stdout = <<>> /\ child = "running" /\ helper = FALSE
  /\ timedOut = FALSE /\ run = "RUNNING" /\ reading = NotRead

-------------------------------------------------------------------------------
(* spawnProcess.                                                           *)

\* The word that crosses the cap is dropped whole, where the code slices it and
\* marks the cut.
Kept(text, w) == IF Len(text) < StdoutCap THEN Append(text, w) ELSE text

Write(w) ==
  /\ run = "RUNNING" /\ (child = "running" \/ helper)
  /\ stdout' = Kept(stdout, w)
  /\ UNCHANGED <<child, helper, timedOut, run, reading>>

StartHelper ==
  /\ child = "running" /\ run = "RUNNING" /\ helper' = TRUE
  /\ UNCHANGED <<stdout, child, timedOut, run, reading>>

HelperEnds ==
  /\ helper /\ helper' = FALSE
  /\ UNCHANGED <<stdout, child, timedOut, run, reading>>

ProcessExit(how) ==
  /\ child = "running" /\ run = "RUNNING" /\ child' = how
  /\ UNCHANGED <<stdout, helper, timedOut, run, reading>>

\* Fault: the process gets a signal it may ignore.
KilledPolitely == child

Killed == IF child = "running" THEN "killed" ELSE child

\* The timer is cleared when the run settles, not when the process exits.
Timeout ==
  /\ run = "RUNNING" /\ ~ timedOut
  /\ timedOut' = TRUE /\ child' = Killed
  /\ UNCHANGED <<stdout, helper, run, reading>>

Status ==
  IF timedOut THEN "TIMED_OUT" ELSE IF child = "exited" THEN "SUCCEEDED" ELSE "FAILED"

Close ==
  /\ run = "RUNNING" /\ child # "running" /\ ~ helper
  /\ run' = Status
  /\ UNCHANGED <<stdout, child, helper, timedOut, reading>>

\* `error': there never was a process; the `close' after it finds the run settled.
SpawnFails ==
  /\ run = "RUNNING" /\ child = "running" /\ ~ helper /\ ~ timedOut /\ stdout = <<>>
  /\ child' = "crashed" /\ run' = "FAILED"
  /\ UNCHANGED <<stdout, helper, timedOut, reading>>

-------------------------------------------------------------------------------
(* The readings.                                                           *)

\* The rest of a review: its confidence is a number or not, its rubric holds or
\* not, and the worst severity of its findings, "odd" for none of the four.
Reviews ==
  [confident : BOOLEAN, rubric : BOOLEAN, severity : {"none", "low", "odd", "high"}]

\* issueSchema: an unknown severity counts as medium.
Blocking(r) == r.severity = "high"

\* parseReview.  A confidence that is no number fails the schema; a verdict that is
\* none does not.
ReviewVerdict(v, r) ==
  IF v = "null" \/ ~ r.confident THEN "unparseable"
  ELSE IF v = "absent" THEN IF Blocking(r) \/ ~ r.rubric THEN "no" ELSE "yes"
  ELSE v

\* meetsThreshold; the verify command was green.  An unparseable review is recorded
\* as a FAIL.
MeetsThreshold(v, r) == v = "yes" /\ r.rubric /\ ~ Blocking(r)

\* handleReview throws unless the run succeeded.
ReviewThrows ==
  /\ run \in {"FAILED", "TIMED_OUT"} /\ reading = NotRead
  /\ reading' = [by |-> "REVIEW", verdict |-> "threw", ok |-> FALSE]
  /\ UNCHANGED <<stdout, child, helper, timedOut, run>>

ReadReview ==
  /\ run = "SUCCEEDED" /\ reading = NotRead
  /\ \E r \in Reviews :
       LET v == ReviewVerdict(JsonBlock(stdout), r)
       IN /\ Block(stdout) = EmptyObject => ~ r.confident  \* it has no members
          /\ reading' = [by |-> "REVIEW", verdict |-> v, ok |-> MeetsThreshold(v, r)]
  /\ UNCHANGED <<stdout, child, helper, timedOut, run>>

\* assess: whatever became of the run, and "fail open".
ReadJudge ==
  /\ run # "RUNNING" /\ reading = NotRead
  /\ LET v == Judged(stdout)
     IN reading' = [by |-> "JUDGE", verdict |-> v, ok |-> v # "no"]
  /\ UNCHANGED <<stdout, child, helper, timedOut, run>>

\* verifyCommandFor: ok is a command that will be run and remembered.
ReadVerify ==
  /\ run # "RUNNING" /\ reading = NotRead
  /\ LET v == IF run = "SUCCEEDED" THEN JsonBlock(stdout) ELSE "threw"
     IN reading' = [by |-> "VERIFY", verdict |-> v, ok |-> v = "yes"]
  /\ UNCHANGED <<stdout, child, helper, timedOut, run>>

OutputNext ==
  \/ \E w \in Vocabulary : Write(w)
  \/ StartHelper \/ HelperEnds
  \/ ProcessExit("exited") \/ ProcessExit("crashed")
  \/ Timeout \/ Close \/ SpawnFails
  \/ ReviewThrows \/ ReadReview \/ ReadJudge \/ ReadVerify

OutputSpec == OutputInit /\ [][OutputNext]_outputVars
===============================================================================

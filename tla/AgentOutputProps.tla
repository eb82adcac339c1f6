--------------------------- MODULE AgentOutputProps ---------------------------
(***************************************************************************)
(* What is trusted of an agent's output.  The properties read the words;    *)
(* the code reads the characters.                                          *)
(***************************************************************************)
EXTENDS AgentOutput, FiniteSets

\* Every variable has its type; a run settles once its process is gone.
OutputTypeOK ==
  /\ stdout \in Seq(Vocabulary) /\ Len(stdout) <= StdoutCap
  /\ child \in {"running", "exited", "crashed", "killed"}
  /\ helper \in BOOLEAN /\ timedOut \in BOOLEAN
  /\ run \in {"RUNNING", "SUCCEEDED", "FAILED", "TIMED_OUT"}
  /\ run # "RUNNING" => child # "running" /\ ~ helper
  /\ reading.by \in {"nobody", "REVIEW", "JUDGE", "VERIFY"}
  /\ reading # NotRead => run # "RUNNING"

Count(t, i, k, w) == Cardinality({l \in i..k : t[l] = w})
Depth(t, i, k) == Count(t, i, k, "open") - Count(t, i, k, "close")

\* Words i to k are one whole object.
IsObject(t, i, k) ==
  /\ i < k /\ t[i] = "open" /\ Depth(t, i, k) = 0
  /\ \A l \in i..k - 1 : Depth(t, i, l) > 0
  /\ \A l \in i..k : t[l] \notin {"json", "plain"}

\* Its own verdicts, the last of which counts.
OwnVerdicts(t, i, k) == {l \in i..k : t[l] \in {"yes", "no"} /\ Depth(t, i, l) = 1}

ValueOf(t, i, k) ==
  LET own == OwnVerdicts(t, i, k)
  IN IF own = {} THEN "absent" ELSE t[CHOOSE l \in own : \A m \in own : m <= l]

\* The first object after word f (0 for the beginning) is whole, and is that one.
FirstAfter(t, f, i, k) ==
  IsObject(t, i, k) /\ i > f /\ \A l \in f + 1..i - 1 : t[l] \notin {"open", "example"}

Fenced(t, f) == t[f] = "json" /\ \A l \in 1..f - 1 : t[l] \notin {"json", "example"}
Unfenced(t) == \A l \in DOMAIN t : t[l] \notin {"json", "plain", "example"}

\* The verdict the prompts ask for: the object after the first ```json fence, or
\* the first one of a text without fences.
IsVerdict(t, i, k) ==
  \/ \E f \in DOMAIN t : Fenced(t, f) /\ FirstAfter(t, f, i, k)
  \/ Unfenced(t) /\ FirstAfter(t, 0, i, k)

\* "a brace-depth counter that correctly handles string literals (including escaped
\* quotes and embedded backtick fences)": whatever stands in the strings of the
\* verdict, before it or after it, it is the object that is parsed.
ParserReadsIt ==
  reading.by = "VERIFY" /\ reading.verdict # "threw" =>
    \A i, k \in DOMAIN stdout : IsVerdict(stdout, i, k) => reading.verdict = ValueOf(stdout, i, k)

\* The judge's regular expression reads what the parser would, whatever follows the
\* block: as long as nothing before the block looks like a verdict, and nothing in
\* it but its one own.
JudgeReadsIt ==
  reading.by = "JUDGE" =>
    \A i, k \in DOMAIN stdout :
      /\ IsVerdict(stdout, i, k)
      /\ {m \in Mentions(stdout) : m <= k} = OwnVerdicts(stdout, i, k)
      /\ Cardinality(OwnVerdicts(stdout, i, k)) = 1
      => reading.ok = (ValueOf(stdout, i, k) = "yes")

\* The verdict that was asked for is the one that is read.
VerdictIsRead == ParserReadsIt /\ JudgeReadsIt

\* An output that was cut short, by the agent, the timeout or the cap, yields no
\* verdict: what is approved or adopted stands in one whole object of it that does
\* not say no (a command is named in it), and the run was neither killed nor over
\* time.  An object quoted inside a string does not count as one.
ApprovalIsWhole ==
  reading.by \in {"REVIEW", "VERIFY"} /\ reading.ok =>
    /\ child = "exited" /\ ~ timedOut
    /\ \E i, k \in DOMAIN stdout :
         /\ IsObject(stdout, i, k) /\ ValueOf(stdout, i, k) # "no"
         /\ reading.by = "VERIFY" => ValueOf(stdout, i, k) = "yes"

\* The judge's part for every output whose block has one verdict.  Does not hold: "the block
\* comes first, so the first match is it" is left to the agent, and one that
\* repeats the format it was asked for is taken at that word.
JudgeReadsTheBlockAlways ==
  reading.by = "JUDGE" =>
    \A i, k \in DOMAIN stdout :
      IsVerdict(stdout, i, k) /\ Cardinality(OwnVerdicts(stdout, i, k)) = 1
      => reading.ok = (ValueOf(stdout, i, k) = "yes")

\* "falls back to the outermost {...}. Returns null when nothing parseable is
\* found".  Does not hold: a brace in the prose before it hides an object.
NullOnlyIfNone ==
  (\E i, k \in DOMAIN stdout : IsObject(stdout, i, k)) => JsonBlock(stdout) # "null"

\* Fairness: the timer fires, and the run settles once it can.
FairSpec == OutputSpec /\ WF_outputVars(Timeout) /\ WF_outputVars(Close)

\* Whatever the agent itself does, its run settles, at the latest at the timeout,
\* unless a helper that the agent left behind holds its stdout again and again.
RunSettles == <>[] ~ helper => <>(run # "RUNNING")

\* "hard-kills it after `timeoutMs`. Never rejects - failures surface in the result"
\* (spawnProcess).  Does not hold: the kill reaches the agent only, and a helper
\* that holds its stdout delays `close' for as long as it lives.
RunAlwaysSettles == <>(run # "RUNNING")
===============================================================================

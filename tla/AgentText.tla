------------------------------- MODULE AgentText -------------------------------
(***************************************************************************)
(* What is read out of an agent's stdout: extractJsonBlock with its scanner *)
(* extractFirstJsonObject (agent.utility.ts), and the judge's regular       *)
(* expression (judge.utility.ts).                                           *)
(*                                                                         *)
(* An output is a sequence of words, and a word is a sequence of the        *)
(* characters the scanner tells apart.  Keys, colons and commas are left    *)
(* out: a member of an object is a string, an object, or the verdict; an    *)
(* object with nothing in it has no members.                               *)
(***************************************************************************)
EXTENDS Integers, Sequences, SequencesExt

\* Characters: braces, the quote, the backslash, the fences ```json and ```
\* (with its newline), and the member that holds the verdict, `"verdict": "PASS"',
\* `"passed": true' or `"command": "npm test"' (yes) and their opposites (no).
Word ==
  [open    |-> <<"{">>,
   close   |-> <<"}">>,
   escaped |-> <<"quote", "backslash", "quote", "}", "quote">>,  \* "\"}"
   example |-> <<"quote", "json", "{", "}", "quote">>,           \* "```json {}"
   json    |-> <<"json">>,
   plain   |-> <<"plain">>,
   yes     |-> <<"yes">>,
   no      |-> <<"no">>]

Words == DOMAIN Word

Chars(text) == FlattenSeq([i \in DOMAIN text |-> Word[text[i]]])

\* indexOf, from a position on; 0 for none.
IndexFrom(c, i, ch) ==
  LET found == {k \in i..Len(c) : c[k] = ch}
  IN IF found = {} THEN 0 ELSE CHOOSE k \in found : \A l \in found : k <= l

-------------------------------------------------------------------------------
(* extractFirstJsonObject.                                                  *)

\* Fault: a backslash has no effect.
AfterBackslashUnescaped(s) == s

AfterBackslash(s) == [s EXCEPT !.escape = TRUE]

\* One turn of the loop; escape is set inside strings only.  A verdict brings its
\* own pairs of quotes.
Scanned(s, ch) ==
  IF s.escape THEN [s EXCEPT !.escape = FALSE]
  ELSE IF ch = "backslash" /\ s.inString THEN AfterBackslash(s)
  ELSE IF ch = "quote" THEN [s EXCEPT !.inString = ~ @]
  ELSE IF s.inString THEN s
  ELSE IF ch = "{" THEN [s EXCEPT !.depth = @ + 1]
  ELSE IF ch = "}" THEN [s EXCEPT !.depth = @ - 1]
  ELSE s

\* Where the object that starts at `start' is complete; 0 if it never is.
ScanEnd(c, start) ==
  LET scan[i \in start - 1..Len(c)] ==
        IF i < start THEN [depth |-> 0, inString |-> FALSE, escape |-> FALSE, end |-> 0]
        ELSE LET s == scan[i - 1]
             IN IF s.end # 0 THEN s
                ELSE LET now == Scanned(s, c[i])
                     IN IF now.depth = 0 THEN [now EXCEPT !.end = i] ELSE now
  IN scan[Len(c)].end

NoObject == <<>>

\* Fault: an object that never ends is closed at the end of the text.
FirstObjectRepaired(c, from) ==
  LET start == IndexFrom(c, from, "{")
      end == IF start = 0 THEN 0 ELSE ScanEnd(c, start)
  IN IF start = 0 THEN NoObject
     ELSE IF end = 0 THEN SubSeq(c, start, Len(c)) \o <<"}">> ELSE SubSeq(c, start, end)

FirstObject(c, from) ==
  LET start == IndexFrom(c, from, "{")
      end == IF start = 0 THEN 0 ELSE ScanEnd(c, start)
  IN IF end = 0 THEN NoObject ELSE SubSeq(c, start, end)

-------------------------------------------------------------------------------
(* JSON.parse: the value of an object is its last verdict, "absent", or      *)
(* "invalid".                                                              *)

\* The quote that ends the string that starts at i, 0 for none.  A control
\* character such as the newline of a plain fence is not allowed in it.
StringEnd(c, i) ==
  LET at[k \in i + 1..Len(c) + 2] ==
        IF k > Len(c) \/ c[k] = "plain" THEN 0
        ELSE IF c[k] = "backslash" THEN at[k + 2]
        ELSE IF c[k] = "quote" THEN k
        ELSE at[k + 1]
  IN at[i + 1]

\* Members from position i on, up to what is not one: where that is, and the last
\* verdict among them.
Members(c) ==
  LET from[i \in 1..Len(c) + 1] ==
        LET nowhere == [end |-> Len(c) + 1, verdict |-> "absent"]
            then(k, v) == LET rest == from[k + 1]
                          IN IF rest.verdict = "absent" THEN [rest EXCEPT !.verdict = v] ELSE rest
        IN IF i > Len(c) THEN nowhere
           ELSE CASE c[i] \in {"yes", "no"} -> then(i, c[i])
                  [] c[i] = "quote" -> LET k == StringEnd(c, i)
                                       IN IF k = 0 THEN nowhere ELSE then(k, "absent")
                  [] c[i] = "{" -> LET inner == from[i + 1]
                                   IN IF inner.end <= Len(c) /\ c[inner.end] = "}"
                                      THEN then(inner.end, "absent") ELSE nowhere
                  [] OTHER -> [end |-> i, verdict |-> "absent"]
  IN from

Parsed(c) ==
  LET members == Members(c)[2]
  IN IF members.end = Len(c) /\ c[Len(c)] = "}" THEN members.verdict ELSE "invalid"

-------------------------------------------------------------------------------
(* extractJsonBlock.                                                       *)

\* Fault: the last ```json fence instead of the first.
FenceLast(c) ==
  LET fences == {k \in DOMAIN c : c[k] = "json"}
  IN IF fences = {} THEN 0 ELSE CHOOSE k \in fences : \A l \in fences : k >= l

Fence(c) == IndexFrom(c, 1, "json")

After(c, fence) == IF fence = 0 THEN NoObject ELSE FirstObject(c, fence + 1)

Candidates(c) ==
  <<After(c, Fence(c)), After(c, IndexFrom(c, 1, "plain")), FirstObject(c, 1)>>

\* The first candidate that parses, and its value; "null" when there is none.
Block(text) ==
  LET found == Candidates(Chars(text))
      parseable == {i \in 1..3 : found[i] # NoObject /\ Parsed(found[i]) # "invalid"}
  IN IF parseable = {} THEN NoObject
     ELSE found[CHOOSE i \in parseable : \A k \in parseable : i <= k]

JsonBlock(text) == IF Block(text) = NoObject THEN "null" ELSE Parsed(Block(text))

EmptyObject == <<"{", "}">>

Mentions(text) == {i \in DOMAIN text : text[i] \in {"yes", "no"}}

\* parseJudgeVerdict: the first match, wherever it is.
Judged(text) ==
  IF Mentions(text) = {} THEN "null"
  ELSE text[CHOOSE i \in Mentions(text) : \A k \in Mentions(text) : i <= k]
===============================================================================

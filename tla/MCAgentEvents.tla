----------------------------- MODULE MCAgentEvents -----------------------------
(***************************************************************************)
(* Instances of AgentEvents for TLC.                                       *)
(***************************************************************************)
EXTENDS AgentEventsProps, TLC

CONSTANTS v1, v2

ViewerSymmetry == Permutations({v1, v2})

Says(key, session) == [key |-> key, says |-> session]
Undecodable(why) == [key |-> 0, says |-> why]

\* Spans that name the run themselves: the last of two, the first key of two.
Own == [fields |-> <<Says(1, "other"), Says(1, "own")>>, resource |-> <<>>]
FirstKey == [fields |-> <<Says(3, "other"), Says(2, "own")>>, resource |-> <<Says(1, "other")>>]

\* One whose resource does, those of other runs, and those that cannot be decoded.
Inherited == [fields |-> <<Says(1, "nothing")>>, resource |-> <<Says(2, "own")>>]
Foreign == [fields |-> <<Says(2, "other")>>, resource |-> <<Says(1, "own")>>]
Anonymous == [fields |-> <<Says(1, "own"), Says(1, "nothing")>>, resource |-> <<>>]
CutShort == [fields |-> <<Says(1, "own"), Undecodable("cut")>>, resource |-> <<>>]
OddResource == [fields |-> <<Says(1, "own")>>, resource |-> <<Undecodable("unknown")>>]

Export(authorised, spans) == [authorised |-> authorised, spans |-> spans, rest |-> <<>>]

\* Requests with no, one, two or three events of the run.
ExportRequests ==
  {Export(TRUE, <<Own>>), Export(TRUE, <<Foreign, Inherited, FirstKey, Anonymous>>),
   Export(TRUE, <<Own, Inherited, FirstKey>>), Export(FALSE, <<Own>>), Export(TRUE, <<>>),
   Export(TRUE, <<Own, CutShort>>), Export(TRUE, <<Inherited, OddResource>>),
   [Export(TRUE, <<Own>>) EXCEPT !.rest = <<Undecodable("unknown")>>]}
================================================================================

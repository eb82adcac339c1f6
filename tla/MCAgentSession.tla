----------------------------- MODULE MCAgentSession -----------------------------
(***************************************************************************)
(* Instances of AgentSession for TLC.                                      *)
(***************************************************************************)
EXTENDS AgentSessionProps

CONSTANTS c1, c2

Symmetry == Permutations(Children)
================================================================================

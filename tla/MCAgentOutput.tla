----------------------------- MODULE MCAgentOutput -----------------------------
(***************************************************************************)
(* Outputs of up to five words: a fence, an object with a verdict and a     *)
(* string full of braces, quotes or fences.                                *)
(***************************************************************************)
EXTENDS AgentOutputProps

MCVocabulary == Words
===============================================================================

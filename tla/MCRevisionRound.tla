---------------------------- MODULE MCRevisionRound ----------------------------
(***************************************************************************)
(* Instances of RevisionRound for TLC.                                     *)
(***************************************************************************)
EXTENDS RevisionRoundProps

CONSTANT f1
================================================================================

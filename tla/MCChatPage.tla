------------------------------ MODULE MCChatPage ------------------------------
(***************************************************************************)
(* An instance of ChatPage for TLC.                                        *)
(***************************************************************************)
EXTENDS ChatPageProps
===============================================================================

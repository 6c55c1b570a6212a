--------------------------- MODULE MCChatRegistry ---------------------------
(***************************************************************************)
(* Instances of ChatRegistry for TLC.                                      *)
(***************************************************************************)
EXTENDS ChatRegistry
=============================================================================

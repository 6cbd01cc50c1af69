------------------------------- MODULE MCEditor -------------------------------
(* Instance of Editor for TLC.                                             *)
EXTENDS Editor
=============================================================================

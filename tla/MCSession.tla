----------------------------- MODULE MCSession -----------------------------
(* TLC instance of Session: two runs are enough for one to follow another,  *)
(* two interrupts for a second Ctrl+C in a handler.                         *)
EXTENDS Session
=============================================================================

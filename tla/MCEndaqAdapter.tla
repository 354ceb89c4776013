---------------------------- MODULE MCEndaqAdapter --------------------------
(* EndaqAdapter with a recorder that starts empty or not, and recordings     *)
(* that roll over into a second file.                                       *)
EXTENDS EndaqAdapter
=============================================================================

---------------------------- MODULE MCGatorAdapter --------------------------
(* GatorAdapter over a series of runs. *)
EXTENDS GatorAdapter
=============================================================================

---------------------------- MODULE MCGatorRecorder -------------------------
(* GatorRecorder on small buffers: full, refilled while the writer works,    *)
(* and partly filled at the end.                                            *)
EXTENDS GatorRecorder
=============================================================================

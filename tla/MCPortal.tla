------------------------------ MODULE MCPortal ------------------------------
EXTENDS Portal, TLC
CONSTANTS t1, t2, short, long
MCThread == {t1, t2}
Width == short :> 1 @@ long :> 3
\* One entry per labelled session, and the braces.
MCTextSize ==
  [labels \in Labels |->
     MapThenSumSet(LAMBDA s : Width[labels[s]], {s \in Session : labels[s] # NoLabel}) + 1]
Works(a, b) == t1 :> a @@ t2 :> b
\* Two renames at a time; a rename beside a listing and beside a download; a
\* listing, and a download, beside the sessions that are being recorded.
MCScenarios ==
  {[work |-> Works("rename", "rename"),   live |-> {}],
   [work |-> Works("rename", "list"),     live |-> {}],
   [work |-> Works("rename", "download"), live |-> {}],
   [work |-> Works("none", "list"),       live |-> {1, 2}],
   [work |-> Works("none", "download"),   live |-> {2}]}
=============================================================================

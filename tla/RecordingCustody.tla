------------------------- MODULE RecordingCustody --------------------------
(***************************************************************************)
(* What the offload of enDAQ recordings promises (docs/design.md, "enDAQ    *)
(* lifecycle"; EndaqAdapter._offload): the recorder may forget a recording  *)
(* only when a verified copy is on the host. Nothing else is said: neither  *)
(* when a copy is made nor that a recording is ever forgotten.              *)
(***************************************************************************)
CONSTANT Recordings

VARIABLES
    onRecorder,   \* recordings the recorder's storage holds
    onHost        \* recordings with a verified copy

vars == <<onRecorder, onHost>>

Init ==
    /\ onRecorder \in SUBSET Recordings
    /\ onHost = {}

\* The recorder ends a recording session, which wrote any number of files.
Record ==
    /\ \E new \in SUBSET (Recordings \ (onRecorder \cup onHost)) : onRecorder' = onRecorder \cup new
    /\ UNCHANGED onHost

Secure ==
    /\ \E f \in onRecorder : onHost' = onHost \cup {f}
    /\ UNCHANGED onRecorder

Forget ==
    /\ \E f \in onRecorder \cap onHost : onRecorder' = onRecorder \ {f}
    /\ UNCHANGED onHost

Next == Record \/ Secure \/ Forget

Spec == Init /\ [][Next]_vars
=============================================================================

-------------------------- MODULE AdapterContract --------------------------
(***************************************************************************)
(* The interface between the session and one sensor adapter                 *)
(* (tbdaq/session.py: _call_adapters_concurrently, _stop_started,           *)
(* _adapters_requiring_cleanup; the start_run, stop_run and needs_stop of   *)
(* the two adapters). Session implements it from the caller's side, with a  *)
(* recorder of its own imagination; GatorAdapter and EndaqAdapter implement *)
(* it from the other side. What all three agree on:                         *)
(*   - a start goes to a recorder that is not recording, a stop to a start  *)
(*     that succeeded or one that owes a stop;                              *)
(*   - a start that fails leaves a recorder that is not recording, or owes  *)
(*     a stop; a stop that succeeds leaves one that is not recording and    *)
(*     owes nothing; one that fails leaves the debt in doubt only.          *)
(***************************************************************************)
CONSTANT Uncertain   \* a start may have worked although it failed (enDAQ)

VARIABLES
    phase,      \* of the calls made for the run
    recording,  \* the recorder records, or will
    owed        \* needs_stop of the adapter

vars == <<phase, recording, owed>>

Init == phase = "rest" /\ recording = FALSE /\ owed = FALSE

\* The call of start_run; a start may be refused at once.
Start ==
    /\ phase \in {"rest", "stopped"}
    /\ ~recording
    /\ phase' \in {"starting", "startFailed"}
    /\ recording' \in BOOLEAN
    /\ phase' = "startFailed" => ~recording'
    /\ owed' = FALSE

\* The start command is on its way; the debt is noted before it can act.
Command ==
    /\ phase = "starting"
    /\ Uncertain
    /\ owed' = TRUE
    /\ recording' \in BOOLEAN
    /\ UNCHANGED phase

StartSucceeds == phase' = "started" /\ recording' \in BOOLEAN /\ owed' = Uncertain

StartFails ==
    /\ phase' = "startFailed"
    /\ recording' \in BOOLEAN
    /\ owed' \in {Uncertain, FALSE}
    /\ recording' => owed'

StartReturns == phase = "starting" /\ (StartSucceeds \/ StartFails)

\* The call of stop_run, at the end of the window or for cleanup.
Stop ==
    /\ \/ phase = "started" /\ phase' = "stopping"
       \/ phase = "startFailed" /\ owed /\ phase' = "cleaning"
    /\ UNCHANGED <<recording, owed>>

\* The adapter has seen that the recorder does not record any more.
Clear ==
    /\ phase \in {"stopping", "cleaning"}
    /\ ~recording
    /\ owed' = FALSE
    /\ UNCHANGED <<phase, recording>>

StopSucceeds == phase = "stopping" /\ phase' = "stopped" /\ ~recording' /\ ~owed'

StopFails ==
    /\ phase \in {"stopping", "cleaning"}
    /\ phase' = "stopFailed"
    /\ \/ ~recording' /\ ~owed'
       \/ Uncertain /\ recording' \in {recording, FALSE} /\ owed' = owed

StopReturns == StopSucceeds \/ StopFails

\* A recorder stops by itself: its process dies, its time limit is reached.
RecorderEnds == recording /\ recording' = FALSE /\ UNCHANGED <<phase, owed>>

\* The session goes to the next run, or has no use for the adapter any more.
Settle == phase = "stopped" /\ phase' = "rest" /\ UNCHANGED <<recording, owed>>

Leave ==
    /\ phase \in {"startFailed", "stopped", "stopFailed"}
    /\ phase' = "left"
    /\ UNCHANGED <<recording, owed>>

Next ==
    \/ Start \/ Command \/ StartReturns
    \/ Stop \/ Clear \/ StopReturns
    \/ RecorderEnds \/ Settle \/ Leave

Spec == Init /\ [][Next]_vars
=============================================================================

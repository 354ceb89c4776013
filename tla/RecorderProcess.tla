--------------------------- MODULE RecorderProcess --------------------------
(***************************************************************************)
(* The native Gator recorder as a process, seen by who started it: the      *)
(* signal handler it installs, the lines it prints and the code it exits    *)
(* with. GatorAdapter supervises it; GatorRecorder, the threads inside,     *)
(* implements it from the moment it has subscribed to the device.           *)
(***************************************************************************)
EXTENDS Integers, Sequences

VARIABLES
    process,   \* "none", "launching" (no signal handler yet), "armed", "abandoned" (told
               \* to stop before its first sample), "recording" (START_UTC_US printed),
               \* "closing", "hung", "killed", "exited"
    code,      \* returncode: 0, the recorder's own 1..9, the loader's, or minus a signal
    pipe       \* lines printed and not read

processVars == <<process, code, pipe>>

Alive == process \notin {"none", "exited"}
SIGINT == -2
SIGABRT == -6
SIGKILL == -9
SIGTERM == -15
LoaderError == 127

----------------------------------------------------------------------------
\* It exits on its own before it records (no device, a failed configuration, an
\* output file that cannot be opened), prints the readiness token with its first
\* sample, and hangs in vendor code or in the deadlock of GatorRecorder.
Exits(with) == process' = "exited" /\ code' = with

ProcessArms ==
    /\ process = "launching"
    /\ (process' = "armed" /\ UNCHANGED code) \/ Exits(LoaderError)
    /\ UNCHANGED pipe

ProcessGivesUp ==
    /\ process \in {"armed", "abandoned"}
    /\ \E c \in (1..6) \cup {SIGABRT} : Exits(c)
    /\ UNCHANGED pipe

\* A callback that is past its check for a stop still prints the token.
ProcessRecords ==
    /\ \/ process = "armed" /\ process' = "recording"
       \/ process = "abandoned" /\ process' = "closing"
    /\ pipe' = Append(pipe, "START")
    /\ UNCHANGED code

ProcessHangs ==
    /\ process \in {"launching", "armed", "abandoned", "recording", "closing"}
    /\ process' = "hung"
    /\ UNCHANGED <<code, pipe>>

\* Once it closes it reports its samples, or a write error (7), or a failure of
\* the callback (8). Told to stop before its first sample it has none (9).
ProcessCloses ==
    \/ /\ process = "closing"
       /\ Exits(0)
       /\ pipe' = Append(pipe, "WROTE")
    \/ /\ process = "closing" /\ \E c \in {7, 8} : Exits(c)
       /\ UNCHANGED pipe
    \/ /\ process = "abandoned" /\ \E c \in {7, 9} : Exits(c)
       /\ UNCHANGED pipe

\* An error in the callback ends the recording without a signal.
ProcessFails ==
    /\ process = "recording"
    /\ \E c \in {7, 8} : Exits(c)
    /\ UNCHANGED pipe

ProcessDies ==
    /\ process = "killed"
    /\ Exits(SIGKILL)
    /\ UNCHANGED pipe

\* Ctrl+C at the terminal reaches the recorder too: it is in the same process group.
Signalled(signal) ==
    CASE process = "launching" -> Exits(signal)
      [] process = "armed" -> process' = "abandoned" /\ UNCHANGED code
      [] process = "recording" -> process' = "closing" /\ UNCHANGED code
      [] OTHER -> UNCHANGED <<process, code>>

TerminalInterrupts == Signalled(SIGINT) /\ UNCHANGED pipe

ProcessNext ==
    \/ ProcessArms \/ ProcessGivesUp \/ ProcessRecords \/ ProcessHangs \/ ProcessCloses
    \/ ProcessFails \/ TerminalInterrupts

\* A recorder nobody kills and whose lines nobody reads, once it has subscribed.
Subscribed == process = "armed" /\ code = 0 /\ pipe = <<>>
Runs == Subscribed /\ [][ProcessNext]_processVars
=============================================================================

---------------------------- MODULE EndaqAdapter ----------------------------
(***************************************************************************)
(* The enDAQ adapter, tbdaq/adapters/endaq.py, with the recorder it drives  *)
(* and the calls the session makes: start, stop (command, remount, offload) *)
(* and the deferred export. The recorder runs on its own: it takes a start  *)
(* command late, ends a recording at its time limit and comes back as a     *)
(* USB disk, which udev mounts.                                             *)
(*                                                                         *)
(* Time is abstract: every loop with a deadline may give up after any       *)
(* attempt that failed. A recording is a number; the recorder never reuses  *)
(* one.                                                                     *)
(***************************************************************************)
EXTENDS Integers, Sequences

CONSTANTS
    MaxRuns,       \* bound on the runs of the session
    MaxRecordings  \* bound on the files the recorder ever holds

ASSUME AdapterAssumption == MaxRuns \in Nat \ {0} /\ MaxRecordings \in Nat

Recordings == 1..MaxRecordings
Runs == 1..MaxRuns

VARIABLES
    deleteAfterOffload,  \* delete_after_verified_offload; never changes
    device,          \* "mounted", "unmounted" (connected), "commanded" (RecStart
                     \* taken, still connected), "recording", "ended"
    torn,            \* the recorder switched modes under a mounted filesystem
    recorderFiles,   \* IDE files on its storage
    lastFile,        \* the newest file number used so far
    pc,              \* where the adapter and its caller are
    run,             \* number of the current run
    filesBefore,     \* _files_before_start
    needsStop,       \* _needs_stop
    error,           \* result.error is set
    conversionError, \* result.conversion_error is set
    toOffload,       \* new_files not copied yet
    deferring,       \* the session will process this run
    deferred,        \* runs to export after the series
    copied,          \* per run: files in raw/endaq
    verified,        \* per run: files whose size and SHA-256 matched (ide_paths)
    processing,      \* per run: what the manifest says of the export
    produced         \* per run: files the recorder wrote for it

deviceVars == <<device, torn, recorderFiles, lastFile, produced>>
runVars    == <<run, deferring, deferred>>
hostVars   == <<copied, verified, processing>>
vars == <<deleteAfterOffload, device, torn, recorderFiles, lastFile, pc, run, filesBefore, needsStop,
          error, conversionError, toOffload, deferring, deferred, copied, verified, processing,
          produced>>

NewFiles == recorderFiles \ filesBefore

----------------------------------------------------------------------------
\* discover() attached one mounted recorder, which may hold old recordings.
Init ==
    /\ deleteAfterOffload \in BOOLEAN
    /\ device = "mounted" /\ torn = FALSE
    /\ lastFile \in {0, 1} \cap 0..MaxRecordings
    /\ recorderFiles = 1..lastFile
    /\ pc = "idle" /\ run = 0
    /\ filesBefore = {} /\ needsStop = FALSE /\ error = FALSE /\ conversionError = FALSE
    /\ toOffload = {}
    /\ deferring = FALSE /\ deferred = <<>>
    /\ copied = [r \in Runs |-> {}] /\ verified = [r \in Runs |-> {}]
    /\ processing = [r \in Runs |-> [status |-> "none", error |-> FALSE]]
    /\ produced = [r \in Runs |-> {}]

----------------------------------------------------------------------------
\* The session's run count.
\* Mutant: one run too many.
MoreRunsOffByOne == run <= MaxRuns

MoreRuns == run < MaxRuns

\* start(): a fresh result, then _refresh_mounted_device and
\* _check_storage_capacity, each of which may raise, then the snapshot.
\* Mutant: only the first start of the session takes the snapshot.
SnapshotOnce == IF run = 0 THEN recorderFiles ELSE filesBefore

Snapshot == recorderFiles

StartPrepares ==
    /\ pc = "idle"
    /\ MoreRuns
    /\ run' = run + 1
    /\ needsStop' = FALSE
    /\ conversionError' = FALSE
    /\ \/ /\ device = "mounted"
          /\ filesBefore' = Snapshot
          /\ error' = FALSE
          /\ pc' = "unmount"
       \/ /\ filesBefore' = filesBefore
          /\ error' = TRUE
          /\ pc' = "startFailed"
    /\ UNCHANGED <<deleteAfterOffload, deviceVars, toOffload, deferring, deferred, hostVars>>

\* _clean_unmount raises when umount fails; when umount does not answer in time
\* it may have done its work.
\* Mutant: the return code of umount is not looked at.
UnmountUnchecked(ok) == TRUE

UnmountChecked(ok) == ok

CleanUnmount ==
    /\ pc = "unmount"
    /\ \E ok \in BOOLEAN, done \in BOOLEAN :
         /\ ok => done
         /\ device' = IF done THEN "unmounted" ELSE "mounted"
         /\ IF UnmountChecked(ok)
            THEN pc' = "command" /\ UNCHANGED error
            ELSE pc' = "startFailed" /\ error' = TRUE
    /\ UNCHANGED <<deleteAfterOffload, torn, recorderFiles, lastFile, produced, runVars, filesBefore,
                   needsStop, conversionError, toOffload, hostVars>>

\* RecStart: the recorder takes it or not, and the library answers or raises,
\* independently. The mark for cleanup is set before the command is sent.
\* Mutant: the mark is set when the command has returned.
MarkedOnceAcknowledged(raised) == ~raised

MarkedForStop(raised) == TRUE

SendRecStart ==
    /\ pc = "command"
    /\ \E taken \in BOOLEAN, raised \in BOOLEAN :
         /\ device' = IF taken THEN "commanded" ELSE device
         /\ torn' = (torn \/ (taken /\ device = "mounted"))
         /\ needsStop' = MarkedForStop(raised)
         /\ error' = raised
         /\ pc' = IF raised THEN "startFailed" ELSE "disconnect"
    /\ UNCHANGED <<deleteAfterOffload, recorderFiles, lastFile, produced, runVars, filesBefore,
                   conversionError, toOffload, hostVars>>

AwaitBlockDisconnect ==
    /\ pc = "disconnect"
    /\ \/ /\ device = "recording"
          /\ pc' = "started"
          /\ UNCHANGED error
       \/ /\ pc' = "startFailed"
          /\ error' = TRUE
    /\ UNCHANGED <<deleteAfterOffload, deviceVars, runVars, filesBefore, needsStop, conversionError,
                   toOffload, hostVars>>

----------------------------------------------------------------------------
\* The session: it stops a started recorder at the end of the window, or to
\* clean up after another family's failure; it stops a recorder whose start
\* failed when that start may have been sent, or leaves it (allow_partial).
SessionStops ==
    /\ \/ pc = "started" /\ deferring' \in BOOLEAN /\ pc' = "sendStop"
       \/ pc = "startFailed" /\ needsStop /\ deferring' = FALSE /\ pc' = "sendStop"
       \/ pc = "startFailed" /\ deferring' = FALSE /\ pc' = "over"
    /\ UNCHANGED <<deleteAfterOffload, deviceVars, run, deferred, filesBefore, needsStop, error,
                   conversionError, toOffload, hostVars>>

\* One pass of _send_stop_with_retry, whose command may be lost, or be taken
\* although the library raises. An empty snapshot never sees a new recording.
NewRecordingIsMounted == filesBefore # {} /\ device = "mounted" /\ NewFiles # {}

SendStop ==
    /\ pc = "sendStop"
    /\ device' \in IF device = "recording" THEN {"recording", "ended"} ELSE {device}
    /\ \/ pc' = "remount" /\ UNCHANGED error
       \/ NewRecordingIsMounted /\ pc' = "remount" /\ UNCHANGED error
       \/ ~NewRecordingIsMounted /\ pc' = "sendStop" /\ UNCHANGED error
       \/ ~NewRecordingIsMounted /\ pc' = "stopDone" /\ error' = TRUE
    /\ UNCHANGED <<deleteAfterOffload, torn, recorderFiles, lastFile, produced, runVars, filesBefore,
                   needsStop, conversionError, toOffload, hostVars>>

AwaitMountedDevice ==
    /\ pc = "remount"
    /\ \/ /\ device = "mounted"
          /\ needsStop' = FALSE
          /\ pc' = "offload"
          /\ UNCHANGED error
       \/ /\ error' = TRUE
          /\ pc' = "stopDone"
          /\ UNCHANGED needsStop
    /\ UNCHANGED <<deleteAfterOffload, deviceVars, runVars, filesBefore, conversionError, toOffload,
                   hostVars>>

OffloadBegins ==
    /\ pc = "offload"
    /\ toOffload' = NewFiles
    /\ pc' = IF NewFiles = {} THEN "stopDone" ELSE "copy"
    /\ error' = (error \/ NewFiles = {})
    /\ UNCHANGED <<deleteAfterOffload, deviceVars, runVars, filesBefore, needsStop, conversionError,
                   hostVars>>

\* The next file of sorted(new_files).
NextToOffload == CHOOSE f \in toOffload : \A g \in toOffload : f <= g

Offloaded == IF toOffload = {NextToOffload} THEN "stopDone" ELSE "copy"

\* Copy and compare: the copy raises with or without leaving a file, differs,
\* or is verified. Only a verified file goes on to be deleted.
\* Mutant: a copy that differs does not end the offload.
MismatchTolerated(outcome) == outcome \in {"verified", "differs"}

CopyAccepted(outcome) == outcome = "verified"

OffloadFile ==
    /\ pc = "copy"
    /\ \E outcome \in {"verified", "differs", "no copy"} :
         /\ copied' = IF outcome = "no copy" THEN copied
                      ELSE [copied EXCEPT ![run] = @ \cup {NextToOffload}]
         /\ verified' = IF outcome = "verified"
                        THEN [verified EXCEPT ![run] = @ \cup {NextToOffload}] ELSE verified
         /\ IF ~CopyAccepted(outcome)
            THEN pc' = "stopDone" /\ error' = TRUE /\ toOffload' = {}
            ELSE /\ UNCHANGED error
                 /\ pc' = IF deleteAfterOffload THEN "delete" ELSE Offloaded
                 /\ toOffload' = IF deleteAfterOffload THEN toOffload
                                 ELSE toOffload \ {NextToOffload}
    /\ UNCHANGED <<deleteAfterOffload, deviceVars, runVars, filesBefore, needsStop, conversionError,
                   processing>>

DeleteSource ==
    /\ pc = "delete"
    /\ \/ /\ recorderFiles' = recorderFiles \ {NextToOffload}
          /\ toOffload' = toOffload \ {NextToOffload}
          /\ pc' = Offloaded
          /\ UNCHANGED error
       \/ /\ error' = TRUE
          /\ pc' = "stopDone"
          /\ toOffload' = {}
          /\ UNCHANGED recorderFiles
    /\ UNCHANGED <<deleteAfterOffload, device, torn, lastFile, produced, runVars, filesBefore,
                   needsStop, conversionError, hostVars>>

\* The session defers the export of a run it stopped, well or badly; only a
\* stop without an error leads to a next run.
SessionContinues ==
    /\ pc = "stopDone"
    /\ deferred' = IF deferring THEN Append(deferred, run) ELSE deferred
    /\ \/ ~error /\ deferring /\ MoreRuns /\ pc' = "idle"
       \/ pc' = "over"
    /\ UNCHANGED <<deleteAfterOffload, deviceVars, run, deferring, filesBefore, needsStop, error,
                   conversionError, toOffload, hostVars>>

\* export_run after the series, and what _process_adapter records of it: the
\* files of raw/endaq are parsed, and the error of the latest failure stays in
\* the one result object.
ExportFiles(r) == copied[r]

ExportRun ==
    /\ pc = "over"
    /\ deferred # <<>>
    /\ LET r == Head(deferred)
       IN \E parsed \in BOOLEAN :
            LET success == ExportFiles(r) # {} /\ parsed
            IN /\ ExportFiles(r) = {} => ~parsed
               /\ error' = (error \/ ExportFiles(r) = {})
               /\ conversionError' = (conversionError \/ (ExportFiles(r) # {} /\ ~parsed))
               /\ processing' = [processing EXCEPT ![r] =
                     [status |-> IF success THEN "success" ELSE "failed",
                      error |-> conversionError']]
    /\ deferred' = Tail(deferred)
    /\ UNCHANGED <<deleteAfterOffload, deviceVars, pc, run, deferring, filesBefore, needsStop,
                   toOffload, copied, verified>>

----------------------------------------------------------------------------
\* The recorder. A recording session leaves no, one or two files.
RecorderBegins ==
    /\ device = "commanded"
    /\ device' = "recording"
    /\ UNCHANGED <<torn, recorderFiles, lastFile, produced>>

RecorderReachesLimit ==
    /\ device = "recording"
    /\ device' = "ended"
    /\ UNCHANGED <<torn, recorderFiles, lastFile, produced>>

RecorderRemounts ==
    /\ device = "ended"
    /\ device' = "mounted"
    /\ \E last \in {lastFile, lastFile + 1, lastFile + 2} \cap 0..MaxRecordings :
         /\ lastFile' = last
         /\ recorderFiles' = recorderFiles \cup ((lastFile + 1)..last)
         /\ produced' = [produced EXCEPT ![run] = @ \cup ((lastFile + 1)..last)]
    /\ UNCHANGED torn

Recorder ==
    /\ RecorderBegins \/ RecorderReachesLimit \/ RecorderRemounts
    /\ UNCHANGED <<deleteAfterOffload, pc, runVars, filesBefore, needsStop, error, conversionError,
                   toOffload, hostVars>>

\* The series is over, everything is exported and the recorder rests.
Terminated ==
    /\ pc = "over"
    /\ deferred = <<>>
    /\ device \in {"mounted", "unmounted"}
    /\ UNCHANGED vars

Adapter ==
    \/ StartPrepares \/ CleanUnmount \/ SendRecStart \/ AwaitBlockDisconnect
    \/ SendStop \/ AwaitMountedDevice \/ OffloadBegins \/ OffloadFile \/ DeleteSource \/ ExportRun

Next == Adapter \/ SessionStops \/ SessionContinues \/ Recorder \/ Terminated

Spec == Init /\ [][Next]_vars

----------------------------------------------------------------------------
Copies == [Runs -> SUBSET Recordings]

TypeOK ==
    /\ deleteAfterOffload \in BOOLEAN /\ torn \in BOOLEAN /\ deferring \in BOOLEAN
    /\ needsStop \in BOOLEAN /\ error \in BOOLEAN /\ conversionError \in BOOLEAN
    /\ device \in {"mounted", "unmounted", "commanded", "recording", "ended"}
    /\ pc \in {"idle", "unmount", "command", "disconnect", "started", "startFailed", "sendStop",
               "remount", "offload", "copy", "delete", "stopDone", "over"}
    /\ lastFile \in 0..MaxRecordings
    /\ recorderFiles \in SUBSET (1..lastFile)
    /\ filesBefore \in SUBSET Recordings /\ toOffload \in SUBSET Recordings
    /\ run \in 0..MaxRuns
    /\ deferred \in Seq(Runs)
    /\ copied \in Copies /\ verified \in Copies /\ produced \in Copies
    /\ processing \in [Runs -> [status : {"none", "success", "failed"}, error : BOOLEAN]]

\* A run whose start and stop report no error has a verified copy of exactly
\* the files the recorder wrote during that run, and no run's folder ever gets
\* a file of another one: no older "latest" file stands in for a missing one.
OffloadIsExact ==
    /\ pc = "stopDone" /\ ~error => verified[run] = produced[run] /\ verified[run] # {}
    /\ \A r \in Runs : copied[r] \subseteq produced[r]

\* A recorder that may be recording because of this adapter carries the mark
\* for cleanup, whatever the start command reported and wherever stop() gave up.
RecordingIsMarked == device \in {"commanded", "recording", "ended"} => needsStop

\* The recorder never leaves USB mode while the host has its storage mounted.
NeverTorn == ~torn

\* The recorder's storage loses a file only when a verified copy is on the host.
Custody == INSTANCE RecordingCustody
    WITH onRecorder <- recorderFiles, onHost <- UNION {verified[r] : r \in Runs}
KeepsCustody == Custody!Spec

\* The adapter seen as AdapterContract sees it: a start that fails has set the
\* mark for cleanup if the recorder may have taken the command, a stop clears it
\* only when the recorder is back as a disk (endaq.py 198-280).
Phase ==
    CASE pc = "idle" -> "rest"
      [] pc \in {"unmount", "command", "disconnect"} -> "starting"
      [] pc \in {"sendStop", "remount", "offload", "copy", "delete"} ->
            IF error THEN "cleaning" ELSE "stopping"
      [] pc = "stopDone" -> IF error THEN "stopFailed" ELSE "stopped"
      [] pc = "over" -> "left"
      [] OTHER -> pc
Calls == INSTANCE AdapterContract
    WITH Uncertain <- TRUE, phase <- Phase, recording <- device \in {"commanded", "recording"},
         owed <- needsStop
KeepsContract == Calls!Spec

\* docs/design.md:58-59: when the stop command gets no answer, stop()
\* "rediscovers the mounted recorder": it never gives up on one that has ended
\* its recording, is mounted and shows a new file.
MountedRecordingIsFound ==
    [][pc = "sendStop" /\ pc' = "stopDone" => ~(device = "mounted" /\ NewFiles # {})]_vars
=============================================================================

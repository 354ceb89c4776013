------------------------- MODULE EndaqAdapterProofs -------------------------
(* What holds of EndaqAdapter for every number of runs and recordings, and   *)
(* that it implements RecordingCustody.                                     *)
EXTENDS EndaqAdapter, SequenceTheorems, WellFoundedInduction, TLAPS

----------------------------------------------------------------------------
(* The inductive invariant. *)

\* Runs are numbered as they start, and only a started one has files.
RunsInOrder ==
    /\ run = 0 => pc = "idle"
    /\ \A r \in Runs : r > run => copied[r] = {} /\ verified[r] = {} /\ produced[r] = {}

\* A file is copied from what its run produced, and file numbers grow.
FilesHaveOrigin ==
    /\ filesBefore \subseteq 1..lastFile
    /\ \A r \in Runs : /\ verified[r] \subseteq copied[r]
                       /\ copied[r] \subseteq produced[r]
                       /\ produced[r] \subseteq 1..lastFile

\* Where the recorder's storage is mounted for certain, or unmounted.
DeviceMatchesPc ==
    /\ pc \in {"idle", "unmount", "offload", "copy", "delete"} => device = "mounted"
    /\ pc = "command" => device = "unmounted"
    /\ pc = "stopDone" /\ ~error => device = "mounted"

\* The snapshot belongs to this run whenever an offload may still come.
OffloadAhead ==
    \/ pc \in {"unmount", "command", "disconnect", "started", "sendStop", "remount", "offload"}
    \/ pc = "startFailed" /\ needsStop
SnapshotIsOfThisRun ==
    OffloadAhead => NewFiles = produced[run] /\ verified[run] = {}

\* The offload loop: what is verified and what is left make up the run.
OffloadInProgress ==
    /\ pc \in {"copy", "delete"} =>
         /\ toOffload # {} /\ toOffload \subseteq recorderFiles
         /\ produced[run] = verified[run] \cup toOffload
    /\ pc = "delete" => NextToOffload \in verified[run]
    /\ pc = "stopDone" /\ ~error => verified[run] = produced[run] /\ verified[run] # {}

IInv ==
    /\ TypeOK
    /\ RunsInOrder
    /\ FilesHaveOrigin
    /\ DeviceMatchesPc
    /\ RecordingIsMarked
    /\ NeverTorn
    /\ SnapshotIsOfThisRun
    /\ OffloadInProgress

----------------------------------------------------------------------------
(* Operators. *)

\* A set of numbers that is not empty has a least one.
LEMMA LeastElement ==
  ASSUME NEW T \in SUBSET Nat, T # {}
  PROVE  \E x \in T : \A y \in T : x <= y
  <1>1. IsWellFoundedOn(OpToRel(<, Nat), Nat)
    BY NatLessThanWellFounded
  <1>2. PICK x \in T : \A y \in T : ~ (<<y, x>> \in OpToRel(<, Nat))
    BY <1>1, WFMin
  <1>3. ASSUME NEW y \in T, ~(x <= y) PROVE FALSE
    <2>1. y < x /\ x \in Nat /\ y \in Nat
      BY <1>3
    <2>2. <<y, x>> \in {ss \in Nat \X Nat : ss[1] < ss[2]}
      BY <2>1
    <2>3. OpToRel(<, Nat) = {ss \in Nat \X Nat : ss[1] < ss[2]}
      BY DEF OpToRel
    <2> QED
      BY <1>2, <2>2, <2>3
  <1> QED
    BY <1>3

\* The offload loop always has a next file, one of those that are left.
LEMMA NextIsLeft ==
  ASSUME toOffload \in SUBSET Recordings, toOffload # {}
  PROVE  NextToOffload \in toOffload
  <1>1. toOffload \in SUBSET Nat
    BY AdapterAssumption DEF Recordings
  <1>2. \E f \in toOffload : \A g \in toOffload : f <= g
    BY <1>1, LeastElement
  <1> QED
    BY <1>2 DEF NextToOffload

----------------------------------------------------------------------------
(* Every action preserves the invariant. *)

USE DEF Recordings, Runs, Copies

LEMMA InitHolds == Init => IInv
  <1> SUFFICES ASSUME Init PROVE IInv
    OBVIOUS
  <1>1. TypeOK
    <2>1. lastFile \in 0..MaxRecordings /\ recorderFiles \in SUBSET (1..lastFile) /\ run \in 0..MaxRuns
      BY AdapterAssumption DEF Init
    <2>2. /\ copied \in [Runs -> SUBSET Recordings] /\ verified \in [Runs -> SUBSET Recordings]
          /\ produced \in [Runs -> SUBSET Recordings]
          /\ processing \in [Runs -> [status : {"none", "success", "failed"}, error : BOOLEAN]]
      BY DEF Init
    <2>3. deferred \in Seq(Runs)
      BY EmptySeq DEF Init
    <2> QED
      BY <2>1, <2>2, <2>3 DEF Init, TypeOK
  <1>2. RunsInOrder /\ FilesHaveOrigin /\ DeviceMatchesPc /\ RecordingIsMarked /\ NeverTorn
    BY DEF Init, RunsInOrder, FilesHaveOrigin, DeviceMatchesPc, RecordingIsMarked, NeverTorn
  <1>3. SnapshotIsOfThisRun /\ OffloadInProgress
    BY DEF Init, SnapshotIsOfThisRun, OffloadAhead, OffloadInProgress
  <1> QED
    BY <1>1, <1>2, <1>3 DEF IInv

LEMMA StartPreparesHolds == IInv /\ StartPrepares => IInv'
  <1> SUFFICES ASSUME IInv, StartPrepares PROVE IInv'
    OBVIOUS
  <1>1. TypeOK /\ RunsInOrder /\ FilesHaveOrigin /\ DeviceMatchesPc /\ RecordingIsMarked /\ NeverTorn
    BY DEF IInv
  <1>2. run' \in Runs /\ run' > run /\ run \in Nat
    BY <1>1, AdapterAssumption DEF StartPrepares, MoreRuns, TypeOK
  <1>3. TypeOK'
    <2>1. recorderFiles \in SUBSET Recordings
      BY <1>1, AdapterAssumption DEF TypeOK
    <2>2. filesBefore' \in {recorderFiles, filesBefore} /\ pc' \in {"unmount", "startFailed"}
      BY DEF StartPrepares, Snapshot
    <2>3. needsStop' \in BOOLEAN /\ error' \in BOOLEAN /\ conversionError' \in BOOLEAN
      BY DEF StartPrepares
    <2>4. /\ filesBefore' \in SUBSET Recordings
          /\ pc' \in {"idle", "unmount", "command", "disconnect", "started", "startFailed",
                      "sendStop", "remount", "offload", "copy", "delete", "stopDone", "over"}
      BY <1>1, <2>1, <2>2 DEF TypeOK
    <2>5. UNCHANGED <<deleteAfterOffload, deviceVars, toOffload, deferring, deferred, hostVars>>
      BY DEF StartPrepares
    <2> QED
      BY <1>1, <1>2, <2>3, <2>4, <2>5 DEF TypeOK, deviceVars, hostVars
  <1>4. RunsInOrder'
    BY <1>1, <1>2 DEF RunsInOrder, StartPrepares, deviceVars, hostVars, TypeOK
  <1>5. FilesHaveOrigin'
    BY <1>1 DEF FilesHaveOrigin, StartPrepares, Snapshot, deviceVars, hostVars, TypeOK
  <1>6. DeviceMatchesPc' /\ RecordingIsMarked' /\ NeverTorn' /\ OffloadInProgress'
    BY <1>1 DEF DeviceMatchesPc, RecordingIsMarked, NeverTorn, OffloadInProgress, StartPrepares,
                deviceVars, NextToOffload
  <1>7. SnapshotIsOfThisRun'
    BY <1>1, <1>2 DEF SnapshotIsOfThisRun, OffloadAhead, NewFiles, RunsInOrder, StartPrepares,
                      Snapshot, deviceVars, hostVars
  <1> QED
    BY <1>3, <1>4, <1>5, <1>6, <1>7 DEF IInv

LEMMA CleanUnmountHolds == IInv /\ CleanUnmount => IInv'
  <1> SUFFICES ASSUME IInv, CleanUnmount PROVE IInv'
    OBVIOUS
  <1>1. TypeOK /\ RunsInOrder /\ FilesHaveOrigin /\ DeviceMatchesPc /\ RecordingIsMarked /\ NeverTorn
    BY DEF IInv
  <1>2. SnapshotIsOfThisRun /\ OffloadInProgress
    BY DEF IInv
  <1>3. TypeOK'
    BY <1>1 DEF TypeOK, CleanUnmount, deviceVars, runVars, hostVars
  <1>4. RunsInOrder' /\ FilesHaveOrigin'
    BY <1>1 DEF RunsInOrder, FilesHaveOrigin, CleanUnmount, deviceVars, runVars, hostVars, TypeOK
  <1>5. DeviceMatchesPc' /\ RecordingIsMarked' /\ NeverTorn'
    BY <1>1 DEF DeviceMatchesPc, RecordingIsMarked, NeverTorn, CleanUnmount, deviceVars,
                UnmountChecked, MarkedForStop
  <1>6. SnapshotIsOfThisRun' /\ OffloadInProgress'
    BY <1>1, <1>2 DEF SnapshotIsOfThisRun, OffloadAhead, NewFiles, OffloadInProgress, CleanUnmount,
                      deviceVars, runVars, hostVars, UnmountChecked, MarkedForStop
  <1> QED
    BY <1>3, <1>4, <1>5, <1>6 DEF IInv

LEMMA SendRecStartHolds == IInv /\ SendRecStart => IInv'
  <1> SUFFICES ASSUME IInv, SendRecStart PROVE IInv'
    OBVIOUS
  <1>1. TypeOK /\ RunsInOrder /\ FilesHaveOrigin /\ DeviceMatchesPc /\ RecordingIsMarked /\ NeverTorn
    BY DEF IInv
  <1>2. SnapshotIsOfThisRun /\ OffloadInProgress
    BY DEF IInv
  <1>3. TypeOK'
    <2>1. torn' \in BOOLEAN /\ error' \in BOOLEAN /\ needsStop' \in BOOLEAN
      BY Zenon DEF SendRecStart, MarkedForStop
    <2>2. device' \in {"mounted", "unmounted", "commanded", "recording", "ended"}
      BY <1>1 DEF SendRecStart, TypeOK
    <2>3. pc' \in {"startFailed", "disconnect"}
      BY DEF SendRecStart
    <2> QED
      BY <1>1, <2>1, <2>2, <2>3 DEF TypeOK, SendRecStart, runVars, hostVars
  <1>4. RunsInOrder' /\ FilesHaveOrigin'
    BY <1>1 DEF RunsInOrder, FilesHaveOrigin, SendRecStart, deviceVars, runVars, hostVars, TypeOK
  <1>5. DeviceMatchesPc' /\ RecordingIsMarked' /\ NeverTorn'
    BY <1>1 DEF DeviceMatchesPc, RecordingIsMarked, NeverTorn, SendRecStart, deviceVars,
                UnmountChecked, MarkedForStop
  <1>6. SnapshotIsOfThisRun' /\ OffloadInProgress'
    BY <1>1, <1>2 DEF SnapshotIsOfThisRun, OffloadAhead, NewFiles, OffloadInProgress, SendRecStart,
                      deviceVars, runVars, hostVars, UnmountChecked, MarkedForStop
  <1> QED
    BY <1>3, <1>4, <1>5, <1>6 DEF IInv

LEMMA AwaitBlockDisconnectHolds == IInv /\ AwaitBlockDisconnect => IInv'
  <1> SUFFICES ASSUME IInv, AwaitBlockDisconnect PROVE IInv'
    OBVIOUS
  <1>1. TypeOK /\ RunsInOrder /\ FilesHaveOrigin /\ DeviceMatchesPc /\ RecordingIsMarked /\ NeverTorn
    BY DEF IInv
  <1>2. SnapshotIsOfThisRun /\ OffloadInProgress
    BY DEF IInv
  <1>3. TypeOK'
    BY <1>1 DEF TypeOK, AwaitBlockDisconnect, deviceVars, runVars, hostVars
  <1>4. RunsInOrder' /\ FilesHaveOrigin'
    BY <1>1 DEF RunsInOrder, FilesHaveOrigin, AwaitBlockDisconnect, deviceVars, runVars, hostVars, TypeOK
  <1>5. DeviceMatchesPc' /\ RecordingIsMarked' /\ NeverTorn'
    BY <1>1 DEF DeviceMatchesPc, RecordingIsMarked, NeverTorn, AwaitBlockDisconnect, deviceVars,
                UnmountChecked, MarkedForStop
  <1>6. SnapshotIsOfThisRun' /\ OffloadInProgress'
    BY <1>1, <1>2 DEF SnapshotIsOfThisRun, OffloadAhead, NewFiles, OffloadInProgress, AwaitBlockDisconnect,
                      deviceVars, runVars, hostVars, UnmountChecked, MarkedForStop
  <1> QED
    BY <1>3, <1>4, <1>5, <1>6 DEF IInv

LEMMA SessionStopsHolds == IInv /\ SessionStops => IInv'
  <1> SUFFICES ASSUME IInv, SessionStops PROVE IInv'
    OBVIOUS
  <1>1. TypeOK /\ RunsInOrder /\ FilesHaveOrigin /\ DeviceMatchesPc /\ RecordingIsMarked /\ NeverTorn
    BY DEF IInv
  <1>2. SnapshotIsOfThisRun /\ OffloadInProgress
    BY DEF IInv
  <1>3. TypeOK'
    BY <1>1 DEF TypeOK, SessionStops, deviceVars, runVars, hostVars
  <1>4. RunsInOrder' /\ FilesHaveOrigin'
    BY <1>1 DEF RunsInOrder, FilesHaveOrigin, SessionStops, deviceVars, runVars, hostVars, TypeOK
  <1>5. DeviceMatchesPc' /\ RecordingIsMarked' /\ NeverTorn'
    BY <1>1 DEF DeviceMatchesPc, RecordingIsMarked, NeverTorn, SessionStops, deviceVars,
                UnmountChecked, MarkedForStop
  <1>6. SnapshotIsOfThisRun' /\ OffloadInProgress'
    BY <1>1, <1>2 DEF SnapshotIsOfThisRun, OffloadAhead, NewFiles, OffloadInProgress, SessionStops,
                      deviceVars, runVars, hostVars, UnmountChecked, MarkedForStop
  <1> QED
    BY <1>3, <1>4, <1>5, <1>6 DEF IInv

LEMMA SendStopHolds == IInv /\ SendStop => IInv'
  <1> SUFFICES ASSUME IInv, SendStop PROVE IInv'
    OBVIOUS
  <1>1. TypeOK /\ RunsInOrder /\ FilesHaveOrigin /\ DeviceMatchesPc /\ RecordingIsMarked /\ NeverTorn
    BY DEF IInv
  <1>2. SnapshotIsOfThisRun /\ OffloadInProgress
    BY DEF IInv
  <1>3. TypeOK'
    BY <1>1 DEF TypeOK, SendStop, deviceVars, runVars, hostVars
  <1>4. RunsInOrder' /\ FilesHaveOrigin'
    BY <1>1 DEF RunsInOrder, FilesHaveOrigin, SendStop, deviceVars, runVars, hostVars, TypeOK
  <1>5. DeviceMatchesPc' /\ RecordingIsMarked' /\ NeverTorn'
    BY <1>1 DEF DeviceMatchesPc, RecordingIsMarked, NeverTorn, SendStop, deviceVars,
                UnmountChecked, MarkedForStop
  <1>6. SnapshotIsOfThisRun' /\ OffloadInProgress'
    BY <1>1, <1>2 DEF SnapshotIsOfThisRun, OffloadAhead, NewFiles, OffloadInProgress, SendStop,
                      deviceVars, runVars, hostVars, UnmountChecked, MarkedForStop
  <1> QED
    BY <1>3, <1>4, <1>5, <1>6 DEF IInv

LEMMA AwaitMountedDeviceHolds == IInv /\ AwaitMountedDevice => IInv'
  <1> SUFFICES ASSUME IInv, AwaitMountedDevice PROVE IInv'
    OBVIOUS
  <1>1. TypeOK /\ RunsInOrder /\ FilesHaveOrigin /\ DeviceMatchesPc /\ RecordingIsMarked /\ NeverTorn
    BY DEF IInv
  <1>2. SnapshotIsOfThisRun /\ OffloadInProgress
    BY DEF IInv
  <1>3. TypeOK'
    BY <1>1 DEF TypeOK, AwaitMountedDevice, deviceVars, runVars, hostVars
  <1>4. RunsInOrder' /\ FilesHaveOrigin'
    BY <1>1 DEF RunsInOrder, FilesHaveOrigin, AwaitMountedDevice, deviceVars, runVars, hostVars, TypeOK
  <1>5. DeviceMatchesPc' /\ RecordingIsMarked' /\ NeverTorn'
    BY <1>1 DEF DeviceMatchesPc, RecordingIsMarked, NeverTorn, AwaitMountedDevice, deviceVars,
                UnmountChecked, MarkedForStop
  <1>6. SnapshotIsOfThisRun' /\ OffloadInProgress'
    BY <1>1, <1>2 DEF SnapshotIsOfThisRun, OffloadAhead, NewFiles, OffloadInProgress, AwaitMountedDevice,
                      deviceVars, runVars, hostVars, UnmountChecked, MarkedForStop
  <1> QED
    BY <1>3, <1>4, <1>5, <1>6 DEF IInv

LEMMA OffloadBeginsHolds == IInv /\ OffloadBegins => IInv'
  <1> SUFFICES ASSUME IInv, OffloadBegins PROVE IInv'
    OBVIOUS
  <1>1. TypeOK /\ RunsInOrder /\ FilesHaveOrigin /\ DeviceMatchesPc /\ RecordingIsMarked /\ NeverTorn
    BY DEF IInv
  <1>2. SnapshotIsOfThisRun /\ OffloadInProgress
    BY DEF IInv
  <1>3. TypeOK'
    <2>1. NewFiles \in SUBSET Recordings
      BY <1>1, AdapterAssumption DEF NewFiles, TypeOK
    <2>2. error' \in BOOLEAN
      BY Zenon DEF OffloadBegins
    <2> QED
      BY <1>1, <2>1, <2>2 DEF TypeOK, OffloadBegins, deviceVars, runVars, hostVars
  <1>4. RunsInOrder' /\ FilesHaveOrigin'
    BY <1>1 DEF RunsInOrder, FilesHaveOrigin, OffloadBegins, deviceVars, runVars, hostVars, TypeOK
  <1>5. DeviceMatchesPc' /\ RecordingIsMarked' /\ NeverTorn'
    BY <1>1 DEF DeviceMatchesPc, RecordingIsMarked, NeverTorn, OffloadBegins, deviceVars
  <1>6. NewFiles = produced[run] /\ verified[run] = {}
    BY <1>2 DEF OffloadBegins, SnapshotIsOfThisRun, OffloadAhead
  <1>7. SnapshotIsOfThisRun' /\ OffloadInProgress'
    BY <1>1, <1>6 DEF SnapshotIsOfThisRun, OffloadAhead, NewFiles, OffloadInProgress, OffloadBegins,
                      deviceVars, runVars, hostVars
  <1> QED
    BY <1>3, <1>4, <1>5, <1>7 DEF IInv

\* What a pass of the offload loop may assume.
LEMMA OffloadPass ==
  ASSUME IInv, pc \in {"copy", "delete"}
  PROVE  /\ run \in Runs
         /\ NextToOffload \in toOffload
         /\ NextToOffload \in recorderFiles
         /\ NextToOffload \in produced[run]
         /\ NextToOffload \in Recordings
  <1>1. TypeOK /\ RunsInOrder /\ OffloadInProgress
    BY DEF IInv
  <1>2. run \in Runs
    BY <1>1, AdapterAssumption DEF TypeOK, RunsInOrder
  <1>3. NextToOffload \in toOffload
    BY <1>1, NextIsLeft DEF TypeOK, OffloadInProgress
  <1>4. toOffload \subseteq recorderFiles /\ toOffload \subseteq produced[run]
    BY <1>1 DEF OffloadInProgress
  <1> QED
    BY <1>1, <1>2, <1>3, <1>4 DEF TypeOK

LEMMA OffloadFileHolds == IInv /\ OffloadFile => IInv'
  <1> SUFFICES ASSUME IInv, OffloadFile PROVE IInv'
    OBVIOUS
  <1>1. TypeOK /\ RunsInOrder /\ FilesHaveOrigin /\ DeviceMatchesPc /\ RecordingIsMarked /\ NeverTorn
    BY DEF IInv
  <1>2. OffloadInProgress /\ pc = "copy" /\ run \in 0..MaxRuns
    BY <1>1 DEF IInv, OffloadFile, TypeOK
  <1>3. /\ run \in Runs /\ NextToOffload \in toOffload /\ NextToOffload \in recorderFiles
        /\ NextToOffload \in produced[run] /\ NextToOffload \in Recordings
    BY <1>2, OffloadPass
  <1>4. PICK outcome \in {"verified", "differs", "no copy"} :
          /\ copied' = IF outcome = "no copy" THEN copied
                       ELSE [copied EXCEPT ![run] = @ \cup {NextToOffload}]
          /\ verified' = IF outcome = "verified"
                         THEN [verified EXCEPT ![run] = @ \cup {NextToOffload}] ELSE verified
          /\ IF ~CopyAccepted(outcome)
             THEN pc' = "stopDone" /\ error' = TRUE /\ toOffload' = {}
             ELSE /\ UNCHANGED error
                  /\ pc' = IF deleteAfterOffload THEN "delete" ELSE Offloaded
                  /\ toOffload' = IF deleteAfterOffload THEN toOffload
                                  ELSE toOffload \ {NextToOffload}
    BY DEF OffloadFile
  <1>5. /\ copied \in [Runs -> SUBSET Recordings] /\ verified \in [Runs -> SUBSET Recordings]
        /\ produced \in [Runs -> SUBSET Recordings] /\ toOffload \in SUBSET Recordings
    BY <1>1 DEF TypeOK
  <1>6. /\ copied' \in [Runs -> SUBSET Recordings] /\ verified' \in [Runs -> SUBSET Recordings]
        /\ \A r \in Runs \ {run} : copied'[r] = copied[r] /\ verified'[r] = verified[r]
        /\ copied'[run] \subseteq copied[run] \cup {NextToOffload}
        /\ verified'[run] = IF outcome = "verified" THEN verified[run] \cup {NextToOffload}
                            ELSE verified[run]
        /\ verified'[run] \subseteq verified[run] \cup {NextToOffload}
        /\ verified[run] \subseteq copied[run] => verified'[run] \subseteq copied'[run]
    BY <1>3, <1>4, <1>5
  <1>7. pc' \in {"stopDone", "delete", "copy"} /\ toOffload' \in SUBSET toOffload
    BY <1>4 DEF Offloaded
  <1>8. TypeOK'
    BY <1>1, <1>4, <1>5, <1>6, <1>7 DEF TypeOK, OffloadFile, deviceVars, runVars
  <1>9. RunsInOrder'
    BY <1>1, <1>2, <1>3, <1>6 DEF RunsInOrder, OffloadFile, deviceVars, runVars
  <1>10. FilesHaveOrigin'
    <2>1. UNCHANGED <<filesBefore, lastFile, produced>>
      BY DEF OffloadFile, deviceVars
    <2> SUFFICES ASSUME NEW r \in Runs
                 PROVE  /\ verified'[r] \subseteq copied'[r] /\ copied'[r] \subseteq produced[r]
                        /\ produced[r] \subseteq 1..lastFile
      BY <1>1, <2>1 DEF FilesHaveOrigin
    <2>2. /\ verified[r] \subseteq copied[r] /\ copied[r] \subseteq produced[r]
          /\ produced[r] \subseteq 1..lastFile
      BY <1>1 DEF FilesHaveOrigin
    <2>3. CASE r = run
      BY <2>2, <2>3, <1>3, <1>6
    <2>4. CASE r # run
      BY <2>2, <2>4, <1>6
    <2> QED
      BY <2>3, <2>4
  <1>11. DeviceMatchesPc' /\ RecordingIsMarked' /\ NeverTorn' /\ SnapshotIsOfThisRun'
    BY <1>1, <1>2, <1>7 DEF DeviceMatchesPc, RecordingIsMarked, NeverTorn, SnapshotIsOfThisRun,
                            OffloadAhead, OffloadFile, deviceVars
  <1>12. OffloadInProgress'
    <2>1. UNCHANGED <<recorderFiles, produced, run>>
      BY DEF OffloadFile, deviceVars, runVars
    <2>2. /\ toOffload # {} /\ toOffload \subseteq recorderFiles
          /\ produced[run] = verified[run] \cup toOffload
      BY <1>2 DEF OffloadInProgress
    <2>3. CASE ~CopyAccepted(outcome)
      BY <2>3, <1>4 DEF OffloadInProgress
    <2>4. CASE CopyAccepted(outcome) /\ deleteAfterOffload
      <3>1. pc' = "delete" /\ toOffload' = toOffload
            /\ verified'[run] = verified[run] \cup {NextToOffload}
        BY <2>4, <1>4, <1>6 DEF CopyAccepted
      <3>2. NextToOffload' = NextToOffload
        BY <3>1 DEF NextToOffload
      <3> QED
        BY <3>1, <3>2, <2>1, <2>2, <1>3 DEF OffloadInProgress
    <2>5. CASE CopyAccepted(outcome) /\ ~deleteAfterOffload
      <3>1. /\ pc' = Offloaded /\ toOffload' = toOffload \ {NextToOffload}
            /\ verified'[run] = verified[run] \cup {NextToOffload}
        BY <2>5, <1>4, <1>6 DEF CopyAccepted
      <3> QED
        BY <3>1, <2>1, <2>2, <1>3 DEF OffloadInProgress, Offloaded
    <2> QED
      BY <2>3, <2>4, <2>5
  <1> QED
    BY <1>8, <1>9, <1>10, <1>11, <1>12 DEF IInv

LEMMA DeleteSourceHolds == IInv /\ DeleteSource => IInv'
  <1> SUFFICES ASSUME IInv, DeleteSource PROVE IInv'
    OBVIOUS
  <1>1. TypeOK /\ RunsInOrder /\ FilesHaveOrigin /\ DeviceMatchesPc /\ RecordingIsMarked /\ NeverTorn
    BY DEF IInv
  <1>2. OffloadInProgress /\ pc = "delete"
    BY DEF IInv, DeleteSource
  <1>3. run \in Runs /\ NextToOffload \in toOffload
    BY <1>2, OffloadPass
  <1>4. pc' \in {"stopDone", "copy"} /\ recorderFiles' \subseteq recorderFiles
        /\ toOffload' \subseteq toOffload
    BY DEF DeleteSource, Offloaded
  <1>5. TypeOK'
    BY <1>1, <1>4 DEF TypeOK, DeleteSource, runVars, hostVars
  <1>6. RunsInOrder' /\ FilesHaveOrigin'
    BY <1>1, <1>3, <1>4 DEF RunsInOrder, FilesHaveOrigin, DeleteSource, runVars, hostVars, TypeOK
  <1>7. DeviceMatchesPc' /\ RecordingIsMarked' /\ NeverTorn' /\ SnapshotIsOfThisRun'
    BY <1>1, <1>2, <1>4 DEF DeviceMatchesPc, RecordingIsMarked, NeverTorn, SnapshotIsOfThisRun,
                            OffloadAhead, DeleteSource
  <1>8. OffloadInProgress'
    BY <1>2, <1>3 DEF OffloadInProgress, DeleteSource, Offloaded, runVars, hostVars
  <1> QED
    BY <1>5, <1>6, <1>7, <1>8 DEF IInv

LEMMA SessionContinuesHolds == IInv /\ SessionContinues => IInv'
  <1> SUFFICES ASSUME IInv, SessionContinues PROVE IInv'
    OBVIOUS
  <1>1. TypeOK /\ RunsInOrder /\ FilesHaveOrigin /\ DeviceMatchesPc /\ RecordingIsMarked /\ NeverTorn
    BY DEF IInv
  <1>2. run \in Runs
    BY <1>1, AdapterAssumption DEF TypeOK, RunsInOrder, SessionContinues
  <1>3. deferred' \in Seq(Runs)
    <2> HIDE DEF Runs
    <2>1. deferred \in Seq(Runs)
      BY <1>1 DEF TypeOK
    <2> QED
      BY <1>2, <2>1, AppendProperties DEF SessionContinues
  <1>4. TypeOK'
    BY <1>1, <1>3 DEF TypeOK, SessionContinues, deviceVars, hostVars
  <1>5. RunsInOrder' /\ FilesHaveOrigin'
    BY <1>1, <1>2 DEF RunsInOrder, FilesHaveOrigin, SessionContinues, deviceVars, hostVars, TypeOK
  <1>6. DeviceMatchesPc' /\ RecordingIsMarked' /\ NeverTorn' /\ SnapshotIsOfThisRun'
        /\ OffloadInProgress'
    BY <1>1 DEF DeviceMatchesPc, RecordingIsMarked, NeverTorn, SnapshotIsOfThisRun, OffloadAhead,
                OffloadInProgress, SessionContinues, deviceVars
  <1> QED
    BY <1>4, <1>5, <1>6 DEF IInv

LEMMA ExportRunHolds == IInv /\ ExportRun => IInv'
  <1> SUFFICES ASSUME IInv, ExportRun PROVE IInv'
    OBVIOUS
  <1>1. TypeOK /\ RunsInOrder /\ FilesHaveOrigin /\ DeviceMatchesPc /\ RecordingIsMarked /\ NeverTorn
    BY DEF IInv
  <1>2. Head(deferred) \in Runs /\ Tail(deferred) \in Seq(Runs)
    <2> HIDE DEF Runs
    <2>1. deferred \in Seq(Runs) /\ deferred # <<>>
      BY <1>1 DEF TypeOK, ExportRun
    <2> QED
      BY <2>1, HeadTailProperties
  <1>3. error' \in BOOLEAN /\ conversionError' \in BOOLEAN
    BY Zenon DEF ExportRun
  <1>4. processing' \in [Runs -> [status : {"none", "success", "failed"}, error : BOOLEAN]]
    <2>1. PICK s \in {"success", "failed"} :
            processing' = [processing EXCEPT ![Head(deferred)] =
                             [status |-> s, error |-> conversionError']]
      BY DEF ExportRun
    <2> QED
      BY <1>1, <1>2, <1>3, <2>1 DEF TypeOK
  <1>5. TypeOK'
    BY <1>1, <1>2, <1>3, <1>4 DEF TypeOK, ExportRun, deviceVars
  <1>6. RunsInOrder' /\ FilesHaveOrigin'
    BY <1>1 DEF RunsInOrder, FilesHaveOrigin, ExportRun, deviceVars, TypeOK
  <1>7. DeviceMatchesPc' /\ RecordingIsMarked' /\ NeverTorn' /\ SnapshotIsOfThisRun'
        /\ OffloadInProgress'
    BY <1>1 DEF DeviceMatchesPc, RecordingIsMarked, NeverTorn, SnapshotIsOfThisRun, OffloadAhead,
                OffloadInProgress, ExportRun, deviceVars
  <1> QED
    BY <1>5, <1>6, <1>7 DEF IInv

\* The recorder writes its files under fresh numbers.
LEMMA RecorderHolds == IInv /\ Recorder => IInv'
  <1> SUFFICES ASSUME IInv, Recorder PROVE IInv'
    OBVIOUS
  <1>1. TypeOK /\ RunsInOrder /\ FilesHaveOrigin /\ DeviceMatchesPc /\ RecordingIsMarked /\ NeverTorn
    BY DEF IInv
  <1>2. SnapshotIsOfThisRun /\ OffloadInProgress
    BY DEF IInv
  <1>3. CASE RecorderBegins \/ RecorderReachesLimit
    <2>1. TypeOK' /\ RunsInOrder' /\ FilesHaveOrigin'
      <3>1. /\ device' \in {"recording", "ended"}
            /\ UNCHANGED <<deleteAfterOffload, torn, recorderFiles, lastFile, pc, run, filesBefore,
                           needsStop, error, conversionError, toOffload, deferring, deferred,
                           copied, verified, processing, produced>>
        BY <1>3 DEF Recorder, RecorderBegins, RecorderReachesLimit, runVars, hostVars
      <3> QED
        BY <1>1, <3>1 DEF TypeOK, RunsInOrder, FilesHaveOrigin
    <2>2. DeviceMatchesPc' /\ RecordingIsMarked' /\ NeverTorn'
      BY <1>1, <1>3 DEF DeviceMatchesPc, RecordingIsMarked, NeverTorn, Recorder, RecorderBegins,
                        RecorderReachesLimit
    <2>3. SnapshotIsOfThisRun' /\ OffloadInProgress'
      BY <1>2, <1>3 DEF SnapshotIsOfThisRun, OffloadAhead, NewFiles, OffloadInProgress,
                        NextToOffload, Recorder, RecorderBegins, RecorderReachesLimit, runVars,
                        hostVars
    <2> QED
      BY <2>1, <2>2, <2>3 DEF IInv
  <1>4. CASE RecorderRemounts
    <2>1. PICK last \in {lastFile, lastFile + 1, lastFile + 2} \cap 0..MaxRecordings :
            /\ lastFile' = last
            /\ recorderFiles' = recorderFiles \cup ((lastFile + 1)..last)
            /\ produced' = [produced EXCEPT ![run] = @ \cup ((lastFile + 1)..last)]
      BY <1>4 DEF RecorderRemounts
    <2> DEFINE new == (lastFile + 1)..last
    <2>2. /\ device = "ended" /\ device' = "mounted" /\ torn' = torn
          /\ UNCHANGED <<deleteAfterOffload, pc, run, deferring, deferred, filesBefore, needsStop,
                         error, conversionError, toOffload, copied, verified, processing>>
      BY <1>4 DEF Recorder, RecorderRemounts, runVars, hostVars
    <2>3. run \in Runs /\ pc \notin {"idle", "copy", "delete"} /\ (pc = "stopDone" => error)
      BY <1>1, <2>2, AdapterAssumption DEF RunsInOrder, DeviceMatchesPc, TypeOK
    <2>4. /\ lastFile \in 0..MaxRecordings /\ last \in 0..MaxRecordings /\ lastFile <= last
          /\ new \in SUBSET Recordings /\ new \subseteq 1..last /\ 1..lastFile \subseteq 1..last
          /\ new \cap (1..lastFile) = {}
      BY <1>1, AdapterAssumption DEF TypeOK
    <2>5. /\ produced' \in [Runs -> SUBSET Recordings]
          /\ produced'[run] = produced[run] \cup new
          /\ \A r \in Runs \ {run} : produced'[r] = produced[r]
      BY <1>1, <2>1, <2>3, <2>4 DEF TypeOK
    <2>6. recorderFiles' = recorderFiles \cup new /\ lastFile' = last
      BY <2>1
    <2> HIDE DEF new
    <2>7. TypeOK'
      BY <1>1, <2>2, <2>4, <2>5, <2>6 DEF TypeOK
    <2>8. RunsInOrder'
      BY <1>1, <2>2, <2>3, <2>5 DEF RunsInOrder
    <2>9. FilesHaveOrigin'
      <3>1. filesBefore' \subseteq 1..lastFile'
        BY <1>1, <2>2, <2>4, <2>6 DEF FilesHaveOrigin
      <3>2. ASSUME NEW r \in Runs
            PROVE  /\ verified'[r] \subseteq copied'[r] /\ copied'[r] \subseteq produced'[r]
                   /\ produced'[r] \subseteq 1..lastFile'
        BY <1>1, <2>2, <2>4, <2>5, <2>6 DEF FilesHaveOrigin
      <3> QED
        BY <3>1, <3>2 DEF FilesHaveOrigin
    <2>10. DeviceMatchesPc' /\ RecordingIsMarked' /\ NeverTorn'
      BY <1>1, <2>2, <2>3 DEF DeviceMatchesPc, RecordingIsMarked, NeverTorn
    <2>11. SnapshotIsOfThisRun'
      <3> SUFFICES ASSUME OffloadAhead' PROVE NewFiles' = produced'[run] /\ verified[run] = {}
        BY <2>2 DEF SnapshotIsOfThisRun
      <3>1. NewFiles = produced[run] /\ verified[run] = {}
        BY <1>2, <2>2 DEF SnapshotIsOfThisRun, OffloadAhead
      <3>2. filesBefore \cap new = {}
        BY <1>1, <2>4 DEF FilesHaveOrigin
      <3> QED
        BY <3>1, <3>2, <2>2, <2>5, <2>6 DEF NewFiles
    <2>12. OffloadInProgress'
      BY <2>2, <2>3 DEF OffloadInProgress
    <2> QED
      BY <2>7, <2>8, <2>9, <2>10, <2>11, <2>12 DEF IInv
  <1> QED
    BY <1>3, <1>4 DEF Recorder

LEMMA StutterHolds == IInv /\ UNCHANGED vars => IInv'
  <1> SUFFICES ASSUME IInv, UNCHANGED vars PROVE IInv'
    OBVIOUS
  <1>1. /\ TypeOK /\ RunsInOrder /\ FilesHaveOrigin /\ DeviceMatchesPc /\ RecordingIsMarked
        /\ NeverTorn /\ SnapshotIsOfThisRun /\ OffloadInProgress
    BY DEF IInv
  <1>2. TypeOK' /\ RunsInOrder' /\ FilesHaveOrigin'
    BY <1>1 DEF vars, TypeOK, RunsInOrder, FilesHaveOrigin
  <1>3. DeviceMatchesPc' /\ RecordingIsMarked' /\ NeverTorn'
    BY <1>1 DEF vars, DeviceMatchesPc, RecordingIsMarked, NeverTorn
  <1>4. SnapshotIsOfThisRun' /\ OffloadInProgress'
    BY <1>1 DEF vars, SnapshotIsOfThisRun, OffloadAhead, NewFiles, OffloadInProgress, NextToOffload
  <1> QED
    BY <1>2, <1>3, <1>4 DEF IInv

LEMMA NextHolds == IInv /\ [Next]_vars => IInv'
  BY StartPreparesHolds, CleanUnmountHolds, SendRecStartHolds, AwaitBlockDisconnectHolds,
     SessionStopsHolds, SendStopHolds, AwaitMountedDeviceHolds, OffloadBeginsHolds,
     OffloadFileHolds, DeleteSourceHolds, SessionContinuesHolds, ExportRunHolds, RecorderHolds,
     StutterHolds
  DEF Next, Adapter, Terminated

LEMMA InvariantHolds == Spec => []IInv
  BY InitHolds, NextHolds, PTL DEF Spec

----------------------------------------------------------------------------
(* The theorems. *)

\* Type correctness: no run, file or deferred export outside the bounds.
THEOREM TypeCorrect == Spec => []TypeOK
  <1>1. IInv => TypeOK
    BY DEF IInv
  <1> QED
    BY <1>1, InvariantHolds, PTL

\* endaq.py:215: a recorder that may have taken RecStart is marked for
\* cleanup, whatever the start reported and wherever stop() gave up.
THEOREM StartedIsMarked == Spec => []RecordingIsMarked
  <1>1. IInv => RecordingIsMarked
    BY DEF IInv
  <1> QED
    BY <1>1, InvariantHolds, PTL

\* endaq.py:210-216: RecStart is never sent under a mounted filesystem.
THEOREM FilesystemNeverTorn == Spec => []NeverTorn
  <1>1. IInv => NeverTorn
    BY DEF IInv
  <1> QED
    BY <1>1, InvariantHolds, PTL

\* endaq.py:208 and 597-618: a stop without an error has verified exactly what
\* the recorder wrote in that run, and no run gets a file of another.
THEOREM OffloadExact == Spec => []OffloadIsExact
  <1>1. IInv => OffloadIsExact
    BY DEF IInv, OffloadInProgress, FilesHaveOrigin, OffloadIsExact
  <1> QED
    BY <1>1, InvariantHolds, PTL

\* What the host holds verified, as RecordingCustody sees it.
Held == UNION {verified[r] : r \in Runs}

\* endaq.py:610-626 implements RecordingCustody: the recorder forgets a
\* recording only when a verified copy of it is on the host.
THEOREM CustodyKept == Spec => KeepsCustody
  <1>1. Init => Custody!Init
    <2> SUFFICES ASSUME Init PROVE Custody!Init
      OBVIOUS
    <2>1. recorderFiles \in SUBSET Recordings
      BY AdapterAssumption DEF Init
    <2>2. Held = {}
      BY DEF Init, Held
    <2> QED
      BY <2>1, <2>2 DEF Custody!Init, Held
  <1>2. IInv /\ [Next]_vars => [Custody!Next]_(Custody!vars)
    <2> SUFFICES ASSUME IInv, [Next]_vars
                 PROVE  Custody!Next \/ UNCHANGED <<recorderFiles, Held>>
      BY DEF Custody!vars, Held
    <2>1. TypeOK /\ FilesHaveOrigin /\ OffloadInProgress
      BY DEF IInv
    <2>2. CASE UNCHANGED <<recorderFiles, verified>>
      BY <2>2 DEF Held
    <2>3. CASE Recorder /\ ~UNCHANGED recorderFiles
      <3>1. PICK last \in {lastFile, lastFile + 1, lastFile + 2} \cap 0..MaxRecordings :
              recorderFiles' = recorderFiles \cup ((lastFile + 1)..last)
        BY <2>3 DEF Recorder, RecorderBegins, RecorderReachesLimit, RecorderRemounts
      <3>2. verified' = verified
        BY <2>3 DEF Recorder, hostVars
      <3>3. recorderFiles \cup Held \subseteq 1..lastFile
        <4>1. \A r \in Runs : verified[r] \subseteq 1..lastFile
          BY <2>1 DEF FilesHaveOrigin
        <4>2. Held \subseteq 1..lastFile
          BY <4>1 DEF Held
        <4> QED
          BY <2>1, <4>2 DEF TypeOK
      <3>4. (lastFile + 1)..last \subseteq Recordings \ (1..lastFile)
        BY <2>1, AdapterAssumption DEF TypeOK
      <3>5. (lastFile + 1)..last \in SUBSET (Recordings \ (recorderFiles \cup Held))
        BY <3>3, <3>4
      <3>6. Custody!Record
        <4>1. \E new \in SUBSET (Recordings \ (recorderFiles \cup Held)) :
                recorderFiles' = recorderFiles \cup new
          BY <3>1, <3>5
        <4>2. Held' = Held
          BY <3>2 DEF Held
        <4> QED
          BY <4>1, <4>2 DEF Custody!Record, Held
      <3> QED
        BY <3>6 DEF Custody!Next
    <2>4. CASE OffloadFile /\ ~UNCHANGED verified
      <3>1. recorderFiles' = recorderFiles
            /\ verified' = [verified EXCEPT ![run] = @ \cup {NextToOffload}]
        BY <2>4 DEF OffloadFile, deviceVars
      <3>2. run \in Runs /\ NextToOffload \in recorderFiles
        BY <2>4, OffloadPass DEF OffloadFile
      <3>3. Held' = Held \cup {NextToOffload}
        BY <2>1, <3>1, <3>2 DEF Held, TypeOK
      <3>4. Custody!Secure
        BY <3>1, <3>2, <3>3 DEF Custody!Secure, Held
      <3> QED
        BY <3>4 DEF Custody!Next
    <2>5. CASE DeleteSource /\ ~UNCHANGED recorderFiles
      <3>1. recorderFiles' = recorderFiles \ {NextToOffload} /\ verified' = verified
        BY <2>5 DEF DeleteSource, hostVars
      <3>2. run \in Runs /\ NextToOffload \in recorderFiles /\ NextToOffload \in verified[run]
        BY <2>1, <2>5, OffloadPass DEF DeleteSource, OffloadInProgress
      <3>3. NextToOffload \in Held
        BY <3>2 DEF Held
      <3>4. Custody!Forget
        BY <3>1, <3>2, <3>3 DEF Custody!Forget, Held
      <3> QED
        BY <3>4 DEF Custody!Next
    <2>6. \/ UNCHANGED <<recorderFiles, verified>>
          \/ Recorder /\ ~UNCHANGED recorderFiles
          \/ OffloadFile /\ ~UNCHANGED verified
          \/ DeleteSource /\ ~UNCHANGED recorderFiles
      BY DEF Next, Adapter, StartPrepares, CleanUnmount, SendRecStart, AwaitBlockDisconnect,
             SessionStops, SendStop, AwaitMountedDevice, OffloadBegins, OffloadFile, DeleteSource,
             SessionContinues, ExportRun, Recorder, Terminated, vars, deviceVars, hostVars
    <2> QED
      BY <2>2, <2>3, <2>4, <2>5, <2>6
  <1> QED
    BY <1>1, <1>2, InvariantHolds, PTL DEF Spec, KeepsCustody, Custody!Spec

----------------------------------------------------------------------------
(* The refinement of AdapterContract. *)

\* What the error and the mark for cleanup say at each point of the calls.
CallState ==
    /\ pc \in {"unmount", "command", "disconnect", "started"} => ~error
    /\ pc = "startFailed" => error
    /\ pc \in {"disconnect", "started"} => needsStop
    /\ pc \in {"idle", "unmount", "command", "offload", "copy", "delete"} => ~needsStop
    /\ pc = "stopDone" /\ ~error => ~needsStop

LEMMA CallStateHolds == IInv /\ CallState /\ [Next]_vars => CallState'
  <1> SUFFICES ASSUME IInv, CallState, [Next]_vars PROVE CallState'
    OBVIOUS
  <1>1. CASE StartPrepares \/ CleanUnmount
    BY <1>1 DEF CallState, StartPrepares, CleanUnmount, UnmountChecked
  <1>2. CASE SendRecStart \/ AwaitBlockDisconnect
    BY <1>2 DEF CallState, SendRecStart, MarkedForStop, AwaitBlockDisconnect
  <1>3. CASE SessionStops \/ SendStop \/ AwaitMountedDevice
    BY <1>3 DEF CallState, SessionStops, SendStop, AwaitMountedDevice
  <1>4. CASE OffloadBegins \/ OffloadFile \/ DeleteSource
    BY <1>4 DEF CallState, OffloadBegins, OffloadFile, CopyAccepted, Offloaded, DeleteSource
  <1>5. CASE SessionContinues \/ ExportRun \/ Recorder \/ UNCHANGED vars
    BY <1>5 DEF CallState, SessionContinues, ExportRun, Recorder, vars
  <1> QED
    BY <1>1, <1>2, <1>3, <1>4, <1>5 DEF Next, Adapter, Terminated

LEMMA CallsHold == Spec => [](IInv /\ CallState)
  <1>1. Init => CallState
    BY DEF Init, CallState
  <1> QED
    BY <1>1, CallStateHolds, InvariantHolds, PTL DEF Spec

\* Whether the recorder records, or will, as AdapterContract sees it.
Recording == device \in {"commanded", "recording"}

\* endaq.py:198-280 implements AdapterContract: a start that fails leaves a
\* recorder that does not record or carries the mark for cleanup, and only a
\* recorder that is back as a disk loses the mark.
THEOREM ContractKept == Spec => KeepsContract
  <1>1. Init => Calls!Init
    BY DEF Init, Calls!Init, Phase
  <1>2. IInv /\ CallState /\ [Next]_vars => [Calls!Next]_(Calls!vars)
    <2> SUFFICES ASSUME IInv, CallState, [Next]_vars
                 PROVE  Calls!Next \/ UNCHANGED <<Phase, Recording, needsStop>>
      BY DEF Calls!vars, Recording
    <2>1. TypeOK /\ DeviceMatchesPc /\ RecordingIsMarked /\ RecordingIsMarked'
      BY NextHolds DEF IInv
    <2>2. Recording' \in BOOLEAN /\ Recording \in BOOLEAN /\ needsStop \in BOOLEAN
      BY <2>1 DEF Recording, TypeOK
    <2>3. Recording' => needsStop'
      BY <2>1 DEF Recording, RecordingIsMarked
    <2>4. CASE StartPrepares
      <3>1. /\ Phase = "rest" /\ ~Recording /\ needsStop' = FALSE
            /\ Phase' \in {"starting", "startFailed"}
        BY <2>1, <2>4 DEF StartPrepares, DeviceMatchesPc, Phase, Recording
      <3> QED
        BY <2>2, <2>3, <3>1 DEF Calls!Next, Calls!Start, Recording
    <2>5. CASE CleanUnmount
      <3>1. /\ Phase = "starting" /\ Phase' \in {"starting", "startFailed"}
            /\ Recording = FALSE /\ Recording' = FALSE
            /\ needsStop = FALSE /\ needsStop' = FALSE
        BY <2>1, <2>2, <2>5
        DEF CleanUnmount, UnmountChecked, DeviceMatchesPc, CallState, Phase, Recording
      <3> QED
        BY <3>1 DEF Calls!Next, Calls!StartReturns, Calls!StartFails, Recording
    <2>6. CASE SendRecStart \/ AwaitBlockDisconnect
      <3>1. /\ Phase = "starting" /\ Phase' \in {"starting", "started", "startFailed"}
            /\ needsStop' = TRUE
        BY <2>2, <2>6
        DEF SendRecStart, MarkedForStop, AwaitBlockDisconnect, CallState, Phase
      <3>2. CASE Phase' = "starting"
        BY <2>2, <3>1, <3>2 DEF Calls!Next, Calls!Command, Recording
      <3>3. CASE Phase' \in {"started", "startFailed"}
        BY <2>2, <3>1, <3>3
        DEF Calls!Next, Calls!StartReturns, Calls!StartSucceeds, Calls!StartFails, Recording
      <3> QED
        BY <3>1, <3>2, <3>3
    <2>7. CASE SessionStops
      <3>1. Recording' = Recording /\ needsStop' = needsStop
        BY <2>7 DEF SessionStops, deviceVars, Recording
      <3>2. \/ Phase = "started" /\ Phase' = "stopping"
            \/ Phase = "startFailed" /\ needsStop /\ Phase' = "cleaning"
            \/ Phase = "startFailed" /\ Phase' = "left"
        BY <2>7 DEF SessionStops, CallState, Phase
      <3> QED
        BY <3>1, <3>2 DEF Calls!Next, Calls!Stop, Calls!Leave, Recording
    <2>8. CASE SendStop
      <3>1. /\ Recording' = Recording \/ (Recording /\ Recording' = FALSE)
            /\ needsStop' = needsStop
        BY <2>2, <2>8 DEF SendStop, Recording
      <3>2. /\ Phase \in {"stopping", "cleaning"}
            /\ Phase' = Phase \/ Phase' = "stopFailed"
        BY <2>8 DEF SendStop, Phase
      <3> QED
        BY <2>2, <3>1, <3>2
        DEF Calls!Next, Calls!StopReturns, Calls!StopFails, Calls!RecorderEnds, Recording
    <2>9. CASE AwaitMountedDevice
      <3>1. /\ Recording' = Recording /\ Phase \in {"stopping", "cleaning"}
            /\ Recording' \in {Recording, FALSE}
        BY <2>9 DEF AwaitMountedDevice, deviceVars, Phase, Recording
      <3>2. \/ ~Recording /\ needsStop' = FALSE /\ Phase' = Phase
            \/ needsStop' = needsStop /\ Phase' = "stopFailed"
        BY <2>9 DEF AwaitMountedDevice, Phase, Recording
      <3>3. CASE ~Recording /\ needsStop' = FALSE /\ Phase' = Phase
        BY <3>1, <3>3 DEF Calls!Next, Calls!Clear, Recording
      <3>4. CASE needsStop' = needsStop /\ Phase' = "stopFailed"
        BY <3>1, <3>4 DEF Calls!Next, Calls!StopReturns, Calls!StopFails, Recording
      <3> QED
        BY <3>2, <3>3, <3>4
    <2>10. CASE OffloadBegins \/ OffloadFile \/ DeleteSource
      <3>1. /\ Recording = FALSE /\ Recording' = FALSE
            /\ needsStop = FALSE /\ needsStop' = FALSE
        BY <2>1, <2>2, <2>10
        DEF OffloadBegins, OffloadFile, DeleteSource, DeviceMatchesPc, CallState, deviceVars,
            Recording
      <3>2. CASE error
        <4>1. pc \in {"offload", "copy", "delete"} /\ pc' \in {"copy", "delete", "stopDone"}
          BY <2>10 DEF OffloadBegins, OffloadFile, DeleteSource, Offloaded
        <4>2. error'
          BY <2>10, <3>2 DEF OffloadBegins, OffloadFile, DeleteSource
        <4>3. Phase = "cleaning" /\ Phase' \in {"cleaning", "stopFailed"}
          BY <3>2, <4>1, <4>2 DEF Phase
        <4> QED
          BY <3>1, <4>3 DEF Calls!Next, Calls!StopReturns, Calls!StopFails, Recording
      <3>3. CASE ~error
        <4>1. pc \in {"offload", "copy", "delete"} /\ pc' \in {"copy", "delete", "stopDone"}
          BY <2>10 DEF OffloadBegins, OffloadFile, DeleteSource, Offloaded
        <4>2. ~error' \/ pc' = "stopDone"
          <5>1. CASE OffloadBegins
            BY <3>3, <5>1 DEF OffloadBegins
          <5>2. CASE OffloadFile \/ DeleteSource
            BY <3>3, <5>2 DEF OffloadFile, CopyAccepted, DeleteSource
          <5> QED
            BY <2>10, <5>1, <5>2
        <4>3. Phase = "stopping" /\ Phase' \in {"stopping", "stopped", "stopFailed"}
          BY <3>3, <4>1, <4>2 DEF Phase
        <4> QED
          BY <3>1, <4>3
          DEF Calls!Next, Calls!StopReturns, Calls!StopFails, Calls!StopSucceeds, Recording
      <3> QED
        BY <3>2, <3>3
    <2>11. CASE SessionContinues
      <3>1. Recording' = Recording /\ needsStop' = needsStop
        BY <2>11 DEF SessionContinues, deviceVars, Recording
      <3>2. \/ Phase = "stopped" /\ Phase' = "rest"
            \/ Phase \in {"stopped", "stopFailed"} /\ Phase' = "left"
        BY <2>11 DEF SessionContinues, Phase
      <3> QED
        BY <3>1, <3>2 DEF Calls!Next, Calls!Settle, Calls!Leave, Recording
    <2>12. CASE ExportRun \/ UNCHANGED vars
      BY <2>12 DEF ExportRun, deviceVars, vars, Phase, Recording
    <2>13. CASE Recorder
      <3>1. Phase' = Phase /\ needsStop' = needsStop
        BY <2>13 DEF Recorder, Phase
      <3>2. Recording' = Recording \/ (Recording /\ Recording' = FALSE)
        BY <2>2, <2>13
        DEF Recorder, RecorderBegins, RecorderReachesLimit, RecorderRemounts, Recording
      <3> QED
        BY <3>1, <3>2 DEF Calls!Next, Calls!RecorderEnds, Recording
    <2> QED
      BY <2>4, <2>5, <2>6, <2>7, <2>8, <2>9, <2>10, <2>11, <2>12, <2>13
      DEF Next, Adapter, Terminated
  <1> QED
    BY <1>1, <1>2, CallsHold, PTL DEF Spec, KeepsContract, Calls!Spec

=============================================================================

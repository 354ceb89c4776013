------------------------- MODULE SessionRunsProofs -------------------------
(***************************************************************************)
(* What the runs of a session say about interrupts, missing sensors,        *)
(* deferred exports and recorders left behind, for every bound: the         *)
(* invariants of Session that SessionProofs does not need for its own.  And *)
(* what the session and its adapters owe each other: the refinement of      *)
(* AdapterContract.                                                         *)
(***************************************************************************)
EXTENDS SessionProofs

----------------------------------------------------------------------------
(* The invariant, beside IInv. *)

\* After Ctrl+C the main thread is on its way out: where the join remembered
\* it, the flag decides; where the window was open, the local does.
InterruptHeeded ==
    sigints > 0 =>
        /\ pc \notin {"preflight", "schedule", "begin", "armed", "measuring"}
        /\ pc = "starting" => interruptRequested
        /\ pc \in {"stopReq", "stopping", "processing"} => interrupted \/ interruptRequested
        /\ pc = "append" => current.status \in {"failed", "interrupted"}
        /\ pc = "recorded" => runs[Len(runs)].status \in {"failed", "interrupted"}

\* A sensor that failed preflight is tolerated from there on, and some sensor
\* is left.
Tolerated ==
    /\ pc = "preflight" => runs = <<>>
    /\ pc \in {"schedule", "recorded"} \cup InRunPoints =>
         active # {} /\ (active = config.enabled \/ config.allowPartial)

\* Only what started is asked to stop at the end of a window, so that a run
\* whose stops are all good has all its starts too, and is no partial one.
StopsMatchStarts ==
    /\ pc \in {"armed", "measuring", "stopReq", "stopping", "processing"} =>
         Started(current) \subseteq active
    /\ pc = "stopping" => \A f \in Families : call[f] # "none" => current.start[f] = "ok"
    /\ pc = "processing" => \A f \in Families : current.stop[f] = "ok" => current.start[f] = "ok"
    /\ pc = "append" => current.status # "partial"
    /\ pc = "append" /\ current.status = "success" => Started(current) \subseteq active

\* The series goes on after a usable run only.
SeriesGoesOn ==
    pc \in {"preflight", "schedule"} \cup InRunPoints =>
      \A i \in DOMAIN runs : Usable(runs[i])

\* A record that awaits its export is in the list of deferred runs.
AwaitsExport(r) == r.processing["endaq"] = "deferred" \/ r.summary = "deferred"
InList(n) == \E k \in 1..Len(deferred) : deferred[k] = n
DeferredListed ==
    /\ \A i \in DOMAIN runs : AwaitsExport(runs[i]) => InList(i)
    /\ pc \in InRunPoints \ {"begin", "append"} => ~AwaitsExport(current)
    /\ pc = "append" /\ AwaitsExport(current) => InList(RunNumber)

\* A series that ends as complete has emptied that list.
ListEmptied ==
    goal \in {"success", "partial"} =>
        /\ pc \in {"drain", "drained", "finish", "done"}
        /\ pc \in {"finish", "done"} => deferred = <<>>

\* Why a recorder may record at each point of a run.
Refused(r, f) == r.start[f] = "error" /\ r.stop[f] = "none" /\ config.allowPartial
DevicesExplained ==
    /\ pc = "starting" => \A f \in Families : dev[f] = "recording" =>
         call[f] = "ok" \/ (call[f] = "error" /\ needsStop[f])
    /\ pc = "cleanup" => \A f \in Families : dev[f] = "recording" => call[f] # "none"
    /\ pc \in {"armed", "measuring", "stopReq"} => \A f \in Families :
         dev[f] = "recording" => current.start[f] = "ok" \/ Refused(current, f)
    /\ pc = "stopping" => \A f \in Families :
         dev[f] = "recording" => call[f] # "none" \/ Refused(current, f)
    /\ pc \in {"processing", "append"} => \A f \in Families :
         dev[f] = "recording" => current.stop[f] = "error" \/ Refused(current, f)

\* Outside a run nothing is in flight, and a recorder that records is
\* explained by a run of the manifest.
RunExplains(f) ==
    \E i \in DOMAIN runs : runs[i].stop[f] = "error" \/ Refused(runs[i], f)
LeftExplained ==
    /\ pc \in InRunPoints \ {"begin"} => current.status # "none"
    /\ current = NoRun => \A f \in Families :
         /\ call[f] \notin {"start", "stop"}
         /\ dev[f] = "recording" => RunExplains(f)

JInv ==
    /\ InterruptHeeded
    /\ Tolerated
    /\ StopsMatchStarts
    /\ SeriesGoesOn
    /\ UsableRunsAreWhole
    /\ DeferredListed
    /\ ListEmptied
    /\ DevicesExplained
    /\ LeftExplained

----------------------------------------------------------------------------
(* Every step keeps the invariant. *)

\* What a record that joins the manifest, and one that is exported, leave alone.
LEMMA RunsAppended ==
  ASSUME TypeOK, NEW r \in RunRecords, runs' = Append(runs, r)
  PROVE  /\ DOMAIN runs' = DOMAIN runs \cup {RunNumber}
         /\ \A i \in DOMAIN runs : runs'[i] = runs[i] /\ i # RunNumber
         /\ runs'[RunNumber] = r
  BY AppendProperties DEF TypeOK, RunNumber

LEMMA RunsDrained ==
  ASSUME TypeOK, DrainOne
  PROVE  /\ DOMAIN runs' = DOMAIN runs
         /\ \A i \in DOMAIN runs : /\ runs'[i].status = runs[i].status
                                   /\ runs'[i].start = runs[i].start
                                   /\ runs'[i].stop = runs[i].stop
  BY DrainedRuns DEF TypeOK

\* The flag or the local that Ctrl+C sets decides the status of the run.
LEMMA InterruptHeededStep ==
  ASSUME IInv, JInv, Next, TypeOK'
  PROVE  InterruptHeeded'
  <1> USE DEF IInv, JInv
  <1>1. CASE PreflightAborts \/ PreflightPasses \/ RunIsDue \/ MissedStartAborts \/
     SeriesEnds
    BY <1>1 DEF PreflightAborts, PreflightPasses, RunIsDue, MissedStartAborts, SeriesEnds,
       InterruptHeeded, TypeOK, manifestVars, adapterVars, budgets, Persist, Dispatch,
       Uniform, Escape, CloseWindow, Over, JoinPoints, WritePoints
  <1>2. CASE BeginRun
    BY <1>2 DEF BeginRun, InterruptHeeded, TypeOK, manifestVars, adapterVars, budgets,
       Persist, Dispatch, Uniform, Escape, CloseWindow, Over, JoinPoints, WritePoints
  <1>3. CASE CollectStarts
    <2>1. pc' \in {"cleanup", "append", "armed"}
      BY <1>3 DEF CollectStarts
    <2>2. interruptRequested => pc' = "cleanup"
      BY <1>3 DEF CollectStarts
    <2>3. pc' = "append" => current'.status \in {"failed", "interrupted"}
      BY <1>3, StartedRecord
    <2>4. pc = "starting" /\ sigints' = sigints
      BY <1>3 DEF CollectStarts, budgets
    <2> QED
      BY <2>1, <2>2, <2>3, <2>4 DEF InterruptHeeded
  <1>4. CASE CollectCleanup
    <2>1. current'.status = current.status
      BY <1>4, CollectedRecords DEF CollectCleanup
    <2>2. current.status \in {"failed", "interrupted"} /\ pc' = "append"
      BY <1>4 DEF CollectCleanup, CurrentHonest
    <2> QED
      BY <2>1, <2>2 DEF InterruptHeeded
  <1>5. CASE OpenWindow \/ DurationElapses \/ RequestStop
    BY <1>5 DEF OpenWindow, DurationElapses, RequestStop, InterruptHeeded, TypeOK,
       manifestVars, adapterVars, budgets, Persist, Dispatch, Uniform, Escape, CloseWindow,
       Over, JoinPoints, WritePoints
  <1>6. CASE CollectStops
    BY <1>6 DEF CollectStops, InterruptHeeded, TypeOK, manifestVars, adapterVars, budgets,
       Persist, Dispatch, Uniform, Escape, CloseWindow, Over, JoinPoints, WritePoints
  <1>7. CASE Process
    <2>1. current'.status = RunStatus /\ pc = "processing" /\ pc' = "append" /\ sigints' = sigints
      BY <1>7, ProcessedRecord DEF Process, budgets
    <2>2. sigints > 0 => RunStatus = "interrupted"
      BY <2>1 DEF InterruptHeeded, RunStatus
    <2> QED
      BY <2>1, <2>2 DEF InterruptHeeded
  <1>8. CASE AppendRun
    <2>1. runs'[Len(runs')] = Downgraded(current)
      BY <1>8, AppendedRecord
    <2>2. pc = "append" /\ pc' = "recorded" /\ sigints' = sigints
      BY <1>8 DEF AppendRun, budgets
    <2>3. current.status # "success" => Downgraded(current).status = current.status
      BY <1>8, AppendedRecord
    <2> QED
      BY <2>1, <2>2, <2>3 DEF InterruptHeeded
  <1>9. CASE RunRecorded \/ DrainWritten \/ DrainEnds \/ Finish
    BY <1>9 DEF RunRecorded, DrainWritten, DrainEnds, Finish, InterruptHeeded, TypeOK,
       manifestVars, adapterVars, budgets, Persist, Dispatch, Uniform, Escape, CloseWindow,
       Over, JoinPoints, WritePoints
  <1>10. CASE DrainOne
    BY <1>10 DEF DrainOne, InterruptHeeded, TypeOK, manifestVars, adapterVars, budgets,
       Persist, Dispatch, Uniform, Escape, CloseWindow, Over, JoinPoints, WritePoints
  <1>11. CASE OperatorPressesEnter \/ InputCloses \/ InterruptAbsorbed \/
     InterruptMeasuring \/ InterruptEscapes \/ WriteFault
    BY <1>11 DEF OperatorPressesEnter, InputCloses, InterruptAbsorbed, InterruptMeasuring,
       InterruptEscapes, WriteFault, InterruptHeeded, TypeOK, manifestVars, adapterVars,
       budgets, Persist, Dispatch, Uniform, Escape, CloseWindow, Over, JoinPoints,
       WritePoints
  <1>12. ASSUME NEW f \in Families, AdapterStep(f) PROVE InterruptHeeded'
    BY <1>12 DEF AdapterStep, StartReturns, StopReturns, Return, InterruptHeeded, TypeOK,
       manifestVars, adapterVars, budgets, Persist, Dispatch, Uniform, Escape, CloseWindow,
       Over, JoinPoints, WritePoints
  <1>13. ASSUME NEW f \in Families, DeviceEnds(f) PROVE InterruptHeeded'
    BY <1>13 DEF DeviceEnds, InterruptHeeded, TypeOK, manifestVars, adapterVars, budgets,
       Persist, Dispatch, Uniform, Escape, CloseWindow, Over, JoinPoints, WritePoints
  <1> QED
    BY <1>1, <1>2, <1>3, <1>4, <1>5, <1>6, <1>7, <1>8, <1>9, <1>10, <1>11, <1>12, <1>13 DEF
       InterruptHeeded, TypeOK, Next, MainStep, OperatorStep, AdapterStep, Terminated,
       SeriesBoundReached, vars

\* A sensor missing from the series was tolerated before it began.
LEMMA ToleratedStep ==
  ASSUME IInv, JInv, Next, TypeOK'
  PROVE  Tolerated'
  <1> USE DEF IInv, JInv
  <1>1. CASE PreflightAborts \/ PreflightPasses \/ RunIsDue \/ MissedStartAborts \/
     SeriesEnds
    BY <1>1 DEF PreflightAborts, PreflightPasses, RunIsDue, MissedStartAborts, SeriesEnds,
       Tolerated, InRunPoints, TypeOK, manifestVars, adapterVars, budgets, Persist,
       Dispatch, Uniform, Escape, CloseWindow, Over, JoinPoints, WritePoints
  <1>2. CASE BeginRun
    BY <1>2 DEF BeginRun, Tolerated, InRunPoints, TypeOK, manifestVars, adapterVars,
       budgets, Persist, Dispatch, Uniform, Escape, CloseWindow, Over, JoinPoints,
       WritePoints
  <1>3. CASE CollectStarts
    <2>1. pc = "starting" /\ pc' \in {"cleanup", "append", "armed"}
      BY <1>3 DEF CollectStarts
    <2>2. config' = config /\ active' = active
      BY <1>3 DEF CollectStarts
    <2> QED
      BY <2>1, <2>2 DEF Tolerated, InRunPoints
  <1>4. CASE CollectCleanup
    BY <1>4 DEF CollectCleanup, Tolerated, InRunPoints, TypeOK, manifestVars, adapterVars,
       budgets, Persist, Dispatch, Uniform, Escape, CloseWindow, Over, JoinPoints,
       WritePoints
  <1>5. CASE OpenWindow \/ DurationElapses \/ RequestStop
    BY <1>5 DEF OpenWindow, DurationElapses, RequestStop, Tolerated, InRunPoints, TypeOK,
       manifestVars, adapterVars, budgets, Persist, Dispatch, Uniform, Escape, CloseWindow,
       Over, JoinPoints, WritePoints
  <1>6. CASE CollectStops
    BY <1>6 DEF CollectStops, Tolerated, InRunPoints, TypeOK, manifestVars, adapterVars,
       budgets, Persist, Dispatch, Uniform, Escape, CloseWindow, Over, JoinPoints,
       WritePoints
  <1>7. CASE Process
    BY <1>7 DEF Process, Tolerated, InRunPoints, TypeOK, manifestVars, adapterVars, budgets,
       Persist, Dispatch, Uniform, Escape, CloseWindow, Over, JoinPoints, WritePoints
  <1>8. CASE AppendRun
    BY <1>8, AppendProperties DEF AppendRun, Tolerated, InRunPoints, TypeOK, manifestVars,
       adapterVars, budgets, Persist, Dispatch, Uniform, Escape, CloseWindow, Over,
       JoinPoints, WritePoints
  <1>9. CASE RunRecorded \/ DrainWritten \/ DrainEnds \/ Finish
    BY <1>9 DEF RunRecorded, DrainWritten, DrainEnds, Finish, Tolerated, InRunPoints,
       TypeOK, manifestVars, adapterVars, budgets, Persist, Dispatch, Uniform, Escape,
       CloseWindow, Over, JoinPoints, WritePoints
  <1>10. CASE DrainOne
    BY <1>10, DrainedRuns DEF DrainOne, Tolerated, InRunPoints, TypeOK, manifestVars,
       adapterVars, budgets, Persist, Dispatch, Uniform, Escape, CloseWindow, Over,
       JoinPoints, WritePoints
  <1>11. CASE OperatorPressesEnter \/ InputCloses \/ InterruptAbsorbed \/
     InterruptMeasuring \/ InterruptEscapes \/ WriteFault
    BY <1>11 DEF OperatorPressesEnter, InputCloses, InterruptAbsorbed, InterruptMeasuring,
       InterruptEscapes, WriteFault, Tolerated, InRunPoints, TypeOK, manifestVars,
       adapterVars, budgets, Persist, Dispatch, Uniform, Escape, CloseWindow, Over,
       JoinPoints, WritePoints
  <1>12. ASSUME NEW f \in Families, AdapterStep(f) PROVE Tolerated'
    BY <1>12 DEF AdapterStep, StartReturns, StopReturns, Return, Tolerated, InRunPoints,
       TypeOK, manifestVars, adapterVars, budgets, Persist, Dispatch, Uniform, Escape,
       CloseWindow, Over, JoinPoints, WritePoints
  <1>13. ASSUME NEW f \in Families, DeviceEnds(f) PROVE Tolerated'
    BY <1>13 DEF DeviceEnds, Tolerated, InRunPoints, TypeOK, manifestVars, adapterVars,
       budgets, Persist, Dispatch, Uniform, Escape, CloseWindow, Over, JoinPoints,
       WritePoints
  <1> QED
    BY <1>1, <1>2, <1>3, <1>4, <1>5, <1>6, <1>7, <1>8, <1>9, <1>10, <1>11, <1>12, <1>13 DEF
       Tolerated, InRunPoints, TypeOK, Next, MainStep, OperatorStep, AdapterStep,
       Terminated, SeriesBoundReached, vars

\* The stops of a window go to what started, and only to that.
LEMMA StopsMatchStartsStep ==
  ASSUME IInv, JInv, Next, TypeOK'
  PROVE  StopsMatchStarts'
  <1> USE DEF IInv, JInv
  <1>1. CASE PreflightAborts \/ PreflightPasses \/ RunIsDue \/ MissedStartAborts \/
     SeriesEnds
    BY <1>1 DEF PreflightAborts, PreflightPasses, RunIsDue, MissedStartAborts, SeriesEnds,
       StopsMatchStarts, Started, CallsMatchPc, QuietPoints, TypeOK, manifestVars,
       adapterVars, budgets, Persist, Dispatch, Uniform, Escape, CloseWindow, Over,
       JoinPoints, WritePoints
  <1>2. CASE BeginRun
    BY <1>2 DEF BeginRun, StopsMatchStarts, Started, CallsMatchPc, QuietPoints, TypeOK,
       manifestVars, adapterVars, budgets, Persist, Dispatch, Uniform, Escape, CloseWindow,
       Over, JoinPoints, WritePoints
  <1>3. CASE CollectStarts
    <2>1. pc' \in {"cleanup", "append", "armed"} /\ active' = active
      BY <1>3 DEF CollectStarts
    <2>2. pc' = "append" => current'.status \in {"failed", "interrupted"}
      BY <1>3, StartedRecord
    <2>3. pc' = "armed" => current' = StartsCollected
      BY <1>3 DEF CollectStarts
    <2>4. Started(StartsCollected) \subseteq active
      BY ActiveAreFamilies DEF Started, StartsCollected, TypeOK, RunRecords
    <2> QED
      BY <2>1, <2>2, <2>3, <2>4 DEF StopsMatchStarts
  <1>4. CASE CollectCleanup
    <2>1. current'.status = current.status
      BY <1>4, CollectedRecords DEF CollectCleanup
    <2>2. current.status \in {"failed", "interrupted"} /\ pc' = "append"
      BY <1>4 DEF CollectCleanup, CurrentHonest
    <2> QED
      BY <2>1, <2>2 DEF StopsMatchStarts
  <1>5. CASE OpenWindow \/ DurationElapses \/ RequestStop
    <2>1. current'.start = current.start /\ active' = active
      <3>1. current \in RunRecords
        BY DEF TypeOK
      <3>2. CASE OpenWindow
        BY <3>1, <3>2 DEF OpenWindow, RunRecords
      <3>3. CASE DurationElapses \/ RequestStop
        BY <3>3 DEF DurationElapses, RequestStop, CloseWindow
      <3> QED
        BY <1>5, <3>2, <3>3
    <2>2. Started(current') = Started(current)
      BY <2>1 DEF Started
    <2>3. CASE OpenWindow \/ DurationElapses
      BY <2>1, <2>2, <2>3 DEF OpenWindow, DurationElapses, CloseWindow, StopsMatchStarts
    <2>4. CASE RequestStop
      BY <2>1, <2>2, <2>4 DEF RequestStop, Dispatch, Started, StopsMatchStarts
    <2> QED
      BY <1>5, <2>3, <2>4
  <1>6. CASE CollectStops
    <2>1. /\ current'.start = current.start
          /\ \A f \in Families : current'.stop[f] =
               IF call[f] = "none" THEN current.stop[f] ELSE call[f]
      BY <1>6, CollectedRecords DEF CollectStops
    <2>2. \A f \in Families : current.stop[f] = "none"
      BY <1>6 DEF CollectStops, CurrentHonest
    <2>3. pc = "stopping" /\ pc' = "processing" /\ active' = active
      BY <1>6 DEF CollectStops
    <2>4. Started(current') = Started(current)
      BY <2>1 DEF Started
    <2> QED
      BY <2>1, <2>2, <2>3, <2>4 DEF StopsMatchStarts
  <1>7. CASE Process
    <2>1. current'.status = RunStatus /\ pc = "processing" /\ pc' = "append"
      BY <1>7, ProcessedRecord DEF Process
    <2>2. ~StopFailed(current) => active = Started(current)
      BY <2>1, ActiveAreFamilies DEF StopFailed, Started, StopsMatchStarts, CurrentHonest
    <2>3. RunStatus # "partial"
      BY <2>2 DEF RunStatus, SensorStatus
    <2>4. active' = active
      BY <1>7 DEF Process
    <2>5. current'.start = current.start
      BY <1>7, ProcessedRecord
    <2>6. Started(current) \subseteq active
      BY <2>1 DEF StopsMatchStarts
    <2>7. Started(current') = Started(current)
      BY <2>5 DEF Started
    <2> QED
      BY <2>1, <2>3, <2>4, <2>6, <2>7 DEF StopsMatchStarts
  <1>8. CASE AppendRun
    BY <1>8 DEF AppendRun, StopsMatchStarts, Started, CallsMatchPc, QuietPoints, TypeOK,
       manifestVars, adapterVars, budgets, Persist, Dispatch, Uniform, Escape, CloseWindow,
       Over, JoinPoints, WritePoints
  <1>9. CASE RunRecorded \/ DrainWritten \/ DrainEnds \/ Finish
    BY <1>9 DEF RunRecorded, DrainWritten, DrainEnds, Finish, StopsMatchStarts, Started,
       CallsMatchPc, QuietPoints, TypeOK, manifestVars, adapterVars, budgets, Persist,
       Dispatch, Uniform, Escape, CloseWindow, Over, JoinPoints, WritePoints
  <1>10. CASE DrainOne
    BY <1>10 DEF DrainOne, StopsMatchStarts, Started, CallsMatchPc, QuietPoints, TypeOK,
       manifestVars, adapterVars, budgets, Persist, Dispatch, Uniform, Escape, CloseWindow,
       Over, JoinPoints, WritePoints
  <1>11. CASE OperatorPressesEnter \/ InputCloses \/ InterruptAbsorbed \/
     InterruptMeasuring \/ InterruptEscapes \/ WriteFault
    BY <1>11 DEF OperatorPressesEnter, InputCloses, InterruptAbsorbed, InterruptMeasuring,
       InterruptEscapes, WriteFault, StopsMatchStarts, Started, CallsMatchPc, QuietPoints,
       TypeOK, manifestVars, adapterVars, budgets, Persist, Dispatch, Uniform, Escape,
       CloseWindow, Over, JoinPoints, WritePoints
  <1>12. ASSUME NEW f \in Families, AdapterStep(f) PROVE StopsMatchStarts'
    BY <1>12 DEF AdapterStep, StartReturns, StopReturns, Return, StopsMatchStarts, Started,
       CallsMatchPc, QuietPoints, TypeOK, manifestVars, adapterVars, budgets, Persist,
       Dispatch, Uniform, Escape, CloseWindow, Over, JoinPoints, WritePoints
  <1>13. ASSUME NEW f \in Families, DeviceEnds(f) PROVE StopsMatchStarts'
    BY <1>13 DEF DeviceEnds, StopsMatchStarts, Started, CallsMatchPc, QuietPoints, TypeOK,
       manifestVars, adapterVars, budgets, Persist, Dispatch, Uniform, Escape, CloseWindow,
       Over, JoinPoints, WritePoints
  <1> QED
    BY <1>1, <1>2, <1>3, <1>4, <1>5, <1>6, <1>7, <1>8, <1>9, <1>10, <1>11, <1>12, <1>13 DEF
       StopsMatchStarts, Started, CallsMatchPc, QuietPoints, TypeOK, Next, MainStep,
       OperatorStep, AdapterStep, Terminated, SeriesBoundReached, vars

\* The runs of the manifest change when one is appended and when one is
\* exported, and in no other step.
LEMMA RunsKept ==
  ASSUME Next
  PROVE  /\ config' = config
         /\ MissedStartAborts \/ AppendRun \/ DrainOne \/ runs' = runs
  BY DEF Next, MainStep, OperatorStep, AdapterStep, Terminated, SeriesBoundReached,
     PreflightAborts, PreflightPasses, RunIsDue, MissedStartAborts, SeriesEnds, BeginRun,
     CollectStarts, CollectCleanup, OpenWindow, DurationElapses, RequestStop, CollectStops,
     Process, AppendRun, RunRecorded, DrainOne, DrainWritten, DrainEnds, Finish,
     OperatorPressesEnter, InputCloses, InterruptAbsorbed, InterruptMeasuring,
     InterruptEscapes, WriteFault, StartReturns, StopReturns, Return, DeviceEnds, CloseWindow,
     Escape, manifestVars, vars

\* A record that joins the manifest as usable is whole.
LEMMA AppendedIsWhole ==
  ASSUME IInv, JInv, AppendRun, Usable(Downgraded(current))
  PROVE  Whole(Downgraded(current))
  <1> DEFINE r == Downgraded(current)
  <1>1. /\ r.start = current.start /\ r.stop = current.stop
        /\ r.status \in {current.status, "partial"}
        /\ r.status # current.status => current.status = "success"
        /\ r.status = "success" => active = config.enabled
    BY AppendedRecord DEF IInv
  <1>2. pc = "append"
    BY DEF AppendRun
  <1>3. current.status = "success"
    BY <1>1, <1>2 DEF JInv, StopsMatchStarts, Usable
  <1>4. /\ Started(r) = active
        /\ \A f \in active : r.stop[f] = "ok"
    BY <1>1, <1>2, <1>3, ActiveAreFamilies DEF IInv, JInv, CurrentHonest, StopsMatchStarts, Started
  <1>5. active # {} /\ (active = config.enabled \/ config.allowPartial)
    BY <1>2 DEF JInv, Tolerated, InRunPoints
  <1>6. r.status = "partial" => active # config.enabled
    BY <1>3 DEF Downgraded
  <1>7. r.status = "success" \/ r.status = "partial"
    BY DEF Usable
  <1> QED
    BY <1>1, <1>4, <1>5, <1>6, <1>7 DEF Whole

LEMMA SeriesGoesOnStep ==
  ASSUME IInv, JInv, Next, TypeOK'
  PROVE  SeriesGoesOn'
  <1>1. CASE PreflightPasses \/ RunIsDue \/ BeginRun \/ CollectStarts \/ CollectCleanup
             \/ OpenWindow \/ DurationElapses \/ RequestStop \/ CollectStops \/ Process
             \/ OperatorPressesEnter \/ InputCloses \/ InterruptAbsorbed
             \/ InterruptMeasuring \/ UNCHANGED <<pc, runs>>
    <2>1. runs' = runs
      BY <1>1 DEF PreflightPasses, RunIsDue, BeginRun, CollectStarts, CollectCleanup,
         OpenWindow, DurationElapses, RequestStop, CollectStops, Process,
         OperatorPressesEnter, InputCloses, InterruptAbsorbed, InterruptMeasuring, CloseWindow,
         manifestVars
    <2>2. pc \in {"preflight", "schedule"} \cup InRunPoints \/ pc' = pc
      BY <1>1 DEF PreflightPasses, RunIsDue, BeginRun, CollectStarts, CollectCleanup,
         OpenWindow, DurationElapses, RequestStop, CollectStops, Process,
         OperatorPressesEnter, InputCloses, InterruptAbsorbed, InterruptMeasuring, CloseWindow,
         InRunPoints
    <2> QED
      BY <2>1, <2>2 DEF JInv, SeriesGoesOn
  <1>2. CASE RunRecorded
    <2>1. /\ runs' = runs /\ runs # <<>> /\ pc = "recorded"
          /\ pc' \in {"drain", "finish", "schedule"}
          /\ pc' = "schedule" => runs[Len(runs)].status \notin {"failed", "interrupted"}
      BY <1>2 DEF RunRecorded, manifestVars, IInv, DevicesKnown
    <2>2. pc' = "schedule" => Usable(runs[Len(runs)])
      BY <2>1 DEF IInv, DevicesKnown, Usable
    <2> QED
      BY <2>1, <2>2 DEF JInv, UsableRunsAreWhole, SeriesGoesOn, InRunPoints
  <1>3. CASE pc' \notin {"preflight", "schedule"} \cup InRunPoints
    BY <1>3 DEF SeriesGoesOn
  <1>4. \/ PreflightAborts \/ MissedStartAborts \/ SeriesEnds \/ AppendRun \/ DrainOne
        \/ DrainWritten \/ DrainEnds \/ Finish \/ InterruptEscapes \/ WriteFault
        => pc' \notin {"preflight", "schedule"} \cup InRunPoints
    BY DEF PreflightAborts, MissedStartAborts, SeriesEnds, AppendRun, DrainOne, DrainWritten,
       DrainEnds, Finish, InterruptEscapes, WriteFault, Escape, InRunPoints
  <1>5. (\E f \in Families : AdapterStep(f) \/ DeviceEnds(f)) \/ Terminated \/ SeriesBoundReached
        => UNCHANGED <<pc, runs>>
    BY DEF AdapterStep, StartReturns, StopReturns, Return, DeviceEnds, Terminated,
       SeriesBoundReached, manifestVars, vars
  <1> QED
    BY <1>1, <1>2, <1>3, <1>4, <1>5 DEF Next, MainStep, OperatorStep

\* A record joins the manifest after usable ones, and is whole if it is usable.
LEMMA UsableRunsAreWholeStep ==
  ASSUME IInv, JInv, Next, TypeOK'
  PROVE  UsableRunsAreWhole'
  <1>1. config' = config
    BY RunsKept
  <1>2. ASSUME NEW r \in RunRecords, runs' = Append(runs, r), Usable(r) => Whole(r),
               \A i \in DOMAIN runs : Usable(runs[i])
        PROVE  UsableRunsAreWhole'
    <2>1. /\ DOMAIN runs' = DOMAIN runs \cup {RunNumber}
          /\ \A i \in DOMAIN runs : runs'[i] = runs[i]
          /\ runs'[RunNumber] = r
      BY <1>2, RunsAppended DEF IInv
    <2>2. Len(runs') = RunNumber
      BY <1>2, AppendProperties DEF IInv, TypeOK, RunNumber
    <2> QED
      BY <1>1, <1>2, <2>1, <2>2 DEF JInv, UsableRunsAreWhole, Whole, Usable, Started
  <1>3. CASE MissedStartAborts
    <2>1. runs' = Append(runs, FreshRun("aborted")) /\ pc = "schedule"
      BY <1>3 DEF MissedStartAborts
    <2>2. FreshRun("aborted") \in RunRecords /\ ~Usable(FreshRun("aborted"))
      BY FreshRunType DEF FreshRun, RunStatusNames, Usable
    <2> QED
      BY <1>2, <2>1, <2>2 DEF JInv, SeriesGoesOn
  <1>4. CASE AppendRun
    <2>1. runs' = Append(runs, Downgraded(current)) /\ pc = "append"
      BY <1>4 DEF AppendRun
    <2>2. Downgraded(current) \in RunRecords
      BY <1>4, AppendedRecord DEF IInv
    <2> QED
      BY <1>2, <1>4, <2>1, <2>2, AppendedIsWhole DEF JInv, SeriesGoesOn, InRunPoints
  <1>5. CASE DrainOne
    <2>1. Len(runs') = Len(runs) /\ DOMAIN runs' = DOMAIN runs
      BY <1>5, DrainedRuns DEF IInv, TypeOK
    <2> QED
      BY <1>1, <1>5, <2>1, RunsDrained DEF IInv, JInv, UsableRunsAreWhole, Whole, Usable, Started
  <1>6. CASE runs' = runs
    BY <1>1, <1>6 DEF JInv, UsableRunsAreWhole, Whole, Usable, Started
  <1> QED
    BY <1>3, <1>4, <1>5, <1>6, RunsKept

\* Only the processing of a run and its deferred export say how it is exported.
LEMMA ExportUntouched ==
  ASSUME TypeOK,
         CollectStarts \/ CollectCleanup \/ OpenWindow \/ DurationElapses \/ RequestStop \/ CollectStops
  PROVE  current'.processing = current.processing /\ current'.summary = current.summary
  <1>1. current \in RunRecords
    BY DEF TypeOK
  <1>2. CASE CollectStarts
    <2>1. /\ StartsCollected \in RunRecords
          /\ StartsCollected.processing = current.processing
          /\ StartsCollected.summary = current.summary
      BY <1>1, <1>2, CollectedRecords DEF CollectStarts, StartsCollected, RunRecords
    <2>2. \/ current' = StartsCollected
          \/ \E s \in {"failed", "interrupted"} : current' = [StartsCollected EXCEPT !.status = s]
      BY <1>2 DEF CollectStarts
    <2> QED
      BY <2>1, <2>2 DEF RunRecords
  <1>3. CASE CollectCleanup \/ CollectStops
    BY <1>1, <1>3 DEF CollectCleanup, CollectStops, StopsCollected, RunRecords
  <1>4. CASE OpenWindow
    BY <1>1, <1>4 DEF OpenWindow, RunRecords
  <1>5. CASE DurationElapses \/ RequestStop
    BY <1>5 DEF DurationElapses, RequestStop, CloseWindow
  <1> QED
    BY <1>2, <1>3, <1>4, <1>5

LEMMA ProcessedAwaits ==
  ASSUME TypeOK, Process
  PROVE  AwaitsExport(current)' => deferred' = Append(deferred, RunNumber)
  <1>1. PICK result \in [Families -> {"success", "failed"}] :
          current' = [current EXCEPT
            !.processing = Processed(result),
            !.summary = IF Deferrable(current) # {} THEN "deferred"
                        ELSE IF \E f \in Started(current) : result[f] = "failed"
                             THEN "incomplete" ELSE "success",
            !.status = RunStatus]
    BY DEF Process
  <1>2. current \in RunRecords
    BY DEF TypeOK
  <1>3. Processed(result)["endaq"] = "deferred" => Deferrable(current) # {}
    BY DEF Processed, Families
  <1>4. /\ current'.processing = Processed(result)
        /\ current'.summary = "deferred" => Deferrable(current) # {}
    BY <1>1, <1>2 DEF RunRecords
  <1>5. Deferrable(current) # {} => deferred' = Append(deferred, RunNumber)
    BY DEF Process
  <1> QED
    BY <1>3, <1>4, <1>5 DEF AwaitsExport

LEMMA ListGrows ==
  ASSUME TypeOK, Process, NEW n, InList(n) \/ (deferred' = Append(deferred, RunNumber) /\ n = RunNumber)
  PROVE  InList(n)'
  <1>1. deferred \in Seq(1..MaxRuns)
    BY DEF TypeOK
  <1>2. deferred' = deferred \/ deferred' = Append(deferred, RunNumber)
    BY DEF Process
  <1> QED
    BY <1>1, <1>2 DEF InList

\* The export empties the head of the list, and the record it names.
LEMMA ListShrinks ==
  ASSUME TypeOK, DrainOne
  PROVE  /\ \A n : InList(n) /\ n # Head(deferred) => InList(n)'
         /\ \A i \in DOMAIN runs :
              /\ i # Head(deferred) => runs'[i] = runs[i]
              /\ i = Head(deferred) => ~AwaitsExport(runs'[i])
  <1>1. deferred \in Seq(1..MaxRuns) /\ deferred # <<>> /\ deferred' = Tail(deferred)
    BY DEF TypeOK, DrainOne, StillDeferred, RestDeferred
  <1>2. ASSUME NEW n, InList(n), n # Head(deferred) PROVE InList(n)'
    <2>1. PICK k \in 1..Len(deferred) : deferred[k] = n
      BY <1>2 DEF InList
    <2>2. k # 1
      BY <1>1, <1>2, <2>1
    <2>3. k - 1 \in 1..Len(deferred') /\ deferred'[k - 1] = n
      BY <1>1, <2>1, <2>2
    <2> QED
      BY <2>3 DEF InList
  <1>3. PICK result \in {"success", "failed"} :
          runs' = [runs EXCEPT ![Head(deferred)] = Exported(@, result)]
    BY DEF DrainOne
  <1>4. ASSUME NEW i \in DOMAIN runs
        PROVE  /\ i # Head(deferred) => runs'[i] = runs[i]
               /\ i = Head(deferred) => runs'[i] = Exported(runs[i], result)
    BY <1>3, <1>4
  <1>5. ASSUME NEW r \in RunRecords PROVE ~AwaitsExport(Exported(r, result))
    BY DEF AwaitsExport, Exported, RunRecords, Families
  <1>6. \A i \in DOMAIN runs : runs[i] \in RunRecords
    BY DEF TypeOK
  <1> QED
    BY <1>2, <1>4, <1>5, <1>6

\* Whatever awaits its export stays in the list until it is exported.
LEMMA DeferredListedStep ==
  ASSUME IInv, JInv, Next, TypeOK'
  PROVE  DeferredListed'
  <1> USE DEF IInv, JInv
  <1>1. CASE PreflightAborts \/ PreflightPasses \/ RunIsDue \/ MissedStartAborts \/
     SeriesEnds
    <2>1. CASE PreflightAborts \/ PreflightPasses \/ RunIsDue \/ SeriesEnds
      BY <2>1 DEF PreflightAborts, PreflightPasses, RunIsDue, SeriesEnds, manifestVars,
         DeferredListed, InList, InRunPoints
    <2>2. CASE MissedStartAborts
      <3>1. /\ runs' = Append(runs, FreshRun("aborted"))
            /\ deferred' = deferred /\ pc' = "finish"
        BY <2>2 DEF MissedStartAborts
      <3>2. FreshRun("aborted") \in RunRecords /\ ~AwaitsExport(FreshRun("aborted"))
        BY FreshRunType DEF FreshRun, RunStatusNames, AwaitsExport, Uniform, Families
      <3> QED
        BY <3>1, <3>2, RunsAppended DEF DeferredListed, InList, InRunPoints
    <2> QED
      BY <1>1, <2>1, <2>2
  <1>2. CASE BeginRun
    <2>1. /\ current' = FreshRun("starting") /\ pc' = "starting"
          /\ runs' = runs /\ deferred' = deferred
      BY <1>2 DEF BeginRun, manifestVars
    <2>2. ~AwaitsExport(FreshRun("starting"))
      BY DEF FreshRun, AwaitsExport, Uniform, Families
    <2>3. ~AwaitsExport(current)'
      BY <2>1, <2>2 DEF AwaitsExport
    <2> QED
      BY <2>1, <2>3 DEF DeferredListed, InList
  <1>3. CASE CollectStarts
    <2>1. ~AwaitsExport(current)'
      BY <1>3, ExportUntouched DEF CollectStarts, DeferredListed, InRunPoints, AwaitsExport
    <2>2. runs' = runs /\ deferred' = deferred
      BY <1>3 DEF CollectStarts, manifestVars
    <2> QED
      BY <2>1, <2>2 DEF DeferredListed, InList
  <1>4. CASE CollectCleanup
    <2>1. ~AwaitsExport(current)'
      BY <1>4, ExportUntouched DEF CollectCleanup, DeferredListed, InRunPoints, AwaitsExport
    <2>2. runs' = runs /\ deferred' = deferred
      BY <1>4 DEF CollectCleanup, manifestVars
    <2> QED
      BY <2>1, <2>2 DEF DeferredListed, InList
  <1>5. CASE OpenWindow \/ DurationElapses \/ RequestStop
    <2>1. ~AwaitsExport(current)'
      BY <1>5, ExportUntouched DEF OpenWindow, DurationElapses, RequestStop, CloseWindow, DeferredListed,
         InRunPoints, AwaitsExport
    <2>2. runs' = runs /\ deferred' = deferred
      BY <1>5 DEF OpenWindow, DurationElapses, RequestStop, CloseWindow, manifestVars
    <2> QED
      BY <2>1, <2>2 DEF DeferredListed, InList
  <1>6. CASE CollectStops
    <2>1. ~AwaitsExport(current)'
      BY <1>6, ExportUntouched DEF CollectStops, DeferredListed, InRunPoints, AwaitsExport
    <2>2. runs' = runs /\ deferred' = deferred
      BY <1>6 DEF CollectStops, manifestVars
    <2> QED
      BY <2>1, <2>2 DEF DeferredListed, InList
  <1>7. CASE Process
    <2>1. pc = "processing" /\ pc' = "append" /\ runs' = runs /\ RunNumber' = RunNumber
      BY <1>7 DEF Process, RunNumber
    <2>2. \A n : InList(n) => InList(n)'
      BY <1>7, ListGrows
    <2>3. AwaitsExport(current)' => InList(RunNumber)'
      BY <1>7, <2>1, ProcessedAwaits, ListGrows
    <2> QED
      BY <2>1, <2>2, <2>3 DEF DeferredListed, InRunPoints
  <1>8. CASE AppendRun
    <2>1. runs' = Append(runs, Downgraded(current)) /\ Downgraded(current) \in RunRecords
      BY <1>8, AppendedRecord DEF AppendRun
    <2>2. pc = "append" /\ pc' = "recorded" /\ deferred' = deferred
      BY <1>8 DEF AppendRun
    <2>3. AwaitsExport(Downgraded(current)) => AwaitsExport(current)
      BY DEF Downgraded, AwaitsExport, TypeOK, RunRecords
    <2> QED
      BY <2>1, <2>2, <2>3, RunsAppended DEF DeferredListed, InList, InRunPoints
  <1>9. CASE RunRecorded \/ DrainWritten \/ DrainEnds \/ Finish
    BY <1>9 DEF RunRecorded, DrainWritten, DrainEnds, Finish, DeferredListed, InList,
       InRunPoints, RunNumber, manifestVars, adapterVars, budgets, Persist, Dispatch,
       Uniform, Escape, CloseWindow, Over, JoinPoints, WritePoints
  <1>10. CASE DrainOne
    <2>1. pc = "drain" /\ pc' = "drained"
      BY <1>10 DEF DrainOne
    <2>2. DOMAIN runs' = DOMAIN runs
      BY <1>10, RunsDrained
    <2> QED
      BY <1>10, <2>1, <2>2, ListShrinks DEF DeferredListed, InRunPoints
  <1>11. CASE OperatorPressesEnter \/ InputCloses \/ InterruptAbsorbed \/
     InterruptMeasuring \/ InterruptEscapes \/ WriteFault
    BY <1>11 DEF OperatorPressesEnter, InputCloses, InterruptAbsorbed, InterruptMeasuring,
       InterruptEscapes, WriteFault, DeferredListed, InList, InRunPoints, RunNumber,
       manifestVars, adapterVars, budgets, Persist, Dispatch, Uniform, Escape, CloseWindow,
       Over, JoinPoints, WritePoints
  <1>12. ASSUME NEW f \in Families, AdapterStep(f) PROVE DeferredListed'
    BY <1>12 DEF AdapterStep, StartReturns, StopReturns, Return, DeferredListed, InList,
       InRunPoints, RunNumber, manifestVars, adapterVars, budgets, Persist, Dispatch,
       Uniform, Escape, CloseWindow, Over, JoinPoints, WritePoints
  <1>13. ASSUME NEW f \in Families, DeviceEnds(f) PROVE DeferredListed'
    BY <1>13 DEF DeviceEnds, DeferredListed, InList, InRunPoints, RunNumber, manifestVars,
       adapterVars, budgets, Persist, Dispatch, Uniform, Escape, CloseWindow, Over,
       JoinPoints, WritePoints
  <1> QED
    BY <1>1, <1>2, <1>3, <1>4, <1>5, <1>6, <1>7, <1>8, <1>9, <1>10, <1>11, <1>12, <1>13 DEF
       DeferredListed, InList, InRunPoints, RunNumber, Next, MainStep, OperatorStep,
       AdapterStep, Terminated, SeriesBoundReached, vars

\* Only the end of the list ends a series as complete.
LEMMA ListEmptiedStep ==
  ASSUME IInv, JInv, Next, TypeOK'
  PROVE  ListEmptied'
  <1> USE DEF IInv, JInv
  <1>1. CASE PreflightAborts \/ PreflightPasses \/ RunIsDue \/ MissedStartAborts \/
     SeriesEnds
    BY <1>1 DEF PreflightAborts, PreflightPasses, RunIsDue, MissedStartAborts, SeriesEnds,
       ListEmptied, SeriesStatus, StillDeferred, QuietPoints, manifestVars, adapterVars,
       budgets, Persist, Dispatch, Uniform, Escape, CloseWindow, Over, JoinPoints,
       WritePoints
  <1>2. CASE BeginRun
    BY <1>2 DEF BeginRun, ListEmptied, SeriesStatus, StillDeferred, QuietPoints,
       manifestVars, adapterVars, budgets, Persist, Dispatch, Uniform, Escape, CloseWindow,
       Over, JoinPoints, WritePoints
  <1>3. CASE CollectStarts
    BY <1>3 DEF CollectStarts, ListEmptied, SeriesStatus, StillDeferred, QuietPoints,
       manifestVars, adapterVars, budgets, Persist, Dispatch, Uniform, Escape, CloseWindow,
       Over, JoinPoints, WritePoints
  <1>4. CASE CollectCleanup
    BY <1>4 DEF CollectCleanup, ListEmptied, SeriesStatus, StillDeferred, QuietPoints,
       manifestVars, adapterVars, budgets, Persist, Dispatch, Uniform, Escape, CloseWindow,
       Over, JoinPoints, WritePoints
  <1>5. CASE OpenWindow \/ DurationElapses \/ RequestStop
    BY <1>5 DEF OpenWindow, DurationElapses, RequestStop, ListEmptied, SeriesStatus,
       StillDeferred, QuietPoints, manifestVars, adapterVars, budgets, Persist, Dispatch,
       Uniform, Escape, CloseWindow, Over, JoinPoints, WritePoints
  <1>6. CASE CollectStops
    BY <1>6 DEF CollectStops, ListEmptied, SeriesStatus, StillDeferred, QuietPoints,
       manifestVars, adapterVars, budgets, Persist, Dispatch, Uniform, Escape, CloseWindow,
       Over, JoinPoints, WritePoints
  <1>7. CASE Process
    BY <1>7 DEF Process, ListEmptied, SeriesStatus, StillDeferred, QuietPoints,
       manifestVars, adapterVars, budgets, Persist, Dispatch, Uniform, Escape, CloseWindow,
       Over, JoinPoints, WritePoints
  <1>8. CASE AppendRun
    BY <1>8 DEF AppendRun, ListEmptied, SeriesStatus, StillDeferred, QuietPoints,
       manifestVars, adapterVars, budgets, Persist, Dispatch, Uniform, Escape, CloseWindow,
       Over, JoinPoints, WritePoints
  <1>9. CASE RunRecorded \/ DrainWritten \/ DrainEnds \/ Finish
    BY <1>9 DEF RunRecorded, DrainWritten, DrainEnds, Finish, ListEmptied, SeriesStatus,
       StillDeferred, QuietPoints, manifestVars, adapterVars, budgets, Persist, Dispatch,
       Uniform, Escape, CloseWindow, Over, JoinPoints, WritePoints
  <1>10. CASE DrainOne
    BY <1>10 DEF DrainOne, ListEmptied, SeriesStatus, StillDeferred, QuietPoints,
       manifestVars, adapterVars, budgets, Persist, Dispatch, Uniform, Escape, CloseWindow,
       Over, JoinPoints, WritePoints
  <1>11. CASE OperatorPressesEnter \/ InputCloses \/ InterruptAbsorbed \/
     InterruptMeasuring \/ InterruptEscapes \/ WriteFault
    BY <1>11 DEF OperatorPressesEnter, InputCloses, InterruptAbsorbed, InterruptMeasuring,
       InterruptEscapes, WriteFault, ListEmptied, SeriesStatus, StillDeferred, QuietPoints,
       manifestVars, adapterVars, budgets, Persist, Dispatch, Uniform, Escape, CloseWindow,
       Over, JoinPoints, WritePoints
  <1>12. ASSUME NEW f \in Families, AdapterStep(f) PROVE ListEmptied'
    BY <1>12 DEF AdapterStep, StartReturns, StopReturns, Return, ListEmptied, SeriesStatus,
       StillDeferred, QuietPoints, manifestVars, adapterVars, budgets, Persist, Dispatch,
       Uniform, Escape, CloseWindow, Over, JoinPoints, WritePoints
  <1>13. ASSUME NEW f \in Families, DeviceEnds(f) PROVE ListEmptied'
    BY <1>13 DEF DeviceEnds, ListEmptied, SeriesStatus, StillDeferred, QuietPoints,
       manifestVars, adapterVars, budgets, Persist, Dispatch, Uniform, Escape, CloseWindow,
       Over, JoinPoints, WritePoints
  <1> QED
    BY <1>1, <1>2, <1>3, <1>4, <1>5, <1>6, <1>7, <1>8, <1>9, <1>10, <1>11, <1>12, <1>13 DEF
       ListEmptied, SeriesStatus, StillDeferred, QuietPoints, Next, MainStep, OperatorStep,
       AdapterStep, Terminated, SeriesBoundReached, vars

\* Each fan-out accounts for the recorders that record.
LEMMA DevicesExplainedStep ==
  ASSUME IInv, JInv, Next, TypeOK'
  PROVE  DevicesExplained'
  <1> USE DEF IInv, JInv
  <1>1. CASE PreflightAborts \/ PreflightPasses \/ RunIsDue \/ MissedStartAborts \/
     SeriesEnds
    BY <1>1 DEF PreflightAborts, PreflightPasses, RunIsDue, MissedStartAborts, SeriesEnds,
       DevicesExplained, Refused, CallsMatchPc, QuietPoints, DevicesKnown, InRunPoints,
       TypeOK, manifestVars, adapterVars, budgets, Persist, Dispatch, Uniform, Escape,
       CloseWindow, Over, JoinPoints, WritePoints
  <1>2. CASE BeginRun
    <2>1. \A f \in Families : dev'[f] = "idle"
      BY <1>2 DEF BeginRun, DevicesKnown
    <2> QED
      BY <2>1 DEF DevicesExplained
  <1>3. CASE CollectStarts
    <2>1. /\ pc = "starting" /\ pc' \in {"cleanup", "append", "armed"}
          /\ active' = active /\ config' = config /\ dev' = dev
      BY <1>3 DEF CollectStarts
    <2>2. \A f \in active : current'.start[f] = call[f]
      BY <1>3, StartedRecord
    <2>3. \A f \in Families : current'.stop[f] = "none"
      BY <1>3, <2>1, StartedRecord DEF CurrentHonest
    <2>4. \A f \in Families : dev[f] = "recording" =>
            f \in active /\ (call[f] = "ok" \/ (call[f] = "error" /\ needsStop[f]))
      BY <2>1 DEF DevicesExplained, CallsMatchPc
    <2>5. /\ StartsCollected \in RunRecords
          /\ \A f \in active : StartsCollected.start[f] = call[f]
      BY <1>3, CollectedRecords DEF CollectStarts
    <2>6. active \in SUBSET Families
      BY ActiveAreFamilies
    <2>7. pc' = "cleanup" => \A f \in Families : dev[f] = "recording" => call'[f] # "none"
      <3>1. pc' = "cleanup" => Dispatch("stop", RequiringCleanup(StartsCollected))
        BY <1>3 DEF CollectStarts
      <3> QED
        BY <3>1, <2>4, <2>5 DEF Dispatch, RequiringCleanup, Started
    <2>8. pc' \in {"append", "armed"} /\ active \ Started(StartsCollected) # {} => config.allowPartial
      BY <1>3 DEF CollectStarts
    <2>9. ASSUME NEW f \in Families, dev[f] = "recording", pc' \in {"append", "armed"}
          PROVE  current'.start[f] = "ok" \/ Refused(current, f)'
      BY <2>1, <2>2, <2>3, <2>4, <2>5, <2>6, <2>8, <2>9 DEF Refused, Started
    <2>10. pc' = "append" => Started(StartsCollected) = {}
      BY <1>3 DEF CollectStarts
    <2>11. ASSUME NEW f \in Families, dev[f] = "recording", pc' = "append"
           PROVE  Refused(current, f)'
      BY <2>2, <2>4, <2>5, <2>6, <2>9, <2>10, <2>11 DEF Started
    <2> HIDE DEF IInv, JInv
    <2> QED
      BY <2>1, <2>7, <2>9, <2>11 DEF DevicesExplained
  <1>4. CASE CollectCleanup
    <2>1. /\ pc = "cleanup" /\ pc' = "append" /\ dev' = dev /\ config' = config
          /\ \A f \in Families : call[f] \notin {"start", "stop"}
      BY <1>4 DEF CollectCleanup, Idle
    <2>2. \A f \in Families : current'.stop[f] =
            IF call[f] = "none" THEN current.stop[f] ELSE call[f]
      BY <1>4, CollectedRecords DEF CollectCleanup
    <2>3. \A f \in Families : dev[f] = "recording" => call[f] = "error"
      BY <2>1 DEF DevicesExplained, DevicesKnown, TypeOK
    <2> QED
      BY <2>1, <2>2, <2>3 DEF DevicesExplained
  <1>5. CASE OpenWindow \/ DurationElapses \/ RequestStop
    <2>1. CASE OpenWindow
      <3>1. current'.start = current.start /\ current'.stop = current.stop
        BY <2>1, RecordUpdates DEF OpenWindow, TypeOK, RunStatusNames
      <3> QED
        BY <2>1, <3>1 DEF OpenWindow, DevicesExplained, Refused, adapterVars
    <2>2. CASE DurationElapses
      BY <2>2 DEF DurationElapses, CloseWindow, DevicesExplained, Refused, adapterVars
    <2>3. CASE RequestStop
      BY <2>3 DEF RequestStop, Dispatch, Started, DevicesExplained, Refused
    <2> QED
      BY <1>5, <2>1, <2>2, <2>3
  <1>6. CASE CollectStops
    <2>1. /\ pc = "stopping" /\ pc' = "processing" /\ dev' = dev /\ config' = config
          /\ \A f \in Families : call[f] \notin {"start", "stop"}
      BY <1>6 DEF CollectStops, Idle
    <2>2. /\ current'.start = current.start
          /\ \A f \in Families : current'.stop[f] =
               IF call[f] = "none" THEN current.stop[f] ELSE call[f]
      BY <1>6, CollectedRecords DEF CollectStops
    <2>3. \A f \in Families : dev[f] = "recording" =>
            call[f] = "error" \/ (call[f] = "none" /\ Refused(current, f))
      BY <2>1 DEF DevicesExplained, DevicesKnown, TypeOK
    <2> HIDE DEF IInv, JInv
    <2> QED
      BY <2>1, <2>2, <2>3 DEF DevicesExplained, Refused
  <1>7. CASE Process
    <2>1. /\ pc = "processing" /\ pc' = "append" /\ dev' = dev /\ config' = config
          /\ current'.start = current.start /\ current'.stop = current.stop
      BY <1>7, ProcessedRecord DEF Process, adapterVars
    <2> QED
      BY <2>1 DEF DevicesExplained, Refused
  <1>8. CASE AppendRun
    BY <1>8 DEF AppendRun, DevicesExplained, Refused, CallsMatchPc, QuietPoints,
       DevicesKnown, InRunPoints, TypeOK, manifestVars, adapterVars, budgets, Persist,
       Dispatch, Uniform, Escape, CloseWindow, Over, JoinPoints, WritePoints
  <1>9. CASE RunRecorded \/ DrainWritten \/ DrainEnds \/ Finish
    BY <1>9 DEF RunRecorded, DrainWritten, DrainEnds, Finish, DevicesExplained, Refused,
       CallsMatchPc, QuietPoints, DevicesKnown, InRunPoints, TypeOK, manifestVars,
       adapterVars, budgets, Persist, Dispatch, Uniform, Escape, CloseWindow, Over,
       JoinPoints, WritePoints
  <1>10. CASE DrainOne
    BY <1>10 DEF DrainOne, DevicesExplained, Refused, CallsMatchPc, QuietPoints,
       DevicesKnown, InRunPoints, TypeOK, manifestVars, adapterVars, budgets, Persist,
       Dispatch, Uniform, Escape, CloseWindow, Over, JoinPoints, WritePoints
  <1>11. CASE OperatorPressesEnter \/ InputCloses \/ InterruptAbsorbed \/
     InterruptMeasuring \/ InterruptEscapes \/ WriteFault
    BY <1>11 DEF OperatorPressesEnter, InputCloses, InterruptAbsorbed, InterruptMeasuring,
       InterruptEscapes, WriteFault, DevicesExplained, Refused, CallsMatchPc, QuietPoints,
       DevicesKnown, InRunPoints, TypeOK, manifestVars, adapterVars, budgets, Persist,
       Dispatch, Uniform, Escape, CloseWindow, Over, JoinPoints, WritePoints
  <1>12. ASSUME NEW f \in Families, AdapterStep(f) PROVE DevicesExplained'
    <2>1. TypeOK /\ CallsMatchPc /\ DevicesKnown /\ DevicesExplained
      OBVIOUS
    <2> HIDE DEF IInv, JInv
    <2>2. /\ config' = config /\ current' = current /\ pc' = pc
          /\ call[f] \in {"start", "stop"} /\ call'[f] \in {"ok", "error"}
          /\ \A g \in Families \ {f} :
               call'[g] = call[g] /\ dev'[g] = dev[g] /\ needsStop'[g] = needsStop[g]
      BY <1>12, <2>1 DEF AdapterStep, StartReturns, StopReturns, Return, TypeOK
    <2>3. CASE call[f] = "start"
      <3>1. pc \notin {"cleanup", "armed", "measuring", "stopReq", "stopping", "processing", "append"}
        BY <2>1, <2>3 DEF CallsMatchPc, QuietPoints
      <3>2. dev'[f] = "recording" =>
              call'[f] = "ok" \/ (call'[f] = "error" /\ needsStop'[f]) \/ dev[f] = "recording"
        BY <1>12, <2>1, <2>3 DEF AdapterStep, StartReturns, StopReturns, Return, TypeOK
      <3> QED
        BY <2>1, <2>2, <2>3, <3>1, <3>2 DEF DevicesExplained
    <2>4. CASE call[f] = "stop"
      <3>1. pc \notin {"starting", "armed", "measuring", "stopReq", "processing", "append"}
        BY <2>1, <2>4 DEF CallsMatchPc, QuietPoints
      <3> QED
        BY <2>1, <2>2, <3>1 DEF DevicesExplained, Refused
    <2> QED
      BY <2>2, <2>3, <2>4
  <1>13. ASSUME NEW f \in Families, DeviceEnds(f) PROVE DevicesExplained'
    BY <1>13 DEF DeviceEnds, DevicesExplained, Refused, CallsMatchPc, QuietPoints,
       DevicesKnown, InRunPoints, TypeOK, manifestVars, adapterVars, budgets, Persist,
       Dispatch, Uniform, Escape, CloseWindow, Over, JoinPoints, WritePoints
  <1> QED
    BY <1>1, <1>2, <1>3, <1>4, <1>5, <1>6, <1>7, <1>8, <1>9, <1>10, <1>11, <1>12, <1>13 DEF
       DevicesExplained, Refused, CallsMatchPc, QuietPoints, DevicesKnown, InRunPoints,
       TypeOK, Next, MainStep, OperatorStep, AdapterStep, Terminated, SeriesBoundReached,
       vars

\* A record that joins the manifest explains what it leaves recording.
LEMMA LeftExplainedStep ==
  ASSUME IInv, JInv, Next, TypeOK'
  PROVE  LeftExplained'
  <1> USE DEF IInv, JInv
  <1>1. CASE PreflightAborts \/ PreflightPasses \/ RunIsDue \/ MissedStartAborts \/
     SeriesEnds
    <2>1. CASE PreflightAborts \/ PreflightPasses \/ RunIsDue \/ SeriesEnds
      BY <2>1 DEF PreflightAborts, PreflightPasses, RunIsDue, SeriesEnds, manifestVars,
         adapterVars, LeftExplained, RunExplains, Refused, InRunPoints
    <2>2. CASE MissedStartAborts
      <3>1. /\ runs' = Append(runs, FreshRun("aborted")) /\ pc' = "finish"
            /\ config' = config /\ current' = current /\ call' = call /\ dev' = dev
        BY <2>2 DEF MissedStartAborts, adapterVars
      <3>2. FreshRun("aborted") \in RunRecords
        BY FreshRunType DEF RunStatusNames
      <3>3. \A f \in Families : RunExplains(f) => RunExplains(f)'
        BY <3>1, <3>2, RunsAppended DEF RunExplains, Refused
      <3> QED
        BY <3>1, <3>3 DEF LeftExplained, InRunPoints, NoRun
    <2> QED
      BY <1>1, <2>1, <2>2
  <1>2. CASE BeginRun
    <2>1. current'.status = "starting"
      BY <1>2 DEF BeginRun, FreshRun
    <2> QED
      BY <2>1 DEF LeftExplained, NoRun, FreshRun
  <1>3. CASE CollectStarts
    <2>1. /\ pc = "starting" /\ current.status # "none"
          /\ pc' \in {"cleanup", "append"} => current'.status \in {"failed", "interrupted"}
          /\ pc' \in {"cleanup", "append", "armed"}
      BY <1>3, StartedRecord DEF CollectStarts, LeftExplained, InRunPoints
    <2>2. pc' = "armed" => current'.status = current.status
      BY <1>3 DEF CollectStarts, StartsCollected, TypeOK, RunRecords
    <2>3. current'.status # "none"
      BY <2>1, <2>2
    <2> QED
      BY <2>3 DEF LeftExplained, NoRun, FreshRun
  <1>4. CASE CollectCleanup
    <2>1. current'.status = current.status /\ pc = "cleanup"
      BY <1>4, CollectedRecords DEF CollectCleanup
    <2> QED
      BY <2>1 DEF LeftExplained, InRunPoints, NoRun, FreshRun
  <1>5. CASE OpenWindow \/ DurationElapses \/ RequestStop
    <2>1. current'.status # "none"
      BY <1>5 DEF OpenWindow, DurationElapses, RequestStop, CloseWindow, LeftExplained, InRunPoints,
         TypeOK, RunRecords
    <2> QED
      BY <2>1 DEF LeftExplained, NoRun, FreshRun
  <1>6. CASE CollectStops
    <2>1. current'.status = current.status /\ pc = "stopping"
      BY <1>6, CollectedRecords DEF CollectStops
    <2> QED
      BY <2>1 DEF LeftExplained, InRunPoints, NoRun, FreshRun
  <1>7. CASE Process
    <2>1. current'.status = RunStatus
      BY <1>7, ProcessedRecord
    <2>2. RunStatus # "none"
      BY DEF RunStatus, SensorStatus
    <2> QED
      BY <2>1, <2>2 DEF LeftExplained, NoRun, FreshRun
  <1>8. CASE AppendRun
    <2>1. runs' = Append(runs, Downgraded(current)) /\ Downgraded(current) \in RunRecords
      BY <1>8, AppendedRecord DEF AppendRun
    <2>2. /\ pc = "append" /\ pc' = "recorded" /\ config' = config
          /\ call' = call /\ dev' = dev
      BY <1>8 DEF AppendRun, adapterVars
    <2>3. /\ Downgraded(current).start = current.start
          /\ Downgraded(current).stop = current.stop
      BY <1>8, AppendedRecord
    <2>4. \A f \in Families : call[f] = "none"
      BY <2>2 DEF CallsMatchPc, QuietPoints
    <2>5. ASSUME NEW f \in Families, dev[f] = "recording" PROVE RunExplains(f)'
      <3>1. current.stop[f] = "error" \/ Refused(current, f)
        BY <2>2, <2>5 DEF DevicesExplained
      <3>2. RunNumber \in DOMAIN runs' /\ runs'[RunNumber] = Downgraded(current)
        BY <2>1, RunsAppended
      <3> QED
        BY <3>1, <3>2, <2>2, <2>3 DEF RunExplains, Refused
    <2> QED
      BY <2>2, <2>4, <2>5 DEF LeftExplained, InRunPoints
  <1>9. CASE RunRecorded \/ DrainWritten \/ DrainEnds \/ Finish
    <2>1. /\ config' = config /\ current' = current /\ runs' = runs
          /\ call' = call /\ dev' = dev
          /\ pc' \in InRunPoints \ {"begin"} => pc \in InRunPoints \ {"begin"}
      BY <1>9 DEF RunRecorded, DrainWritten, DrainEnds, Finish, InRunPoints, manifestVars,
         adapterVars
    <2> QED
      BY <2>1 DEF LeftExplained, RunExplains, Refused, InRunPoints, NoRun
  <1>10. CASE DrainOne
    <2>1. /\ pc' = "drained" /\ config' = config /\ current' = current
          /\ call' = call /\ dev' = dev
      BY <1>10 DEF DrainOne, adapterVars
    <2>2. \A f \in Families : RunExplains(f) => RunExplains(f)'
      BY <1>10, <2>1, RunsDrained DEF RunExplains, Refused
    <2> QED
      BY <2>1, <2>2 DEF LeftExplained, InRunPoints, NoRun
  <1>11. CASE OperatorPressesEnter \/ InputCloses \/ InterruptAbsorbed \/
     InterruptMeasuring \/ InterruptEscapes \/ WriteFault
    <2>1. /\ config' = config /\ current' = current /\ runs' = runs
          /\ call' = call /\ dev' = dev
          /\ pc' \in InRunPoints \ {"begin"} => pc \in InRunPoints \ {"begin"}
      BY <1>11 DEF OperatorPressesEnter, InputCloses, InterruptAbsorbed, InterruptMeasuring,
         InterruptEscapes, WriteFault, CloseWindow, Escape, InRunPoints, manifestVars, adapterVars
    <2> QED
      BY <2>1 DEF LeftExplained, RunExplains, Refused, InRunPoints, NoRun
  <1>12. ASSUME NEW f \in Families, AdapterStep(f) PROVE LeftExplained'
    BY <1>12 DEF AdapterStep, StartReturns, StopReturns, Return, LeftExplained, RunExplains,
       Refused, InRunPoints, NoRun, FreshRun, TypeOK, manifestVars, adapterVars, budgets,
       Persist, Dispatch, Uniform, Escape, CloseWindow, Over, JoinPoints, WritePoints
  <1>13. ASSUME NEW f \in Families, DeviceEnds(f) PROVE LeftExplained'
    BY <1>13 DEF DeviceEnds, LeftExplained, RunExplains, Refused, InRunPoints, NoRun,
       FreshRun, TypeOK, manifestVars, adapterVars, budgets, Persist, Dispatch, Uniform,
       Escape, CloseWindow, Over, JoinPoints, WritePoints
  <1>14. CASE Terminated \/ SeriesBoundReached
    BY <1>14 DEF Terminated, SeriesBoundReached, LeftExplained, RunExplains, Refused,
       InRunPoints, NoRun, vars
  <1> QED
    BY <1>1, <1>2, <1>3, <1>4, <1>5, <1>6, <1>7, <1>8, <1>9, <1>10, <1>11, <1>12, <1>13,
       <1>14 DEF Next, MainStep, OperatorStep, AdapterStep
----------------------------------------------------------------------------
(* The theorems. *)

LEMMA InitRuns == Init => JInv
  <1> SUFFICES ASSUME Init PROVE JInv
    OBVIOUS
  <1>1. /\ pc = "preflight" /\ goal = "none" /\ runs = <<>> /\ sigints = 0
        /\ current = NoRun /\ dev = Uniform("idle") /\ call = Uniform("none")
    BY DEF Init
  <1>2. InterruptHeeded /\ Tolerated /\ StopsMatchStarts
    BY <1>1 DEF InterruptHeeded, Tolerated, StopsMatchStarts, InRunPoints
  <1>3. SeriesGoesOn /\ UsableRunsAreWhole /\ DeferredListed /\ ListEmptied
    BY <1>1 DEF SeriesGoesOn, UsableRunsAreWhole, DeferredListed, ListEmptied, InRunPoints
  <1>4. DevicesExplained /\ LeftExplained
    BY <1>1 DEF DevicesExplained, LeftExplained, InRunPoints, Uniform
  <1> QED
    BY <1>2, <1>3, <1>4 DEF JInv

LEMMA StutterRuns ==
  ASSUME JInv, UNCHANGED vars
  PROVE  JInv'
  <1> USE DEF vars
  <1>1. InterruptHeeded' /\ Tolerated' /\ StopsMatchStarts'
    BY DEF JInv, InterruptHeeded, Tolerated, StopsMatchStarts, Started
  <1>2. SeriesGoesOn' /\ UsableRunsAreWhole' /\ ListEmptied'
    BY DEF JInv, SeriesGoesOn, UsableRunsAreWhole, Usable, Whole, Started, ListEmptied
  <1>3. DeferredListed'
    BY DEF JInv, DeferredListed, AwaitsExport, InList, RunNumber
  <1>4. DevicesExplained' /\ LeftExplained'
    BY DEF JInv, DevicesExplained, LeftExplained, RunExplains, Refused, NoRun
  <1> QED
    BY <1>1, <1>2, <1>3, <1>4 DEF JInv

LEMMA NextRuns == IInv /\ JInv /\ [Next]_vars => JInv'
  <1> SUFFICES ASSUME IInv, JInv, [Next]_vars PROVE JInv'
    OBVIOUS
  <1>1. CASE Next
    <2>1. TypeOK'
      BY <1>1, NextType DEF IInv
    <2> QED
      BY <1>1, <2>1, InterruptHeededStep, ToleratedStep, StopsMatchStartsStep,
         SeriesGoesOnStep, UsableRunsAreWholeStep, DeferredListedStep, ListEmptiedStep,
         DevicesExplainedStep, LeftExplainedStep DEF JInv
  <1> QED
    BY <1>1, StutterRuns

LEMMA RunsInvariance == Spec => [](IInv /\ JInv)
  BY Invariance, InitRuns, NextRuns, PTL DEF Spec

\* What a run that counts as usable holds, and that no run follows one that is
\* not: see UsableRunsAreWhole.
THEOREM UsableRunsWhole == Spec => []UsableRunsAreWhole
  <1>1. JInv => UsableRunsAreWhole
    BY DEF JInv
  <1> QED
    BY <1>1, RunsInvariance, PTL

\* A series that ends as complete leaves no enDAQ recording on the recorder:
\* see CompleteSeriesIsExported.
THEOREM CompleteSeriesExported == Spec => []CompleteSeriesIsExported
  <1>1. IInv /\ JInv => CompleteSeriesIsExported
    <2> SUFFICES ASSUME IInv, JInv, pc = "done", disk.status \in {"success", "partial"}
                 PROVE  /\ disk.runs = runs
                        /\ \A i \in DOMAIN runs : ~AwaitsExport(runs[i])
      BY DEF CompleteSeriesIsExported, AwaitsExport
    <2>1. status = goal /\ disk = [status |-> status, runs |-> runs]
      BY DEF IInv, StatusDecided
    <2>2. disk.runs = runs /\ disk.status = goal
      BY <2>1
    <2>3. deferred = <<>>
      BY <2>2 DEF JInv, ListEmptied
    <2> QED
      BY <2>2, <2>3 DEF JInv, DeferredListed, InList
  <1> QED
    BY <1>1, RunsInvariance, PTL

\* No recorder is left recording without a trace: see LeftRecordingIsExplained.
THEOREM LeftRecordingExplained == Spec => []LeftRecordingIsExplained
  <1>1. JInv => LeftRecordingIsExplained
    BY DEF JInv, LeftExplained, RunExplains, Refused, LeftRecordingIsExplained
  <1> QED
    BY <1>1, RunsInvariance, PTL

\* Ctrl+C, wherever it lands, is the end of starting sensors: see
\* NoStartAfterInterrupt.
THEOREM InterruptEndsStarts == Spec => NoStartAfterInterrupt
  <1> DEFINE Quiet == sigints > 0 => \A f \in Families : call'[f] = "start" => call[f] = "start"
  <1>1. ASSUME IInv, JInv, Next PROVE Quiet
    <2> USE <1>1 DEF IInv, JInv
    <2>1. CASE BeginRun
      BY <2>1 DEF BeginRun, InterruptHeeded
    <2>2. CASE CollectStarts \/ CollectCleanup \/ CollectStops \/ RequestStop
      BY <2>2 DEF CollectStarts, CollectCleanup, CollectStops, RequestStop, Dispatch
    <2>3. ASSUME NEW f \in Families, AdapterStep(f) \/ DeviceEnds(f) PROVE Quiet
      BY <2>3 DEF AdapterStep, StartReturns, StopReturns, DeviceEnds, Return, TypeOK
    <2>4. CASE \/ PreflightAborts \/ PreflightPasses \/ RunIsDue \/ MissedStartAborts \/ SeriesEnds
               \/ OpenWindow \/ DurationElapses \/ Process \/ AppendRun \/ RunRecorded
               \/ DrainOne \/ DrainWritten \/ DrainEnds \/ Finish \/ OperatorStep \/ WriteFault
               \/ Terminated \/ SeriesBoundReached
      <3>1. call' = call
        BY <2>4 DEF PreflightAborts, PreflightPasses, RunIsDue, MissedStartAborts, SeriesEnds,
           OpenWindow, DurationElapses, Process, AppendRun, RunRecorded, DrainOne, DrainWritten,
           DrainEnds, Finish, OperatorStep, OperatorPressesEnter, InputCloses, InterruptAbsorbed,
           InterruptMeasuring, InterruptEscapes, WriteFault, CloseWindow, Escape, Terminated,
           SeriesBoundReached, adapterVars, vars
      <3> QED
        BY <3>1
    <2> QED
      BY <2>1, <2>2, <2>3, <2>4 DEF Next, MainStep
  <1>2. IInv /\ JInv /\ [Next]_vars => [Quiet]_vars
    BY <1>1
  <1> QED
    BY <1>2, RunsInvariance, PTL DEF Spec, NoStartAfterInterrupt

----------------------------------------------------------------------------
(***************************************************************************)
(* The session keeps its side of AdapterContract, with both adapters and    *)
(* for every bound: it commands an adapter only where the contract lets it, *)
(* and assumes of the answers no more than the contract promises.           *)
(***************************************************************************)
(* The invariant, beside IInv and JInv. *)

\* The call of a family and the record of its run tell the same story: a start
\* in flight is not recorded yet, a stop follows a recorded start.
CallsOfRun ==
    /\ \A f \in Families :
         /\ call[f] = "start" => current.start[f] = "none" /\ dev[f] = "idle"
         /\ call[f] = "stop" => current.start[f] # "none"
    /\ pc = "starting" => \A f \in Families : current.start[f] = "none"
    /\ pc \in {"cleanup", "stopping"} =>
         \A f \in Families : call[f] # "none" => current.start[f] # "none"
    /\ pc \in InRunPoints \ {"begin"} =>
         \A f \in Families \ active : current.start[f] = "none"

\* The series goes on only from a run in which every start was stopped.
Settled(r) == \A f \in Families : r.start[f] = "none" \/ r.stop[f] = "ok"
BetweenRuns ==
    /\ pc \in {"preflight", "schedule", "begin", "recorded"} => current = NoRun
    /\ pc \in {"schedule", "begin"} /\ runs # <<>> => Settled(runs[Len(runs)])
    /\ pc = "recorded" /\ runs[Len(runs)].status \in {"success", "partial"} =>
         Settled(runs[Len(runs)])

\* An adapter at rest, or after a stop that succeeded, owes no stop.
DebtPaid == \A f \in Families : Phase(f) \in {"rest", "stopped"} => ~needsStop[f]

KInv == CallsOfRun /\ BetweenRuns /\ DebtPaid

----------------------------------------------------------------------------
(* Every step keeps the first two parts. *)

\* The record follows the calls.
LEMMA CallsOfRunStep ==
  ASSUME IInv, JInv, CallsOfRun, BetweenRuns, Next, TypeOK'
  PROVE  CallsOfRun'
  <1> USE DEF IInv, JInv
  <1>1. CASE PreflightAborts \/ PreflightPasses \/ RunIsDue \/ MissedStartAborts \/
     SeriesEnds
    BY <1>1 DEF PreflightAborts, PreflightPasses, RunIsDue, MissedStartAborts, SeriesEnds,
       CallsOfRun, InRunPoints, CallsMatchPc, QuietPoints, TypeOK, manifestVars,
       adapterVars, budgets, Persist, Dispatch, Uniform, Escape, CloseWindow, Over,
       JoinPoints, WritePoints
  <1>2. CASE BeginRun
    <2>1. /\ pc = "begin" /\ pc' = "starting" /\ dev' = dev
          /\ \A f \in Families : dev[f] = "idle"
          /\ \A f \in Families : call'[f] \in {"start", "none"}
      BY <1>2 DEF BeginRun, Dispatch, DevicesKnown
    <2>2. current' = FreshRun("starting") /\ \A f \in Families : FreshRun("starting").start[f] = "none"
      BY <1>2 DEF BeginRun, FreshRun, Uniform
    <2> QED
      BY <2>1, <2>2 DEF CallsOfRun
  <1>3. CASE CollectStarts
    <2>1. /\ pc = "starting" /\ pc' \in {"cleanup", "append", "armed"} /\ active' = active
          /\ call' \in [Families -> {"none", "stop"}]
          /\ \A f \in Families : call'[f] = "stop" => pc' = "cleanup" /\ f \in RequiringCleanup(StartsCollected)
      BY <1>3 DEF CollectStarts, Dispatch
    <2>2. /\ StartsCollected \in RunRecords
          /\ \A f \in active : StartsCollected.start[f] = call[f]
      BY <1>3, CollectedRecords DEF CollectStarts
    <2>3. \A f \in Families \ active : StartsCollected.start[f] = "none"
      BY DEF StartsCollected, TypeOK, RunRecords
    <2>4. current'.start = StartsCollected.start
      <3>1. \/ current' = StartsCollected
            \/ \E s \in {"failed", "interrupted"} : current' = [StartsCollected EXCEPT !.status = s]
        BY <1>3 DEF CollectStarts
      <3> QED
        BY <3>1, <2>2 DEF RunRecords
    <2>5. \A f \in active : call[f] # "none"
      BY <2>1, ActiveAreFamilies DEF CallsMatchPc
    <2>6. RequiringCleanup(StartsCollected) \subseteq active
      BY <2>3, ActiveAreFamilies DEF RequiringCleanup, Started
    <2> HIDE DEF IInv, JInv
    <2> QED
      BY <2>1, <2>2, <2>3, <2>4, <2>5, <2>6 DEF CallsOfRun
  <1>4. CASE CollectCleanup
    <2>1. /\ pc = "cleanup" /\ pc' = "append" /\ active' = active
          /\ \A f \in Families : call'[f] = "none"
      BY <1>4 DEF CollectCleanup, Dispatch
    <2>2. current'.start = current.start
      BY <1>4, CollectedRecords DEF CollectCleanup
    <2> QED
      BY <2>1, <2>2 DEF CallsOfRun, InRunPoints
  <1>5. CASE OpenWindow \/ DurationElapses \/ RequestStop
    <2>1. /\ pc \in {"armed", "measuring", "stopReq"} /\ active' = active
          /\ pc' \in {"measuring", "stopReq", "stopping"} /\ dev' = dev
      BY <1>5 DEF OpenWindow, DurationElapses, RequestStop, CloseWindow, adapterVars
    <2>2. current'.start = current.start
      <3>1. CASE OpenWindow
        BY <3>1 DEF OpenWindow, TypeOK, RunRecords
      <3>2. CASE DurationElapses \/ RequestStop
        BY <3>2 DEF DurationElapses, RequestStop, CloseWindow
      <3> QED
        BY <1>5, <3>1, <3>2
    <2>3. \A f \in Families : call'[f] = "none" \/ (call'[f] = "stop" /\ f \in Started(current))
      <3>1. \A f \in Families : call[f] = "none"
        BY <2>1 DEF CallsMatchPc, QuietPoints
      <3> QED
        BY <1>5, <3>1 DEF OpenWindow, DurationElapses, RequestStop, CloseWindow, Dispatch, adapterVars
    <2> QED
      BY <2>1, <2>2, <2>3 DEF CallsOfRun, InRunPoints, Started
  <1>6. CASE CollectStops
    <2>1. /\ pc = "stopping" /\ pc' = "processing" /\ active' = active
          /\ \A f \in Families : call'[f] = "none"
      BY <1>6 DEF CollectStops, Dispatch
    <2>2. current'.start = current.start
      BY <1>6, CollectedRecords DEF CollectStops
    <2> QED
      BY <2>1, <2>2 DEF CallsOfRun, InRunPoints
  <1>7. CASE Process
    <2>1. /\ pc = "processing" /\ pc' = "append" /\ active' = active /\ call' = call /\ dev' = dev
          /\ current'.start = current.start
      BY <1>7, ProcessedRecord DEF Process, adapterVars
    <2> QED
      BY <2>1 DEF CallsOfRun, InRunPoints
  <1>8. CASE AppendRun
    <2>1. pc = "append" /\ pc' = "recorded" /\ call' = call
      BY <1>8 DEF AppendRun, adapterVars
    <2>2. \A f \in Families : call[f] = "none"
      BY <2>1 DEF CallsMatchPc, QuietPoints
    <2> QED
      BY <2>1, <2>2 DEF CallsOfRun, InRunPoints
  <1>9. CASE RunRecorded \/ DrainWritten \/ DrainEnds \/ Finish
    BY <1>9 DEF RunRecorded, DrainWritten, DrainEnds, Finish, CallsOfRun, InRunPoints,
       CallsMatchPc, QuietPoints, TypeOK, manifestVars, adapterVars, budgets, Persist,
       Dispatch, Uniform, Escape, CloseWindow, Over, JoinPoints, WritePoints
  <1>10. CASE DrainOne
    BY <1>10 DEF DrainOne, CallsOfRun, InRunPoints, CallsMatchPc, QuietPoints, TypeOK,
       manifestVars, adapterVars, budgets, Persist, Dispatch, Uniform, Escape, CloseWindow,
       Over, JoinPoints, WritePoints
  <1>11. CASE OperatorPressesEnter \/ InputCloses \/ InterruptAbsorbed \/
     InterruptMeasuring \/ InterruptEscapes \/ WriteFault
    BY <1>11 DEF OperatorPressesEnter, InputCloses, InterruptAbsorbed, InterruptMeasuring,
       InterruptEscapes, WriteFault, CallsOfRun, InRunPoints, CallsMatchPc, QuietPoints,
       TypeOK, manifestVars, adapterVars, budgets, Persist, Dispatch, Uniform, Escape,
       CloseWindow, Over, JoinPoints, WritePoints
  <1>12. ASSUME NEW f \in Families, AdapterStep(f) PROVE CallsOfRun'
    BY <1>12 DEF AdapterStep, StartReturns, StopReturns, Return, CallsOfRun, InRunPoints,
       CallsMatchPc, QuietPoints, TypeOK, manifestVars, adapterVars, budgets, Persist,
       Dispatch, Uniform, Escape, CloseWindow, Over, JoinPoints, WritePoints
  <1>13. ASSUME NEW f \in Families, DeviceEnds(f) PROVE CallsOfRun'
    BY <1>13 DEF DeviceEnds, CallsOfRun, InRunPoints, CallsMatchPc, QuietPoints, TypeOK,
       manifestVars, adapterVars, budgets, Persist, Dispatch, Uniform, Escape, CloseWindow,
       Over, JoinPoints, WritePoints
  <1> QED
    BY <1>1, <1>2, <1>3, <1>4, <1>5, <1>6, <1>7, <1>8, <1>9, <1>10, <1>11, <1>12, <1>13 DEF
       CallsOfRun, InRunPoints, CallsMatchPc, QuietPoints, TypeOK, Next, MainStep,
       OperatorStep, AdapterStep, Terminated, SeriesBoundReached, vars

\* A settled run is what lets the series go on.
LEMMA BetweenRunsStep ==
  ASSUME IInv, JInv, CallsOfRun, BetweenRuns, Next, TypeOK'
  PROVE  BetweenRuns'
  <1> USE DEF IInv, JInv
  <1>1. CASE PreflightAborts \/ PreflightPasses \/ RunIsDue \/ MissedStartAborts \/
     SeriesEnds
    BY <1>1 DEF PreflightAborts, PreflightPasses, RunIsDue, MissedStartAborts, SeriesEnds,
       BetweenRuns, Settled, DevicesKnown, Tolerated, InRunPoints, manifestVars,
       adapterVars, budgets, Persist, Dispatch, Uniform, Escape, CloseWindow, Over,
       JoinPoints, WritePoints
  <1>2. CASE BeginRun
    BY <1>2 DEF BeginRun, BetweenRuns, Settled, DevicesKnown, Tolerated, InRunPoints,
       manifestVars, adapterVars, budgets, Persist, Dispatch, Uniform, Escape, CloseWindow,
       Over, JoinPoints, WritePoints
  <1>3. CASE CollectStarts
    BY <1>3 DEF CollectStarts, BetweenRuns
  <1>4. CASE CollectCleanup
    BY <1>4 DEF CollectCleanup, BetweenRuns, Settled, DevicesKnown, Tolerated, InRunPoints,
       manifestVars, adapterVars, budgets, Persist, Dispatch, Uniform, Escape, CloseWindow,
       Over, JoinPoints, WritePoints
  <1>5. CASE OpenWindow \/ DurationElapses \/ RequestStop
    BY <1>5 DEF OpenWindow, DurationElapses, RequestStop, BetweenRuns, Settled,
       DevicesKnown, Tolerated, InRunPoints, manifestVars, adapterVars, budgets, Persist,
       Dispatch, Uniform, Escape, CloseWindow, Over, JoinPoints, WritePoints
  <1>6. CASE CollectStops
    BY <1>6 DEF CollectStops, BetweenRuns, Settled, DevicesKnown, Tolerated, InRunPoints,
       manifestVars, adapterVars, budgets, Persist, Dispatch, Uniform, Escape, CloseWindow,
       Over, JoinPoints, WritePoints
  <1>7. CASE Process
    BY <1>7 DEF Process, BetweenRuns, Settled, DevicesKnown, Tolerated, InRunPoints,
       manifestVars, adapterVars, budgets, Persist, Dispatch, Uniform, Escape, CloseWindow,
       Over, JoinPoints, WritePoints
  <1>8. CASE AppendRun
    <2>1. /\ pc = "append" /\ pc' = "recorded" /\ current' = NoRun /\ NoRun' = NoRun
      BY <1>8 DEF AppendRun, NoRun, FreshRun, Uniform
    <2>2. /\ runs'[Len(runs')] = Downgraded(current)
          /\ Downgraded(current).start = current.start
          /\ Downgraded(current).stop = current.stop
          /\ Downgraded(current).status \in {current.status, "partial"}
          /\ Downgraded(current).status # current.status => current.status = "success"
      BY <1>8, AppendedRecord
    <2>3. Downgraded(current).status \in {"success", "partial"} =>
            current.status \in {"success", "partial"}
      BY <2>2
    <2>4. current.status \in {"success", "partial"} => Settled(Downgraded(current))
      BY <2>1, <2>2 DEF CurrentHonest, CallsOfRun, Settled, InRunPoints
    <2> HIDE DEF IInv, JInv
    <2> QED
      BY <2>1, <2>2, <2>3, <2>4 DEF BetweenRuns, Settled
  <1>9. CASE RunRecorded \/ DrainWritten \/ DrainEnds \/ Finish
    BY <1>9 DEF RunRecorded, DrainWritten, DrainEnds, Finish, BetweenRuns, Settled,
       DevicesKnown, Tolerated, InRunPoints, manifestVars, adapterVars, budgets, Persist,
       Dispatch, Uniform, Escape, CloseWindow, Over, JoinPoints, WritePoints
  <1>10. CASE DrainOne
    BY <1>10 DEF DrainOne, BetweenRuns
  <1>11. CASE OperatorPressesEnter \/ InputCloses \/ InterruptAbsorbed \/
     InterruptMeasuring \/ InterruptEscapes \/ WriteFault
    BY <1>11 DEF OperatorPressesEnter, InputCloses, InterruptAbsorbed, InterruptMeasuring,
       InterruptEscapes, WriteFault, BetweenRuns, Settled, DevicesKnown, Tolerated,
       InRunPoints, manifestVars, adapterVars, budgets, Persist, Dispatch, Uniform, Escape,
       CloseWindow, Over, JoinPoints, WritePoints
  <1>12. ASSUME NEW f \in Families, AdapterStep(f) PROVE BetweenRuns'
    BY <1>12 DEF AdapterStep, StartReturns, StopReturns, Return, BetweenRuns, Settled,
       DevicesKnown, Tolerated, InRunPoints, manifestVars, adapterVars, budgets, Persist,
       Dispatch, Uniform, Escape, CloseWindow, Over, JoinPoints, WritePoints
  <1>13. ASSUME NEW f \in Families, DeviceEnds(f) PROVE BetweenRuns'
    BY <1>13 DEF DeviceEnds, BetweenRuns, Settled, DevicesKnown, Tolerated, InRunPoints,
       manifestVars, adapterVars, budgets, Persist, Dispatch, Uniform, Escape, CloseWindow,
       Over, JoinPoints, WritePoints
  <1> QED
    BY <1>1, <1>2, <1>3, <1>4, <1>5, <1>6, <1>7, <1>8, <1>9, <1>10, <1>11, <1>12, <1>13 DEF
       BetweenRuns, Settled, DevicesKnown, Tolerated, InRunPoints, Next, MainStep,
       OperatorStep, AdapterStep, Terminated, SeriesBoundReached, vars

----------------------------------------------------------------------------
(* What a step of the session is to the adapter of one family. *)

Unsure(f) == f = "endaq"
Unmoved(f) == Phase(f)' = Phase(f) /\ dev'[f] = dev[f] /\ needsStop'[f] = needsStop[f]

MoveStart(f) ==
    /\ Phase(f) \in {"rest", "stopped"} /\ Phase(f)' = "starting"
    /\ dev[f] = "idle" /\ dev'[f] = "idle" /\ ~needsStop'[f]
MoveStarted(f) ==
    /\ Phase(f) = "starting" /\ Phase(f)' = "started"
    /\ needsStop'[f] = Unsure(f)
MoveStartFailed(f) ==
    /\ Phase(f) = "starting" /\ Phase(f)' = "startFailed"
    /\ needsStop'[f] => Unsure(f)
    /\ dev'[f] = "recording" => needsStop'[f]
MoveStop(f) ==
    /\ \/ Phase(f) = "started" /\ Phase(f)' = "stopping"
       \/ Phase(f) = "startFailed" /\ needsStop[f] /\ Phase(f)' = "cleaning"
    /\ dev'[f] = dev[f] /\ needsStop'[f] = needsStop[f]
MoveStopped(f) ==
    /\ Phase(f) = "stopping" /\ Phase(f)' = "stopped"
    /\ dev'[f] = "idle" /\ ~needsStop'[f]
MoveStopFailed(f) ==
    /\ Phase(f) \in {"stopping", "cleaning"} /\ Phase(f)' = "stopFailed"
    /\ \/ dev'[f] = "idle" /\ ~needsStop'[f]
       \/ Unsure(f) /\ dev'[f] \in {dev[f], "idle"} /\ needsStop'[f] = needsStop[f]
MoveEnds(f) ==
    /\ dev[f] = "recording" /\ dev'[f] = "idle"
    /\ Phase(f)' = Phase(f) /\ needsStop'[f] = needsStop[f]
MoveSettle(f) ==
    /\ Phase(f) = "stopped" /\ Phase(f)' = "rest"
    /\ dev'[f] = dev[f] /\ needsStop'[f] = needsStop[f]

Move(f) ==
    \/ Unmoved(f) \/ MoveStart(f) \/ MoveStarted(f) \/ MoveStartFailed(f) \/ MoveStop(f)
    \/ MoveStopped(f) \/ MoveStopFailed(f) \/ MoveEnds(f) \/ MoveSettle(f)

\* The phase is a function of the call and of the record that is latest.
LEMMA PhaseKept ==
  ASSUME NEW f \in Families, call'[f] = call[f],
         LatestRun'.start[f] = LatestRun.start[f], LatestRun'.stop[f] = LatestRun.stop[f]
  PROVE  Phase(f)' = Phase(f)
  BY DEF Phase

LEMMA LatestKept ==
  ASSUME UNCHANGED <<current, runs>>
  PROVE  LatestRun' = LatestRun
  BY DEF LatestRun, NoRun, FreshRun, Uniform

LEMMA LatestIsCurrent ==
  /\ current # NoRun => LatestRun = current
  /\ (current # NoRun => LatestRun = current)'
  BY DEF LatestRun, NoRun, FreshRun, Uniform

\* A record that changes in what neither start nor stop say moves no adapter.
LEMMA MoveNothing ==
  ASSUME NEW f \in Families, UNCHANGED adapterVars,
         \/ UNCHANGED <<current, runs>>
         \/ /\ current # NoRun /\ current' # NoRun'
            /\ current'.start = current.start /\ current'.stop = current.stop
  PROVE  Move(f)
  <1>1. LatestRun'.start[f] = LatestRun.start[f] /\ LatestRun'.stop[f] = LatestRun.stop[f]
    BY LatestKept, LatestIsCurrent
  <1>2. call' = call /\ dev' = dev /\ needsStop' = needsStop
    BY DEF adapterVars
  <1> QED
    BY <1>1, <1>2, PhaseKept DEF Move, Unmoved

\* The phase while a run is under way, by its record.
LEMMA PhaseOfCurrent ==
  ASSUME NEW f \in Families, current # NoRun
  PROVE  /\ call[f] = "start" => Phase(f) = "starting"
         /\ call[f] = "stop" => Phase(f) = IF current.start[f] = "ok" THEN "stopping" ELSE "cleaning"
         /\ call[f] = "ok" => Phase(f) = IF current.start[f] = "none" THEN "started" ELSE "stopped"
         /\ call[f] = "error" =>
              Phase(f) = IF current.start[f] = "none" THEN "startFailed" ELSE "stopFailed"
         /\ call[f] = "none" =>
              /\ current.start[f] = "none" => Phase(f) = "rest"
              /\ current.start[f] # "none" /\ current.stop[f] = "ok" => Phase(f) = "stopped"
              /\ current.start[f] # "none" /\ current.stop[f] = "error" => Phase(f) = "stopFailed"
              /\ current.start[f] # "none" /\ current.stop[f] \notin {"ok", "error"} =>
                   Phase(f) = IF current.start[f] = "ok" THEN "started" ELSE "startFailed"
  BY LatestIsCurrent DEF Phase

LEMMA PhaseOfCurrentNext ==
  ASSUME NEW f \in Families, current' # NoRun'
  PROVE  /\ call'[f] = "start" => Phase(f)' = "starting"
         /\ call'[f] = "stop" => Phase(f)' = IF current'.start[f] = "ok" THEN "stopping" ELSE "cleaning"
         /\ call'[f] = "ok" => Phase(f)' = IF current'.start[f] = "none" THEN "started" ELSE "stopped"
         /\ call'[f] = "error" =>
              Phase(f)' = IF current'.start[f] = "none" THEN "startFailed" ELSE "stopFailed"
         /\ call'[f] = "none" =>
              /\ current'.start[f] = "none" => Phase(f)' = "rest"
              /\ current'.start[f] # "none" /\ current'.stop[f] = "ok" => Phase(f)' = "stopped"
              /\ current'.start[f] # "none" /\ current'.stop[f] = "error" => Phase(f)' = "stopFailed"
              /\ current'.start[f] # "none" /\ current'.stop[f] \notin {"ok", "error"} =>
                   Phase(f)' = IF current'.start[f] = "ok" THEN "started" ELSE "startFailed"
  BY LatestIsCurrent DEF Phase

\* Between two runs an adapter is at rest or stopped.
LEMMA PhaseBetweenRuns ==
  ASSUME IInv, JInv, KInv, pc \in {"schedule", "begin"}, NEW f \in Families
  PROVE  Phase(f) \in {"rest", "stopped"}
  <1>1. current = NoRun /\ call[f] = "none"
    BY DEF IInv, CallsMatchPc, QuietPoints, KInv, BetweenRuns
  <1>2. CASE runs = <<>>
    BY <1>1, <1>2 DEF Phase, LatestRun, NoRun, FreshRun, Uniform
  <1>3. CASE runs # <<>>
    <2>1. LatestRun = runs[Len(runs)]
      BY <1>1, <1>3 DEF LatestRun
    <2>2. LatestRun.start[f] = "none" \/ LatestRun.stop[f] = "ok"
      BY <1>3, <2>1 DEF KInv, BetweenRuns, Settled
    <2> QED
      BY <1>1, <2>2 DEF Phase
  <1> QED
    BY <1>2, <1>3

\* A run under way has a record.
LEMMA UnderWay ==
  ASSUME JInv
  PROVE  /\ pc \in InRunPoints \ {"begin"} => current # NoRun
         /\ \A f \in Families : call[f] \in {"start", "stop"} => current # NoRun
  BY DEF JInv, LeftExplained, NoRun, FreshRun

LEMMA UnderWayNext ==
  ASSUME JInv'
  PROVE  pc' \in InRunPoints \ {"begin"} => current' # NoRun'
  BY DEF JInv, LeftExplained, NoRun, FreshRun

\* The stops of a run, and their results.
LEMMA MoveOfStops ==
  ASSUME IInv, JInv, KInv, JInv', NEW f \in Families,
         RequestStop \/ CollectCleanup \/ CollectStops
  PROVE  Move(f)
  <1>1. CASE RequestStop
    <2>1. /\ pc = "stopReq" /\ pc' = "stopping" /\ dev' = dev /\ needsStop' = needsStop
          /\ current' = current
          /\ call'[f] = IF current.start[f] = "ok" THEN "stop" ELSE "none"
      BY <1>1 DEF RequestStop, Dispatch, Started
    <2>2. /\ current # NoRun /\ current' # NoRun' /\ call[f] = "none" /\ current.stop[f] = "none"
      BY <2>1, UnderWay, UnderWayNext
         DEF InRunPoints, IInv, CallsMatchPc, QuietPoints, CurrentHonest
    <2>3. CASE current.start[f] = "ok"
      <3>1. Phase(f) = "started" /\ Phase(f)' = "stopping"
        BY <2>1, <2>2, <2>3, PhaseOfCurrent, PhaseOfCurrentNext
      <3> QED
        BY <2>1, <3>1 DEF Move, MoveStop
    <2>4. CASE current.start[f] # "ok"
      <3>1. call'[f] = call[f]
        BY <2>1, <2>2, <2>4
      <3>2. Phase(f)' = Phase(f)
        BY <2>1, <2>2, <3>1, LatestIsCurrent, PhaseKept
      <3> QED
        BY <2>1, <3>2 DEF Move, Unmoved
    <2> QED
      BY <2>3, <2>4
  <1>2. CASE CollectCleanup \/ CollectStops
    <2>1. /\ pc \in {"cleanup", "stopping"} /\ pc' \in {"processing", "append"}
          /\ dev' = dev /\ needsStop' = needsStop
          /\ call[f] \notin {"start", "stop"} /\ call'[f] = "none"
      BY <1>2 DEF CollectCleanup, CollectStops, Idle, Dispatch
    <2>2. current # NoRun /\ current' # NoRun' /\ TypeOK
      BY <2>1, UnderWay, UnderWayNext DEF InRunPoints, IInv
    <2>3. /\ current'.start = current.start
          /\ current'.stop[f] = IF call[f] = "none" THEN current.stop[f] ELSE call[f]
      BY <1>2, <2>2, CollectedRecords DEF CollectCleanup, CollectStops
    <2>4. call[f] \in {"none", "ok", "error"}
      BY <2>1, <2>2 DEF TypeOK
    <2>5. call[f] # "none" => current.start[f] # "none"
      BY <2>1 DEF KInv, CallsOfRun
    <2>6. Phase(f)' = Phase(f)
      <3>1. CASE call[f] = "none"
        BY <2>1, <2>2, <2>3, <3>1, LatestIsCurrent, PhaseKept
      <3>2. CASE call[f] \in {"ok", "error"}
        BY <2>1, <2>2, <2>3, <2>5, <3>2, PhaseOfCurrent, PhaseOfCurrentNext
      <3> QED
        BY <2>4, <3>1, <3>2
    <2> QED
      BY <2>1, <2>6 DEF Move, Unmoved
  <1> QED
    BY <1>1, <1>2

\* The record joins the manifest, alone or after a missed start; the deferred
\* exports rewrite how it was processed.
LEMMA MoveOfManifest ==
  ASSUME IInv, JInv, KInv, NEW f \in Families, AppendRun \/ MissedStartAborts \/ DrainOne
  PROVE  Move(f)
  <1> USE DEF adapterVars
  <1>1. CASE AppendRun
    <2>1. /\ pc = "append" /\ current' = NoRun /\ NoRun' = NoRun /\ UNCHANGED adapterVars
      BY <1>1 DEF AppendRun, NoRun, FreshRun, Uniform
    <2>2. /\ runs' # <<>> /\ runs'[Len(runs')] = Downgraded(current)
          /\ Downgraded(current).start = current.start
          /\ Downgraded(current).stop = current.stop
      BY <1>1, AppendedRecord, LenProperties DEF IInv
    <2>3. LatestRun = current
      BY <2>1, UnderWay, LatestIsCurrent DEF InRunPoints
    <2>4. LatestRun' = runs'[Len(runs')]
      BY <2>1, <2>2 DEF LatestRun
    <2>5. Phase(f)' = Phase(f)
      BY <2>1, <2>2, <2>3, <2>4, PhaseKept
    <2> QED
      BY <2>1, <2>5 DEF Move, Unmoved
  <1>2. CASE MissedStartAborts
    <2>1. /\ pc = "schedule" /\ current' = current /\ UNCHANGED adapterVars
          /\ runs' = Append(runs, FreshRun("aborted"))
      BY <1>2 DEF MissedStartAborts
    <2>2. current = NoRun /\ call[f] = "none" /\ NoRun' = NoRun
      BY <2>1 DEF KInv, BetweenRuns, IInv, CallsMatchPc, QuietPoints, NoRun, FreshRun, Uniform
    <2>3. LatestRun' = FreshRun("aborted")
      <3>1. runs' # <<>> /\ runs'[Len(runs')] = FreshRun("aborted")
        BY <2>1, FreshRunType, AppendProperties, LenProperties DEF IInv, TypeOK, RunStatusNames
      <3> QED
        BY <2>1, <2>2, <3>1 DEF LatestRun
    <2>4. Phase(f)' = "rest"
      BY <2>1, <2>2, <2>3 DEF Phase, FreshRun, Uniform
    <2>5. Phase(f) \in {"rest", "stopped"}
      BY <2>1, PhaseBetweenRuns
    <2> QED
      BY <2>1, <2>4, <2>5 DEF Move, Unmoved, MoveSettle
  <1>3. CASE DrainOne
    <2>1. current' = current /\ UNCHANGED adapterVars
      BY <1>3 DEF DrainOne
    <2>2. /\ runs' \in Seq(RunRecords) /\ runs \in Seq(RunRecords) /\ Len(runs') = Len(runs)
          /\ \A i \in DOMAIN runs : runs'[i].start = runs[i].start /\ runs'[i].stop = runs[i].stop
      BY <1>3, DrainedRuns DEF IInv, TypeOK
    <2>3. (runs' = <<>>) = (runs = <<>>)
      BY <2>2
    <2>4. runs # <<>> => Len(runs) \in DOMAIN runs
      BY <2>2
    <2>5. NoRun' = NoRun
      BY DEF NoRun, FreshRun, Uniform
    <2>6. LatestRun'.start = LatestRun.start /\ LatestRun'.stop = LatestRun.stop
      BY <2>1, <2>2, <2>3, <2>4, <2>5 DEF LatestRun
    <2>7. Phase(f)' = Phase(f)
      BY <2>1, <2>6, PhaseKept
    <2> QED
      BY <2>1, <2>7 DEF Move, Unmoved
  <1> QED
    BY <1>1, <1>2, <1>3

\* The answers of the adapter threads, and a recorder that stops by itself.
LEMMA MoveOfAdapters ==
  ASSUME IInv, JInv, KInv, NEW f \in Families,
         NEW g \in Families, StartReturns(g) \/ StopReturns(g) \/ DeviceEnds(g)
  PROVE  Move(f)
  <1>1. /\ call \in [Families -> {"none", "start", "stop", "ok", "error"}]
        /\ dev \in [Families -> {"idle", "recording"}]
        /\ needsStop \in [Families -> BOOLEAN]
    BY DEF IInv, TypeOK
  <1>2. current' = current /\ runs' = runs
    BY DEF StartReturns, StopReturns, DeviceEnds, Return, manifestVars
  <1>3. LatestRun' = LatestRun /\ NoRun' = NoRun
    BY <1>2, LatestKept DEF NoRun, FreshRun, Uniform
  <1>4. CASE f # g
    <2>1. call'[f] = call[f] /\ dev'[f] = dev[f] /\ needsStop'[f] = needsStop[f]
      BY <1>1, <1>4 DEF StartReturns, StopReturns, DeviceEnds, Return
    <2> QED
      BY <1>3, <2>1, PhaseKept DEF Move, Unmoved
  <1>5. CASE f = g /\ DeviceEnds(g)
    <2>1. call' = call /\ dev[f] = "recording" /\ dev'[f] = "idle" /\ needsStop' = needsStop
      BY <1>1, <1>5 DEF DeviceEnds
    <2> QED
      BY <1>3, <2>1, PhaseKept DEF Move, MoveEnds
  <1>6. CASE f = g /\ StartReturns(g)
    <2>1. call[f] = "start" /\ current # NoRun /\ current' # NoRun'
      BY <1>2, <1>3, <1>6, UnderWay DEF StartReturns
    <2>2. Phase(f) = "starting" /\ current.start[f] = "none" /\ dev[f] = "idle"
      BY <2>1, PhaseOfCurrent DEF KInv, CallsOfRun
    <2>3. \/ call'[f] = "ok" /\ needsStop'[f] = Unsure(f)
          \/ call'[f] = "error" /\ ~needsStop'[f] /\ dev'[f] = dev[f]
          \/ call'[f] = "error" /\ Unsure(f) /\ needsStop'[f]
      BY <1>1, <1>6 DEF StartReturns, Return, Unsure
    <2>4. /\ call'[f] = "ok" => Phase(f)' = "started"
          /\ call'[f] = "error" => Phase(f)' = "startFailed"
      BY <1>2, <2>1, <2>2, PhaseOfCurrentNext
    <2> QED
      BY <2>2, <2>3, <2>4 DEF Move, MoveStarted, MoveStartFailed
  <1>7. CASE f = g /\ StopReturns(g)
    <2>1. call[f] = "stop" /\ current # NoRun /\ current' # NoRun'
      BY <1>2, <1>3, <1>7, UnderWay DEF StopReturns
    <2>2. /\ current.start[f] # "none"
          /\ Phase(f) = IF current.start[f] = "ok" THEN "stopping" ELSE "cleaning"
      BY <2>1, PhaseOfCurrent DEF KInv, CallsOfRun
    <2>3. \/ call'[f] = "ok" /\ current.start[f] = "ok" /\ dev'[f] = "idle" /\ ~needsStop'[f]
          \/ call'[f] = "error" /\ dev'[f] = "idle" /\ ~needsStop'[f]
          \/ /\ call'[f] = "error" /\ Unsure(f)
             /\ dev'[f] \in {dev[f], "idle"} /\ needsStop'[f] = needsStop[f]
      BY <1>1, <1>7 DEF StopReturns, Return, Unsure
    <2>4. /\ call'[f] = "ok" => Phase(f)' = "stopped"
          /\ call'[f] = "error" => Phase(f)' = "stopFailed"
      BY <1>2, <2>1, <2>2, PhaseOfCurrentNext
    <2> QED
      BY <2>2, <2>3, <2>4 DEF Move, MoveStopped, MoveStopFailed
  <1> QED
    BY <1>4, <1>5, <1>6, <1>7

\* The starts of a run, and their results.
LEMMA StartsRecorded ==
  ASSUME TypeOK, CollectStarts
  PROVE  /\ \A f \in Families : current'.start[f] = IF f \in active THEN call[f] ELSE "none"
         /\ \A f \in Families : f \in RequiringCleanup(StartsCollected) <=>
              f \in active /\ (call[f] = "ok" \/ needsStop[f])
  <1>1. StartsCollected \in RunRecords
    BY CollectedRecords DEF CollectStarts
  <1>2. \A f \in Families : StartsCollected.start[f] = IF f \in active THEN call[f] ELSE "none"
    BY DEF StartsCollected, TypeOK, RunRecords
  <1>3. \/ current' = StartsCollected
        \/ \E s \in {"failed", "interrupted"} : current' = [StartsCollected EXCEPT !.status = s]
    BY DEF CollectStarts
  <1>4. current'.start = StartsCollected.start
    BY <1>1, <1>3 DEF RunRecords
  <1> QED
    BY <1>2, <1>4 DEF RequiringCleanup, Started

LEMMA MoveOfStarts ==
  ASSUME IInv, JInv, KInv, JInv', NEW f \in Families, BeginRun \/ CollectStarts
  PROVE  Move(f)
  <1>1. CASE BeginRun
    <2>1. /\ pc = "begin" /\ pc' = "starting" /\ dev' = dev /\ needsStop' = needsStop
          /\ call'[f] = IF f \in active THEN "start" ELSE "none"
      BY <1>1 DEF BeginRun, Dispatch
    <2>2. current'.start[f] = "none" /\ current' # NoRun'
      BY <1>1, <2>1, UnderWayNext DEF BeginRun, FreshRun, Uniform, InRunPoints
    <2>3. Phase(f)' = IF f \in active THEN "starting" ELSE "rest"
      BY <2>1, <2>2, PhaseOfCurrentNext
    <2>4. Phase(f) \in {"rest", "stopped"}
      BY <2>1, PhaseBetweenRuns
    <2>5. dev[f] = "idle" /\ ~needsStop[f]
      BY <2>1, <2>4 DEF IInv, DevicesKnown, KInv, DebtPaid
    <2> QED
      BY <2>1, <2>3, <2>4, <2>5 DEF Move, MoveStart, MoveSettle, Unmoved
  <1>2. CASE CollectStarts
    <2>1. /\ pc = "starting" /\ pc' \in {"cleanup", "append", "armed"} /\ dev' = dev
          /\ needsStop' = needsStop /\ call[f] \notin {"start", "stop"}
      BY <1>2 DEF CollectStarts, Idle
    <2>2. current # NoRun /\ current' # NoRun' /\ TypeOK
      BY <2>1, UnderWay, UnderWayNext DEF InRunPoints, IInv
    <2>3. /\ current.start[f] = "none" /\ current'.stop[f] = "none"
          /\ current'.start[f] = IF f \in active THEN call[f] ELSE "none"
      BY <1>2, <2>1, <2>2, StartedRecord, StartsRecorded DEF IInv, CurrentHonest, KInv, CallsOfRun
    <2>4. call[f] \in {"none", "ok", "error"} /\ (call[f] = "none" <=> f \notin active)
      BY <2>1, <2>2 DEF IInv, CallsMatchPc, TypeOK
    <2>5. call'[f] = IF pc' = "cleanup" /\ f \in active /\ (call[f] = "ok" \/ needsStop[f])
                     THEN "stop" ELSE "none"
      BY <1>2, <2>1, <2>2, StartsRecorded DEF CollectStarts, Dispatch
    <2>6. CASE f \notin active
      BY <2>1, <2>2, <2>3, <2>4, <2>5, <2>6, PhaseOfCurrent, PhaseOfCurrentNext DEF Move, Unmoved
    <2>7. CASE f \in active /\ call[f] = "ok"
      <3>1. Phase(f) = "started"
        BY <2>2, <2>3, <2>7, PhaseOfCurrent
      <3>2. Phase(f)' = IF pc' = "cleanup" THEN "stopping" ELSE "started"
        BY <2>2, <2>3, <2>5, <2>7, PhaseOfCurrentNext
      <3> QED
        BY <2>1, <3>1, <3>2 DEF Move, Unmoved, MoveStop
    <2>8. CASE f \in active /\ call[f] = "error"
      <3>1. Phase(f) = "startFailed"
        BY <2>2, <2>3, <2>8, PhaseOfCurrent
      <3>2. Phase(f)' = IF pc' = "cleanup" /\ needsStop[f] THEN "cleaning" ELSE "startFailed"
        BY <2>2, <2>3, <2>5, <2>8, PhaseOfCurrentNext
      <3> QED
        BY <2>1, <3>1, <3>2 DEF Move, Unmoved, MoveStop
    <2> QED
      BY <2>4, <2>6, <2>7, <2>8
  <1> QED
    BY <1>1, <1>2

LEMMA NextMoves ==
  ASSUME IInv, JInv, KInv, JInv', Next, NEW f \in Families
  PROVE  Move(f)
  <1>1. CASE BeginRun \/ CollectStarts
    BY <1>1, MoveOfStarts
  <1>2. CASE RequestStop \/ CollectCleanup \/ CollectStops
    BY <1>2, MoveOfStops
  <1>3. CASE AppendRun \/ MissedStartAborts \/ DrainOne
    BY <1>3, MoveOfManifest
  <1>4. ASSUME NEW g \in Families, AdapterStep(g) \/ DeviceEnds(g) PROVE Move(f)
    BY <1>4, MoveOfAdapters DEF AdapterStep
  <1>5. CASE OpenWindow \/ Process
    <2>1. /\ pc \in InRunPoints \ {"begin"} /\ pc' \in InRunPoints \ {"begin"}
          /\ UNCHANGED adapterVars
      BY <1>5 DEF OpenWindow, Process, InRunPoints
    <2>2. current'.start = current.start /\ current'.stop = current.stop
      <3>1. CASE OpenWindow
        BY <3>1 DEF OpenWindow, IInv, TypeOK, RunRecords
      <3>2. CASE Process
        BY <3>2, ProcessedRecord DEF IInv
      <3> QED
        BY <1>5, <3>1, <3>2
    <2> QED
      BY <2>1, <2>2, UnderWay, UnderWayNext, MoveNothing
  <1>6. CASE \/ PreflightAborts \/ PreflightPasses \/ RunIsDue \/ SeriesEnds \/ DurationElapses
             \/ RunRecorded \/ DrainWritten \/ DrainEnds \/ Finish \/ OperatorStep \/ WriteFault
             \/ Terminated \/ SeriesBoundReached
    <2>1. UNCHANGED <<current, runs>> /\ UNCHANGED adapterVars
      BY <1>6 DEF PreflightAborts, PreflightPasses, RunIsDue, SeriesEnds, DurationElapses,
         RunRecorded, DrainWritten, DrainEnds, Finish, OperatorStep, OperatorPressesEnter,
         InputCloses, InterruptAbsorbed, InterruptMeasuring, InterruptEscapes, WriteFault,
         CloseWindow, Escape, Terminated, SeriesBoundReached, manifestVars, adapterVars, vars
    <2> QED
      BY <2>1, MoveNothing
  <1> QED
    BY <1>1, <1>2, <1>3, <1>4, <1>5, <1>6 DEF Next, MainStep

LEMMA DebtPaidStep ==
  ASSUME DebtPaid, \A f \in Families : Move(f)
  PROVE  DebtPaid'
  <1> SUFFICES ASSUME NEW f \in Families, Phase(f)' \in {"rest", "stopped"}
               PROVE  ~needsStop'[f]
    BY DEF DebtPaid
  <1>1. Phase(f) \in {"rest", "stopped"} => ~needsStop[f]
    BY DEF DebtPaid
  <1> QED
    BY <1>1 DEF Move, Unmoved, MoveStart, MoveStarted, MoveStartFailed, MoveStop, MoveStopped,
       MoveStopFailed, MoveEnds, MoveSettle

----------------------------------------------------------------------------
(* A step of the session is a step of the contract, for either adapter. *)

LEMMA GatorCallsMove ==
  ASSUME TypeOK, TypeOK', Move("gator")
  PROVE  [GatorCalls!Next]_(GatorCalls!vars)
  <1> DEFINE f == "gator"
  <1>1. /\ dev[f] \in {"idle", "recording"} /\ dev'[f] \in {"idle", "recording"}
        /\ needsStop[f] \in BOOLEAN /\ needsStop'[f] \in BOOLEAN
    BY DEF TypeOK, Families
  <1>2. Unsure(f) = FALSE
    BY DEF Unsure
  <1>3. CASE Unmoved(f)
    BY <1>3 DEF Unmoved, GatorCalls!vars
  <1>4. CASE MoveStart(f)
    BY <1>1, <1>4 DEF MoveStart, GatorCalls!Next, GatorCalls!Start
  <1>5. CASE MoveStarted(f)
    BY <1>1, <1>2, <1>5 DEF MoveStarted, GatorCalls!Next, GatorCalls!StartReturns, GatorCalls!StartSucceeds
  <1>6. CASE MoveStartFailed(f)
    BY <1>1, <1>2, <1>6 DEF MoveStartFailed, GatorCalls!Next, GatorCalls!StartReturns, GatorCalls!StartFails
  <1>7. CASE MoveStop(f)
    BY <1>1, <1>7 DEF MoveStop, GatorCalls!Next, GatorCalls!Stop
  <1>8. CASE MoveStopped(f)
    BY <1>1, <1>8 DEF MoveStopped, GatorCalls!Next, GatorCalls!StopReturns, GatorCalls!StopSucceeds
  <1>9. CASE MoveStopFailed(f)
    BY <1>1, <1>2, <1>9 DEF MoveStopFailed, GatorCalls!Next, GatorCalls!StopReturns, GatorCalls!StopFails
  <1>10. CASE MoveEnds(f)
    BY <1>1, <1>10 DEF MoveEnds, GatorCalls!Next, GatorCalls!RecorderEnds
  <1>11. CASE MoveSettle(f)
    BY <1>1, <1>11 DEF MoveSettle, GatorCalls!Next, GatorCalls!Settle
  <1> QED
    BY <1>3, <1>4, <1>5, <1>6, <1>7, <1>8, <1>9, <1>10, <1>11 DEF Move

LEMMA EndaqCallsMove ==
  ASSUME TypeOK, TypeOK', Move("endaq")
  PROVE  [EndaqCalls!Next]_(EndaqCalls!vars)
  <1> DEFINE f == "endaq"
  <1>1. /\ dev[f] \in {"idle", "recording"} /\ dev'[f] \in {"idle", "recording"}
        /\ needsStop[f] \in BOOLEAN /\ needsStop'[f] \in BOOLEAN
    BY DEF TypeOK, Families
  <1>2. Unsure(f) = TRUE
    BY DEF Unsure
  <1>3. CASE Unmoved(f)
    BY <1>3 DEF Unmoved, EndaqCalls!vars
  <1>4. CASE MoveStart(f)
    BY <1>1, <1>4 DEF MoveStart, EndaqCalls!Next, EndaqCalls!Start
  <1>5. CASE MoveStarted(f)
    BY <1>1, <1>2, <1>5 DEF MoveStarted, EndaqCalls!Next, EndaqCalls!StartReturns, EndaqCalls!StartSucceeds
  <1>6. CASE MoveStartFailed(f)
    BY <1>1, <1>2, <1>6 DEF MoveStartFailed, EndaqCalls!Next, EndaqCalls!StartReturns, EndaqCalls!StartFails
  <1>7. CASE MoveStop(f)
    BY <1>1, <1>7 DEF MoveStop, EndaqCalls!Next, EndaqCalls!Stop
  <1>8. CASE MoveStopped(f)
    BY <1>1, <1>8 DEF MoveStopped, EndaqCalls!Next, EndaqCalls!StopReturns, EndaqCalls!StopSucceeds
  <1>9. CASE MoveStopFailed(f)
    BY <1>1, <1>2, <1>9 DEF MoveStopFailed, EndaqCalls!Next, EndaqCalls!StopReturns, EndaqCalls!StopFails
  <1>10. CASE MoveEnds(f)
    BY <1>1, <1>10 DEF MoveEnds, EndaqCalls!Next, EndaqCalls!RecorderEnds
  <1>11. CASE MoveSettle(f)
    BY <1>1, <1>11 DEF MoveSettle, EndaqCalls!Next, EndaqCalls!Settle
  <1> QED
    BY <1>3, <1>4, <1>5, <1>6, <1>7, <1>8, <1>9, <1>10, <1>11 DEF Move

----------------------------------------------------------------------------
(* The theorem. *)

LEMMA InitCalls == Init => KInv
  <1> SUFFICES ASSUME Init PROVE KInv
    OBVIOUS
  <1>1. CallsOfRun /\ BetweenRuns
    BY DEF Init, CallsOfRun, BetweenRuns, InRunPoints, Uniform
  <1>2. DebtPaid
    BY DEF Init, DebtPaid, Uniform
  <1> QED
    BY <1>1, <1>2 DEF KInv

LEMMA NextCalls == IInv /\ JInv /\ KInv /\ JInv' /\ [Next]_vars => KInv'
  <1> SUFFICES ASSUME IInv, JInv, KInv, JInv', [Next]_vars PROVE KInv'
    OBVIOUS
  <1>1. CASE Next
    <2>1. TypeOK'
      BY <1>1, NextType DEF IInv
    <2> QED
      BY <1>1, <2>1, CallsOfRunStep, BetweenRunsStep, NextMoves, DebtPaidStep DEF KInv
  <1>2. CASE UNCHANGED vars
    <2>1. CallsOfRun' /\ BetweenRuns'
      BY <1>2 DEF vars, KInv, CallsOfRun, BetweenRuns, Settled, NoRun, FreshRun, Uniform
    <2>2. \A f \in Families : Move(f)
      BY <1>2, MoveNothing DEF vars, adapterVars
    <2> QED
      BY <2>1, <2>2, DebtPaidStep DEF KInv
  <1> QED
    BY <1>1, <1>2

LEMMA CallsInvariance == Spec => [](IInv /\ JInv /\ KInv)
  BY RunsInvariance, InitCalls, NextCalls, PTL DEF Spec

\* The session keeps its side of the contract, with both adapters at once: see
\* KeepsContracts. Nothing is started that may still record, and nothing is
\* stopped that owes no stop, whatever the adapters, the devices, the operator
\* and the storage do.
THEOREM ContractsKept == Spec => KeepsContracts
  <1>1. Init => GatorCalls!Init /\ EndaqCalls!Init
    <2> SUFFICES ASSUME Init PROVE GatorCalls!Init /\ EndaqCalls!Init
      OBVIOUS
    <2>1. \A f \in Families : Phase(f) = "rest" /\ dev[f] = "idle" /\ needsStop[f] = FALSE
      BY DEF Init, Phase, LatestRun, NoRun, FreshRun, Uniform
    <2> QED
      BY <2>1 DEF GatorCalls!Init, EndaqCalls!Init, Families
  <1>2. ASSUME IInv, JInv, KInv, IInv', JInv', [Next]_vars
        PROVE  [GatorCalls!Next]_(GatorCalls!vars) /\ [EndaqCalls!Next]_(EndaqCalls!vars)
    <2>1. \A f \in Families : Move(f)
      <3>1. CASE Next
        BY <1>2, <3>1, NextMoves
      <3>2. CASE UNCHANGED vars
        BY <3>2, MoveNothing DEF vars, adapterVars
      <3> QED
        BY <1>2, <3>1, <3>2
    <2>2. TypeOK /\ TypeOK'
      BY <1>2 DEF IInv
    <2> QED
      BY <2>1, <2>2, GatorCallsMove, EndaqCallsMove DEF Families
  <1> QED
    BY <1>1, <1>2, CallsInvariance, PTL
       DEF Spec, KeepsContracts, GatorCalls!Spec, EndaqCalls!Spec
=============================================================================

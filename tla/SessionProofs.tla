--------------------------- MODULE SessionProofs ---------------------------
(* What holds of Session for every bound on runs, interrupts and faults.    *)
EXTENDS Session, SequenceTheorems, TLAPS

----------------------------------------------------------------------------
(* The inductive invariant. *)

InRunPoints == {"begin", "starting", "cleanup", "armed", "measuring", "stopReq", "stopping",
                "processing", "append"}
QuietPoints == {"preflight", "schedule", "begin", "armed", "measuring", "stopReq", "processing",
                "append", "recorded", "drain", "drained", "finish"}

\* The series never exceeds its limit, and a run in progress is within it.
RunLimit == IF config.runCount = 0 THEN MaxRuns ELSE config.runCount
RunsBounded ==
    /\ Len(runs) <= RunLimit
    /\ pc \in InRunPoints => Len(runs) < RunLimit

\* Adapter calls are in flight only while the main thread joins them, and a
\* fan-out holds one kind of call.
CallsMatchPc ==
    /\ pc \in QuietPoints => \A f \in Families : call[f] = "none"
    /\ pc = "starting" => \A f \in Families :
         call[f] # "stop" /\ (call[f] = "none" <=> f \notin active)
    /\ pc \in {"cleanup", "stopping"} => \A f \in Families : call[f] # "start"

\* A recorder is known idle before a run, after a stop that succeeded, and
\* when its family never passed preflight.
DevicesKnown ==
    /\ pc \in {"preflight", "schedule", "begin"} => \A f \in Families : dev[f] = "idle"
    /\ pc \in InRunPoints => \A f \in Families \ active : dev[f] = "idle"
    /\ pc \in {"cleanup", "stopping"} => \A f \in Families : call[f] = "ok" => dev[f] = "idle"
    /\ pc \in {"processing", "append"} =>
         \A f \in Families : current.stop[f] = "ok" => dev[f] = "idle"
    /\ pc = "recorded" /\ runs[Len(runs)].status \in {"success", "partial"} =>
         \A f \in Families : dev[f] = "idle"
    /\ pc = "recorded" =>
         runs # <<>> /\ runs[Len(runs)].status \in {"success", "partial", "failed", "interrupted"}

\* The record under construction tells what was started and what was stopped.
CurrentHonest ==
    /\ pc \in {"starting", "armed", "measuring", "stopReq", "stopping", "cleanup"} =>
         \A f \in Families : current.stop[f] = "none"
    /\ pc \in {"armed", "measuring", "stopReq", "stopping", "processing"} =>
         \A f \in active : current.start[f] # "none"
    /\ pc = "cleanup" => current.status \in {"failed", "interrupted"}
    /\ pc = "append" => current.status \in {"success", "partial", "failed", "interrupted"}
    /\ pc = "append" /\ current.status \in {"success", "partial"} =>
         \A f \in active : current.stop[f] = "ok"
    /\ pc = "append" /\ current.status = "success" =>
         \A f \in active : current.start[f] = "ok"

\* A run recorded as a success acquired from every ENABLED family.
RunsHonest ==
    \A i \in DOMAIN runs : runs[i].status = "success" =>
        \A f \in config.enabled : runs[i].start[f] = "ok" /\ runs[i].stop[f] = "ok"

\* Success is decided once, at the end of a complete series.
SuccessDecided ==
    goal = "success" =>
        /\ pc \in {"drain", "drained", "finish", "done"}
        /\ config.runCount # 0
        /\ Len(runs) = config.runCount
        /\ \A i \in DOMAIN runs : runs[i].status = "success"
        /\ \A f \in Families : call[f] = "none" /\ dev[f] = "idle"
GoalDecided == pc \in {"drain", "drained", "finish", "handler"} => goal \in FinalStatuses
StatusDecided ==
    /\ status = "success" => pc = "done"
    /\ pc = "done" => status = goal /\ disk = [status |-> status, runs |-> runs]

IInv ==
    /\ TypeOK
    /\ RunsBounded
    /\ CallsMatchPc
    /\ DevicesKnown
    /\ CurrentHonest
    /\ RunsHonest
    /\ SuccessDecided
    /\ GoalDecided
    /\ StatusDecided

----------------------------------------------------------------------------
(* Types. *)

LEMMA RunLimitType ==
  ASSUME TypeOK
  PROVE  RunLimit \in 0..MaxRuns
  BY BoundsAssumption DEF TypeOK, Configs, RunLimit

LEMMA ActiveAreFamilies ==
  ASSUME TypeOK
  PROVE  config.enabled \in SUBSET Families /\ active \in SUBSET Families
  BY DEF TypeOK, Configs

RunStatusNames == {"none", "starting", "measuring", "success", "partial", "failed",
                   "interrupted", "aborted"}
USE DEF RunStatusNames

LEMMA FreshRunType ==
  ASSUME NEW s \in RunStatusNames
  PROVE  FreshRun(s) \in RunRecords
  BY DEF FreshRun, RunRecords, Uniform, Outcomes, Families

LEMMA InitType == Init => TypeOK
  <1> SUFFICES ASSUME Init PROVE TypeOK
    OBVIOUS
  <1>1. current \in RunRecords
    BY FreshRunType DEF NoRun, Init
  <1>2. active \in SUBSET config.enabled /\ config \in Configs
    BY DEF Init
  <1>3. runs \in Seq(RunRecords) /\ Len(runs) <= MaxRuns /\ deferred \in Seq(1..MaxRuns)
    BY BoundsAssumption DEF Init
  <1>4. disk \in [status : FinalStatuses \cup {"initializing", "running"}, runs : Seq(RunRecords)]
    BY <1>3 DEF Init
  <1>5. /\ call \in [Families -> {"none", "start", "stop", "ok", "error"}]
        /\ dev \in [Families -> {"idle", "recording"}]
        /\ needsStop \in [Families -> BOOLEAN]
    BY DEF Init, Uniform
  <1>6. sigints \in 0..MaxInterrupts /\ faults \in 0..MaxFaults
    BY BoundsAssumption DEF Init
  <1> QED
    BY <1>1, <1>2, <1>3, <1>4, <1>5, <1>6 DEF Init, TypeOK

\* The record updates of _execute_run.
LEMMA RecordUpdates ==
  ASSUME NEW r \in RunRecords
  PROVE  /\ \A s \in RunStatusNames :
              /\ [r EXCEPT !.status = s] \in RunRecords
              /\ [r EXCEPT !.status = s].status = s
              /\ [r EXCEPT !.status = s].start = r.start
              /\ [r EXCEPT !.status = s].stop = r.stop
         /\ \A g \in [Families -> Outcomes] :
              /\ [r EXCEPT !.start = g] \in RunRecords
              /\ [r EXCEPT !.start = g].start = g
              /\ [r EXCEPT !.start = g].stop = r.stop
              /\ [r EXCEPT !.stop = g] \in RunRecords
              /\ [r EXCEPT !.stop = g].start = r.start
              /\ [r EXCEPT !.stop = g].stop = g
              /\ [r EXCEPT !.stop = g].status = r.status
         /\ Started(r) \in SUBSET Families
  BY DEF RunRecords, Started

LEMMA CollectedRecords ==
  ASSUME TypeOK, Idle
  PROVE  /\ StartsCollected \in RunRecords
         /\ \A f \in active : StartsCollected.start[f] = call[f]
         /\ StartsCollected.stop = current.stop
         /\ StopsCollected \in RunRecords
         /\ StopsCollected.start = current.start
         /\ StopsCollected.status = current.status
         /\ \A f \in Families : StopsCollected.stop[f] =
               IF call[f] = "none" THEN current.stop[f] ELSE call[f]
  <1> DEFINE gs == [f \in Families |-> IF f \in active THEN call[f] ELSE "none"]
             gp == [f \in Families |-> IF call[f] = "none" THEN current.stop[f] ELSE call[f]]
  <1>1. current \in RunRecords
    BY DEF TypeOK
  <1>2. \A f \in Families : call[f] \in Outcomes /\ current.stop[f] \in Outcomes
    BY <1>1 DEF TypeOK, Idle, Outcomes, RunRecords
  <1>3. gs \in [Families -> Outcomes] /\ gp \in [Families -> Outcomes]
    BY <1>2 DEF Outcomes
  <1>4. /\ \A f \in active : gs[f] = call[f]
        /\ \A f \in Families : gp[f] = IF call[f] = "none" THEN current.stop[f] ELSE call[f]
    BY ActiveAreFamilies
  <1>5. StartsCollected = [current EXCEPT !.start = gs] /\ StopsCollected = [current EXCEPT !.stop = gp]
    BY DEF StartsCollected, StopsCollected
  <1> HIDE DEF gs, gp
  <1> QED
    BY <1>1, <1>3, <1>4, <1>5 DEF RunRecords

LEMMA StartedRecord ==
  ASSUME TypeOK, CollectStarts
  PROVE  /\ current' \in RunRecords
         /\ \A f \in active : current'.start[f] = call[f]
         /\ current'.stop = current.stop
         /\ pc' \in {"cleanup", "append"} => current'.status \in {"failed", "interrupted"}
         /\ pc' \in {"cleanup", "append", "armed"}
  <1>1. Idle
    BY DEF CollectStarts
  <1>2. \/ pc' = "armed" /\ current' = StartsCollected
        \/ /\ pc' \in {"cleanup", "append"}
           /\ \E s \in {"failed", "interrupted"} : current' = [StartsCollected EXCEPT !.status = s]
    BY DEF CollectStarts
  <1>3. /\ StartsCollected \in RunRecords
        /\ \A f \in active : StartsCollected.start[f] = call[f]
        /\ StartsCollected.stop = current.stop
    BY <1>1, CollectedRecords
  <1> QED
    BY <1>2, <1>3 DEF RunRecords

LEMMA ProcessedRecord ==
  ASSUME TypeOK, Process
  PROVE  /\ current' \in RunRecords
         /\ current'.status = RunStatus
         /\ current'.start = current.start
         /\ current'.stop = current.stop
  <1>1. PICK result \in [Families -> {"success", "failed"}] :
          current' = [current EXCEPT
            !.processing = Processed(result),
            !.summary = IF Deferrable(current) # {} THEN "deferred"
                        ELSE IF \E f \in Started(current) : result[f] = "failed"
                             THEN "incomplete" ELSE "success",
            !.status = RunStatus]
    BY DEF Process
  <1>2. Processed(result) \in [Families -> {"none", "deferred", "success", "failed"}]
    BY DEF Processed
  <1>3. RunStatus \in {"interrupted", "failed", "partial", "success"}
    BY DEF RunStatus, SensorStatus
  <1>4. current \in RunRecords
    BY DEF TypeOK
  <1> QED
    BY <1>1, <1>2, <1>3, <1>4 DEF RunRecords

LEMMA AppendedRecord ==
  ASSUME TypeOK, AppendRun
  PROVE  /\ Downgraded(current) \in RunRecords
         /\ Downgraded(current).start = current.start
         /\ Downgraded(current).stop = current.stop
         /\ Downgraded(current).status \in {current.status, "partial"}
         /\ Downgraded(current).status # current.status => current.status = "success"
         /\ Downgraded(current).status = "success" =>
              active = config.enabled /\ current.status = "success"
         /\ runs' \in Seq(RunRecords) /\ Len(runs') = Len(runs) + 1
         /\ \A i \in 1..Len(runs) : runs'[i] = runs[i]
         /\ runs'[Len(runs) + 1] = Downgraded(current)
  <1>1. current \in RunRecords /\ runs \in Seq(RunRecords)
    BY DEF TypeOK
  <1>2. /\ Downgraded(current) \in RunRecords
        /\ Downgraded(current).start = current.start
        /\ Downgraded(current).stop = current.stop
        /\ Downgraded(current).status \in {current.status, "partial"}
        /\ Downgraded(current).status # current.status => current.status = "success"
        /\ Downgraded(current).status = "success" =>
             active = config.enabled /\ current.status = "success"
    BY <1>1, RecordUpdates DEF Downgraded
  <1>3. runs' = Append(runs, Downgraded(current))
    BY DEF AppendRun
  <1> QED
    BY <1>1, <1>2, <1>3, AppendProperties

\* The deferred export rewrites how a record was processed, nothing else.
LEMMA ExportedRecord ==
  ASSUME NEW r \in RunRecords, NEW result \in {"success", "failed"}
  PROVE  /\ Exported(r, result) \in RunRecords
         /\ Exported(r, result).status = r.status
         /\ Exported(r, result).start = r.start
         /\ Exported(r, result).stop = r.stop
  BY DEF Exported, RunRecords, Families

LEMMA DrainedRuns ==
  ASSUME TypeOK, DrainOne
  PROVE  /\ runs' \in Seq(RunRecords)
         /\ Len(runs') = Len(runs)
         /\ \A i \in DOMAIN runs : /\ runs'[i].status = runs[i].status
                                   /\ runs'[i].start = runs[i].start
                                   /\ runs'[i].stop = runs[i].stop
  <1> DEFINE h == Head(deferred)
  <1>1. PICK result \in {"success", "failed"} : runs' = [runs EXCEPT ![h] = Exported(@, result)]
    BY DEF DrainOne
  <1>2. runs \in Seq(RunRecords)
    BY DEF TypeOK
  <1> HIDE DEF h
  <1>3. CASE h \in 1..Len(runs)
    <2>1. runs[h] \in RunRecords
      BY <1>2, <1>3, ElementOfSeq
    <2> QED
      BY <1>1, <1>2, <1>3, <2>1, ExportedRecord, ExceptSeq
  <1>4. CASE h \notin 1..Len(runs)
    <2>1. runs = [i \in 1..Len(runs) |-> runs[i]] /\ DOMAIN runs = 1..Len(runs)
      BY <1>2
    <2>2. runs' = runs
      BY <1>1, <1>4, <2>1, Zenon
    <2> QED
      BY <1>2, <2>2
  <1> QED
    BY <1>3, <1>4

LEMMA NextType ==
  ASSUME TypeOK, RunsBounded, GoalDecided, [Next]_vars
  PROVE  TypeOK'
  <1> USE BoundsAssumption DEF TypeOK, FinalStatuses
  <1>0. CASE UNCHANGED vars
    BY <1>0 DEF vars
  <1>1. CASE PreflightAborts
    BY <1>1 DEF PreflightAborts, manifestVars, adapterVars, budgets, Persist, Dispatch, Uniform, Escape, CloseWindow
  <1>2. CASE PreflightPasses
    BY <1>2 DEF PreflightPasses, manifestVars, adapterVars, budgets, Persist, Dispatch, Uniform, Escape, CloseWindow
  <1>3. CASE RunIsDue
    BY <1>3 DEF RunIsDue, manifestVars, adapterVars, budgets, Persist, Dispatch, Uniform, Escape, CloseWindow
  <1>4. CASE MissedStartAborts
    <2>1. runs' \in Seq(RunRecords) /\ Len(runs') <= MaxRuns
      BY <1>4, FreshRunType, RunLimitType DEF MissedStartAborts, MoreRuns, RunNumber, RunLimit
    <2> QED
      BY <1>4, <2>1 DEF MissedStartAborts, manifestVars, adapterVars, budgets, Persist, Dispatch, Uniform, Escape, CloseWindow
  <1>5. CASE SeriesEnds
    BY <1>5 DEF SeriesEnds, SeriesStatus, manifestVars, adapterVars, budgets, Persist, Dispatch, Uniform, Escape, CloseWindow
  <1>6. CASE BeginRun
    <2>1. current' \in RunRecords
      BY <1>6, FreshRunType DEF BeginRun
    <2> QED
      BY <1>6, <2>1 DEF BeginRun, manifestVars, adapterVars, budgets, Persist, Dispatch, Uniform, Escape, CloseWindow
  <1>7. CASE CollectStarts
    <2>2. current' \in RunRecords
      BY <1>7, StartedRecord
    <2>3. call' \in [Families -> {"none", "start", "stop", "ok", "error"}]
      BY <1>7 DEF CollectStarts, Dispatch
    <2> QED
      BY <1>7, <2>2, <2>3 DEF CollectStarts, manifestVars, budgets
  <1>8. CASE CollectCleanup
    <2>1. current' \in RunRecords
      BY <1>8, CollectedRecords DEF CollectCleanup
    <2> QED
      BY <1>8, <2>1 DEF CollectCleanup, manifestVars, adapterVars, budgets, Persist, Dispatch, Uniform, Escape, CloseWindow
  <1>9. CASE OpenWindow
    <2>1. current' \in RunRecords
      BY <1>9, RecordUpdates DEF OpenWindow
    <2> QED
      BY <1>9, <2>1 DEF OpenWindow, manifestVars, adapterVars, budgets, Persist, Dispatch, Uniform, Escape, CloseWindow
  <1>10. CASE DurationElapses
    BY <1>10 DEF DurationElapses, manifestVars, adapterVars, budgets, Persist, Dispatch, Uniform, Escape, CloseWindow
  <1>11. CASE RequestStop
    BY <1>11 DEF RequestStop, manifestVars, adapterVars, budgets, Persist, Dispatch, Uniform, Escape, CloseWindow
  <1>12. CASE CollectStops
    <2>1. current' \in RunRecords
      BY <1>12, CollectedRecords DEF CollectStops
    <2> QED
      BY <1>12, <2>1 DEF CollectStops, manifestVars, adapterVars, budgets, Persist, Dispatch, Uniform, Escape, CloseWindow
  <1>13. CASE Process
    <2>4. current' \in RunRecords
      BY <1>13, ProcessedRecord
    <2>5. RunNumber \in 1..MaxRuns
      BY <1>13, RunLimitType DEF Process, RunNumber, RunsBounded, InRunPoints
    <2>6. deferred' = IF Deferrable(current) # {} THEN Append(deferred, RunNumber) ELSE deferred
      BY <1>13 DEF Process
    <2>7. deferred' \in Seq(1..MaxRuns)
      BY <2>5, <2>6, AppendProperties
    <2> QED
      BY <1>13, <2>4, <2>7 DEF Process, manifestVars, adapterVars, budgets, Persist, Dispatch, Uniform, Escape, CloseWindow
  <1>14. CASE AppendRun
    <2>2. runs' \in Seq(RunRecords) /\ Len(runs') <= MaxRuns
      BY <1>14, AppendedRecord, RunLimitType DEF AppendRun, RunsBounded, InRunPoints
    <2>3. current' \in RunRecords
      BY <1>14, FreshRunType DEF AppendRun, NoRun
    <2> QED
      BY <1>14, <2>2, <2>3 DEF AppendRun, manifestVars, adapterVars, budgets, Persist, Dispatch, Uniform, Escape, CloseWindow
  <1>15. CASE RunRecorded
    BY <1>15 DEF RunRecorded, manifestVars, adapterVars, budgets, Persist, Dispatch, Uniform, Escape, CloseWindow
  <1>16. CASE DrainOne
    <2>2. runs' \in Seq(RunRecords) /\ Len(runs') = Len(runs)
      BY <1>16, DrainedRuns
    <2>3. deferred' \in Seq(1..MaxRuns)
      BY <1>16 DEF DrainOne, StillDeferred, RestDeferred
    <2> QED
      BY <1>16, <2>2, <2>3 DEF DrainOne, manifestVars, adapterVars, budgets, Persist, Dispatch, Uniform, Escape, CloseWindow
  <1>17. CASE DrainWritten
    BY <1>17 DEF DrainWritten, manifestVars, adapterVars, budgets, Persist, Dispatch, Uniform, Escape, CloseWindow
  <1>18. CASE DrainEnds
    BY <1>18 DEF DrainEnds, manifestVars, adapterVars, budgets, Persist, Dispatch, Uniform, Escape, CloseWindow
  <1>19. CASE Finish
    <2>1. status' \in FinalStatuses
      BY <1>19 DEF Finish, GoalDecided
    <2> QED
      BY <1>19, <2>1 DEF Finish, manifestVars, adapterVars, budgets, Persist, Dispatch, Uniform, Escape, CloseWindow
  <1>20. CASE OperatorPressesEnter
    BY <1>20 DEF OperatorPressesEnter, manifestVars, adapterVars, budgets, Persist, Dispatch, Uniform, Escape, CloseWindow
  <1>21. CASE InputCloses
    BY <1>21 DEF InputCloses, manifestVars, adapterVars, budgets, Persist, Dispatch, Uniform, Escape, CloseWindow
  <1>22. CASE InterruptAbsorbed
    BY <1>22 DEF InterruptAbsorbed, manifestVars, adapterVars, budgets, Persist, Dispatch, Uniform, Escape, CloseWindow
  <1>23. CASE InterruptMeasuring
    BY <1>23 DEF InterruptMeasuring, manifestVars, adapterVars, budgets, Persist, Dispatch, Uniform, Escape, CloseWindow
  <1>24. CASE InterruptEscapes
    BY <1>24 DEF InterruptEscapes, manifestVars, adapterVars, budgets, Persist, Dispatch, Uniform, Escape, CloseWindow
  <1>25. CASE WriteFault
    BY <1>25 DEF WriteFault, manifestVars, adapterVars, budgets, Persist, Dispatch, Uniform, Escape, CloseWindow
  <1>26. ASSUME NEW f \in Families, StartReturns(f) PROVE TypeOK'
    <2>1. PICK reply \in {"ok", "error"}, d \in {"idle", "recording"}, owed \in BOOLEAN :
            Return(f, reply, d, owed)
      BY <1>26 DEF StartReturns
    <2> QED
      BY <2>1 DEF Return, manifestVars, budgets
  <1>27. ASSUME NEW f \in Families, StopReturns(f) PROVE TypeOK'
    <2>1. PICK reply \in {"ok", "error"}, d \in {"idle", "recording"}, owed \in BOOLEAN :
            Return(f, reply, d, owed)
      BY <1>27 DEF StopReturns
    <2> QED
      BY <2>1 DEF Return, manifestVars, budgets
  <1>28. ASSUME NEW f \in Families, DeviceEnds(f) PROVE TypeOK'
    BY <1>28 DEF DeviceEnds, manifestVars, adapterVars, budgets, Persist, Dispatch, Uniform, Escape, CloseWindow
  <1> QED
    BY <1>0, <1>1, <1>2, <1>3, <1>4, <1>5, <1>6, <1>7, <1>8, <1>9, <1>10, <1>11, <1>12, <1>13, <1>14, <1>15, <1>16, <1>17, <1>18, <1>19, <1>20, <1>21, <1>22, <1>23, <1>24, <1>25, <1>26, <1>27, <1>28
       DEF Next, MainStep, OperatorStep, AdapterStep, Terminated, SeriesBoundReached

----------------------------------------------------------------------------
(* Every step preserves each part of the invariant. *)

\* Only the run loop appends a record, and only within the limit.
LEMMA RunsBoundedStep ==
  ASSUME IInv, Next, TypeOK'
  PROVE  RunsBounded'
  <1> USE BoundsAssumption, RunLimitType DEF IInv, TypeOK
  <1>1. CASE PreflightAborts \/ PreflightPasses \/ RunIsDue \/ MissedStartAborts \/ SeriesEnds
    BY <1>1 DEF PreflightAborts, PreflightPasses, RunIsDue, MissedStartAborts, SeriesEnds,
       RunsBounded, InRunPoints, RunLimit, MoreRuns, RunNumber, manifestVars, adapterVars,
       budgets, Persist, Dispatch, Uniform, Escape, CloseWindow, Over, JoinPoints,
       WritePoints
  <1>2. CASE BeginRun \/ CollectStarts \/ CollectCleanup
    BY <1>2 DEF BeginRun, CollectStarts, CollectCleanup, RunsBounded, InRunPoints, RunLimit,
       MoreRuns, RunNumber, manifestVars, adapterVars, budgets, Persist, Dispatch, Uniform,
       Escape, CloseWindow, Over, JoinPoints, WritePoints
  <1>3. CASE OpenWindow \/ DurationElapses \/ RequestStop \/ CollectStops
    BY <1>3 DEF OpenWindow, DurationElapses, RequestStop, CollectStops, RunsBounded,
       InRunPoints, RunLimit, MoreRuns, RunNumber, manifestVars, adapterVars, budgets,
       Persist, Dispatch, Uniform, Escape, CloseWindow, Over, JoinPoints, WritePoints
  <1>4. CASE Process
    BY <1>4 DEF Process, RunsBounded, InRunPoints, RunLimit, MoreRuns, RunNumber,
       manifestVars, adapterVars, budgets, Persist, Dispatch, Uniform, Escape, CloseWindow,
       Over, JoinPoints, WritePoints
  <1>5. CASE AppendRun
    BY <1>5, AppendProperties DEF AppendRun, RunsBounded, InRunPoints, RunLimit, MoreRuns,
       RunNumber, manifestVars, adapterVars, budgets, Persist, Dispatch, Uniform, Escape,
       CloseWindow, Over, JoinPoints, WritePoints
  <1>6. CASE RunRecorded \/ DrainWritten \/ DrainEnds \/ Finish
    BY <1>6 DEF RunRecorded, DrainWritten, DrainEnds, Finish, RunsBounded, InRunPoints,
       RunLimit, MoreRuns, RunNumber, manifestVars, adapterVars, budgets, Persist, Dispatch,
       Uniform, Escape, CloseWindow, Over, JoinPoints, WritePoints
  <1>7. CASE DrainOne
    BY <1>7, DrainedRuns DEF DrainOne, RunsBounded, InRunPoints, RunLimit, MoreRuns,
       RunNumber, manifestVars, adapterVars, budgets, Persist, Dispatch, Uniform, Escape,
       CloseWindow, Over, JoinPoints, WritePoints
  <1>8. CASE OperatorPressesEnter \/ InputCloses \/ InterruptAbsorbed \/ InterruptMeasuring \/ InterruptEscapes \/ WriteFault
    BY <1>8 DEF OperatorPressesEnter, InputCloses, InterruptAbsorbed, InterruptMeasuring,
       InterruptEscapes, WriteFault, RunsBounded, InRunPoints, RunLimit, MoreRuns,
       RunNumber, manifestVars, adapterVars, budgets, Persist, Dispatch, Uniform, Escape,
       CloseWindow, Over, JoinPoints, WritePoints
  <1>9. ASSUME NEW f \in Families, AdapterStep(f) \/ DeviceEnds(f) PROVE RunsBounded'
    BY <1>9 DEF AdapterStep, StartReturns, StopReturns, DeviceEnds, Return, RunsBounded,
       InRunPoints, RunLimit, MoreRuns, RunNumber, manifestVars, adapterVars, budgets,
       Persist, Dispatch, Uniform, Escape, CloseWindow, Over, JoinPoints, WritePoints
  <1> QED
    BY <1>1, <1>2, <1>3, <1>4, <1>5, <1>6, <1>7, <1>8, <1>9 DEF RunsBounded, InRunPoints,
       RunLimit, MoreRuns, RunNumber, Next, MainStep, OperatorStep, Terminated,
       SeriesBoundReached, vars

\* A fan-out is opened and closed at a join point.
LEMMA CallsMatchPcStep ==
  ASSUME IInv, Next, TypeOK'
  PROVE  CallsMatchPc'
  <1> USE BoundsAssumption, RunLimitType DEF IInv, TypeOK
  <1>1. CASE PreflightAborts \/ PreflightPasses \/ RunIsDue \/ MissedStartAborts \/ SeriesEnds
    BY <1>1 DEF PreflightAborts, PreflightPasses, RunIsDue, MissedStartAborts, SeriesEnds,
       CallsMatchPc, QuietPoints, Idle, manifestVars, adapterVars, budgets, Persist,
       Dispatch, Uniform, Escape, CloseWindow, Over, JoinPoints, WritePoints
  <1>2. CASE BeginRun \/ CollectStarts \/ CollectCleanup
    BY <1>2 DEF BeginRun, CollectStarts, CollectCleanup, CallsMatchPc, QuietPoints, Idle,
       manifestVars, adapterVars, budgets, Persist, Dispatch, Uniform, Escape, CloseWindow,
       Over, JoinPoints, WritePoints
  <1>3. CASE OpenWindow \/ DurationElapses \/ RequestStop \/ CollectStops
    BY <1>3 DEF OpenWindow, DurationElapses, RequestStop, CollectStops, CallsMatchPc,
       QuietPoints, Idle, manifestVars, adapterVars, budgets, Persist, Dispatch, Uniform,
       Escape, CloseWindow, Over, JoinPoints, WritePoints
  <1>4. CASE Process \/ AppendRun
    BY <1>4, AppendProperties DEF Process, AppendRun, CallsMatchPc, QuietPoints, Idle,
       manifestVars, adapterVars, budgets, Persist, Dispatch, Uniform, Escape, CloseWindow,
       Over, JoinPoints, WritePoints
  <1>5. CASE RunRecorded \/ DrainWritten \/ DrainEnds \/ Finish
    BY <1>5 DEF RunRecorded, DrainWritten, DrainEnds, Finish, CallsMatchPc, QuietPoints,
       Idle, manifestVars, adapterVars, budgets, Persist, Dispatch, Uniform, Escape,
       CloseWindow, Over, JoinPoints, WritePoints
  <1>6. CASE DrainOne
    BY <1>6, DrainedRuns DEF DrainOne, CallsMatchPc, QuietPoints, Idle, manifestVars,
       adapterVars, budgets, Persist, Dispatch, Uniform, Escape, CloseWindow, Over,
       JoinPoints, WritePoints
  <1>7. CASE OperatorPressesEnter \/ InputCloses \/ InterruptAbsorbed \/ InterruptMeasuring \/ InterruptEscapes \/ WriteFault
    BY <1>7 DEF OperatorPressesEnter, InputCloses, InterruptAbsorbed, InterruptMeasuring,
       InterruptEscapes, WriteFault, CallsMatchPc, QuietPoints, Idle, manifestVars,
       adapterVars, budgets, Persist, Dispatch, Uniform, Escape, CloseWindow, Over,
       JoinPoints, WritePoints
  <1>8. ASSUME NEW f \in Families, AdapterStep(f) \/ DeviceEnds(f) PROVE CallsMatchPc'
    BY <1>8 DEF AdapterStep, StartReturns, StopReturns, DeviceEnds, Return, CallsMatchPc,
       QuietPoints, Idle, manifestVars, adapterVars, budgets, Persist, Dispatch, Uniform,
       Escape, CloseWindow, Over, JoinPoints, WritePoints
  <1> QED
    BY <1>1, <1>2, <1>3, <1>4, <1>5, <1>6, <1>7, <1>8 DEF CallsMatchPc, QuietPoints, Idle,
       Next, MainStep, OperatorStep, Terminated, SeriesBoundReached, vars

\* No step of a run starts a recorder unseen.
LEMMA DevicesKnownStep ==
  ASSUME IInv, Next, TypeOK'
  PROVE  DevicesKnown'
  <1> USE BoundsAssumption, RunLimitType DEF IInv, TypeOK
  <1>1. CASE PreflightAborts \/ PreflightPasses \/ RunIsDue \/ MissedStartAborts \/ SeriesEnds
    BY <1>1 DEF PreflightAborts, PreflightPasses, RunIsDue, MissedStartAborts, SeriesEnds,
       DevicesKnown, InRunPoints, CallsMatchPc, QuietPoints, Idle, CurrentHonest,
       StopsCollected, Downgraded, FreshRun, NoRun, manifestVars, adapterVars, budgets,
       Persist, Dispatch, Uniform, Escape, CloseWindow, Over, JoinPoints, WritePoints
  <1>2. CASE CollectCleanup
    BY <1>2 DEF CollectCleanup, DevicesKnown, InRunPoints, CallsMatchPc, QuietPoints, Idle,
       CurrentHonest, StopsCollected, Downgraded, FreshRun, NoRun, manifestVars,
       adapterVars, budgets, Persist, Dispatch, Uniform, Escape, CloseWindow, Over,
       JoinPoints, WritePoints
  <1>3. CASE BeginRun
    BY <1>3 DEF BeginRun, DevicesKnown, InRunPoints, CallsMatchPc, QuietPoints, Idle,
       CurrentHonest, StopsCollected, Downgraded, FreshRun, NoRun, manifestVars,
       adapterVars, budgets, Persist, Dispatch, Uniform, Escape, CloseWindow, Over,
       JoinPoints, WritePoints
  <1>4. CASE CollectStarts
    <2>1. current'.stop = current.stop
      BY <1>4, StartedRecord
    <2>2. \A f \in Families : call'[f] \in {"none", "stop"}
      BY <1>4 DEF CollectStarts, Dispatch
    <2> QED
      BY <1>4, <2>1, <2>2 DEF CollectStarts, DevicesKnown, InRunPoints, CurrentHonest
  <1>5. CASE DurationElapses \/ RequestStop
    BY <1>5 DEF DurationElapses, RequestStop, DevicesKnown, InRunPoints, manifestVars,
       adapterVars, budgets, Persist, Dispatch, CloseWindow
  <1>16. CASE CollectStops
    <2>1. \A f \in Families : current'.stop[f] =
            IF call[f] = "none" THEN current.stop[f] ELSE call[f]
      BY <1>16, CollectedRecords DEF CollectStops
    <2>2. \A f \in Families : current.stop[f] = "none" /\ (call[f] = "ok" => dev[f] = "idle")
      BY <1>16 DEF CollectStops, DevicesKnown, CurrentHonest
    <2>3. pc = "stopping" /\ pc' = "processing" /\ dev' = dev /\ active' = active
      BY <1>16 DEF CollectStops
    <2>4. \A f \in Families \ active' : dev'[f] = "idle"
      BY <2>3 DEF DevicesKnown, InRunPoints
    <2>5. \A f \in Families : current'.stop[f] = "ok" => dev'[f] = "idle"
      BY <2>1, <2>2, <2>3
    <2> HIDE DEF IInv, TypeOK
    <2> QED
      BY <2>3, <2>4, <2>5 DEF DevicesKnown, InRunPoints
  <1>6. CASE OpenWindow
    BY <1>6 DEF OpenWindow, DevicesKnown, InRunPoints, CallsMatchPc, QuietPoints, Idle,
       CurrentHonest, StopsCollected, Downgraded, FreshRun, NoRun, manifestVars,
       adapterVars, budgets, Persist, Dispatch, Uniform, Escape, CloseWindow, Over,
       JoinPoints, WritePoints
  <1>7. CASE Process
    BY <1>7 DEF Process, DevicesKnown, InRunPoints, CallsMatchPc, QuietPoints, Idle,
       CurrentHonest, StopsCollected, Downgraded, FreshRun, NoRun, manifestVars,
       adapterVars, budgets, Persist, Dispatch, Uniform, Escape, CloseWindow, Over,
       JoinPoints, WritePoints
  <1>8. CASE AppendRun
    <2>1. runs' # <<>> /\ runs'[Len(runs')] = Downgraded(current)
      BY <1>8, AppendedRecord, LenProperties
    <2>2. /\ Downgraded(current).status \in {"success", "partial", "failed", "interrupted"}
          /\ Downgraded(current).status \in {"success", "partial"}
               => current.status \in {"success", "partial"}
      BY <1>8, AppendedRecord DEF AppendRun, CurrentHonest
    <2>3. current.status \in {"success", "partial"} => \A f \in Families : dev[f] = "idle"
      BY <1>8 DEF AppendRun, CurrentHonest, DevicesKnown, InRunPoints
    <2> QED
      BY <1>8, <2>1, <2>2, <2>3 DEF AppendRun, DevicesKnown, InRunPoints, adapterVars
  <1>9. CASE RunRecorded \/ DrainWritten \/ DrainEnds \/ Finish
    BY <1>9 DEF RunRecorded, DrainWritten, DrainEnds, Finish, DevicesKnown, InRunPoints,
       CallsMatchPc, QuietPoints, Idle, CurrentHonest, StopsCollected, Downgraded, FreshRun,
       NoRun, manifestVars, adapterVars, budgets, Persist, Dispatch, Uniform, Escape,
       CloseWindow, Over, JoinPoints, WritePoints
  <1>10. CASE DrainOne
    BY <1>10, DrainedRuns DEF DrainOne, DevicesKnown, InRunPoints, CallsMatchPc,
       QuietPoints, Idle, CurrentHonest, StopsCollected, Downgraded, FreshRun, NoRun,
       manifestVars, adapterVars, budgets, Persist, Dispatch, Uniform, Escape, CloseWindow,
       Over, JoinPoints, WritePoints
  <1>11. CASE OperatorPressesEnter \/ InputCloses \/ InterruptAbsorbed \/ InterruptMeasuring \/ InterruptEscapes \/ WriteFault
    BY <1>11 DEF OperatorPressesEnter, InputCloses, InterruptAbsorbed, InterruptMeasuring,
       InterruptEscapes, WriteFault, DevicesKnown, InRunPoints, CallsMatchPc, QuietPoints,
       Idle, CurrentHonest, StopsCollected, Downgraded, FreshRun, NoRun, manifestVars,
       adapterVars, budgets, Persist, Dispatch, Uniform, Escape, CloseWindow, Over,
       JoinPoints, WritePoints
  <1>12. ASSUME NEW f \in Families, StartReturns(f) PROVE DevicesKnown'
    BY <1>12 DEF StartReturns, Return, DevicesKnown, InRunPoints, CallsMatchPc, QuietPoints,
       Idle, CurrentHonest, StopsCollected, Downgraded, FreshRun, NoRun, manifestVars,
       adapterVars, budgets, Persist, Dispatch, Uniform, Escape, CloseWindow, Over,
       JoinPoints, WritePoints
  <1>13. ASSUME NEW f \in Families, StopReturns(f) PROVE DevicesKnown'
    BY <1>13 DEF StopReturns, Return, DevicesKnown, InRunPoints, CallsMatchPc, QuietPoints,
       Idle, CurrentHonest, StopsCollected, Downgraded, FreshRun, NoRun, manifestVars,
       adapterVars, budgets, Persist, Dispatch, Uniform, Escape, CloseWindow, Over,
       JoinPoints, WritePoints
  <1>14. ASSUME NEW f \in Families, DeviceEnds(f) PROVE DevicesKnown'
    BY <1>14 DEF DeviceEnds, Return, DevicesKnown, InRunPoints, CallsMatchPc, QuietPoints,
       Idle, CurrentHonest, StopsCollected, Downgraded, FreshRun, NoRun, manifestVars,
       adapterVars, budgets, Persist, Dispatch, Uniform, Escape, CloseWindow, Over,
       JoinPoints, WritePoints
  <1> QED
    BY <1>1, <1>2, <1>3, <1>4, <1>5, <1>16, <1>6, <1>7, <1>8, <1>9, <1>10, <1>11, <1>12, <1>13,
       <1>14 DEF DevicesKnown, InRunPoints, CallsMatchPc, QuietPoints, Idle, CurrentHonest,
       StopsCollected, Downgraded, FreshRun, NoRun, Next, MainStep, OperatorStep,
       AdapterStep, Terminated, SeriesBoundReached, vars

\* The record is filled from the results of the joined calls.
LEMMA CurrentHonestStep ==
  ASSUME IInv, Next, TypeOK'
  PROVE  CurrentHonest'
  <1> USE BoundsAssumption, RunLimitType DEF IInv, TypeOK
  <1>1. CASE PreflightAborts \/ PreflightPasses \/ RunIsDue \/ MissedStartAborts \/ SeriesEnds
    BY <1>1 DEF PreflightAborts, PreflightPasses, RunIsDue, MissedStartAborts, SeriesEnds,
       CurrentHonest, CallsMatchPc, Idle, StartsCollected, StopsCollected, RunStatus,
       StopFailed, Started, FreshRun, RunRecords, Processed, manifestVars, adapterVars,
       budgets, Persist, Dispatch, Uniform, Escape, CloseWindow, Over, JoinPoints,
       WritePoints
  <1>2. CASE BeginRun \/ CollectCleanup
    BY <1>2 DEF BeginRun, CollectCleanup, CurrentHonest, CallsMatchPc, Idle,
       StartsCollected, StopsCollected, RunStatus, SensorStatus, StopFailed, Started, FreshRun,
       RunRecords, Processed, manifestVars, adapterVars, budgets, Persist, Dispatch,
       Uniform, Escape, CloseWindow, Over, JoinPoints, WritePoints
  <1>3. CASE CollectStarts
    <2>1. \A f \in active : call[f] # "none"
      BY <1>3, ActiveAreFamilies DEF CollectStarts, CallsMatchPc
    <2>2. \A f \in Families : current.stop[f] = "none"
      BY <1>3 DEF CollectStarts, CurrentHonest
    <2>3. /\ \A f \in active : current'.start[f] = call[f]
          /\ current'.stop = current.stop
          /\ pc' \in {"cleanup", "append"} => current'.status \in {"failed", "interrupted"}
          /\ pc' \in {"cleanup", "append", "armed"}
      BY <1>3, StartedRecord
    <2>4. active' = active
      BY <1>3 DEF CollectStarts
    <2> HIDE DEF IInv, TypeOK
    <2> QED
      BY <2>1, <2>2, <2>3, <2>4 DEF CurrentHonest
  <1>4. CASE OpenWindow \/ DurationElapses \/ RequestStop \/ CollectStops
    BY <1>4 DEF OpenWindow, DurationElapses, RequestStop, CollectStops, CurrentHonest,
       CallsMatchPc, Idle, StartsCollected, StopsCollected, RunStatus, SensorStatus, StopFailed, Started,
       FreshRun, RunRecords, Processed, manifestVars, adapterVars, budgets, Persist,
       Dispatch, Uniform, Escape, CloseWindow, Over, JoinPoints, WritePoints
  <1>5. CASE AppendRun
    BY <1>5, AppendProperties DEF AppendRun, CurrentHonest, CallsMatchPc, Idle,
       StartsCollected, StopsCollected, RunStatus, SensorStatus, StopFailed, Started, FreshRun,
       RunRecords, Processed, manifestVars, adapterVars, budgets, Persist, Dispatch,
       Uniform, Escape, CloseWindow, Over, JoinPoints, WritePoints
  <1>6. CASE Process
    <2>1. /\ current'.status = RunStatus
          /\ current'.start = current.start
          /\ current'.stop = current.stop
          /\ pc = "processing" /\ pc' = "append" /\ active' = active
      BY <1>6, ProcessedRecord DEF Process
    <2>2. /\ RunStatus \in {"success", "partial", "failed", "interrupted"}
          /\ RunStatus \in {"success", "partial"} => ~StopFailed(current)
          /\ RunStatus = "success" => active = Started(current)
      <3> HIDE DEF TypeOK, IInv
      <3> QED
        BY DEF RunStatus, SensorStatus
    <2>3. ~StopFailed(current) => \A f \in active : current.stop[f] = "ok"
      BY <2>1, ActiveAreFamilies DEF StopFailed, CurrentHonest
    <2> QED
      BY <2>1, <2>2, <2>3 DEF CurrentHonest, Started
  <1>7. CASE RunRecorded \/ DrainWritten \/ DrainEnds \/ Finish
    BY <1>7 DEF RunRecorded, DrainWritten, DrainEnds, Finish, CurrentHonest, CallsMatchPc,
       Idle, StartsCollected, StopsCollected, RunStatus, SensorStatus, StopFailed, Started, FreshRun,
       RunRecords, Processed, manifestVars, adapterVars, budgets, Persist, Dispatch,
       Uniform, Escape, CloseWindow, Over, JoinPoints, WritePoints
  <1>8. CASE DrainOne
    BY <1>8, DrainedRuns DEF DrainOne, CurrentHonest, CallsMatchPc, Idle, StartsCollected,
       StopsCollected, RunStatus, SensorStatus, StopFailed, Started, FreshRun, RunRecords, Processed,
       manifestVars, adapterVars, budgets, Persist, Dispatch, Uniform, Escape, CloseWindow,
       Over, JoinPoints, WritePoints
  <1>9. CASE OperatorPressesEnter \/ InputCloses \/ InterruptAbsorbed \/ InterruptMeasuring \/ InterruptEscapes \/ WriteFault
    BY <1>9 DEF OperatorPressesEnter, InputCloses, InterruptAbsorbed, InterruptMeasuring,
       InterruptEscapes, WriteFault, CurrentHonest, CallsMatchPc, Idle, StartsCollected,
       StopsCollected, RunStatus, SensorStatus, StopFailed, Started, FreshRun, RunRecords, Processed,
       manifestVars, adapterVars, budgets, Persist, Dispatch, Uniform, Escape, CloseWindow,
       Over, JoinPoints, WritePoints
  <1>10. ASSUME NEW f \in Families, AdapterStep(f) \/ DeviceEnds(f) PROVE CurrentHonest'
    BY <1>10 DEF AdapterStep, StartReturns, StopReturns, DeviceEnds, Return, CurrentHonest,
       CallsMatchPc, Idle, StartsCollected, StopsCollected, RunStatus, SensorStatus, StopFailed, Started,
       FreshRun, RunRecords, Processed, manifestVars, adapterVars, budgets, Persist,
       Dispatch, Uniform, Escape, CloseWindow, Over, JoinPoints, WritePoints
  <1> QED
    BY <1>1, <1>2, <1>3, <1>4, <1>5, <1>6, <1>7, <1>8, <1>9, <1>10 DEF CurrentHonest,
       CallsMatchPc, Idle, StartsCollected, StopsCollected, RunStatus, SensorStatus, StopFailed, Started,
       FreshRun, RunRecords, Processed, Next, MainStep, OperatorStep, Terminated,
       SeriesBoundReached, vars

\* A record joins the manifest with the outcomes it was judged by.
LEMMA RunsHonestStep ==
  ASSUME IInv, Next, TypeOK'
  PROVE  RunsHonest'
  <1> USE BoundsAssumption, RunLimitType DEF IInv, TypeOK
  <1>1. CASE PreflightAborts \/ PreflightPasses \/ RunIsDue \/ SeriesEnds
    BY <1>1 DEF PreflightAborts, PreflightPasses, RunIsDue, SeriesEnds, RunsHonest,
       CurrentHonest, Downgraded, FreshRun, manifestVars, adapterVars, budgets, Persist,
       Dispatch, Uniform, Escape, CloseWindow, Over, JoinPoints, WritePoints
  <1>2. CASE MissedStartAborts
    <2>1. /\ runs' \in Seq(RunRecords) /\ Len(runs') = Len(runs) + 1
          /\ \A i \in 1..Len(runs) : runs'[i] = runs[i]
          /\ runs'[Len(runs) + 1] = FreshRun("aborted")
          /\ config' = config
      BY <1>2, AppendProperties, FreshRunType DEF MissedStartAborts
    <2>2. (FreshRun("aborted")).status = "success" => \A f \in config.enabled :
            (FreshRun("aborted")).start[f] = "ok" /\ (FreshRun("aborted")).stop[f] = "ok"
      BY DEF FreshRun
    <2> HIDE DEF TypeOK
    <2> QED
      BY <2>1, <2>2 DEF RunsHonest
  <1>3. CASE BeginRun \/ CollectStarts \/ CollectCleanup
    BY <1>3 DEF BeginRun, CollectStarts, CollectCleanup, RunsHonest, CurrentHonest,
       Downgraded, FreshRun, manifestVars, adapterVars, budgets, Persist, Dispatch, Uniform,
       Escape, CloseWindow, Over, JoinPoints, WritePoints
  <1>4. CASE OpenWindow \/ DurationElapses \/ RequestStop \/ CollectStops
    BY <1>4 DEF OpenWindow, DurationElapses, RequestStop, CollectStops, RunsHonest,
       CurrentHonest, Downgraded, FreshRun, manifestVars, adapterVars, budgets, Persist,
       Dispatch, Uniform, Escape, CloseWindow, Over, JoinPoints, WritePoints
  <1>5. CASE Process
    BY <1>5 DEF Process, RunsHonest, CurrentHonest, Downgraded, FreshRun, manifestVars,
       adapterVars, budgets, Persist, Dispatch, Uniform, Escape, CloseWindow, Over,
       JoinPoints, WritePoints
  <1>6. CASE AppendRun
    <2>1. /\ runs' \in Seq(RunRecords) /\ Len(runs') = Len(runs) + 1
          /\ \A i \in 1..Len(runs) : runs'[i] = runs[i]
          /\ runs'[Len(runs) + 1] = Downgraded(current)
          /\ config' = config
      BY <1>6, AppendedRecord DEF AppendRun
    <2>2. Downgraded(current).status = "success" => \A f \in config.enabled :
            Downgraded(current).start[f] = "ok" /\ Downgraded(current).stop[f] = "ok"
      BY <1>6, AppendedRecord DEF AppendRun, CurrentHonest
    <2> HIDE DEF TypeOK
    <2> QED
      BY <2>1, <2>2 DEF RunsHonest
  <1>7. CASE RunRecorded \/ DrainWritten \/ DrainEnds \/ Finish
    BY <1>7 DEF RunRecorded, DrainWritten, DrainEnds, Finish, RunsHonest, CurrentHonest,
       Downgraded, FreshRun, manifestVars, adapterVars, budgets, Persist, Dispatch, Uniform,
       Escape, CloseWindow, Over, JoinPoints, WritePoints
  <1>8. CASE DrainOne
    <2>1. /\ runs' \in Seq(RunRecords) /\ Len(runs') = Len(runs)
          /\ \A i \in DOMAIN runs : /\ runs'[i].status = runs[i].status
                                    /\ runs'[i].start = runs[i].start
                                    /\ runs'[i].stop = runs[i].stop
      BY <1>8, DrainedRuns
    <2>2. /\ pc = "drain" /\ pc' = "drained"
          /\ goal' = goal /\ config' = config /\ call' = call /\ dev' = dev
      BY <1>8 DEF DrainOne, adapterVars
    <2>3. DOMAIN runs' = DOMAIN runs
      BY <2>1
    <2> HIDE DEF TypeOK
    <2> QED
      BY <2>1, <2>2, <2>3 DEF RunsHonest
  <1>9. CASE OperatorPressesEnter \/ InputCloses \/ InterruptAbsorbed \/ InterruptMeasuring \/ InterruptEscapes \/ WriteFault
    BY <1>9 DEF OperatorPressesEnter, InputCloses, InterruptAbsorbed, InterruptMeasuring,
       InterruptEscapes, WriteFault, RunsHonest, CurrentHonest, Downgraded, FreshRun,
       manifestVars, adapterVars, budgets, Persist, Dispatch, Uniform, Escape, CloseWindow,
       Over, JoinPoints, WritePoints
  <1>10. ASSUME NEW f \in Families, AdapterStep(f) \/ DeviceEnds(f) PROVE RunsHonest'
    BY <1>10 DEF AdapterStep, StartReturns, StopReturns, DeviceEnds, Return, RunsHonest,
       CurrentHonest, Downgraded, FreshRun, manifestVars, adapterVars, budgets, Persist,
       Dispatch, Uniform, Escape, CloseWindow, Over, JoinPoints, WritePoints
  <1> QED
    BY <1>1, <1>2, <1>3, <1>4, <1>5, <1>6, <1>7, <1>8, <1>9, <1>10 DEF RunsHonest,
       CurrentHonest, Downgraded, FreshRun, Next, MainStep, OperatorStep, Terminated,
       SeriesBoundReached, vars

\* Nothing disturbs a series that was judged a success.
LEMMA SuccessDecidedStep ==
  ASSUME IInv, Next, TypeOK'
  PROVE  SuccessDecided'
  <1> USE BoundsAssumption, RunLimitType DEF IInv, TypeOK
  <1>1. CASE PreflightAborts \/ PreflightPasses \/ RunIsDue \/ MissedStartAborts \/ SeriesEnds
    BY <1>1 DEF PreflightAborts, PreflightPasses, RunIsDue, MissedStartAborts, SeriesEnds,
       SuccessDecided, SeriesStatus, RunsBounded, RunLimit, MoreRuns, RunNumber,
       CallsMatchPc, QuietPoints, DevicesKnown, manifestVars, adapterVars, budgets, Persist,
       Dispatch, Uniform, Escape, CloseWindow, Over, JoinPoints, WritePoints
  <1>2. CASE BeginRun \/ CollectStarts \/ CollectCleanup
    BY <1>2 DEF BeginRun, CollectStarts, CollectCleanup, SuccessDecided, SeriesStatus,
       RunsBounded, RunLimit, MoreRuns, RunNumber, CallsMatchPc, QuietPoints, DevicesKnown,
       manifestVars, adapterVars, budgets, Persist, Dispatch, Uniform, Escape, CloseWindow,
       Over, JoinPoints, WritePoints
  <1>3. CASE OpenWindow \/ DurationElapses \/ RequestStop \/ CollectStops
    BY <1>3 DEF OpenWindow, DurationElapses, RequestStop, CollectStops, SuccessDecided,
       SeriesStatus, RunsBounded, RunLimit, MoreRuns, RunNumber, CallsMatchPc, QuietPoints,
       DevicesKnown, manifestVars, adapterVars, budgets, Persist, Dispatch, Uniform, Escape,
       CloseWindow, Over, JoinPoints, WritePoints
  <1>4. CASE Process \/ AppendRun
    BY <1>4, AppendProperties DEF Process, AppendRun, SuccessDecided, SeriesStatus,
       RunsBounded, RunLimit, MoreRuns, RunNumber, CallsMatchPc, QuietPoints, DevicesKnown,
       manifestVars, adapterVars, budgets, Persist, Dispatch, Uniform, Escape, CloseWindow,
       Over, JoinPoints, WritePoints
  <1>5. CASE RunRecorded \/ DrainWritten \/ DrainEnds \/ Finish
    BY <1>5 DEF RunRecorded, DrainWritten, DrainEnds, Finish, SuccessDecided, SeriesStatus,
       RunsBounded, RunLimit, MoreRuns, RunNumber, CallsMatchPc, QuietPoints, DevicesKnown,
       manifestVars, adapterVars, budgets, Persist, Dispatch, Uniform, Escape, CloseWindow,
       Over, JoinPoints, WritePoints
  <1>6. CASE DrainOne
    <2>1. /\ runs' \in Seq(RunRecords) /\ Len(runs') = Len(runs)
          /\ \A i \in DOMAIN runs : /\ runs'[i].status = runs[i].status
                                    /\ runs'[i].start = runs[i].start
                                    /\ runs'[i].stop = runs[i].stop
      BY <1>6, DrainedRuns
    <2>2. /\ pc = "drain" /\ pc' = "drained"
          /\ goal' = goal /\ config' = config /\ call' = call /\ dev' = dev
      BY <1>6 DEF DrainOne, adapterVars
    <2>3. DOMAIN runs' = DOMAIN runs
      BY <2>1
    <2> HIDE DEF TypeOK
    <2> QED
      BY <2>1, <2>2, <2>3 DEF SuccessDecided
  <1>7. CASE OperatorPressesEnter \/ InputCloses \/ InterruptAbsorbed \/ InterruptMeasuring \/ InterruptEscapes \/ WriteFault
    BY <1>7 DEF OperatorPressesEnter, InputCloses, InterruptAbsorbed, InterruptMeasuring,
       InterruptEscapes, WriteFault, SuccessDecided, SeriesStatus, RunsBounded, RunLimit,
       MoreRuns, RunNumber, CallsMatchPc, QuietPoints, DevicesKnown, manifestVars,
       adapterVars, budgets, Persist, Dispatch, Uniform, Escape, CloseWindow, Over,
       JoinPoints, WritePoints
  <1>8. ASSUME NEW f \in Families, AdapterStep(f) \/ DeviceEnds(f) PROVE SuccessDecided'
    BY <1>8 DEF AdapterStep, StartReturns, StopReturns, DeviceEnds, Return, SuccessDecided,
       SeriesStatus, RunsBounded, RunLimit, MoreRuns, RunNumber, CallsMatchPc, QuietPoints,
       DevicesKnown, manifestVars, adapterVars, budgets, Persist, Dispatch, Uniform, Escape,
       CloseWindow, Over, JoinPoints, WritePoints
  <1> QED
    BY <1>1, <1>2, <1>3, <1>4, <1>5, <1>6, <1>7, <1>8 DEF SuccessDecided, SeriesStatus,
       RunsBounded, RunLimit, MoreRuns, RunNumber, CallsMatchPc, QuietPoints, DevicesKnown,
       Next, MainStep, OperatorStep, Terminated, SeriesBoundReached, vars

\* _finish is always given a terminal status.
LEMMA GoalDecidedStep ==
  ASSUME IInv, Next, TypeOK'
  PROVE  GoalDecided'
  <1> USE BoundsAssumption, RunLimitType DEF IInv, TypeOK
  <1>1. CASE PreflightAborts \/ PreflightPasses \/ RunIsDue \/ MissedStartAborts \/ SeriesEnds
    BY <1>1 DEF PreflightAborts, PreflightPasses, RunIsDue, MissedStartAborts, SeriesEnds,
       GoalDecided, FinalStatuses, SeriesStatus, manifestVars, adapterVars, budgets,
       Persist, Dispatch, Uniform, Escape, CloseWindow, Over, JoinPoints, WritePoints
  <1>2. CASE BeginRun \/ CollectStarts \/ CollectCleanup
    BY <1>2 DEF BeginRun, CollectStarts, CollectCleanup, GoalDecided, FinalStatuses,
       SeriesStatus, manifestVars, adapterVars, budgets, Persist, Dispatch, Uniform, Escape,
       CloseWindow, Over, JoinPoints, WritePoints
  <1>3. CASE OpenWindow \/ DurationElapses \/ RequestStop \/ CollectStops
    BY <1>3 DEF OpenWindow, DurationElapses, RequestStop, CollectStops, GoalDecided,
       FinalStatuses, SeriesStatus, manifestVars, adapterVars, budgets, Persist, Dispatch,
       Uniform, Escape, CloseWindow, Over, JoinPoints, WritePoints
  <1>4. CASE Process \/ AppendRun
    BY <1>4, AppendProperties DEF Process, AppendRun, GoalDecided, FinalStatuses,
       SeriesStatus, manifestVars, adapterVars, budgets, Persist, Dispatch, Uniform, Escape,
       CloseWindow, Over, JoinPoints, WritePoints
  <1>5. CASE RunRecorded \/ DrainWritten \/ DrainEnds \/ Finish
    BY <1>5 DEF RunRecorded, DrainWritten, DrainEnds, Finish, GoalDecided, FinalStatuses,
       SeriesStatus, manifestVars, adapterVars, budgets, Persist, Dispatch, Uniform, Escape,
       CloseWindow, Over, JoinPoints, WritePoints
  <1>6. CASE DrainOne
    BY <1>6, DrainedRuns DEF DrainOne, GoalDecided, FinalStatuses, SeriesStatus,
       manifestVars, adapterVars, budgets, Persist, Dispatch, Uniform, Escape, CloseWindow,
       Over, JoinPoints, WritePoints
  <1>7. CASE OperatorPressesEnter \/ InputCloses \/ InterruptAbsorbed \/ InterruptMeasuring \/ InterruptEscapes \/ WriteFault
    BY <1>7 DEF OperatorPressesEnter, InputCloses, InterruptAbsorbed, InterruptMeasuring,
       InterruptEscapes, WriteFault, GoalDecided, FinalStatuses, SeriesStatus, manifestVars,
       adapterVars, budgets, Persist, Dispatch, Uniform, Escape, CloseWindow, Over,
       JoinPoints, WritePoints
  <1>8. ASSUME NEW f \in Families, AdapterStep(f) \/ DeviceEnds(f) PROVE GoalDecided'
    BY <1>8 DEF AdapterStep, StartReturns, StopReturns, DeviceEnds, Return, GoalDecided,
       FinalStatuses, SeriesStatus, manifestVars, adapterVars, budgets, Persist, Dispatch,
       Uniform, Escape, CloseWindow, Over, JoinPoints, WritePoints
  <1> QED
    BY <1>1, <1>2, <1>3, <1>4, <1>5, <1>6, <1>7, <1>8 DEF GoalDecided, FinalStatuses,
       SeriesStatus, Next, MainStep, OperatorStep, Terminated, SeriesBoundReached, vars

\* The terminal manifest is written as it stands in memory.
LEMMA StatusDecidedStep ==
  ASSUME IInv, Next, TypeOK'
  PROVE  StatusDecided'
  <1> USE BoundsAssumption, RunLimitType DEF IInv, TypeOK
  <1>1. CASE PreflightAborts \/ PreflightPasses \/ RunIsDue \/ MissedStartAborts \/ SeriesEnds
    BY <1>1 DEF PreflightAborts, PreflightPasses, RunIsDue, MissedStartAborts, SeriesEnds,
       StatusDecided, SuccessDecided, GoalDecided, manifestVars, adapterVars, budgets,
       Persist, Dispatch, Uniform, Escape, CloseWindow, Over, JoinPoints, WritePoints
  <1>2. CASE BeginRun \/ CollectStarts \/ CollectCleanup
    BY <1>2 DEF BeginRun, CollectStarts, CollectCleanup, StatusDecided, SuccessDecided,
       GoalDecided, manifestVars, adapterVars, budgets, Persist, Dispatch, Uniform, Escape,
       CloseWindow, Over, JoinPoints, WritePoints
  <1>3. CASE OpenWindow \/ DurationElapses \/ RequestStop \/ CollectStops
    BY <1>3 DEF OpenWindow, DurationElapses, RequestStop, CollectStops, StatusDecided,
       SuccessDecided, GoalDecided, manifestVars, adapterVars, budgets, Persist, Dispatch,
       Uniform, Escape, CloseWindow, Over, JoinPoints, WritePoints
  <1>4. CASE Process \/ AppendRun
    BY <1>4, AppendProperties DEF Process, AppendRun, StatusDecided, SuccessDecided,
       GoalDecided, manifestVars, adapterVars, budgets, Persist, Dispatch, Uniform, Escape,
       CloseWindow, Over, JoinPoints, WritePoints
  <1>5. CASE RunRecorded \/ DrainWritten \/ DrainEnds \/ Finish
    BY <1>5 DEF RunRecorded, DrainWritten, DrainEnds, Finish, StatusDecided, SuccessDecided,
       GoalDecided, manifestVars, adapterVars, budgets, Persist, Dispatch, Uniform, Escape,
       CloseWindow, Over, JoinPoints, WritePoints
  <1>6. CASE DrainOne
    BY <1>6, DrainedRuns DEF DrainOne, StatusDecided, SuccessDecided, GoalDecided,
       manifestVars, adapterVars, budgets, Persist, Dispatch, Uniform, Escape, CloseWindow,
       Over, JoinPoints, WritePoints
  <1>7. CASE OperatorPressesEnter \/ InputCloses \/ InterruptAbsorbed \/ InterruptMeasuring \/ InterruptEscapes \/ WriteFault
    BY <1>7 DEF OperatorPressesEnter, InputCloses, InterruptAbsorbed, InterruptMeasuring,
       InterruptEscapes, WriteFault, StatusDecided, SuccessDecided, GoalDecided,
       manifestVars, adapterVars, budgets, Persist, Dispatch, Uniform, Escape, CloseWindow,
       Over, JoinPoints, WritePoints
  <1>8. ASSUME NEW f \in Families, AdapterStep(f) \/ DeviceEnds(f) PROVE StatusDecided'
    BY <1>8 DEF AdapterStep, StartReturns, StopReturns, DeviceEnds, Return, StatusDecided,
       SuccessDecided, GoalDecided, manifestVars, adapterVars, budgets, Persist, Dispatch,
       Uniform, Escape, CloseWindow, Over, JoinPoints, WritePoints
  <1> QED
    BY <1>1, <1>2, <1>3, <1>4, <1>5, <1>6, <1>7, <1>8 DEF StatusDecided, SuccessDecided,
       GoalDecided, Next, MainStep, OperatorStep, Terminated, SeriesBoundReached, vars

----------------------------------------------------------------------------
(* The theorems. *)

LEMMA InitInvariant == Init => IInv
  <1> SUFFICES ASSUME Init PROVE IInv
    OBVIOUS
  <1>1. TypeOK
    BY InitType
  <1>2. runs = <<>> /\ pc = "preflight" /\ goal = "none" /\ status = "initializing"
    BY DEF Init
  <1>3. RunsBounded /\ RunsHonest
    BY <1>1, <1>2, RunLimitType DEF RunsBounded, InRunPoints, RunsHonest
  <1>4. CallsMatchPc /\ DevicesKnown
    BY <1>2 DEF Init, Uniform, CallsMatchPc, DevicesKnown, QuietPoints, InRunPoints
  <1>5. CurrentHonest /\ SuccessDecided /\ GoalDecided /\ StatusDecided
    BY <1>2 DEF CurrentHonest, SuccessDecided, GoalDecided, StatusDecided
  <1> QED
    BY <1>1, <1>3, <1>4, <1>5 DEF IInv

LEMMA NextInvariant == IInv /\ [Next]_vars => IInv'
  <1> SUFFICES ASSUME IInv, [Next]_vars PROVE IInv'
    OBVIOUS
  <1>1. CASE Next
    <2>1. TypeOK'
      BY <1>1, NextType DEF IInv
    <2> QED
      BY <1>1, <2>1, RunsBoundedStep, CallsMatchPcStep, DevicesKnownStep, CurrentHonestStep,
         RunsHonestStep, SuccessDecidedStep, GoalDecidedStep, StatusDecidedStep DEF IInv
  <1>2. CASE UNCHANGED vars
    BY <1>2 DEF vars, IInv, TypeOK, RunsBounded, RunLimit, CallsMatchPc, DevicesKnown,
       CurrentHonest, RunsHonest, SuccessDecided, GoalDecided, StatusDecided
  <1> QED
    BY <1>1, <1>2

LEMMA Invariance == Spec => []IInv
  BY InitInvariant, NextInvariant, PTL DEF Spec

\* Every reachable state of the session has the types of Session, whatever the
\* number of runs, interrupts and storage faults (session.py as a whole).
THEOREM TypeCorrect == Spec => []TypeOK
  <1>1. IInv => TypeOK
    BY DEF IInv
  <1> QED
    BY <1>1, Invariance, PTL

\* Exit code 0 is earned in every session: see SuccessIsEarned. No schedule of
\* adapter threads, interrupts, storage faults and failing sensors makes main()
\* return 0 for a series that is not complete and clean.
THEOREM SuccessEarned == Spec => []SuccessIsEarned
  <1>1. IInv => SuccessIsEarned
    <2> SUFFICES ASSUME IInv, Over, ExitCode = 0 PROVE SuccessIsEarned
      BY DEF SuccessIsEarned
    <2>1. pc = "done" /\ status = "success"
      BY DEF ExitCode, Over
    <2>2. goal = "success" /\ disk = [status |-> status, runs |-> runs]
      BY <2>1 DEF IInv, StatusDecided
    <2>3. disk.runs = runs /\ disk.status = "success"
      BY <2>1, <2>2
    <2> QED
      BY <2>2, <2>3 DEF IInv, SuccessDecided, RunsHonest, SuccessIsEarned
  <1> QED
    BY <1>1, Invariance, PTL

\* No adapter is ever commanded twice at once, and no start goes to a recorder
\* that is recording: see DispatchIsSafe.
THEOREM DispatchSafe == Spec => DispatchIsSafe
  <1> DEFINE Safe == \A f \in Families : call'[f] # call[f] /\ call'[f] \in {"start", "stop"} =>
                       /\ call[f] \notin {"start", "stop"}
                       /\ call'[f] = "start" => dev[f] = "idle"
  <1>1. ASSUME IInv, Next PROVE Safe
    <2> USE <1>1 DEF IInv
    <2>1. CASE BeginRun
      BY <2>1 DEF BeginRun, Dispatch, CallsMatchPc, QuietPoints, DevicesKnown
    <2>2. CASE CollectStarts \/ CollectCleanup \/ CollectStops
      BY <2>2 DEF CollectStarts, CollectCleanup, CollectStops, Dispatch, Idle
    <2>3. CASE RequestStop
      BY <2>3 DEF RequestStop, Dispatch, CallsMatchPc, QuietPoints
    <2>4. ASSUME NEW f \in Families, AdapterStep(f) \/ DeviceEnds(f) PROVE Safe
      BY <2>4 DEF AdapterStep, StartReturns, StopReturns, DeviceEnds, Return, TypeOK
    <2>5. CASE call' = call
      BY <2>5
    <2>6. CASE \/ PreflightAborts \/ PreflightPasses \/ RunIsDue \/ MissedStartAborts \/ SeriesEnds
               \/ OpenWindow \/ DurationElapses \/ Process \/ AppendRun \/ RunRecorded
               \/ DrainOne \/ DrainWritten \/ DrainEnds \/ Finish \/ OperatorStep \/ WriteFault
               \/ Terminated \/ SeriesBoundReached
      <3>1. call' = call
        BY <2>6 DEF PreflightAborts, PreflightPasses, RunIsDue, MissedStartAborts, SeriesEnds,
           OpenWindow, DurationElapses, Process, AppendRun, RunRecorded, DrainOne, DrainWritten,
           DrainEnds, Finish, OperatorStep, OperatorPressesEnter, InputCloses, InterruptAbsorbed,
           InterruptMeasuring, InterruptEscapes, WriteFault, CloseWindow, Escape, Terminated,
           SeriesBoundReached, adapterVars, vars
      <3> QED
        BY <3>1, <2>5
    <2> QED
      BY <1>1, <2>1, <2>2, <2>3, <2>4, <2>6 DEF Next, MainStep
  <1>2. IInv /\ [Next]_vars => [Safe]_vars
    BY <1>1
  <1> QED
    BY <1>2, Invariance, PTL DEF Spec, DispatchIsSafe
=============================================================================

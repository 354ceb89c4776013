------------------------------ MODULE Session ------------------------------
(***************************************************************************)
(* The session orchestrator, tbdaq/session.py: preflight, the run loop, the *)
(* concurrent start and stop of the sensor adapters, cleanup, processing,   *)
(* deferred enDAQ export and the persisted manifest.                        *)
(*                                                                         *)
(* Actors: the main thread (pc), one daemon thread per adapter call         *)
(* (call[f]), the recording devices (dev[f]), the operator (Ctrl+C, Enter)  *)
(* and the output storage, which may refuse a manifest write.               *)
(***************************************************************************)
EXTENDS Integers, Sequences, FiniteSets

CONSTANTS
    MaxRuns,        \* bound on run_count and on an unlimited series
    MaxInterrupts,  \* bound on KeyboardInterrupts delivered to the main thread
    MaxFaults       \* bound on exceptions raised by manifest writes

ASSUME BoundsAssumption ==
    /\ MaxRuns \in Nat \ {0}
    /\ MaxInterrupts \in Nat
    /\ MaxFaults \in Nat

VARIABLES
    config,         \* the validated SessionConfig: never changes
    active,         \* families whose discover() passed
    pc,             \* where the main thread is in Session.run
    goal,           \* status the pending _finish() call was given
    current,        \* record of the run being executed, NoRun between runs
    runs,           \* manifest["runs"] in memory
    deferred,       \* run numbers in _deferred_processing not yet processed
    status,         \* manifest["status"] in memory
    disk,           \* the manifest file: its status and its runs
    interruptRequested, \* self._interrupt_requested
    interrupted,    \* the local of _execute_run set by Ctrl+C while measuring
    call,           \* call[f]: the adapter call of the current fan-out
    dev,            \* dev[f]: whether the physical recorder is recording
    needsStop,      \* needsStop[f]: the adapter's needs_stop attribute
    sigints,        \* KeyboardInterrupts delivered so far
    faults          \* manifest writes that raised so far

manifestVars == <<runs, deferred, status>>
adapterVars  == <<call, dev, needsStop>>
budgets      == <<sigints, faults>>
vars == <<config, active, pc, goal, current, runs, deferred, status, disk,
          interruptRequested, interrupted, call, dev, needsStop, sigints, faults>>

----------------------------------------------------------------------------
Families == {"gator", "endaq"}

\* SessionConfig values that pass validate(). runCount 0 is run_count = null
\* (--run-until-stopped); manual is run_duration_s = null.
Configs ==
    {c \in [enabled : (SUBSET Families) \ {{}},
            mode : {"diagnostic", "prognostic"},
            runCount : 0..MaxRuns,
            manual : BOOLEAN,
            lateAborts : BOOLEAN,
            allowPartial : BOOLEAN] :
        /\ c.mode = "diagnostic" => c.runCount = 1
        /\ c.manual => c.mode = "diagnostic"}

Outcomes == {"none", "ok", "error"}
RunRecords ==
    [status : {"none", "starting", "measuring", "success", "partial",
               "failed", "interrupted", "aborted"},
     start : [Families -> Outcomes],
     stop : [Families -> Outcomes],
     processing : [Families -> {"none", "deferred", "success", "failed"}],
     summary : {"pending", "deferred", "incomplete", "success"}]

Uniform(x) == [f \in Families |-> x]

\* The record _execute_run builds before it dispatches any start.
FreshRun(s) ==
    [status |-> s, start |-> Uniform("none"), stop |-> Uniform("none"),
     processing |-> Uniform("none"), summary |-> "pending"]
NoRun == FreshRun("none")

FinalStatuses == {"success", "partial", "failed", "aborted", "interrupted"}
Over == pc \in {"done", "raised"}

Started(r) == {f \in Families : r.start[f] = "ok"}

\* Mutant: a failed stop counts only when it was not asked for.
StopFailedIfNone(r) == \E f \in Families : r.start[f] # "none" /\ r.stop[f] = "none"

\* stop_failed: a family with a start record has no stop, or a failed one.
StopFailed(r) == \E f \in Families : r.start[f] # "none" /\ r.stop[f] # "ok"

\* Prognostic enDAQ export waits until no acquisition is left to protect.
Deferrable(r) == IF config.mode = "prognostic" THEN Started(r) \cap {"endaq"} ELSE {}

Persist == disk' = [status |-> status', runs |-> runs']
Idle == \A f \in Families : call[f] \notin {"start", "stop"}
Dispatch(method, families) ==
    call' = [f \in Families |-> IF f \in families THEN method ELSE "none"]

----------------------------------------------------------------------------
\* Session.__init__ has validated the configuration and written the manifest.
Init ==
    /\ config \in Configs
    /\ active = {}
    /\ pc = "preflight"
    /\ goal = "none"
    /\ current = NoRun
    /\ runs = <<>>
    /\ deferred = <<>>
    /\ status = "initializing"
    /\ disk = [status |-> status, runs |-> runs]
    /\ interruptRequested = FALSE
    /\ interrupted = FALSE
    /\ call = Uniform("none")
    /\ dev = Uniform("idle")
    /\ needsStop = Uniform(FALSE)
    /\ sigints = 0
    /\ faults = 0

----------------------------------------------------------------------------
\* Preflight. Too few sensors: nothing is started.
PreflightAborts ==
    /\ pc = "preflight"
    /\ active' \in {a \in SUBSET config.enabled :
                      a = {} \/ (a # config.enabled /\ ~config.allowPartial)}
    /\ pc' = "finish"
    /\ goal' = "aborted"
    /\ UNCHANGED manifestVars
    /\ Persist
    /\ UNCHANGED <<config, current, interruptRequested, interrupted, adapterVars, budgets>>

PreflightPasses ==
    /\ pc = "preflight"
    /\ active' \in (SUBSET config.enabled) \ {{}}
    /\ active' # config.enabled => config.allowPartial
    /\ pc' = "schedule"
    /\ status' = "running"
    /\ UNCHANGED <<runs, deferred>>
    /\ Persist
    /\ UNCHANGED <<config, goal, current, interruptRequested, interrupted, adapterVars, budgets>>

----------------------------------------------------------------------------
\* The run loop. run_number is the number of the record to come.
RunNumber == Len(runs) + 1
MoreRunsOffByOne == RunNumber - 1 <= IF config.runCount = 0 THEN MaxRuns ELSE config.runCount
MoreRuns == RunNumber <= IF config.runCount = 0 THEN MaxRuns ELSE config.runCount

\* The planned start arrived, in tolerance or late under start_late.
RunIsDue ==
    /\ pc = "schedule"
    /\ MoreRuns
    /\ pc' = "begin"
    /\ UNCHANGED <<config, active, goal, current, disk, interruptRequested, interrupted,
                   manifestVars, adapterVars, budgets>>

MissedStartAborts ==
    /\ pc = "schedule"
    /\ MoreRuns
    /\ config.lateAborts
    /\ runs' = Append(runs, FreshRun("aborted"))
    /\ pc' = "finish"
    /\ goal' = "aborted"
    /\ UNCHANGED <<config, active, current, deferred, status, disk, interruptRequested,
                   interrupted, adapterVars, budgets>>

SeriesStatus ==
    IF runs # <<>> /\ \A i \in DOMAIN runs : runs[i].status = "success"
    THEN "success" ELSE "partial"

SeriesEnds ==
    /\ pc = "schedule"
    /\ config.runCount # 0
    /\ ~MoreRuns
    /\ pc' = "drain"
    /\ goal' = SeriesStatus
    /\ UNCHANGED <<config, active, current, disk, interruptRequested, interrupted,
                   manifestVars, adapterVars, budgets>>

----------------------------------------------------------------------------
\* _execute_run. Every active adapter is started from a thread of its own;
\* the barrier releases the threads together.
BeginRun ==
    /\ pc = "begin"
    /\ current' = FreshRun("starting")
    /\ interrupted' = FALSE
    /\ Dispatch("start", active)
    /\ pc' = "starting"
    /\ UNCHANGED manifestVars
    /\ Persist
    /\ UNCHANGED <<config, active, goal, interruptRequested, dev, needsStop, budgets>>

\* The start threads are joined and their results recorded.
StartsCollected == [current EXCEPT !.start = [f \in Families |->
                      IF f \in active THEN call[f] ELSE "none"]]

\* _adapters_requiring_cleanup: what started, and what may have.
RequiringCleanupOfStarted(r) == Started(r)
RequiringCleanup(r) == Started(r) \cup {f \in active : needsStop[f]}

CollectStarts ==
    /\ pc = "starting"
    /\ Idle
    /\ LET r == StartsCollected
           missing == active \ Started(r)
           verdict == IF interruptRequested THEN "interrupted" ELSE "failed"
       IN \/ /\ interruptRequested \/ (missing # {} /\ ~config.allowPartial)
             /\ current' = [r EXCEPT !.status = verdict]
             /\ Dispatch("stop", RequiringCleanup(r))
             /\ pc' = "cleanup"
          \/ /\ ~interruptRequested /\ (missing # {} => config.allowPartial)
             /\ Started(r) = {}
             /\ current' = [r EXCEPT !.status = "failed"]
             /\ Dispatch("none", {})
             /\ pc' = "append"
          \/ /\ ~interruptRequested /\ (missing # {} => config.allowPartial)
             /\ Started(r) # {}
             /\ current' = r
             /\ Dispatch("none", {})
             /\ pc' = "armed"
    /\ UNCHANGED <<config, active, goal, disk, interruptRequested, interrupted, dev, needsStop,
                   manifestVars, budgets>>

\* _record_stops, for the families that were asked to stop.
StopsCollected == [current EXCEPT !.stop = [f \in Families |->
                      IF call[f] = "none" THEN current.stop[f] ELSE call[f]]]

CollectCleanup ==
    /\ pc = "cleanup"
    /\ Idle
    /\ current' = StopsCollected
    /\ Dispatch("none", {})
    /\ pc' = "append"
    /\ UNCHANGED <<config, active, goal, disk, interruptRequested, interrupted, dev, needsStop,
                   manifestVars, budgets>>

\* The common window opens. The handler for Ctrl+C is not installed before it.
OpenWindow ==
    /\ pc = "armed"
    /\ current' = [current EXCEPT !.status = "measuring"]
    /\ pc' = "measuring"
    /\ UNCHANGED manifestVars
    /\ Persist
    /\ UNCHANGED <<config, active, goal, interruptRequested, interrupted, adapterVars, budgets>>

CloseWindow(byInterrupt) ==
    /\ pc = "measuring"
    /\ interrupted' = byInterrupt
    /\ pc' = "stopReq"
    /\ UNCHANGED <<config, active, goal, current, disk, interruptRequested, faults,
                   manifestVars, adapterVars>>

DurationElapses == ~config.manual /\ CloseWindow(FALSE) /\ UNCHANGED sigints
OperatorPressesEnter == config.manual /\ CloseWindow(FALSE) /\ UNCHANGED sigints
InputCloses == config.manual /\ CloseWindow(TRUE) /\ UNCHANGED sigints

\* The finally clause: live status first, then the stop of what was started.
RequestStop ==
    /\ pc = "stopReq"
    /\ Dispatch("stop", Started(current))
    /\ pc' = "stopping"
    /\ UNCHANGED manifestVars
    /\ Persist
    /\ UNCHANGED <<config, active, goal, current, interruptRequested, interrupted, dev,
                   needsStop, budgets>>

CollectStops ==
    /\ pc = "stopping"
    /\ Idle
    /\ current' = StopsCollected
    /\ Dispatch("none", {})
    /\ pc' = "processing"
    /\ UNCHANGED <<config, active, goal, disk, interruptRequested, interrupted, dev, needsStop,
                   manifestVars, budgets>>

\* Export of each started family, now or deferred. Gator exports nothing from
\* a recording whose stop reported an error.
ProcessingOutcomes(f) ==
    IF f = "gator" /\ current.stop[f] # "ok" THEN {"failed"} ELSE {"success", "failed"}

Processed(result) ==
    [f \in Families |-> CASE f \notin Started(current) -> "none"
                          [] f \in Deferrable(current) -> "deferred"
                          [] OTHER -> result[f]]

SensorStatus ==
    IF StopFailed(current) THEN "failed"
    ELSE IF active # Started(current) THEN "partial"
    ELSE "success"

RunStatusForgetsRequest == IF interrupted THEN "interrupted" ELSE SensorStatus
RunStatus == IF interrupted \/ interruptRequested THEN "interrupted" ELSE SensorStatus

Process ==
    /\ pc = "processing"
    /\ \E result \in [Families -> {"success", "failed"}] :
         /\ \A f \in Started(current) : result[f] \in ProcessingOutcomes(f)
         /\ current' = [current EXCEPT
              !.processing = Processed(result),
              !.summary = IF Deferrable(current) # {} THEN "deferred"
                          ELSE IF \E f \in Started(current) : result[f] = "failed"
                               THEN "incomplete" ELSE "success",
              !.status = RunStatus]
    /\ deferred' = IF Deferrable(current) # {} THEN Append(deferred, RunNumber) ELSE deferred
    /\ pc' = "append"
    /\ UNCHANGED <<runs, status>>
    /\ Persist
    /\ UNCHANGED <<config, active, goal, interruptRequested, interrupted, adapterVars, budgets>>

----------------------------------------------------------------------------
\* Back in run(): the record joins the manifest, is persisted, and decides
\* whether the series goes on.
DowngradedNever(r) == r
Downgraded(r) ==
    IF active # config.enabled /\ r.status = "success" THEN [r EXCEPT !.status = "partial"] ELSE r

AppendRun ==
    /\ pc = "append"
    /\ runs' = Append(runs, Downgraded(current))
    /\ current' = NoRun
    /\ pc' = "recorded"
    /\ UNCHANGED <<config, active, goal, deferred, status, disk, interruptRequested, interrupted,
                   adapterVars, budgets>>

RunRecorded ==
    /\ pc = "recorded"
    /\ UNCHANGED manifestVars
    /\ Persist
    /\ LET s == runs[Len(runs)].status
       IN \/ /\ s \in {"failed", "interrupted"}
             /\ pc' = "drain"
             /\ goal' = s
          \/ /\ s \notin {"failed", "interrupted"}
             /\ IF s = "partial" /\ ~config.allowPartial
                THEN pc' = "finish" /\ goal' = "failed"
                ELSE pc' = "schedule" /\ UNCHANGED goal
    /\ UNCHANGED <<config, active, current, interruptRequested, interrupted, adapterVars, budgets>>

\* _process_deferred_runs: the records it updates are those of the manifest.
StillDeferredButLast == Len(deferred) > 1
StillDeferred == deferred # <<>>
RestDeferredStuck == deferred
RestDeferred == Tail(deferred)

Exported(r, result) ==
    [r EXCEPT !.processing["endaq"] = result,
              !.summary = IF result = "success" THEN "success" ELSE "incomplete"]

DrainOne ==
    /\ pc = "drain"
    /\ StillDeferred
    /\ \E result \in {"success", "failed"} :
         runs' = [runs EXCEPT ![Head(deferred)] = Exported(@, result)]
    /\ deferred' = RestDeferred
    /\ pc' = "drained"
    /\ UNCHANGED <<config, active, goal, current, status, disk, interruptRequested, interrupted,
                   adapterVars, budgets>>

DrainWritten ==
    /\ pc = "drained"
    /\ pc' = "drain"
    /\ UNCHANGED manifestVars
    /\ Persist
    /\ UNCHANGED <<config, active, goal, current, interruptRequested, interrupted, adapterVars,
                   budgets>>

DrainEnds ==
    /\ pc = "drain"
    /\ ~StillDeferred
    /\ pc' = "finish"
    /\ UNCHANGED <<config, active, goal, current, disk, interruptRequested, interrupted,
                   manifestVars, adapterVars, budgets>>

\* _finish, from the body ("finish") or from an exception handler ("handler").
Finish ==
    /\ pc \in {"finish", "handler"}
    /\ status' = goal
    /\ UNCHANGED <<runs, deferred>>
    /\ Persist
    /\ pc' = "done"
    /\ UNCHANGED <<config, active, goal, current, interruptRequested, interrupted, adapterVars,
                   budgets>>

----------------------------------------------------------------------------
\* An exception that leaves the body of run() is turned into _finish(s); one
\* raised inside a handler leaves run() altogether.
Escape(s) ==
    /\ pc' = IF pc = "handler" THEN "raised" ELSE "handler"
    /\ goal' = s
    /\ UNCHANGED <<config, active, current, disk, interruptRequested, interrupted, manifestVars,
                   adapterVars>>

JoinPoints == {"starting", "cleanup", "stopping"}
WritePoints == {"preflight", "begin", "armed", "stopReq", "processing", "recorded", "drained",
                "finish", "handler"}

\* Ctrl+C while joining adapter threads is remembered; it is lost to the
\* handler when it lands between two joins.
InterruptAbsorbed ==
    /\ pc \in JoinPoints
    /\ sigints < MaxInterrupts
    /\ sigints' = sigints + 1
    /\ interruptRequested' = TRUE
    /\ UNCHANGED <<config, active, pc, goal, current, disk, interrupted, manifestVars, adapterVars,
                   faults>>

InterruptMeasuring ==
    /\ sigints < MaxInterrupts
    /\ sigints' = sigints + 1
    /\ CloseWindow(TRUE)

InterruptEscapes ==
    /\ ~Over
    /\ pc # "measuring"
    /\ sigints < MaxInterrupts
    /\ sigints' = sigints + 1
    /\ Escape("interrupted")
    /\ UNCHANGED faults

\* _write_manifest (or the run directory) raises before anything else happens.
WriteFault ==
    /\ pc \in WritePoints
    /\ faults < MaxFaults
    /\ faults' = faults + 1
    /\ Escape("failed")
    /\ UNCHANGED sigints

----------------------------------------------------------------------------
\* The adapter threads. A start succeeds, is refused before the device was
\* commanded, or (enDAQ) fails after the command was sent.
Return(f, reply, device, owed) ==
    /\ call' = [call EXCEPT ![f] = reply]
    /\ dev' = [dev EXCEPT ![f] = device]
    /\ needsStop' = [needsStop EXCEPT ![f] = owed]
    /\ UNCHANGED <<config, active, pc, goal, current, disk, interruptRequested, interrupted,
                   manifestVars, budgets>>

StartReturns(f) ==
    /\ call[f] = "start"
    /\ \/ Return(f, "ok", "recording", f = "endaq")
       \/ Return(f, "error", dev[f], FALSE)
       \/ f = "endaq" /\ \E d \in {dev[f], "recording"} : Return(f, "error", d, TRUE)

\* A stop succeeds, stops the device but fails later (offload, exit code), or
\* (enDAQ) ends unsure whether the device stopped. The result object still
\* holds the error of a failed start.
StopReturns(f) ==
    /\ call[f] = "stop"
    /\ \/ current.start[f] = "ok" /\ Return(f, "ok", "idle", FALSE)
       \/ Return(f, "error", "idle", FALSE)
       \/ f = "endaq" /\ \E d \in {dev[f], "idle"} : Return(f, "error", d, needsStop[f])

\* A recorder stops by itself: its process dies, its time limit is reached.
DeviceEnds(f) ==
    /\ dev[f] = "recording"
    /\ dev' = [dev EXCEPT ![f] = "idle"]
    /\ UNCHANGED <<config, active, pc, goal, current, disk, interruptRequested, interrupted, call,
                   needsStop, manifestVars, budgets>>

Terminated == Over /\ UNCHANGED vars

\* The bound on an unlimited series: it pauses here until it is interrupted.
SeriesBoundReached ==
    /\ pc = "schedule"
    /\ config.runCount = 0
    /\ ~MoreRuns
    /\ UNCHANGED vars

----------------------------------------------------------------------------
\* Steps the main thread takes without waiting for the operator.
MainStep ==
    \/ PreflightAborts \/ PreflightPasses
    \/ RunIsDue \/ MissedStartAborts \/ SeriesEnds
    \/ BeginRun \/ CollectStarts \/ CollectCleanup
    \/ OpenWindow \/ DurationElapses \/ RequestStop \/ CollectStops \/ Process
    \/ AppendRun \/ RunRecorded
    \/ DrainOne \/ DrainWritten \/ DrainEnds
    \/ Finish

OperatorStep ==
    \/ OperatorPressesEnter \/ InputCloses
    \/ InterruptAbsorbed \/ InterruptMeasuring \/ InterruptEscapes

AdapterStep(f) == StartReturns(f) \/ StopReturns(f)

Next ==
    \/ MainStep
    \/ OperatorStep
    \/ WriteFault
    \/ \E f \in Families : AdapterStep(f) \/ DeviceEnds(f)
    \/ Terminated
    \/ SeriesBoundReached

Spec == Init /\ [][Next]_vars

\* Every wait of the main thread but the Enter prompt has a deadline, and so
\* has every adapter call. Nothing obliges the operator, a device or a fault.
Fairness == WF_vars(MainStep) /\ \A f \in Families : WF_vars(AdapterStep(f))
FairSpec == Spec /\ Fairness

----------------------------------------------------------------------------
TypeOK ==
    /\ config \in Configs
    /\ active \in SUBSET config.enabled
    /\ pc \in {"preflight", "schedule", "begin", "starting", "cleanup", "armed", "measuring",
               "stopReq", "stopping", "processing", "append", "recorded", "drain", "drained",
               "finish", "handler", "done", "raised"}
    /\ goal \in FinalStatuses \cup {"none"}
    /\ current \in RunRecords
    /\ runs \in Seq(RunRecords)
    /\ Len(runs) <= MaxRuns
    /\ deferred \in Seq(1..MaxRuns)
    /\ status \in FinalStatuses \cup {"initializing", "running"}
    /\ disk \in [status : FinalStatuses \cup {"initializing", "running"}, runs : Seq(RunRecords)]
    /\ interruptRequested \in BOOLEAN
    /\ interrupted \in BOOLEAN
    /\ call \in [Families -> {"none", "start", "stop", "ok", "error"}]
    /\ dev \in [Families -> {"idle", "recording"}]
    /\ needsStop \in [Families -> BOOLEAN]
    /\ sigints \in 0..MaxInterrupts
    /\ faults \in 0..MaxFaults

\* main() of tbdaq/__main__.py: only a manifest that says success exits 0; an
\* exception out of run() is an interruption (130) or a failure (1).
ExitCode ==
    CASE pc = "raised" -> IF goal = "interrupted" THEN 130 ELSE 1
      [] pc = "done" /\ status = "success" -> 0
      [] OTHER -> 1

\* Exit code 0 is earned: the manifest on disk lists every planned run, each a
\* success in which every ENABLED family was started and stopped without an
\* error, and no recorder is still recording (session.py 186-217, 421-440).
SuccessIsEarned ==
    Over /\ ExitCode = 0 =>
        /\ disk.status = "success"
        /\ Len(disk.runs) = config.runCount
        /\ \A i \in DOMAIN disk.runs : \A f \in config.enabled :
              disk.runs[i].start[f] = "ok" /\ disk.runs[i].stop[f] = "ok"
        /\ \A f \in Families : dev[f] = "idle"

\* A recorder left recording at the end is always the trace of a failure the
\* manifest or the lost run shows: the run never reached the manifest, its stop
\* failed, or allow_partial accepted its failed start (309-361).
LeftRecordingIsExplained ==
    \A f \in Families : Over /\ dev[f] = "recording" =>
        \/ current # NoRun
        \/ \E i \in DOMAIN runs :
             \/ runs[i].stop[f] = "error"
             \/ runs[i].start[f] = "error" /\ runs[i].stop[f] = "none" /\ config.allowPartial

\* The runs an operator may use. A run reported success or partial has data of
\* some sensor, every sensor it recorded stopped without an error, and it is a
\* success exactly when no enabled sensor is missing: the sensors that are, for
\* whatever reason, were lost under allow_partial. And nothing is measured
\* after a run that is not usable (session.py 186-217, 421-440).
Usable(r) == r.status \in {"success", "partial"}
Whole(r) ==
    /\ Started(r) # {}
    /\ \A f \in Started(r) : r.stop[f] = "ok"
    /\ (r.status = "success") <=> (Started(r) = config.enabled)
    /\ r.status = "partial" => config.allowPartial
UsableRunsAreWhole ==
    \A i \in DOMAIN runs : /\ Usable(runs[i]) => Whole(runs[i])
                           /\ ~Usable(runs[i]) => i = Len(runs)

\* A session that ends as a complete series has exported every deferred enDAQ
\* recording, and the file holds those records (506-525).
CompleteSeriesIsExported ==
    pc = "done" /\ disk.status \in {"success", "partial"} =>
        /\ disk.runs = runs
        /\ \A i \in DOMAIN disk.runs :
              disk.runs[i].processing["endaq"] # "deferred" /\ disk.runs[i].summary # "deferred"

\* An adapter is commanded only when its previous call has returned, and a
\* start only goes to a recorder that is not recording: the adapters keep one
\* result and one process each and are not reentrant (284-288, 527-565).
DispatchIsSafe ==
    [][\A f \in Families : call'[f] # call[f] /\ call'[f] \in {"start", "stop"} =>
          /\ call[f] \notin {"start", "stop"}
          /\ call'[f] = "start" => dev[f] = "idle"]_vars

\* Once Ctrl+C was delivered, wherever it landed, no sensor is started again.
NoStartAfterInterrupt ==
    [][sigints > 0 => \A f \in Families : call'[f] = "start" => call[f] = "start"]_vars

\* A timed series of planned runs ends, whatever the sensors, the operator and
\* the storage do: every loop of run() makes progress; and Ctrl+C ends any
\* session, an unlimited series included.
SessionEnds == (~config.manual /\ config.runCount # 0) \/ sigints > 0 ~> Over

\* The calls of one family, seen as AdapterContract sees them: from the run
\* under way, or from the last one between runs.
LatestRun ==
    IF current # NoRun \/ runs = <<>> THEN current ELSE runs[Len(runs)]

Phase(f) ==
    LET r == LatestRun
        startedOk == r.start[f] = "ok"
    IN CASE call[f] = "start" -> "starting"
         [] call[f] = "stop" -> IF startedOk THEN "stopping" ELSE "cleaning"
         [] call[f] = "ok" -> IF r.start[f] = "none" THEN "started" ELSE "stopped"
         [] call[f] = "error" -> IF r.start[f] = "none" THEN "startFailed" ELSE "stopFailed"
         [] OTHER -> IF r.start[f] = "none" THEN "rest"
                     ELSE CASE r.stop[f] = "ok" -> "stopped"
                            [] r.stop[f] = "error" -> "stopFailed"
                            [] OTHER -> IF startedOk THEN "started" ELSE "startFailed"

\* The session calls both adapters the way they expect it, and assumes of them
\* no more than GatorAdapter and EndaqAdapter give (KeepsContract there): no
\* start while the recorder of an earlier run may still record, no stop that is
\* not owed, nothing started after a failed stop (284-345, 527-565).
GatorCalls == INSTANCE AdapterContract
    WITH Uncertain <- FALSE, phase <- Phase("gator"), recording <- dev["gator"] = "recording",
         owed <- needsStop["gator"]
EndaqCalls == INSTANCE AdapterContract
    WITH Uncertain <- TRUE, phase <- Phase("endaq"), recording <- dev["endaq"] = "recording",
         owed <- needsStop["endaq"]
KeepsContracts == GatorCalls!Spec /\ EndaqCalls!Spec

----------------------------------------------------------------------------
(* What the documentation says and the code does not do. *)

\* docs/tbdaq-manual.md: with --allow-partial a session goes on when a sensor
\* fails, and the result is partial (session.py 421-427 makes it failed).
FailedStartIsPartial ==
    \A i \in DOMAIN runs :
        /\ config.allowPartial
        /\ runs[i].status \notin {"interrupted", "aborted"}
        /\ Started(runs[i]) # {}
        /\ \A f \in Started(runs[i]) : runs[i].stop[f] = "ok"
        => runs[i].status \in {"success", "partial"}

\* docs/design.md: prognostic export "is deferred until scheduled acquisition
\* has ended", and so is never dropped (session.py 175 and 218 drop it).
DeferredIsExportedAtEnd ==
    pc = "done" /\ faults = 0 =>
        \A i \in DOMAIN disk.runs : disk.runs[i].processing["endaq"] # "deferred"

\* docs/tbdaq-manual.md: Ctrl+C ends the series and cleans up the active run.
\* Once the window was open, one Ctrl+C at session.py 353 leaves sensors
\* recording that nobody asked to stop.
CtrlCCleansUpActiveRun ==
    pc = "done" /\ sigints = 1 /\ faults = 0 /\ current.status = "measuring" =>
        \A f \in Started(current) : dev[f] = "recording" => current.stop[f] # "none"
=============================================================================

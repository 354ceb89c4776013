---------------------------- MODULE GatorAdapter ----------------------------
(***************************************************************************)
(* The Gator adapter, tbdaq/adapters/gator.py: the thread that calls        *)
(* start_run and stop_run, and the reader thread of the recorder's output,  *)
(* beside the recorder itself as RecorderProcess shows it.                  *)
(* Every wait of the adapter has a deadline, which may pass at any moment   *)
(* before what it waits for.                                                *)
(***************************************************************************)
EXTENDS RecorderProcess

CONSTANT MaxRuns   \* bound on the runs of the session

ASSUME GatorAssumption == MaxRuns \in Nat \ {0}

VARIABLES
    reader,    \* the reader thread runs
    lines,     \* _output_queue
    pc,        \* where the caller is: "idle", "waiting",
               \* "started", "stopping", "reaping", "draining", "startFailed", "stopped"
    failing,   \* the call under way is a start that failed
    run,
    startSeen, samplesSeen, error   \* of the result

resultVars  == <<startSeen, samplesSeen, error>>
vars == <<process, code, pipe, reader, lines, pc, failing, run, startSeen, samplesSeen, error>>

Init ==
    /\ process = "none" /\ code = 0 /\ pipe = <<>>
    /\ reader = FALSE /\ lines = <<>>
    /\ pc = "idle" /\ failing = FALSE /\ run = 0
    /\ startSeen = FALSE /\ samplesSeen = FALSE /\ error = FALSE

----------------------------------------------------------------------------
\* The recorder takes a step of its own, or Ctrl+C reaches it.
Process ==
    /\ ProcessNext
    /\ UNCHANGED <<reader, lines, pc, failing, run, resultVars>>

KilledProcessDies == ProcessDies /\ UNCHANGED <<reader, lines, pc, failing, run, resultVars>>

\* The reader thread: lines in order, until the process closed its end.
Reader ==
    /\ reader
    /\ \/ /\ pipe # <<>>
          /\ lines' = Append(lines, Head(pipe))
          /\ pipe' = Tail(pipe)
          /\ UNCHANGED reader
       \/ /\ pipe = <<>> /\ ~Alive
          /\ reader' = FALSE
          /\ UNCHANGED <<lines, pipe>>
    /\ UNCHANGED <<process, code, pc, failing, run, resultVars>>

----------------------------------------------------------------------------
\* The session's run count.
\* Mutant: one run too many.
MoreRunsOffByOne == run <= MaxRuns

MoreRuns == run < MaxRuns

\* start(): a fresh result and queue; the binary is missing, cannot be
\* launched, or runs.
Start ==
    /\ pc = "idle"
    /\ MoreRuns
    /\ run' = run + 1
    /\ startSeen' = FALSE /\ samplesSeen' = FALSE
    /\ lines' = <<>>
    /\ \/ /\ process' = "launching" /\ code' = 0 /\ pipe' = <<>>
          /\ reader' = TRUE
          /\ error' = FALSE /\ failing' = FALSE
          /\ pc' = "waiting"
       \/ /\ error' = TRUE /\ failing' = TRUE
          /\ pc' = "startFailed"
          /\ UNCHANGED <<processVars, reader>>

\* _consume_line on a sequence of lines.
Holds(line, some) == \E i \in DOMAIN some : some[i] = line

Consume(some) ==
    /\ startSeen' = (startSeen \/ Holds("START", some))
    /\ samplesSeen' = (samplesSeen \/ Holds("WROTE", some))

WaitForReadiness ==
    /\ pc = "waiting"
    /\ lines # <<>>
    /\ Consume(<<Head(lines)>>)
    /\ lines' = Tail(lines)
    /\ pc' = IF startSeen' THEN "started" ELSE "waiting"
    /\ UNCHANGED <<processVars, reader, failing, run, error>>

\* An empty queue, and a process that has exited by the time it is polled:
\* _record_early_exit.
NoticeEarlyExit ==
    /\ pc = "waiting"
    /\ lines = <<>>
    /\ process = "exited"
    /\ failing' = TRUE
    /\ pc' = "draining"
    /\ UNCHANGED <<processVars, reader, lines, run, resultVars>>

\* The start deadline passes: _terminate_after_start_failure.
StartTimesOut ==
    /\ pc = "waiting"
    /\ failing' = TRUE
    /\ Signalled(SIGTERM)
    /\ pc' = "stopping"
    /\ UNCHANGED <<pipe, reader, lines, run, resultVars>>

\* stop(): SIGTERM unless the process is gone already.
Stop ==
    /\ pc = "started"
    /\ Signalled(SIGTERM)
    /\ pc' = "stopping"
    /\ UNCHANGED <<pipe, reader, lines, failing, run, resultVars>>

\* wait(timeout=stop_timeout_s); a process that takes longer is killed.
\* Mutant: the timeout of the wait is ignored.
KillNothing == UNCHANGED <<process, code>>

Kill == IF Alive THEN process' = "killed" /\ UNCHANGED code ELSE UNCHANGED <<process, code>>

AwaitExit ==
    /\ pc = "stopping"
    /\ \/ /\ process = "exited"
          /\ pc' = "draining"
          /\ UNCHANGED <<process, code, error>>
       \/ /\ Kill
          /\ error' = (error \/ ~failing)
          /\ pc' = "reaping"
    /\ UNCHANGED <<pipe, reader, lines, failing, run, startSeen, samplesSeen>>

\* wait() without a timeout, after kill().
\* Mutant: the killed process is not waited for.
ReapedAtOnce == TRUE

Reaped == process = "exited"

Reap ==
    /\ pc = "reaping"
    /\ Reaped
    /\ pc' = "draining"
    /\ UNCHANGED <<processVars, reader, lines, failing, run, resultVars>>

\* _finish_output_reader: join the reader, at most two seconds, consume what
\* is queued and close the pipe, which ends the reader if it still runs; then
\* the exit code decides. (_mark_missing_samples_as_error asks for a line "Wrote
\* 0 samples", which no recorder prints: without a sample it exits with 9.)
\* Mutant: the exit code of a write error passes for a clean end.
WriteErrorIsClean == {0, SIGTERM, 7}

CleanCodes == {0, SIGTERM}

FinishOutputReader ==
    /\ pc = "draining"
    /\ Consume(lines)
    /\ lines' = <<>>
    /\ reader' = FALSE
    /\ error' = (error \/ failing \/ code \notin CleanCodes)
    /\ pc' = IF failing THEN "startFailed" ELSE "stopped"
    /\ UNCHANGED <<processVars, failing, run>>

\* The session goes on only after a stop without an error.
NextRun ==
    /\ pc = "stopped"
    /\ ~error
    /\ MoreRuns
    /\ process' = "none"
    /\ pc' = "idle"
    /\ UNCHANGED <<code, pipe, reader, lines, failing, run, resultVars>>

Terminated ==
    /\ pc = "startFailed" \/ (pc = "stopped" /\ (error \/ ~MoreRuns))
    /\ UNCHANGED vars

Caller ==
    \/ Start \/ WaitForReadiness \/ NoticeEarlyExit \/ StartTimesOut \/ Stop \/ AwaitExit
    \/ Reap \/ FinishOutputReader \/ NextRun

Next == Caller \/ Process \/ KilledProcessDies \/ Reader \/ Terminated

Spec == Init /\ [][Next]_vars

\* The caller and the reader run and SIGKILL works; the recorder owes nothing.
FairSpec == Spec /\ WF_vars(Caller) /\ WF_vars(Reader) /\ WF_vars(KilledProcessDies)

----------------------------------------------------------------------------
Lines == Seq({"START", "WROTE"})

TypeOK ==
    /\ process \in {"none", "launching", "armed", "abandoned", "recording", "closing", "hung", "killed",
                   "exited"}
    /\ code \in (0..9) \cup {LoaderError, SIGINT, SIGABRT, SIGKILL, SIGTERM}
    /\ pipe \in Lines /\ lines \in Lines
    /\ pc \in {"idle", "waiting", "started", "stopping", "reaping", "draining", "startFailed",
               "stopped"}
    /\ reader \in BOOLEAN /\ failing \in BOOLEAN
    /\ startSeen \in BOOLEAN /\ samplesSeen \in BOOLEAN /\ error \in BOOLEAN
    /\ run \in 0..MaxRuns

\* No call leaves a recorder behind. A start that failed cleans up after
\* itself, because the session never stops a Gator whose start failed.
NoOrphan == pc \in {"idle", "startFailed", "stopped"} => ~Alive

\* A stop without an error means that the recorder closed its CSV by itself
\* (exit code 0, which GatorRecorder!ExitIsHonest gives its meaning) after the
\* readiness token: the -15 that stop() accepts as clean never comes from a
\* recorder that was ready, and no killed or failed recorder passes.
HonestStop == pc = "stopped" /\ ~error => code = 0 /\ startSeen

\* start() and stop() return, whatever the recorder does: hung in vendor code,
\* deadlocked, silent or gone.
CallsReturn ==
    pc \in {"waiting", "stopping", "reaping", "draining"} ~>
        pc \in {"started", "startFailed", "stopped"}

\* The adapter seen as AdapterContract sees it: a start that fails or a stop
\* that returns, whatever it reports, leaves no recorder process behind, because
\* the session keeps no debt of the Gator (gator.py 91-194, 295-317).
Phase ==
    CASE pc = "idle" -> "rest"
      [] pc = "waiting" -> "starting"
      [] pc \in {"stopping", "reaping", "draining"} -> IF failing THEN "starting" ELSE "stopping"
      [] pc = "stopped" -> IF error THEN "stopFailed" ELSE "stopped"
      [] OTHER -> pc
Calls == INSTANCE AdapterContract
    WITH Uncertain <- FALSE, phase <- Phase, recording <- Alive, owed <- FALSE
KeepsContract == Calls!Spec
=============================================================================

--------------------------- MODULE GatorRecorder ---------------------------
(***************************************************************************)
(* The native Linux recorder, gator_recorder/linux/main.cpp: the vendor     *)
(* callback thread (ChannelRecorder::onSample), the CSV writer thread       *)
(* (BufferedCsvWriter::writerLoop), main() and the signal handler.          *)
(*                                                                         *)
(* A step is one critical section, or the code between two. rMutex is       *)
(* ChannelRecorder::_mutex, held by the callback across append() and so     *)
(* across its wait; BufferedCsvWriter::_mutex is held within single steps.  *)
(* The two waits on condition variables are places a thread leaves only     *)
(* when it is notified: "parked" (_flushRequested) and "waitSpace"          *)
(* (_bufferAvailable). main() polls _done, so notifying it changes nothing. *)
(***************************************************************************)
EXTENDS Integers, Sequences

CONSTANTS
    Capacity,    \* kBufferCapacity
    MaxSamples,  \* bound on the samples the device delivers
    MaxFaults    \* bound on write errors of the output stream

ASSUME RecorderAssumption ==
    /\ Capacity \in Nat \ {0}
    /\ MaxSamples \in Nat
    /\ MaxFaults \in Nat

VARIABLES
    timed,          \* --duration-s > 0; the adapter always passes 0
    cb,             \* the callback thread, inside onSample unless "idle"
    writer,         \* the writer thread
    main,           \* main() from waitUntilFinished to _Exit
    rMutex,         \* owner of ChannelRecorder::_mutex
    activeBuffer, writeBuffer, local,   \* rows in memory, oldest first
    output,         \* rows the stream took without an error
    writePending, writerStop, writeFailed, streamBad,
    stopRequested,  \* g_stopRequested
    finished,       \* _finished
    sampleCount, failure,
    exitCode,       \* -1 until the process has exited
    arrived,        \* samples delivered so far: the number of the latest one
    accepted,       \* every row pushed into a buffer so far, in order
    faults          \* stream errors so far

threadVars == <<cb, writer, main, rMutex>>
bufferVars == <<activeBuffer, writeBuffer, local, output>>
flagVars   == <<writePending, writerStop, writeFailed, streamBad>>
recorderVars == <<stopRequested, finished, sampleCount, failure>>
envVars    == <<arrived, accepted, faults>>
vars == <<timed, cb, writer, main, rMutex, activeBuffer, writeBuffer, local, output,
          writePending, writerStop, writeFailed, streamBad,
          stopRequested, finished, sampleCount, failure, exitCode, arrived, accepted, faults>>

Running == exitCode = -1

----------------------------------------------------------------------------
\* main() has opened the file, started the writer and subscribed.
Init ==
    /\ timed \in BOOLEAN
    /\ cb = "idle"
    /\ writer = "check"
    /\ main = "wait"
    /\ rMutex = "none"
    /\ activeBuffer = <<>> /\ writeBuffer = <<>> /\ local = <<>> /\ output = <<>>
    /\ writePending = FALSE /\ writerStop = FALSE /\ writeFailed = FALSE /\ streamBad = FALSE
    /\ stopRequested = FALSE /\ finished = FALSE
    /\ sampleCount = 0
    /\ failure = FALSE
    /\ exitCode = -1
    /\ arrived = 0 /\ accepted = <<>> /\ faults = 0

----------------------------------------------------------------------------
\* Mutant: flushActiveBufferLocked forgets _flushRequested.notify_one().
NotifyWriterNever(w) == w
\* Mutant: flushActiveBufferLocked does not wait for the pending buffer.
BufferAvailableAlways == TRUE

\* What flushActiveBufferLocked waits for.
BufferAvailable == ~writePending

\* notify_one on each condition variable.
NotifyWriter(w) == IF w = "parked" THEN "check" ELSE w
NotifySpace ==
    /\ cb' = IF cb = "waitSpace" THEN "flush" ELSE cb
    /\ main' = IF main = "waitSpace" THEN "flush" ELSE main

\* flushActiveBufferLocked, once no write is pending.
SwapBuffers(rows) ==
    /\ activeBuffer' = writeBuffer
    /\ writeBuffer' = rows
    /\ writePending' = TRUE
    /\ writer' = NotifyWriter(writer)

----------------------------------------------------------------------------
\* The vendor thread delivers a sample: the flags are read without the mutex.
SampleArrives ==
    /\ Running
    /\ cb = "idle"
    /\ arrived < MaxSamples
    /\ arrived' = arrived + 1
    /\ \/ /\ finished \/ stopRequested
          /\ finished' = TRUE
          /\ UNCHANGED cb
       \/ /\ ~(finished \/ stopRequested)
          /\ cb' = "lock"
          /\ UNCHANGED finished
    /\ UNCHANGED <<timed, writer, main, rMutex, bufferVars, flagVars, stopRequested, sampleCount,
                   failure, exitCode, accepted, faults>>

\* Mutant: onSample does not look again under the mutex.
NotFinishedWhileLocking == FALSE

\* onSample re-reads _finished under the mutex. The first sample prints the
\* readiness token; a later one may end a timed capture.
FinishedWhileLocking == finished

CallbackLocks ==
    /\ Running
    /\ cb = "lock"
    /\ rMutex = "none"
    /\ \/ /\ FinishedWhileLocking
          /\ cb' = "idle"
          /\ UNCHANGED <<rMutex, finished>>
       \/ /\ ~FinishedWhileLocking /\ timed /\ accepted # <<>>
          /\ finished' = TRUE
          /\ cb' = "idle"
          /\ UNCHANGED rMutex
       \/ /\ ~FinishedWhileLocking
          /\ cb' = "append"
          /\ rMutex' = "callback"
          /\ UNCHANGED finished
    /\ UNCHANGED <<timed, writer, main, bufferVars, flagVars, stopRequested, sampleCount, failure,
                   exitCode, envVars>>

\* append() returned: the row is counted and the mutex released.
Counted ==
    /\ cb' = "idle"
    /\ rMutex' = "none"
    /\ sampleCount' = sampleCount + 1

CallbackAppends ==
    /\ Running
    /\ cb = "append"
    /\ LET rows == Append(activeBuffer, arrived)
       IN \/ /\ writeFailed
             /\ cb' = "fail"
             /\ rMutex' = "none"
             /\ UNCHANGED <<writer, activeBuffer, writeBuffer, writePending, sampleCount, accepted>>
          \/ /\ ~writeFailed
             /\ accepted' = Append(accepted, arrived)
             /\ \/ /\ Len(rows) < Capacity
                   /\ activeBuffer' = rows
                   /\ Counted
                   /\ UNCHANGED <<writer, writeBuffer, writePending>>
                \/ /\ Len(rows) >= Capacity /\ BufferAvailable
                   /\ SwapBuffers(rows)
                   /\ Counted
                \/ /\ Len(rows) >= Capacity /\ ~BufferAvailable
                   /\ activeBuffer' = rows
                   /\ cb' = "waitSpace"
                   /\ UNCHANGED <<writer, writeBuffer, writePending, rMutex, sampleCount>>
    /\ UNCHANGED <<timed, main, local, output, writerStop, writeFailed, streamBad, stopRequested,
                   finished, failure, exitCode, arrived, faults>>

\* Woken in flushActiveBufferLocked, the callback tests its predicate again.
CallbackFlushes ==
    /\ Running
    /\ cb = "flush"
    /\ \/ /\ BufferAvailable
          /\ SwapBuffers(activeBuffer)
          /\ Counted
       \/ /\ ~BufferAvailable
          /\ cb' = "waitSpace"
          /\ UNCHANGED <<writer, activeBuffer, writeBuffer, writePending, rMutex, sampleCount>>
    /\ UNCHANGED <<timed, main, local, output, writerStop, writeFailed, streamBad, stopRequested,
                   finished, failure, exitCode, envVars>>

\* fail(), reached when append() found the writer dead.
CallbackFails ==
    /\ Running
    /\ cb = "fail"
    /\ rMutex = "none"
    /\ failure' = TRUE
    /\ finished' = TRUE
    /\ stopRequested' = TRUE
    /\ cb' = "idle"
    /\ UNCHANGED <<timed, writer, main, rMutex, bufferVars, flagVars, sampleCount, exitCode, envVars>>

----------------------------------------------------------------------------
\* writerLoop, under the mutex: wait, stop, or take the pending buffer.
WriterChecks ==
    /\ Running
    /\ writer = "check"
    /\ \/ /\ writePending
          /\ local' = writeBuffer
          /\ writeBuffer' = <<>>
          /\ writePending' = FALSE
          /\ NotifySpace
          /\ writer' = "write"
       \/ /\ ~writePending
          /\ writer' = IF writerStop THEN "gone" ELSE "parked"
          /\ UNCHANGED <<local, writeBuffer, writePending, cb, main>>
    /\ UNCHANGED <<timed, rMutex, activeBuffer, output, writerStop, writeFailed, streamBad,
                   recorderVars, exitCode, envVars>>

\* Without the mutex: the rows go to the stream, or some of them do.
WriterWrites ==
    /\ Running
    /\ writer = "write"
    /\ \/ /\ output' = output \o local
          /\ local' = <<>>
          /\ writer' = "check"
          /\ UNCHANGED <<streamBad, faults>>
       \/ /\ faults < MaxFaults
          /\ faults' = faults + 1
          /\ streamBad' = TRUE
          /\ \E n \in 0..(Len(local) - 1) : output' = output \o SubSeq(local, 1, n)
          /\ writer' = "error"
          /\ UNCHANGED local
    /\ UNCHANGED <<timed, cb, main, rMutex, activeBuffer, writeBuffer, writePending, writerStop,
                   writeFailed, recorderVars, exitCode, arrived, accepted>>

\* The writer reports the error and leaves; a pending buffer stays pending.
WriterFails ==
    /\ Running
    /\ writer = "error"
    /\ writeFailed' = TRUE
    /\ writerStop' = TRUE
    /\ NotifySpace
    /\ writer' = "gone"
    /\ UNCHANGED <<timed, rMutex, bufferVars, writePending, streamBad, recorderVars, exitCode,
                   envVars>>

----------------------------------------------------------------------------
\* waitUntilFinished: both the 100 ms poll and the timed wait return only with
\* the mutex held.
\* Mutant: close() is entered while the callback may still be in append().
MainIgnoresMutex == TRUE

MainOwnsMutex == rMutex = "none"

MainReleased ==
    /\ Running
    /\ main = "wait"
    /\ MainOwnsMutex
    /\ finished \/ stopRequested \/ timed
    /\ finished' = TRUE
    /\ main' = "close"
    /\ UNCHANGED <<timed, cb, writer, rMutex, bufferVars, flagVars, stopRequested, sampleCount,
                   failure, exitCode, envVars>>

\* The end of close() before the join: what is left is handed to the writer.
CloseHandsOver ==
    /\ main' = "join"
    /\ writerStop' = TRUE

CloseNeedsFlush == activeBuffer # <<>>

MainCloses ==
    /\ Running
    /\ main \in {"close", "flush"}
    /\ \/ /\ ~CloseNeedsFlush
          /\ CloseHandsOver
          /\ writer' = NotifyWriter(writer)
          /\ UNCHANGED <<activeBuffer, writeBuffer, writePending>>
       \/ /\ CloseNeedsFlush /\ BufferAvailable
          /\ SwapBuffers(activeBuffer)
          /\ CloseHandsOver
       \/ /\ CloseNeedsFlush /\ ~BufferAvailable
          /\ main' = "waitSpace"
          /\ UNCHANGED <<writer, activeBuffer, writeBuffer, writePending, writerStop>>
    /\ UNCHANGED <<timed, cb, rMutex, local, output, writeFailed, streamBad, recorderVars, exitCode,
                   envVars>>

\* After the join the stream is flushed, which may be where it fails.
CloseError == writeFailed' \/ streamBad'

MainJoins ==
    /\ Running
    /\ main = "join"
    /\ writer = "gone"
    /\ \/ UNCHANGED <<streamBad, faults>>
       \/ faults < MaxFaults /\ faults' = faults + 1 /\ streamBad' = TRUE
    /\ writeFailed' = (writeFailed \/ streamBad')
    /\ exitCode' = IF CloseError THEN 7 ELSE exitCode
    /\ main' = IF CloseError THEN "exited" ELSE "report"
    /\ UNCHANGED <<timed, cb, writer, rMutex, bufferVars, writePending, writerStop, recorderVars,
                   arrived, accepted>>

\* Mutant: main() does not ask for the number of samples.
ExitStatusUncounted == IF failure THEN 8 ELSE 0

ExitStatus == IF failure THEN 8 ELSE IF sampleCount = 0 THEN 9 ELSE 0

MainReports ==
    /\ Running
    /\ main = "report"
    /\ rMutex = "none"
    /\ exitCode' = ExitStatus
    /\ main' = "exited"
    /\ UNCHANGED <<timed, cb, writer, rMutex, bufferVars, flagVars, recorderVars, envVars>>

----------------------------------------------------------------------------
\* SIGTERM or SIGINT.
Signal ==
    /\ Running
    /\ ~stopRequested
    /\ stopRequested' = TRUE
    /\ UNCHANGED <<timed, threadVars, bufferVars, flagVars, finished, sampleCount, failure, exitCode,
                   envVars>>

Exited == ~Running /\ UNCHANGED vars

CallbackStep == CallbackLocks \/ CallbackAppends \/ CallbackFlushes \/ CallbackFails
WriterStep == WriterChecks \/ WriterWrites \/ WriterFails
MainStep == MainReleased \/ MainCloses \/ MainJoins \/ MainReports

Next == SampleArrives \/ CallbackStep \/ WriterStep \/ MainStep \/ Signal \/ Exited

Spec == Init /\ [][Next]_vars

\* Runnable threads run. No sample and no signal is owed to anyone.
Fairness == WF_vars(CallbackStep) /\ WF_vars(WriterStep) /\ WF_vars(MainStep)
FairSpec == Spec /\ Fairness

----------------------------------------------------------------------------
Rows == Seq(1..MaxSamples)

TypeOK ==
    /\ timed \in BOOLEAN
    /\ cb \in {"idle", "lock", "append", "waitSpace", "flush", "fail"}
    /\ writer \in {"check", "parked", "write", "error", "gone"}
    /\ main \in {"wait", "close", "waitSpace", "flush", "join", "report", "exited"}
    /\ rMutex \in {"none", "callback"}
    /\ activeBuffer \in Rows /\ Len(activeBuffer) <= Capacity
    /\ writeBuffer \in Rows /\ local \in Rows /\ output \in Rows /\ accepted \in Rows
    /\ writePending \in BOOLEAN /\ writerStop \in BOOLEAN /\ writeFailed \in BOOLEAN
    /\ streamBad \in BOOLEAN /\ stopRequested \in BOOLEAN /\ finished \in BOOLEAN
    /\ failure \in BOOLEAN
    /\ sampleCount \in 0..MaxSamples
    /\ exitCode \in {-1, 0, 7, 8, 9}
    /\ arrived \in 0..MaxSamples
    /\ faults \in 0..MaxFaults

Prefix(s, t) == \E n \in 0..Len(t) : s = SubSeq(t, 1, n)

\* No row is lost, duplicated or reordered on its way through the two buffers
\* and the writer's local one, whatever the threads' interleaving; once the
\* stream has failed, what it took is still a gapless beginning of the record.
RowsConserved ==
    IF streamBad
    THEN Prefix(output, accepted)
    ELSE output \o local \o writeBuffer \o activeBuffer = accepted

\* The recorder exits with 0 exactly when every row it accepted, and the rows
\* it counted, and at least one row, went to the stream without an error: the
\* adapter trusts this code alone before it exports the CSV.
ExitIsHonest ==
    ~Running =>
        (exitCode = 0 <=> /\ output = accepted
                          /\ sampleCount = Len(output)
                          /\ sampleCount > 0
                          /\ ~streamBad)

\* The two condition variables are notified with notify_one: that is enough
\* because the callback and close() never wait for space at the same time.
SingleSpaceWaiter == ~(cb \in {"waitSpace", "flush"} /\ main \in {"waitSpace", "flush"})

\* Once main() has been released, a sample already inside onSample adds no row
\* any more: close() works on buffers nobody else touches.
NoRowAfterRelease == [][main # "wait" => accepted' = accepted]_vars

\* As long as the stream takes everything, a stop request ends the process,
\* with full buffers, a parked writer or a callback waiting for space.
StopExits == stopRequested ~> ~Running \/ streamBad

\* main.cpp:180-182: polling means that "SIGTERM always releases a
\* manual-duration recording".
SigtermReleases == (stopRequested /\ ~timed) ~> main # "wait"

\* The threads seen as the process that GatorAdapter supervises: a first sample
\* past its checks has printed the readiness token, one told to stop may still
\* print it, and the exit codes come only where the adapter expects them: 9 never
\* after the token, 0 never without it, none but 7 and 9 from a recorder that
\* was told to stop before its first sample (main.cpp 131-168, 394-411).
Announced == cb = "append" \/ accepted # <<>>
Ending == stopRequested \/ finished
SeenProcess ==
    CASE ~Running -> "exited"
      [] Running /\ Ending -> IF Announced THEN "closing" ELSE "abandoned"
      [] OTHER -> IF Announced THEN "recording" ELSE "armed"
SeenCode == IF Running THEN 0 ELSE exitCode
SeenPipe ==
    (IF Announced THEN <<"START">> ELSE <<>>) \o (IF exitCode = 0 THEN <<"WROTE">> ELSE <<>>)
Seen == INSTANCE RecorderProcess
    WITH process <- SeenProcess, code <- SeenCode, pipe <- SeenPipe
KeepsProcess == Seen!Runs
=============================================================================

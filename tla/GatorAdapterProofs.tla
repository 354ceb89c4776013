------------------------- MODULE GatorAdapterProofs -------------------------
(* What holds of GatorAdapter for every number of runs.                      *)
EXTENDS GatorAdapter, SequenceTheorems, TLAPS

----------------------------------------------------------------------------
(* The inductive invariant. *)

\* Where the caller has no recorder, or one that is gone.
ProcessMatchesPc ==
    /\ pc = "idle" => process = "none"
    /\ pc \in {"draining", "stopped"} => process = "exited"
    /\ pc = "startFailed" => process \in {"none", "exited"}
    /\ pc \in {"waiting", "started", "stopping", "reaping"} => process # "none"

\* The readiness token comes from a recorder that has installed its handler.
TokenMeansReady ==
    /\ process \in {"launching", "armed", "abandoned"} =>
         ~startSeen /\ lines = <<>> /\ pipe = <<>>
    /\ pc \in {"started", "stopped"} => startSeen /\ ~failing
    /\ pc = "waiting" => ~failing
    /\ pc \in {"stopping", "reaping", "draining"} => startSeen \/ failing

\* Exit code -15 belongs to a start that timed out.
TerminatedEarly ==
    code = SIGTERM => failing /\ pc \in {"stopping", "reaping", "draining", "startFailed"}

IInv ==
    /\ TypeOK
    /\ ProcessMatchesPc
    /\ TokenMeansReady
    /\ TerminatedEarly
    /\ HonestStop

----------------------------------------------------------------------------
(* Every action preserves the invariant. *)

USE DEF SIGINT, SIGABRT, SIGKILL, SIGTERM, LoaderError

LEMMA InitHolds == Init => IInv
  <1> SUFFICES ASSUME Init PROVE IInv
    OBVIOUS
  <1>1. pipe \in Lines /\ lines \in Lines
    BY EmptySeq DEF Init, Lines
  <1>2. TypeOK
    <2>1. run \in 0..MaxRuns /\ code \in 0..9
      BY GatorAssumption DEF Init
    <2>2. /\ process = "none" /\ pc = "idle"
          /\ reader \in BOOLEAN /\ failing \in BOOLEAN /\ error \in BOOLEAN
          /\ startSeen \in BOOLEAN /\ samplesSeen \in BOOLEAN
      BY DEF Init
    <2> QED
      BY <1>1, <2>1, <2>2 DEF TypeOK
  <1> QED
    BY <1>2 DEF Init, IInv, ProcessMatchesPc, TokenMeansReady, TerminatedEarly, HonestStop

\* What a signal does to the recorder.
LEMMA SignalledEffect ==
  ASSUME NEW signal, Signalled(signal)
  PROVE  \/ process = "launching" /\ process' = "exited" /\ code' = signal
         \/ process = "armed" /\ process' = "abandoned" /\ code' = code
         \/ process = "recording" /\ process' = "closing" /\ code' = code
         \/ process \notin {"launching", "armed", "recording"} /\ UNCHANGED <<process, code>>
  BY DEF Signalled, Exits

\* The recorder's lines are read in order and stay lines.
LEMMA LinesMove ==
  ASSUME NEW s \in Lines, s # <<>>, NEW t \in Lines
  PROVE  Tail(s) \in Lines /\ Append(t, Head(s)) \in Lines
  BY HeadTailProperties, AppendProperties DEF Lines

LEMMA LinePrinted ==
  ASSUME NEW s \in Lines, NEW line \in {"START", "WROTE"}
  PROVE  Append(s, line) \in Lines
  BY AppendProperties DEF Lines

LEMMA NoLines == <<>> \in Lines
  BY EmptySeq DEF Lines

LEMMA StartHolds == IInv /\ Start => IInv'
  <1> SUFFICES ASSUME IInv, Start PROVE IInv'
    OBVIOUS
  <1>1. TypeOK /\ ProcessMatchesPc /\ TokenMeansReady /\ TerminatedEarly /\ HonestStop
    BY DEF IInv
  <1>2. TypeOK'
    <2>1. run' \in 0..MaxRuns
      BY <1>1, GatorAssumption DEF TypeOK, Start, MoreRuns
    <2>2. /\ process' \in {"launching", process} /\ code' \in {0, code} /\ pipe' \in Lines
          /\ pc' \in {"waiting", "startFailed"} /\ lines' \in Lines
      BY <1>1, NoLines DEF TypeOK, Start, processVars
    <2>3. /\ reader' \in BOOLEAN /\ failing' \in BOOLEAN /\ error' \in BOOLEAN
          /\ startSeen' \in BOOLEAN /\ samplesSeen' \in BOOLEAN
      BY <1>1 DEF TypeOK, Start
    <2> QED
      BY <1>1, <2>1, <2>2, <2>3 DEF TypeOK
  <1>3. ProcessMatchesPc'
    BY <1>1 DEF ProcessMatchesPc, Start, MoreRuns, processVars
  <1>4. TokenMeansReady'
    BY <1>1 DEF ProcessMatchesPc, TokenMeansReady, Start, MoreRuns, processVars
  <1>5. TerminatedEarly' /\ HonestStop'
    BY <1>1 DEF ProcessMatchesPc, TokenMeansReady, TerminatedEarly, HonestStop, Start, MoreRuns, processVars
  <1> QED
    BY <1>2, <1>3, <1>4, <1>5 DEF IInv

LEMMA WaitForReadinessHolds == IInv /\ WaitForReadiness => IInv'
  <1> SUFFICES ASSUME IInv, WaitForReadiness PROVE IInv'
    OBVIOUS
  <1>1. TypeOK /\ ProcessMatchesPc /\ TokenMeansReady /\ TerminatedEarly /\ HonestStop
    BY DEF IInv
  <1>2. TypeOK'
    <2>1. startSeen' \in BOOLEAN /\ samplesSeen' \in BOOLEAN
      BY Zenon DEF WaitForReadiness, Consume
    <2>2. lines' \in Lines
      BY <1>1, LinesMove DEF TypeOK, WaitForReadiness
    <2>3. pc' \in {"started", "waiting"}
      BY DEF WaitForReadiness
    <2> QED
      BY <1>1, <2>1, <2>2, <2>3 DEF TypeOK, WaitForReadiness, processVars
  <1>3. ProcessMatchesPc'
    BY <1>1 DEF ProcessMatchesPc, WaitForReadiness, processVars
  <1>4. TokenMeansReady'
    BY <1>1 DEF ProcessMatchesPc, TokenMeansReady, WaitForReadiness, processVars
  <1>5. TerminatedEarly' /\ HonestStop'
    BY <1>1 DEF ProcessMatchesPc, TokenMeansReady, TerminatedEarly, HonestStop, WaitForReadiness, processVars
  <1> QED
    BY <1>2, <1>3, <1>4, <1>5 DEF IInv

LEMMA NoticeEarlyExitHolds == IInv /\ NoticeEarlyExit => IInv'
  <1> SUFFICES ASSUME IInv, NoticeEarlyExit PROVE IInv'
    OBVIOUS
  <1>1. TypeOK /\ ProcessMatchesPc /\ TokenMeansReady /\ TerminatedEarly /\ HonestStop
    BY DEF IInv
  <1>2. TypeOK'
    BY <1>1, GatorAssumption DEF TypeOK, Lines, NoticeEarlyExit, processVars, resultVars
  <1>3. ProcessMatchesPc'
    BY <1>1 DEF ProcessMatchesPc, NoticeEarlyExit, processVars, resultVars
  <1>4. TokenMeansReady'
    BY <1>1 DEF ProcessMatchesPc, TokenMeansReady, NoticeEarlyExit, processVars, resultVars
  <1>5. TerminatedEarly' /\ HonestStop'
    BY <1>1 DEF ProcessMatchesPc, TokenMeansReady, TerminatedEarly, HonestStop, NoticeEarlyExit, processVars, resultVars
  <1> QED
    BY <1>2, <1>3, <1>4, <1>5 DEF IInv

LEMMA StartTimesOutHolds == IInv /\ StartTimesOut => IInv'
  <1> SUFFICES ASSUME IInv, StartTimesOut PROVE IInv'
    OBVIOUS
  <1>1. TypeOK /\ ProcessMatchesPc /\ TokenMeansReady /\ TerminatedEarly /\ HonestStop
    BY DEF IInv
  <1>2. TypeOK'
    BY <1>1, SignalledEffect DEF TypeOK, StartTimesOut, resultVars
  <1>3. ProcessMatchesPc'
    BY <1>1, SignalledEffect DEF ProcessMatchesPc, StartTimesOut
  <1>4. TokenMeansReady'
    BY <1>1, SignalledEffect DEF ProcessMatchesPc, TokenMeansReady, StartTimesOut, resultVars
  <1>5. TerminatedEarly' /\ HonestStop'
    BY <1>1, SignalledEffect DEF ProcessMatchesPc, TokenMeansReady, TerminatedEarly, HonestStop, StartTimesOut
  <1> QED
    BY <1>2, <1>3, <1>4, <1>5 DEF IInv

LEMMA StopHolds == IInv /\ Stop => IInv'
  <1> SUFFICES ASSUME IInv, Stop PROVE IInv'
    OBVIOUS
  <1>1. TypeOK /\ ProcessMatchesPc /\ TokenMeansReady /\ TerminatedEarly /\ HonestStop
    BY DEF IInv
  <1>2. TypeOK'
    BY <1>1, SignalledEffect DEF TypeOK, Stop, resultVars
  <1>3. ProcessMatchesPc'
    BY <1>1, SignalledEffect DEF ProcessMatchesPc, Stop
  <1>4. TokenMeansReady'
    BY <1>1, SignalledEffect DEF ProcessMatchesPc, TokenMeansReady, Stop, resultVars
  <1>5. TerminatedEarly' /\ HonestStop'
    BY <1>1, SignalledEffect DEF ProcessMatchesPc, TokenMeansReady, TerminatedEarly, HonestStop, Stop
  <1> QED
    BY <1>2, <1>3, <1>4, <1>5 DEF IInv

LEMMA AwaitExitHolds == IInv /\ AwaitExit => IInv'
  <1> SUFFICES ASSUME IInv, AwaitExit PROVE IInv'
    OBVIOUS
  <1>1. TypeOK /\ ProcessMatchesPc /\ TokenMeansReady /\ TerminatedEarly /\ HonestStop
    BY DEF IInv
  <1>2. TypeOK'
    <2>1. error' \in BOOLEAN
      <3>1. CASE error' = error
        BY <1>1, <3>1 DEF TypeOK
      <3>2. CASE error' = (error \/ ~failing)
        BY <3>2, Zenon
      <3> QED
        BY <3>1, <3>2 DEF AwaitExit
    <2>2. process' \in {process, "killed"} /\ code' = code /\ pc' \in {"draining", "reaping"}
      BY DEF AwaitExit, Kill
    <2> QED
      BY <1>1, <2>1, <2>2 DEF TypeOK, AwaitExit
  <1>3. ProcessMatchesPc'
    BY <1>1 DEF ProcessMatchesPc, AwaitExit, Kill, Alive
  <1>4. TokenMeansReady'
    BY <1>1 DEF ProcessMatchesPc, TokenMeansReady, AwaitExit, Kill, Alive
  <1>5. TerminatedEarly' /\ HonestStop'
    BY <1>1 DEF ProcessMatchesPc, TokenMeansReady, TerminatedEarly, HonestStop, AwaitExit, Kill, Alive
  <1> QED
    BY <1>2, <1>3, <1>4, <1>5 DEF IInv

LEMMA ReapHolds == IInv /\ Reap => IInv'
  <1> SUFFICES ASSUME IInv, Reap PROVE IInv'
    OBVIOUS
  <1>1. TypeOK /\ ProcessMatchesPc /\ TokenMeansReady /\ TerminatedEarly /\ HonestStop
    BY DEF IInv
  <1>2. TypeOK'
    BY <1>1, GatorAssumption DEF TypeOK, Lines, Reap, Reaped, processVars, resultVars
  <1>3. ProcessMatchesPc'
    BY <1>1 DEF ProcessMatchesPc, Reap, Reaped, processVars, resultVars
  <1>4. TokenMeansReady'
    BY <1>1 DEF ProcessMatchesPc, TokenMeansReady, Reap, Reaped, processVars, resultVars
  <1>5. TerminatedEarly' /\ HonestStop'
    BY <1>1 DEF ProcessMatchesPc, TokenMeansReady, TerminatedEarly, HonestStop, Reap, Reaped, processVars, resultVars
  <1> QED
    BY <1>2, <1>3, <1>4, <1>5 DEF IInv

LEMMA FinishOutputReaderHolds == IInv /\ FinishOutputReader => IInv'
  <1> SUFFICES ASSUME IInv, FinishOutputReader PROVE IInv'
    OBVIOUS
  <1>1. TypeOK /\ ProcessMatchesPc /\ TokenMeansReady /\ TerminatedEarly /\ HonestStop
    BY DEF IInv
  <1>2. TypeOK'
    <2>1. startSeen' \in BOOLEAN /\ samplesSeen' \in BOOLEAN /\ error' \in BOOLEAN
      BY Zenon DEF FinishOutputReader, Consume
    <2>2. lines' \in Lines /\ reader' \in BOOLEAN /\ pc' \in {"startFailed", "stopped"}
      BY NoLines DEF FinishOutputReader
    <2> QED
      BY <1>1, <2>1, <2>2 DEF TypeOK, FinishOutputReader, processVars
  <1>3. ProcessMatchesPc'
    BY <1>1 DEF ProcessMatchesPc, FinishOutputReader, processVars, CleanCodes
  <1>4. TokenMeansReady'
    <2>1. startSeen => startSeen'
      BY DEF FinishOutputReader, Consume
    <2> QED
      BY <1>1, <2>1 DEF ProcessMatchesPc, TokenMeansReady, FinishOutputReader, processVars
  <1>5. TerminatedEarly' /\ HonestStop'
    <2>1. startSeen => startSeen'
      BY DEF FinishOutputReader, Consume
    <2>2. ~error' => ~failing /\ code \in {0, -15}
      BY DEF FinishOutputReader, CleanCodes
    <2> QED
      BY <1>1, <2>1, <2>2 DEF TokenMeansReady, TerminatedEarly, HonestStop, FinishOutputReader,
                              processVars
  <1> QED
    BY <1>2, <1>3, <1>4, <1>5 DEF IInv

LEMMA NextRunHolds == IInv /\ NextRun => IInv'
  <1> SUFFICES ASSUME IInv, NextRun PROVE IInv'
    OBVIOUS
  <1>1. TypeOK /\ ProcessMatchesPc /\ TokenMeansReady /\ TerminatedEarly /\ HonestStop
    BY DEF IInv
  <1>2. TypeOK'
    BY <1>1, GatorAssumption DEF TypeOK, Lines, NextRun, resultVars
  <1>3. ProcessMatchesPc'
    BY <1>1 DEF ProcessMatchesPc, NextRun, resultVars
  <1>4. TokenMeansReady'
    BY <1>1 DEF ProcessMatchesPc, TokenMeansReady, NextRun, resultVars
  <1>5. TerminatedEarly' /\ HonestStop'
    BY <1>1 DEF ProcessMatchesPc, TokenMeansReady, TerminatedEarly, HonestStop, NextRun, resultVars
  <1> QED
    BY <1>2, <1>3, <1>4, <1>5 DEF IInv

LEMMA ReaderHolds == IInv /\ Reader => IInv'
  <1> SUFFICES ASSUME IInv, Reader PROVE IInv'
    OBVIOUS
  <1>1. TypeOK /\ ProcessMatchesPc /\ TokenMeansReady /\ TerminatedEarly /\ HonestStop
    BY DEF IInv
  <1>2. TypeOK'
    <2>1. CASE pipe # <<>> /\ lines' = Append(lines, Head(pipe)) /\ pipe' = Tail(pipe)
               /\ reader' = reader
      <3>1. lines' \in Lines /\ pipe' \in Lines
        BY <1>1, <2>1, LinesMove DEF TypeOK
      <3> QED
        BY <1>1, <2>1, <3>1 DEF TypeOK, Reader, resultVars
    <2>2. CASE reader' = FALSE /\ UNCHANGED <<lines, pipe>>
      <3>1. reader' \in BOOLEAN /\ lines' \in Lines /\ pipe' \in Lines
        BY <1>1, <2>2 DEF TypeOK
      <3>2. UNCHANGED <<process, code, pc, failing, run, startSeen, samplesSeen, error>>
        BY DEF Reader, resultVars
      <3> QED
        BY <1>1, <3>1, <3>2 DEF TypeOK
    <2> QED
      BY <2>1, <2>2 DEF Reader
  <1>3. ProcessMatchesPc'
    BY <1>1 DEF ProcessMatchesPc, Reader, Alive, resultVars
  <1>4. TokenMeansReady'
    BY <1>1 DEF ProcessMatchesPc, TokenMeansReady, Reader, Alive, resultVars
  <1>5. TerminatedEarly' /\ HonestStop'
    BY <1>1 DEF ProcessMatchesPc, TokenMeansReady, TerminatedEarly, HonestStop, Reader, Alive, resultVars
  <1> QED
    BY <1>2, <1>3, <1>4, <1>5 DEF IInv

LEMMA KilledProcessDiesHolds == IInv /\ KilledProcessDies => IInv'
  <1> SUFFICES ASSUME IInv, KilledProcessDies PROVE IInv'
    OBVIOUS
  <1>1. TypeOK /\ ProcessMatchesPc /\ TokenMeansReady /\ TerminatedEarly /\ HonestStop
    BY DEF IInv
  <1>2. TypeOK'
    BY <1>1, GatorAssumption DEF TypeOK, Lines, KilledProcessDies, ProcessDies, Exits, resultVars
  <1>3. ProcessMatchesPc'
    BY <1>1 DEF ProcessMatchesPc, KilledProcessDies, ProcessDies, Exits, resultVars
  <1>4. TokenMeansReady'
    BY <1>1 DEF ProcessMatchesPc, TokenMeansReady, KilledProcessDies, ProcessDies, Exits, resultVars
  <1>5. TerminatedEarly' /\ HonestStop'
    BY <1>1 DEF ProcessMatchesPc, TokenMeansReady, TerminatedEarly, HonestStop, KilledProcessDies, ProcessDies, Exits, resultVars
  <1> QED
    BY <1>2, <1>3, <1>4, <1>5 DEF IInv

LEMMA ProcessHolds == IInv /\ Process => IInv'
  <1> SUFFICES ASSUME IInv, Process PROVE IInv'
    OBVIOUS
  <1>1. TypeOK /\ ProcessMatchesPc /\ TokenMeansReady /\ TerminatedEarly /\ HonestStop
    BY DEF IInv
  <1>2. UNCHANGED <<reader, lines, pc, failing, run, startSeen, samplesSeen, error>>
    BY DEF Process, resultVars
  <1>3. /\ process' \in {"armed", "abandoned", "recording", "hung", "closing", "exited", process}
        /\ code' \in (0..9) \cup {LoaderError, SIGINT, SIGABRT, code}
        /\ process' # process =>
             process \in {"launching", "armed", "abandoned", "recording", "closing"}
        /\ code' # code => process' = "exited"
        /\ process' \in {"armed", "abandoned"} => process \in {"launching", "armed", "abandoned"}
        /\ process' = "launching" => process = "launching"
        /\ process = "exited" => UNCHANGED <<process, code>>
    BY SignalledEffect
    DEF Process, ProcessNext, ProcessArms, ProcessGivesUp, ProcessRecords, ProcessHangs,
        ProcessCloses, ProcessFails, TerminalInterrupts, Exits
  <1>4. pipe' \in Lines /\ (pipe' = pipe \/ process' \in {"recording", "closing", "exited"})
    <2>1. pipe' \in {pipe, Append(pipe, "START"), Append(pipe, "WROTE")}
      BY DEF Process, ProcessNext, ProcessArms, ProcessGivesUp, ProcessRecords, ProcessHangs,
             ProcessCloses, ProcessFails, TerminalInterrupts
    <2>2. pipe' = pipe \/ process' \in {"recording", "closing", "exited"}
      BY DEF Process, ProcessNext, ProcessArms, ProcessGivesUp, ProcessRecords, ProcessHangs,
             ProcessCloses, ProcessFails, TerminalInterrupts, Exits
    <2> QED
      BY <1>1, <2>1, <2>2, LinePrinted DEF TypeOK
  <1>5. TypeOK'
    BY <1>1, <1>2, <1>3, <1>4 DEF TypeOK
  <1>6. ProcessMatchesPc' /\ TokenMeansReady'
    BY <1>1, <1>2, <1>3, <1>4 DEF ProcessMatchesPc, TokenMeansReady
  <1>7. TerminatedEarly' /\ HonestStop'
    BY <1>1, <1>2, <1>3 DEF ProcessMatchesPc, TerminatedEarly, HonestStop
  <1> QED
    BY <1>5, <1>6, <1>7 DEF IInv

LEMMA StutterHolds == IInv /\ UNCHANGED vars => IInv'
  <1> SUFFICES ASSUME IInv, UNCHANGED vars PROVE IInv'
    OBVIOUS
  <1>1. TypeOK /\ ProcessMatchesPc /\ TokenMeansReady /\ TerminatedEarly /\ HonestStop
    BY DEF IInv
  <1>2. TypeOK' /\ ProcessMatchesPc' /\ TokenMeansReady' /\ TerminatedEarly' /\ HonestStop'
    BY <1>1 DEF vars, TypeOK, ProcessMatchesPc, TokenMeansReady, TerminatedEarly, HonestStop
  <1> QED
    BY <1>2 DEF IInv

LEMMA NextHolds == IInv /\ [Next]_vars => IInv'
  BY StartHolds, WaitForReadinessHolds, NoticeEarlyExitHolds, StartTimesOutHolds, StopHolds,
     AwaitExitHolds, ReapHolds, FinishOutputReaderHolds, NextRunHolds, ReaderHolds,
     KilledProcessDiesHolds, ProcessHolds, StutterHolds
  DEF Next, Caller, Terminated

LEMMA InvariantHolds == Spec => []IInv
  BY InitHolds, NextHolds, PTL DEF Spec

----------------------------------------------------------------------------
(* The theorems. *)

\* Type correctness: the recorder, its exit code and the lines it printed stay
\* within what the adapter handles.
THEOREM TypeCorrect == Spec => []TypeOK
  <1>1. IInv => TypeOK
    BY DEF IInv
  <1> QED
    BY <1>1, InvariantHolds, PTL

\* gator.py:72-164 and 166-194: every start that failed and every stop has
\* reaped its recorder, so no run begins beside the recorder of another one.
THEOREM NoOrphanLeft == Spec => []NoOrphan
  <1>1. IInv => NoOrphan
    BY DEF IInv, ProcessMatchesPc, NoOrphan, Alive
  <1> QED
    BY <1>1, InvariantHolds, PTL

\* gator.py:186: a stop without an error comes from a recorder that closed its
\* CSV by itself after the readiness token, although -15 passes for clean.
THEOREM StopIsHonest == Spec => []HonestStop
  <1>1. IInv => HonestStop
    BY DEF IInv
  <1> QED
    BY <1>1, InvariantHolds, PTL

----------------------------------------------------------------------------
(* The refinement of AdapterContract. *)

\* gator.py:91-194 and 295-317 implement AdapterContract, with nothing owed: a start that
\* fails and a stop, good or bad, leave no recorder process, which is why the
\* session never stops a Gator whose start failed.
THEOREM ContractKept == Spec => KeepsContract
  <1>1. Init => Calls!Init
    BY DEF Init, Calls!Init, Phase, Alive
  <1>2. IInv /\ [Next]_vars => [Calls!Next]_(Calls!vars)
    <2> SUFFICES ASSUME IInv, [Next]_vars PROVE Calls!Next \/ UNCHANGED <<Phase, Alive>>
      BY DEF Calls!vars
    <2>1. TypeOK /\ ProcessMatchesPc /\ TokenMeansReady
      BY DEF IInv
    <2>2. CASE Start
      <3>1. Phase = "rest" /\ ~Alive
        BY <2>1, <2>2 DEF Start, ProcessMatchesPc, Phase, Alive
      <3>2. \/ Phase' = "starting"
            \/ Phase' = "startFailed" /\ ~Alive'
        BY <3>1, <2>2 DEF Start, Phase, Alive, processVars
      <3>3. Alive' \in BOOLEAN
        BY DEF Alive
      <3> QED
        BY <3>1, <3>2, <3>3 DEF Calls!Next, Calls!Start
    <2>3. CASE WaitForReadiness
      <3>1. Phase = "starting" /\ Alive' \in BOOLEAN /\ Alive' = Alive
        BY <2>3 DEF WaitForReadiness, Phase, Alive, processVars
      <3>2. Phase' \in {"starting", "started"}
        BY <2>3 DEF WaitForReadiness, Phase
      <3> QED
        BY <3>1, <3>2 DEF Calls!Next, Calls!StartReturns, Calls!StartSucceeds
    <2>4. CASE NoticeEarlyExit
      BY <2>4 DEF NoticeEarlyExit, Phase, Alive, processVars
    <2>5. CASE StartTimesOut
      <3>1. Phase = "starting" /\ Phase' = "starting"
        BY <2>5 DEF StartTimesOut, Phase
      <3>2. Alive' = Alive \/ (Alive /\ ~Alive')
        BY <2>5, SignalledEffect DEF StartTimesOut, Alive
      <3> QED
        BY <3>1, <3>2 DEF Calls!Next, Calls!RecorderEnds
    <2>6. CASE Stop
      <3>1. Phase = "started" /\ Phase' = "stopping"
        BY <2>1, <2>6 DEF Stop, Phase, TokenMeansReady
      <3>2. process # "launching"
        BY <2>1, <2>6 DEF Stop, TokenMeansReady
      <3>3. Alive' = Alive
        BY <2>6, <3>2, SignalledEffect DEF Stop, Alive
      <3> QED
        BY <3>1, <3>3 DEF Calls!Next, Calls!Stop
    <2>7. CASE AwaitExit \/ Reap
      <3>1. Phase' = Phase
        BY <2>7 DEF AwaitExit, Reap, Phase
      <3>2. Alive' = Alive
        BY <2>7 DEF AwaitExit, Reap, Kill, Alive, processVars
      <3> QED
        BY <3>1, <3>2
    <2>8. CASE FinishOutputReader
      <3>1. Alive = FALSE /\ Alive' = FALSE
        BY <2>1, <2>8 DEF FinishOutputReader, ProcessMatchesPc, Alive, processVars
      <3>2. CASE failing
        <4>1. Phase = "starting" /\ Phase' = "startFailed"
          BY <2>8, <3>2 DEF FinishOutputReader, Phase
        <4> QED
          BY <3>1, <4>1 DEF Calls!Next, Calls!StartReturns, Calls!StartFails
      <3>3. CASE ~failing
        <4>1. Phase = "stopping" /\ Phase' \in {"stopped", "stopFailed"}
          BY <2>8, <3>3 DEF FinishOutputReader, Phase
        <4> QED
          BY <3>1, <4>1 DEF Calls!Next, Calls!StopReturns, Calls!StopSucceeds, Calls!StopFails
      <3> QED
        BY <3>2, <3>3
    <2>9. CASE NextRun
      <3>1. Phase = "stopped" /\ Phase' = "rest"
        BY <2>9 DEF NextRun, Phase
      <3>2. Alive = FALSE /\ Alive' = FALSE
        BY <2>1, <2>9 DEF NextRun, ProcessMatchesPc, Alive
      <3> QED
        BY <3>1, <3>2 DEF Calls!Next, Calls!Settle
    <2>10. CASE Process \/ KilledProcessDies
      <3>1. Phase' = Phase
        BY <2>10 DEF Process, KilledProcessDies, resultVars, Phase
      <3>2. Alive' = Alive \/ (Alive /\ ~Alive')
        BY <2>1, <2>10, SignalledEffect
        DEF Process, ProcessNext, ProcessArms, ProcessGivesUp, ProcessRecords, ProcessHangs,
            ProcessCloses, ProcessFails, TerminalInterrupts, KilledProcessDies, ProcessDies, Exits, Alive
      <3> QED
        BY <3>1, <3>2 DEF Calls!Next, Calls!RecorderEnds
    <2>11. CASE Reader \/ UNCHANGED vars
      BY <2>11 DEF Reader, resultVars, vars, Phase, Alive
    <2> QED
      BY <2>2, <2>3, <2>4, <2>5, <2>6, <2>7, <2>8, <2>9, <2>10, <2>11
      DEF Next, Caller, Terminated
  <1> QED
    BY <1>1, <1>2, InvariantHolds, PTL DEF Spec, KeepsContract, Calls!Spec

=============================================================================

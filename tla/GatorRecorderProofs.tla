------------------------ MODULE GatorRecorderProofs -------------------------
(* What holds of GatorRecorder for every buffer capacity, number of samples  *)
(* and number of stream errors.                                             *)
EXTENDS GatorRecorder, SequenceTheorems, TLAPS

----------------------------------------------------------------------------
(* The inductive invariant. *)

InAppend == cb \in {"append", "waitSpace", "flush"}
InSpaceWait == cb \in {"waitSpace", "flush"}

\* ChannelRecorder::_mutex: its owner is inside append(); main() gets past
\* waitUntilFinished only with it, and after _finished no sample is appended.
Locking ==
    /\ rMutex = "callback" <=> InAppend
    /\ main # "wait" => finished /\ rMutex = "none"

\* How full the buffers are, and how many samples were counted.
Counting ==
    /\ Len(activeBuffer) <= Capacity
    /\ ~InSpaceWait => Len(activeBuffer) < Capacity
    /\ sampleCount + (IF InSpaceWait THEN 1 ELSE 0) = Len(accepted)
    /\ Len(accepted) + (IF cb \in {"lock", "append"} THEN 1 ELSE 0) <= arrived
    /\ cb # "idle" => arrived > 0

\* Where the rows of each buffer are in the writer's cycle.
WriterState ==
    /\ writer \in {"check", "parked", "gone"} /\ ~writeFailed => local = <<>>
    /\ ~writePending => writeBuffer = <<>>
    /\ writer # "gone" => ~writeFailed
    /\ writer = "gone" /\ ~writeFailed => writerStop /\ ~writePending
    /\ streamBad <=> writer = "error" \/ writeFailed
    /\ failure \/ cb = "fail" => writeFailed

\* close() hands everything over before it joins the writer, and main() goes
\* on only after a join that found no error.
Closing ==
    /\ writerStop => writeFailed \/ main \in {"join", "report", "exited"}
    /\ main \in {"join", "report", "exited"} => activeBuffer = <<>> /\ writerStop
    /\ main = "report" => writer = "gone" /\ ~writeFailed
    /\ main = "exited" <=> exitCode # -1
    /\ exitCode = 7 => writeFailed
    /\ exitCode \in {0, 8, 9} => writer = "gone" /\ ~writeFailed
    /\ exitCode = 0 => ~failure /\ sampleCount > 0
    /\ exitCode = 8 => failure
    /\ exitCode = 9 => sampleCount = 0

IInv ==
    /\ TypeOK
    /\ Locking
    /\ Counting
    /\ WriterState
    /\ Closing
    /\ RowsConserved

----------------------------------------------------------------------------
(* Rows in sequence. *)

LEMMA ConcatAppend ==
  ASSUME NEW S, NEW s \in Seq(S), NEW t \in Seq(S), NEW x \in S
  PROVE  s \o Append(t, x) = Append(s \o t, x)
  <1>1. s \o t \in Seq(S) /\ <<x>> \in Seq(S)
    BY ConcatProperties
  <1>2. Append(t, x) = t \o <<x>> /\ Append(s \o t, x) = (s \o t) \o <<x>>
    BY <1>1, AppendIsConcat
  <1> QED
    BY <1>1, <1>2, ConcatAssociative

LEMMA PrefixOfConcat ==
  ASSUME NEW S, NEW s \in Seq(S), NEW t \in Seq(S)
  PROVE  Prefix(s, s \o t)
  <1>1. /\ s \o t \in Seq(S)
        /\ Len(s \o t) = Len(s) + Len(t)
        /\ Len(s) \in 0..Len(s \o t)
    BY ConcatProperties, LenProperties
  <1>2. SubSeq(s \o t, 1, Len(s)) = s
    <2>1. CASE s = <<>>
      BY <2>1, <1>1, SubSeqEmpty
    <2>2. CASE s # <<>>
      <3>1. Len(s) \in 1..Len(s)
        BY <2>2, EmptySeq, LenProperties
      <3>2. SubSeq(s \o t, 1, Len(s)) = SubSeq(s, 1, Len(s))
        BY <3>1, SubSeqOfConcat1
      <3> QED
        BY <3>2, SubSeqFull
    <2> QED
      BY <2>1, <2>2
  <1> QED
    BY <1>1, <1>2 DEF Prefix

LEMMA PrefixOfAppend ==
  ASSUME NEW S, NEW s, NEW t \in Seq(S), NEW x \in S, Prefix(s, t)
  PROVE  Prefix(s, Append(t, x))
  <1>1. PICK n \in 0..Len(t) : s = SubSeq(t, 1, n)
    BY DEF Prefix
  <1>2. Append(t, x) = t \o <<x>> /\ <<x>> \in Seq(S) /\ Len(Append(t, x)) = Len(t) + 1
    BY AppendIsConcat, AppendProperties
  <1>3. SubSeq(Append(t, x), 1, n) = SubSeq(t, 1, n)
    <2>1. CASE n = 0
      BY <2>1, SubSeqEmpty
    <2>2. CASE n # 0
      <3>1. n \in 1..Len(t) /\ 1 \in 1..Len(t)
        BY <2>2, LenProperties
      <3> QED
        BY <1>2, <3>1, SubSeqOfConcat1
    <2> QED
      BY <2>1, <2>2
  <1>4. n \in 0..Len(Append(t, x))
    BY <1>2, LenProperties
  <1> QED
    BY <1>1, <1>3, <1>4 DEF Prefix

LEMMA ConcatInTheMiddle ==
  ASSUME NEW S, NEW s \in Seq(S), NEW a \in Seq(S), NEW b \in Seq(S), NEW u \in Seq(S)
  PROVE  (s \o (a \o b)) \o u = (s \o a) \o (b \o u)
  <1>1. PICK p \in Seq(S) : p = s \o a
    BY ConcatProperties
  <1>2. p \o b = s \o (a \o b)
    BY <1>1, ConcatAssociative
  <1>3. (p \o b) \o u = p \o (b \o u)
    BY ConcatAssociative
  <1> QED
    BY <1>1, <1>2, <1>3

\* A stream that fails part way through a buffer has taken a beginning.
LEMMA PrefixOfPartialWrite ==
  ASSUME NEW S, NEW s \in Seq(S), NEW t \in Seq(S), NEW u \in Seq(S), NEW n \in 0..Len(t)
  PROVE  /\ s \o SubSeq(t, 1, n) \in Seq(S)
         /\ Prefix(s \o SubSeq(t, 1, n), (s \o t) \o u)
  <1>1. /\ Len(t) \in Nat /\ 1 \in 1..(Len(t) + 1)
        /\ n \in (1 - 1)..Len(t) /\ Len(t) \in n..Len(t)
    BY LenProperties
  <1>2. \A i \in 1..Len(t) : t[i] \in S
    BY ElementOfSeq
  <1>3. SubSeq(t, 1, n) \in Seq(S) /\ SubSeq(t, n + 1, Len(t)) \in Seq(S)
    <2>1. \A i \in 1..n : t[i] \in S
      BY <1>1, <1>2
    <2>2. \A i \in (n + 1)..Len(t) : t[i] \in S
      BY <1>1, <1>2
    <2>3. n \in Int /\ n + 1 \in Int /\ Len(t) \in Int /\ 1 \in Int
      BY <1>1
    <2> QED
      BY <2>1, <2>2, <2>3, SubSeqProperties
  <1>4. SubSeq(t, 1, n) \o SubSeq(t, n + 1, Len(t)) = t
    <2>1. SubSeq(t, 1, n) \o SubSeq(t, n + 1, Len(t)) = SubSeq(t, 1, Len(t))
      BY <1>1, ConcatAdjacentSubSeq, Zenon
    <2> QED
      BY <2>1, SubSeqFull
  <1>5. PICK a \in Seq(S), b \in Seq(S) : a = SubSeq(t, 1, n) /\ a \o b = t
    BY <1>3, <1>4
  <1>6. s \o a \in Seq(S) /\ b \o u \in Seq(S)
    BY ConcatProperties
  <1>7. (s \o (a \o b)) \o u = (s \o a) \o (b \o u)
    BY ConcatInTheMiddle, SMTT(60)
  <1>8. Prefix(s \o a, (s \o a) \o (b \o u))
    BY <1>6, PrefixOfConcat
  <1> QED
    BY <1>5, <1>6, <1>7, <1>8

----------------------------------------------------------------------------
(* Types. *)

LEMMA InitInv == Init => IInv
  <1> SUFFICES ASSUME Init PROVE IInv
    OBVIOUS
  <1>1. <<>> \in Rows /\ Len(<<>>) = 0
    BY DEF Rows
  <1>2. <<>> \o <<>> \o <<>> \o <<>> = <<>>
    BY <1>1, ConcatEmptySeq DEF Rows
  <1>3. TypeOK
    <2>1. 0 \in 0..MaxSamples /\ 0 \in 0..MaxFaults /\ 0 <= Capacity
      BY RecorderAssumption
    <2> QED
      BY <1>1, <2>1 DEF Init, TypeOK
  <1>4. RowsConserved
    BY <1>2 DEF Init, RowsConserved
  <1>5. Counting
    BY <1>1, RecorderAssumption DEF Init, Counting, InSpaceWait
  <1> QED
    BY <1>3, <1>4, <1>5 DEF Init, IInv, Locking, InAppend, WriterState, Closing

LEMMA SampleArrivesInv ==
  ASSUME IInv, SampleArrives
  PROVE  IInv'
  <1>1. TypeOK /\ Locking /\ Counting /\ WriterState /\ Closing /\ RowsConserved
    BY DEF IInv
  <1>2. TypeOK'
    <2>1. arrived' \in 0..MaxSamples
      BY <1>1, RecorderAssumption DEF SampleArrives, TypeOK
    <2>2. cb' \in {"idle", "lock"} /\ finished' \in BOOLEAN
      BY <1>1 DEF SampleArrives, TypeOK
    <2> QED
      BY <1>1, <2>1, <2>2 DEF SampleArrives, TypeOK, Rows, bufferVars, flagVars
  <1>3. Locking' /\ WriterState' /\ Closing'
    BY <1>1 DEF SampleArrives, bufferVars, flagVars, Locking, InAppend, WriterState, Closing, Running
  <1>4. Counting'
    BY <1>1 DEF SampleArrives, bufferVars, Counting, InSpaceWait, TypeOK
  <1>5. RowsConserved'
    BY <1>1 DEF SampleArrives, bufferVars, flagVars, RowsConserved
  <1> QED
    BY <1>2, <1>3, <1>4, <1>5 DEF IInv

\* A step that changes no buffer, no stream state and no row conserves the rows.
LEMMA RowsUntouched ==
  ASSUME RowsConserved, UNCHANGED <<bufferVars, streamBad, accepted>>
  PROVE  RowsConserved'
  BY DEF RowsConserved, bufferVars

LEMMA CallbackLocksInv ==
  ASSUME IInv, CallbackLocks
  PROVE  IInv'
  <1>1. TypeOK /\ Locking /\ Counting /\ WriterState /\ Closing /\ RowsConserved
    BY DEF IInv
  <1>2. TypeOK'
    <2>1. cb' \in {"idle", "append"} /\ rMutex' \in {"none", "callback"} /\ finished' \in BOOLEAN
      BY <1>1 DEF CallbackLocks, TypeOK
    <2> QED
      BY <1>1, <2>1 DEF CallbackLocks, TypeOK, Rows, bufferVars, flagVars, envVars
  <1>3. Locking'
    BY <1>1 DEF CallbackLocks, FinishedWhileLocking, Locking, InAppend
  <1>4. WriterState' /\ Closing'
    BY <1>1 DEF CallbackLocks, bufferVars, flagVars, WriterState, Closing
  <1>5. Counting'
    BY <1>1 DEF CallbackLocks, bufferVars, envVars, Counting, InSpaceWait, TypeOK
  <1>6. RowsConserved'
    BY <1>1, RowsUntouched DEF CallbackLocks, flagVars, envVars
  <1> QED
    BY <1>2, <1>3, <1>4, <1>5, <1>6 DEF IInv

LEMMA CallbackFailsInv ==
  ASSUME IInv, CallbackFails
  PROVE  IInv'
  <1>1. TypeOK /\ Locking /\ Counting /\ WriterState /\ Closing /\ RowsConserved
    BY DEF IInv
  <1>2. TypeOK'
    BY <1>1 DEF CallbackFails, TypeOK, Rows, bufferVars, flagVars, envVars
  <1>3. Locking'
    BY <1>1 DEF CallbackFails, Locking, InAppend
  <1>4. WriterState' /\ Closing'
    BY <1>1 DEF CallbackFails, bufferVars, flagVars, WriterState, Closing, Running
  <1>5. Counting'
    BY <1>1 DEF CallbackFails, bufferVars, envVars, Counting, InSpaceWait, TypeOK
  <1>6. RowsConserved'
    BY <1>1, RowsUntouched DEF CallbackFails, flagVars, envVars
  <1> QED
    BY <1>2, <1>3, <1>4, <1>5, <1>6 DEF IInv

LEMMA SignalInv ==
  ASSUME IInv, Signal
  PROVE  IInv'
  <1>1. TypeOK /\ Locking /\ Counting /\ WriterState /\ Closing /\ RowsConserved
    BY DEF IInv
  <1>2. TypeOK'
    BY <1>1 DEF Signal, TypeOK, Rows, bufferVars, flagVars, envVars, threadVars
  <1>3. Locking' /\ WriterState' /\ Closing' /\ Counting'
    BY <1>1 DEF Signal, bufferVars, flagVars, envVars, threadVars, Locking, InAppend, WriterState,
       Closing, Counting, InSpaceWait
  <1>4. RowsConserved'
    BY <1>1, RowsUntouched DEF Signal, flagVars, envVars
  <1> QED
    BY <1>2, <1>3, <1>4 DEF IInv

LEMMA MainReleasedInv ==
  ASSUME IInv, MainReleased
  PROVE  IInv'
  <1>1. TypeOK /\ Locking /\ Counting /\ WriterState /\ Closing /\ RowsConserved
    BY DEF IInv
  <1>2. TypeOK'
    BY <1>1 DEF MainReleased, TypeOK, Rows, bufferVars, flagVars, envVars
  <1>3. Locking' /\ WriterState' /\ Closing' /\ Counting'
    BY <1>1 DEF MainReleased, MainOwnsMutex, bufferVars, flagVars, envVars, Locking, InAppend,
       WriterState, Closing, Counting, InSpaceWait
  <1>4. RowsConserved'
    BY <1>1, RowsUntouched DEF MainReleased, flagVars, envVars
  <1> QED
    BY <1>2, <1>3, <1>4 DEF IInv

LEMMA MainReportsInv ==
  ASSUME IInv, MainReports
  PROVE  IInv'
  <1>1. TypeOK /\ Locking /\ Counting /\ WriterState /\ Closing /\ RowsConserved
    BY DEF IInv
  <1>2. TypeOK'
    BY <1>1 DEF MainReports, ExitStatus, TypeOK, Rows, bufferVars, flagVars, envVars, recorderVars
  <1>3. Locking' /\ WriterState' /\ Counting'
    BY <1>1 DEF MainReports, bufferVars, flagVars, envVars, recorderVars, Locking, InAppend,
       WriterState, Counting, InSpaceWait
  <1>4. Closing'
    BY <1>1 DEF MainReports, ExitStatus, Running, bufferVars, flagVars, envVars, recorderVars, Closing,
       TypeOK
  <1>5. RowsConserved'
    BY <1>1, RowsUntouched DEF MainReports, flagVars, envVars
  <1> QED
    BY <1>2, <1>3, <1>4, <1>5 DEF IInv

LEMMA MainJoinsInv ==
  ASSUME IInv, MainJoins
  PROVE  IInv'
  <1>1. TypeOK /\ Locking /\ Counting /\ WriterState /\ Closing /\ RowsConserved
    BY DEF IInv
  <1>2. streamBad' \in BOOLEAN /\ writeFailed' \in BOOLEAN /\ faults' \in 0..MaxFaults
    <2>1. faults' \in 0..MaxFaults
      BY <1>1, RecorderAssumption DEF MainJoins, TypeOK
    <2>2. streamBad' = streamBad \/ streamBad' = TRUE
      BY DEF MainJoins
    <2>3. streamBad' \in BOOLEAN
      BY <1>1, <2>2 DEF TypeOK
    <2>4. writeFailed' = (writeFailed \/ streamBad')
      BY DEF MainJoins
    <2>5. writeFailed' \in BOOLEAN
      BY <1>1, <2>3, <2>4, Zenon DEF TypeOK
    <2> QED
      BY <2>1, <2>3, <2>5
  <1>3. TypeOK'
    BY <1>1, <1>2 DEF MainJoins, TypeOK, Rows, bufferVars, recorderVars
  <1>4. Locking' /\ Counting'
    BY <1>1 DEF MainJoins, bufferVars, recorderVars, Locking, InAppend, Counting, InSpaceWait
  <1>5. WriterState' /\ Closing'
    BY <1>1, <1>2 DEF MainJoins, CloseError, Running, bufferVars, recorderVars, WriterState, Closing,
       TypeOK
  <1>6. RowsConserved'
    <2>1. CASE streamBad' = streamBad
      BY <1>1, <2>1, RowsUntouched DEF MainJoins
    <2>2. CASE streamBad' # streamBad
      <3>1. ~streamBad /\ streamBad' /\ output' = output /\ accepted' = accepted
        BY <1>1, <2>2 DEF MainJoins, TypeOK, bufferVars
      <3>2. local = <<>> /\ writeBuffer = <<>> /\ activeBuffer = <<>>
        BY <1>1, <3>1 DEF MainJoins, WriterState, Closing
      <3>3. accepted = output
        BY <1>1, <3>1, <3>2, ConcatEmptySeq DEF RowsConserved, TypeOK, Rows
      <3>4. Prefix(output, output \o <<>>) /\ output \o <<>> = output
        BY <1>1, PrefixOfConcat, ConcatEmptySeq, EmptySeq DEF TypeOK, Rows
      <3> QED
        BY <3>1, <3>3, <3>4 DEF RowsConserved
    <2> QED
      BY <2>1, <2>2
  <1> QED
    BY <1>3, <1>4, <1>5, <1>6 DEF IInv

LEMMA WriterFailsInv ==
  ASSUME IInv, WriterFails
  PROVE  IInv'
  <1>1. TypeOK /\ Locking /\ Counting /\ WriterState /\ Closing /\ RowsConserved
    BY DEF IInv
  <1>2. cb' \in {cb, "flush"} /\ (cb' # cb => cb = "waitSpace")
    BY DEF WriterFails, NotifySpace
  <1>3. main' \in {main, "flush"} /\ (main' # main => main = "waitSpace")
    BY DEF WriterFails, NotifySpace
  <1>4. TypeOK'
    BY <1>1, <1>2, <1>3 DEF WriterFails, TypeOK, Rows, bufferVars, recorderVars, envVars
  <1>5. Locking' /\ Counting'
    BY <1>1, <1>2, <1>3 DEF WriterFails, bufferVars, recorderVars, envVars, Locking, InAppend,
       Counting, InSpaceWait
  <1>6. WriterState' /\ Closing'
    BY <1>1, <1>2, <1>3 DEF WriterFails, Running, bufferVars, recorderVars, envVars, WriterState,
       Closing
  <1>7. RowsConserved'
    BY <1>1, RowsUntouched DEF WriterFails, envVars
  <1> QED
    BY <1>4, <1>5, <1>6, <1>7 DEF IInv

LEMMA WriterChecksInv ==
  ASSUME IInv, WriterChecks
  PROVE  IInv'
  <1>1. TypeOK /\ Locking /\ Counting /\ WriterState /\ Closing /\ RowsConserved
    BY DEF IInv
  <1>2. cb' \in {cb, "flush"} /\ (cb' # cb => cb = "waitSpace")
    BY DEF WriterChecks, NotifySpace
  <1>3. main' \in {main, "flush"} /\ (main' # main => main = "waitSpace")
    BY DEF WriterChecks, NotifySpace
  <1>4. local' \in Rows /\ writeBuffer' \in Rows /\ writePending' \in BOOLEAN
    BY <1>1, EmptySeq DEF WriterChecks, TypeOK, Rows
  <1>5. writer' \in {"write", "gone", "parked"}
    BY DEF WriterChecks
  <1>6. TypeOK'
    BY <1>1, <1>2, <1>3, <1>4, <1>5 DEF WriterChecks, TypeOK, Rows, recorderVars, envVars
  <1>7. Locking' /\ Counting'
    BY <1>1, <1>2, <1>3 DEF WriterChecks, recorderVars, envVars, Locking, InAppend, Counting,
       InSpaceWait
  <1>8. WriterState' /\ Closing'
    BY <1>1, <1>2, <1>3 DEF WriterChecks, Running, recorderVars, envVars, WriterState, Closing
  <1>9. RowsConserved'
    <2>1. UNCHANGED <<output, activeBuffer, accepted, streamBad>> /\ ~streamBad
      BY <1>1 DEF WriterChecks, WriterState, envVars
    <2>2. local = <<>>
      BY <1>1 DEF WriterChecks, WriterState
    <2>3. output \o local' \o writeBuffer' = output \o local \o writeBuffer
      <3>1. CASE UNCHANGED <<local, writeBuffer>>
        BY <3>1
      <3>2. CASE local' = writeBuffer /\ writeBuffer' = <<>>
        <4>1. output \o <<>> = output
          BY <1>1, ConcatEmptySeq DEF TypeOK, Rows
        <4>2. PICK p \in Seq(1..MaxSamples) : p = output \o writeBuffer
          BY <1>1, ConcatProperties DEF TypeOK, Rows
        <4>3. p \o <<>> = p
          BY ConcatEmptySeq
        <4> QED
          BY <2>2, <3>2, <4>1, <4>2, <4>3
      <3> QED
        BY <3>1, <3>2 DEF WriterChecks
    <2> QED
      BY <1>1, <2>1, <2>3 DEF RowsConserved
  <1> QED
    BY <1>6, <1>7, <1>8, <1>9 DEF IInv

LEMMA WriterWritesInv ==
  ASSUME IInv, WriterWrites
  PROVE  IInv'
  <1>1. TypeOK /\ Locking /\ Counting /\ WriterState /\ Closing /\ RowsConserved
    BY DEF IInv
  <1>2. ~streamBad /\ ~writeFailed /\ writer = "write" /\ Running
    BY <1>1 DEF WriterWrites, WriterState
  <1>3. output \o local \o writeBuffer \o activeBuffer = accepted
    BY <1>1, <1>2 DEF RowsConserved
  <1>4. CASE output' = output \o local /\ local' = <<>> /\ writer' = "check"
              /\ UNCHANGED <<streamBad, faults>>
    <2>1. output' \in Rows /\ local' \in Rows
      BY <1>1, <1>4, ConcatProperties, EmptySeq DEF TypeOK, Rows
    <2>2. TypeOK'
      BY <1>1, <1>4, <2>1 DEF WriterWrites, TypeOK, Rows, recorderVars
    <2>3. Locking' /\ Counting' /\ WriterState' /\ Closing'
      BY <1>1, <1>2, <1>4 DEF WriterWrites, recorderVars, Locking, InAppend, Counting, InSpaceWait,
         WriterState, Closing
    <2>4. RowsConserved'
      <3>1. output' \o local' = output \o local
        BY <1>4, <2>1, ConcatEmptySeq DEF Rows
      <3>2. UNCHANGED <<writeBuffer, activeBuffer, accepted, streamBad>>
        BY <1>4 DEF WriterWrites
      <3> QED
        BY <1>2, <1>3, <3>1, <3>2 DEF RowsConserved
    <2> QED
      BY <2>2, <2>3, <2>4 DEF IInv
  <1>5. CASE /\ faults < MaxFaults /\ faults' = faults + 1 /\ streamBad' = TRUE
             /\ \E n \in 0..(Len(local) - 1) : output' = output \o SubSeq(local, 1, n)
             /\ writer' = "error" /\ local' = local
    <2>1. PICK n \in 0..(Len(local) - 1) : output' = output \o SubSeq(local, 1, n)
      BY <1>5
    <2>2. n \in 0..Len(local)
      BY <1>1, LenProperties DEF TypeOK, Rows
    <2>3. PICK u \in Seq(1..MaxSamples) : (output \o local) \o u = accepted
      <3>1. PICK p \in Seq(1..MaxSamples) : p = output \o local
        BY <1>1, ConcatProperties DEF TypeOK, Rows
      <3>2. (p \o writeBuffer) \o activeBuffer = p \o (writeBuffer \o activeBuffer)
        <4>1. writeBuffer \in Seq(1..MaxSamples) /\ activeBuffer \in Seq(1..MaxSamples)
          BY <1>1 DEF TypeOK, Rows
        <4> QED
          BY <4>1, ConcatAssociative
      <3>3. writeBuffer \o activeBuffer \in Seq(1..MaxSamples)
        BY <1>1, ConcatProperties DEF TypeOK, Rows
      <3> QED
        BY <1>3, <3>1, <3>2, <3>3
    <2>4. output' \in Rows /\ Prefix(output', accepted)
      BY <1>1, <2>1, <2>2, <2>3, PrefixOfPartialWrite DEF TypeOK, Rows
    <2>5. faults' \in 0..MaxFaults
      BY <1>1, <1>5, RecorderAssumption DEF TypeOK
    <2>6. TypeOK'
      BY <1>1, <1>5, <2>4, <2>5 DEF WriterWrites, TypeOK, Rows, recorderVars
    <2>7. Locking' /\ Counting' /\ WriterState' /\ Closing'
      BY <1>1, <1>2, <1>5 DEF WriterWrites, recorderVars, Locking, InAppend, Counting, InSpaceWait,
         WriterState, Closing
    <2>8. RowsConserved'
      BY <1>5, <2>4 DEF WriterWrites, RowsConserved
    <2> QED
      BY <2>6, <2>7, <2>8 DEF IInv
  <1> QED
    BY <1>4, <1>5 DEF WriterWrites

\* flushActiveBufferLocked finds the other buffer empty, so the rows keep their
\* order; "more" is what append() has just added to them.
LEMMA SwapConserves ==
  ASSUME NEW rows \in Rows, NEW all \in Rows,
         TypeOK, WriterState, ~writePending, SwapBuffers(rows),
         UNCHANGED <<output, local, streamBad>>, accepted' = all,
         IF streamBad THEN Prefix(output, all) ELSE output \o local \o writeBuffer \o rows = all
  PROVE  RowsConserved' /\ activeBuffer' = <<>> /\ writeBuffer' = rows
  <1>1. activeBuffer' = <<>> /\ writeBuffer' = rows /\ writeBuffer = <<>>
    BY DEF SwapBuffers, WriterState
  <1>2. PICK p \in Seq(1..MaxSamples) : p = output \o local
    BY ConcatProperties DEF TypeOK, Rows
  <1>3. PICK q \in Seq(1..MaxSamples) : q = p \o rows
    BY ConcatProperties DEF Rows
  <1>4. q \o <<>> = q /\ p \o <<>> = p
    BY ConcatEmptySeq
  <1> QED
    BY <1>1, <1>2, <1>3, <1>4 DEF RowsConserved

LEMMA MainClosesInv ==
  ASSUME IInv, MainCloses
  PROVE  IInv'
  <1>1. TypeOK /\ Locking /\ Counting /\ WriterState /\ Closing /\ RowsConserved
    BY DEF IInv
  <1>2. /\ UNCHANGED <<timed, cb, rMutex, local, output, writeFailed, streamBad, exitCode>>
        /\ UNCHANGED <<recorderVars, envVars>>
        /\ main \in {"close", "flush"} /\ exitCode = -1
    BY DEF MainCloses, Running
  <1>3. ~InAppend
    BY <1>1, <1>2 DEF Locking
  <1>4. writerStop = TRUE => writeFailed
    BY <1>1, <1>2 DEF Closing
  <1>5. CASE /\ ~CloseNeedsFlush /\ CloseHandsOver /\ writer' = NotifyWriter(writer)
             /\ UNCHANGED <<activeBuffer, writeBuffer, writePending>>
    <2>1. writer' \in {writer, "check"} /\ (writer' # writer => writer = "parked")
      BY <1>5 DEF NotifyWriter
    <2>2. TypeOK'
      BY <1>1, <1>2, <1>5, <2>1 DEF CloseHandsOver, TypeOK, Rows, recorderVars, envVars
    <2>3. Locking' /\ Counting' /\ WriterState' /\ Closing'
      BY <1>1, <1>2, <1>4, <1>5, <2>1 DEF CloseHandsOver, CloseNeedsFlush, recorderVars, envVars,
         Locking, InAppend, Counting, InSpaceWait, WriterState, Closing
    <2>4. RowsConserved'
      BY <1>1, <1>2, <1>5, RowsUntouched DEF bufferVars, envVars
    <2> QED
      BY <2>2, <2>3, <2>4 DEF IInv
  <1>6. CASE CloseNeedsFlush /\ BufferAvailable /\ SwapBuffers(activeBuffer) /\ CloseHandsOver
    <2>1. writer' \in {writer, "check"} /\ (writer' # writer => writer = "parked") /\ writePending'
      BY <1>6 DEF SwapBuffers, NotifyWriter
    <2>2. RowsConserved' /\ activeBuffer' = <<>> /\ writeBuffer' = activeBuffer
      BY <1>1, <1>2, <1>6, SwapConserves DEF BufferAvailable, TypeOK, RowsConserved, envVars
    <2>3. activeBuffer' \in Rows /\ Len(activeBuffer') = 0
      BY <2>2, EmptySeq DEF Rows
    <2>4. TypeOK'
      BY <1>1, <1>2, <1>6, <2>1, <2>2, <2>3, RecorderAssumption
      DEF SwapBuffers, CloseHandsOver, TypeOK, Rows, recorderVars, envVars
    <2>5. writer = "gone" => writeFailed
      BY <1>1, <1>4 DEF WriterState
    <2>6. Locking' /\ Counting'
      BY <1>1, <1>2, <1>6, <2>3, RecorderAssumption
      DEF CloseHandsOver, recorderVars, envVars, Locking, InAppend, Counting, InSpaceWait
    <2>7. WriterState' /\ Closing'
      BY <1>1, <1>2, <1>6, <2>1, <2>2, <2>5
      DEF CloseHandsOver, SwapBuffers, recorderVars, envVars, WriterState, Closing
    <2> QED
      BY <2>2, <2>4, <2>6, <2>7 DEF IInv
  <1>7. CASE /\ CloseNeedsFlush /\ ~BufferAvailable /\ main' = "waitSpace"
             /\ UNCHANGED <<writer, activeBuffer, writeBuffer, writePending, writerStop>>
    <2>1. TypeOK'
      BY <1>1, <1>2, <1>7 DEF TypeOK, Rows, recorderVars, envVars
    <2>2. Locking' /\ Counting' /\ WriterState' /\ Closing'
      BY <1>1, <1>2, <1>7 DEF recorderVars, envVars, Locking, InAppend, Counting, InSpaceWait,
         WriterState, Closing
    <2>3. RowsConserved'
      BY <1>1, <1>2, <1>7, RowsUntouched DEF bufferVars, envVars
    <2> QED
      BY <2>1, <2>2, <2>3 DEF IInv
  <1> QED
    BY <1>5, <1>6, <1>7 DEF MainCloses

LEMMA CallbackFlushesInv ==
  ASSUME IInv, CallbackFlushes
  PROVE  IInv'
  <1>1. TypeOK /\ Locking /\ Counting /\ WriterState /\ Closing /\ RowsConserved
    BY DEF IInv
  <1>2. /\ UNCHANGED <<timed, main, local, output, writerStop, writeFailed, streamBad, stopRequested>>
        /\ UNCHANGED <<finished, failure, exitCode, envVars>>
        /\ cb = "flush"
    BY DEF CallbackFlushes
  <1>3. main = "wait" /\ rMutex = "callback"
    BY <1>1, <1>2 DEF Locking, InAppend
  <1>4. CASE BufferAvailable /\ SwapBuffers(activeBuffer) /\ Counted
    <2>1. writer' \in {writer, "check"} /\ (writer' # writer => writer = "parked") /\ writePending'
      BY <1>4 DEF SwapBuffers, NotifyWriter
    <2>2. RowsConserved' /\ activeBuffer' = <<>> /\ writeBuffer' = activeBuffer
      BY <1>1, <1>2, <1>4, SwapConserves DEF BufferAvailable, TypeOK, RowsConserved, envVars
    <2>3. activeBuffer' \in Rows /\ Len(activeBuffer') = 0
      BY <2>2, EmptySeq DEF Rows
    <2>4. sampleCount' \in 0..MaxSamples
      <3>1. Len(accepted) \in Nat
        BY <1>1, LenProperties DEF TypeOK, Rows
      <3> QED
        BY <1>1, <1>2, <1>4, <3>1, RecorderAssumption DEF Counted, Counting, InSpaceWait, TypeOK
    <2>5. TypeOK'
      BY <1>1, <1>2, <1>4, <2>1, <2>2, <2>3, <2>4, RecorderAssumption
      DEF SwapBuffers, Counted, TypeOK, Rows, envVars
    <2>6. writer = "gone" => writeFailed
      BY <1>1, <1>3 DEF WriterState, Closing
    <2>7. Locking' /\ WriterState'
      BY <1>1, <1>2, <1>3, <1>4, <2>1, <2>2, <2>6
      DEF SwapBuffers, Counted, envVars, Locking, InAppend, WriterState
    <2>8. Counting'
      BY <1>1, <1>2, <1>4, <2>3, RecorderAssumption
      DEF Counted, envVars, Counting, InSpaceWait, TypeOK
    <2>9. Closing'
      BY <1>1, <1>2, <1>3, <1>4 DEF Counted, Closing
    <2> QED
      BY <2>2, <2>5, <2>7, <2>8, <2>9 DEF IInv
  <1>5. CASE /\ ~BufferAvailable /\ cb' = "waitSpace"
             /\ UNCHANGED <<writer, activeBuffer, writeBuffer, writePending, rMutex, sampleCount>>
    <2>1. TypeOK'
      BY <1>1, <1>2, <1>5 DEF TypeOK, Rows, envVars
    <2>2. Locking' /\ Counting' /\ WriterState' /\ Closing'
      BY <1>1, <1>2, <1>5 DEF envVars, Locking, InAppend, Counting, InSpaceWait, WriterState, Closing
    <2>3. RowsConserved'
      BY <1>1, <1>2, <1>5, RowsUntouched DEF bufferVars, envVars
    <2> QED
      BY <2>1, <2>2, <2>3 DEF IInv
  <1> QED
    BY <1>4, <1>5, Zenon DEF CallbackFlushes

LEMMA CallbackAppendsInv ==
  ASSUME IInv, CallbackAppends
  PROVE  IInv'
  <1> DEFINE rows == Append(activeBuffer, arrived)
             all == Append(accepted, arrived)
  <1>1. TypeOK /\ Locking /\ Counting /\ WriterState /\ Closing /\ RowsConserved
    BY DEF IInv
  <1>2. /\ UNCHANGED <<timed, main, local, output, writerStop, writeFailed, streamBad, stopRequested>>
        /\ UNCHANGED <<finished, failure, exitCode, arrived, faults>>
        /\ cb = "append"
    BY DEF CallbackAppends
  <1>3. main = "wait" /\ rMutex = "callback"
    BY <1>1, <1>2 DEF Locking, InAppend
  <1>4. arrived \in 1..MaxSamples
    BY <1>1, <1>2 DEF Counting, TypeOK
  <1>5. /\ rows \in Rows /\ Len(rows) = Len(activeBuffer) + 1
        /\ all \in Rows /\ Len(all) = Len(accepted) + 1
    BY <1>1, <1>4, AppendProperties DEF TypeOK, Rows
  <1>6. IF streamBad THEN Prefix(output, all) ELSE output \o local \o writeBuffer \o rows = all
    <2>1. CASE streamBad
      <3>1. accepted \in Seq(1..MaxSamples) /\ Prefix(output, accepted)
        BY <1>1, <2>1 DEF TypeOK, Rows, RowsConserved
      <3> QED
        BY <2>1, <3>1, <1>4, PrefixOfAppend
    <2>2. CASE ~streamBad
      <3>1. PICK p \in Seq(1..MaxSamples) : p = output \o local
        BY <1>1, ConcatProperties DEF TypeOK, Rows
      <3>2. PICK q \in Seq(1..MaxSamples) : q = p \o writeBuffer
        BY <1>1, ConcatProperties DEF TypeOK, Rows
      <3>3. q \o activeBuffer = accepted
        BY <1>1, <2>2, <3>1, <3>2 DEF RowsConserved
      <3>4. activeBuffer \in Seq(1..MaxSamples)
        BY <1>1 DEF TypeOK, Rows
      <3>5. q \o rows = Append(q \o activeBuffer, arrived)
        BY <1>4, <3>4, ConcatAppend
      <3> QED
        BY <2>2, <3>1, <3>2, <3>3, <3>5
    <2> QED
      BY <2>1, <2>2
  <1>7. Len(accepted) \in Nat /\ Len(activeBuffer) \in Nat
    BY <1>1, LenProperties DEF TypeOK, Rows
  <1>8. Len(accepted) + 1 <= arrived /\ sampleCount = Len(accepted)
    BY <1>1, <1>2, <1>7 DEF Counting, InSpaceWait, TypeOK
  <1>9. sampleCount + 1 \in 0..MaxSamples
    BY <1>4, <1>7, <1>8, RecorderAssumption
  <1> HIDE DEF rows, all
  <1>a. CASE /\ writeFailed /\ cb' = "fail" /\ rMutex' = "none"
             /\ UNCHANGED <<writer, activeBuffer, writeBuffer, writePending, sampleCount, accepted>>
    <2>1. TypeOK'
      BY <1>1, <1>2, <1>a DEF TypeOK, Rows
    <2>2. Locking' /\ WriterState' /\ Closing'
      BY <1>1, <1>2, <1>3, <1>a DEF Locking, InAppend, WriterState, Closing
    <2>3. RowsConserved'
      BY <1>1, <1>2, <1>a, RowsUntouched DEF bufferVars
    <2>4. Counting'
      BY <1>1, <1>2, <1>4, <1>7, <1>8, <1>a, RecorderAssumption DEF Counting, InSpaceWait
    <2> QED
      BY <2>1, <2>2, <2>3, <2>4 DEF IInv
  <1>b. CASE /\ ~writeFailed /\ accepted' = all
             /\ Len(rows) < Capacity /\ activeBuffer' = rows /\ Counted
             /\ UNCHANGED <<writer, writeBuffer, writePending>>
    <2>1. TypeOK'
      BY <1>1, <1>2, <1>5, <1>7, <1>8, <1>9, <1>b, RecorderAssumption DEF Counted, TypeOK, Rows
    <2>2. Locking' /\ WriterState' /\ Closing'
      BY <1>1, <1>2, <1>3, <1>b DEF Counted, Locking, InAppend, WriterState, Closing
    <2>3. Counting'
      BY <1>1, <1>2, <1>4, <1>5, <1>7, <1>8, <1>b, RecorderAssumption DEF Counted, Counting, InSpaceWait
    <2>4. RowsConserved'
      BY <1>2, <1>6, <1>b DEF RowsConserved
    <2> QED
      BY <2>1, <2>2, <2>3, <2>4 DEF IInv
  <1>c. CASE /\ ~writeFailed /\ accepted' = all
             /\ BufferAvailable /\ SwapBuffers(rows) /\ Counted
    <2>1. writer' \in {writer, "check"} /\ (writer' # writer => writer = "parked") /\ writePending'
      BY <1>c DEF SwapBuffers, NotifyWriter
    <2>2. RowsConserved' /\ activeBuffer' = <<>> /\ writeBuffer' = rows
      BY <1>1, <1>2, <1>5, <1>6, <1>c, SwapConserves DEF BufferAvailable
    <2>3. activeBuffer' \in Rows /\ Len(activeBuffer') = 0
      BY <2>2, EmptySeq DEF Rows
    <2>4. TypeOK'
      BY <1>1, <1>2, <1>5, <1>8, <1>9, <1>c, <2>1, <2>2, <2>3, RecorderAssumption
      DEF SwapBuffers, Counted, TypeOK, Rows
    <2>5. writer # "gone"
      BY <1>1, <1>3, <1>c DEF WriterState, Closing
    <2>6. Locking' /\ WriterState'
      BY <1>1, <1>2, <1>3, <1>c, <2>1, <2>2, <2>5
      DEF SwapBuffers, Counted, Locking, InAppend, WriterState
    <2>7. Counting'
      BY <1>1, <1>2, <1>5, <1>7, <1>8, <1>c, <2>3, RecorderAssumption DEF Counted, Counting, InSpaceWait
    <2>8. Closing'
      BY <1>1, <1>2, <1>3, <1>c DEF Counted, Closing
    <2> QED
      BY <2>2, <2>4, <2>6, <2>7, <2>8 DEF IInv
  <1>d. CASE /\ ~writeFailed /\ accepted' = all
             /\ ~BufferAvailable /\ activeBuffer' = rows /\ cb' = "waitSpace"
             /\ UNCHANGED <<writer, writeBuffer, writePending, rMutex, sampleCount>>
    <2>1. Len(rows) <= Capacity
      BY <1>1, <1>2, <1>5, <1>7, RecorderAssumption DEF Counting, InSpaceWait
    <2>2. TypeOK'
      BY <1>1, <1>2, <1>5, <1>d, <2>1 DEF TypeOK, Rows
    <2>3. Locking' /\ WriterState' /\ Closing'
      BY <1>1, <1>2, <1>3, <1>d DEF Locking, InAppend, WriterState, Closing
    <2>4. Counting'
      BY <1>1, <1>2, <1>5, <1>7, <1>8, <1>d, <2>1 DEF Counting, InSpaceWait
    <2>5. RowsConserved'
      BY <1>2, <1>6, <1>d DEF RowsConserved
    <2> QED
      BY <2>2, <2>3, <2>4, <2>5 DEF IInv
  <1> QED
    BY <1>a, <1>b, <1>c, <1>d DEF CallbackAppends, rows, all

----------------------------------------------------------------------------
(* The theorems. *)

LEMMA Invariance == Spec => []IInv
  <1>1. Init => IInv
    BY InitInv
  <1>2. ASSUME IInv, [Next]_vars PROVE IInv'
    <2>1. CASE UNCHANGED vars
      <3>1. TypeOK' /\ Locking' /\ Counting' /\ WriterState' /\ Closing'
        BY <1>2, <2>1 DEF vars, IInv, TypeOK, Rows, Locking, InAppend, Counting, InSpaceWait,
           WriterState, Closing
      <3>2. RowsConserved'
        BY <1>2, <2>1, RowsUntouched DEF vars, bufferVars, IInv
      <3> QED
        BY <3>1, <3>2 DEF IInv
    <2>2. CASE Next
      BY <1>2, <2>1, <2>2, SampleArrivesInv, CallbackLocksInv, CallbackAppendsInv, CallbackFlushesInv,
         CallbackFailsInv, WriterChecksInv, WriterWritesInv, WriterFailsInv, MainReleasedInv,
         MainClosesInv, MainJoinsInv, MainReportsInv, SignalInv
      DEF Next, CallbackStep, WriterStep, MainStep, Exited
    <2> QED
      BY <1>2, <2>1, <2>2
  <1> QED
    BY <1>1, <1>2, PTL DEF Spec

\* Every variable of the recorder keeps its type, whatever the capacity.
THEOREM TypeCorrect == Spec => []TypeOK
  <1>1. IInv => TypeOK
    BY DEF IInv
  <1> QED
    BY <1>1, Invariance, PTL

\* Double buffering loses, duplicates and reorders nothing: see RowsConserved.
THEOREM RowsAreConserved == Spec => []RowsConserved
  <1>1. IInv => RowsConserved
    BY DEF IInv
  <1> QED
    BY <1>1, Invariance, PTL

\* notify_one suffices for _bufferAvailable: see SingleSpaceWaiter.
THEOREM OneSpaceWaiter == Spec => []SingleSpaceWaiter
  <1>1. IInv => SingleSpaceWaiter
    BY DEF IInv, Locking, InAppend, SingleSpaceWaiter
  <1> QED
    BY <1>1, Invariance, PTL

\* Exit code 0 is given exactly for a complete CSV: see ExitIsHonest.
THEOREM HonestExit == Spec => []ExitIsHonest
  <1>1. IInv => ExitIsHonest
    <2> SUFFICES ASSUME IInv, ~Running
        PROVE exitCode = 0 <=> /\ output = accepted /\ sampleCount = Len(output)
                               /\ sampleCount > 0 /\ ~streamBad
      BY DEF ExitIsHonest
    <2>1. TypeOK /\ Locking /\ Counting /\ WriterState /\ Closing /\ RowsConserved
      BY DEF IInv
    <2>2. main = "exited" /\ exitCode \in {0, 7, 8, 9}
      BY <2>1 DEF Running, Closing, TypeOK
    <2>3. ASSUME exitCode = 0
          PROVE  output = accepted /\ sampleCount = Len(output) /\ sampleCount > 0 /\ ~streamBad
      <3>1. writer = "gone" /\ ~writeFailed /\ ~streamBad
        BY <2>1, <2>3 DEF Closing, WriterState
      <3>2. local = <<>> /\ writeBuffer = <<>> /\ activeBuffer = <<>>
        BY <2>1, <2>2, <3>1 DEF Closing, WriterState
      <3>3. output = accepted
        BY <2>1, <3>1, <3>2, ConcatEmptySeq DEF RowsConserved, TypeOK, Rows
      <3>4. ~InSpaceWait
        BY <2>1, <2>2 DEF Locking, InAppend, InSpaceWait
      <3>5. sampleCount = Len(accepted)
        BY <2>1, <3>4 DEF Counting, TypeOK
      <3> QED
        BY <2>1, <2>3, <3>1, <3>3, <3>5 DEF Closing
    <2>4. ASSUME sampleCount > 0, ~streamBad PROVE exitCode = 0
      BY <2>1, <2>2, <2>4 DEF Closing, WriterState
    <2> QED
      BY <2>3, <2>4
  <1> QED
    BY <1>1, Invariance, PTL

\* close() works on buffers nobody appends to: see NoRowAfterRelease.
THEOREM NoneAfterRelease == Spec => NoRowAfterRelease
  <1>1. ASSUME IInv, [Next]_vars, main # "wait" PROVE accepted' = accepted
    <2>1. ~CallbackAppends
      BY <1>1 DEF IInv, Locking, InAppend, CallbackAppends
    <2> QED
      BY <1>1, <2>1 DEF Next, CallbackStep, WriterStep, MainStep, SampleArrives, CallbackLocks,
         CallbackFlushes, CallbackFails, WriterChecks, WriterWrites, WriterFails, MainReleased,
         MainCloses, MainJoins, MainReports, Signal, Exited, envVars, vars
  <1>2. IInv /\ [Next]_vars => [main # "wait" => accepted' = accepted]_vars
    BY <1>1
  <1> QED
    BY <1>2, Invariance, PTL DEF Spec, NoRowAfterRelease

----------------------------------------------------------------------------
(* The threads as the process of RecorderProcess. *)

\* Before the first row there is nothing to write, and so no error of a write:
\* only the last flush may fail then, and with it the process ends.
NothingYet ==
    accepted = <<>> =>
        /\ activeBuffer = <<>>
        /\ ~writePending
        /\ writer \notin {"write", "error"}
        /\ Running => ~writeFailed

LEMMA NothingYetHolds ==
  ASSUME IInv, NothingYet, [Next]_vars
  PROVE  NothingYet'
  <1> SUFFICES ASSUME accepted' = <<>>
               PROVE  /\ activeBuffer' = <<>> /\ ~writePending'
                      /\ writer' \notin {"write", "error"}
                      /\ Running' => ~writeFailed'
    BY DEF NothingYet
  <1>1. TypeOK /\ Closing
    BY DEF IInv
  <1>2. CASE CallbackAppends
    <2>1. ASSUME accepted' = Append(accepted, arrived) PROVE FALSE
      <3>1. accepted \in Seq(1..MaxSamples) /\ arrived \in 1..MaxSamples
        BY <1>1, <1>2 DEF IInv, Counting, CallbackAppends, TypeOK, Rows
      <3> QED
        BY <2>1, <3>1, AppendProperties
    <2>2. /\ UNCHANGED <<writer, activeBuffer, writePending, accepted, writeFailed, exitCode>>
      BY <1>2, <2>1 DEF CallbackAppends
    <2> QED
      BY <2>2 DEF NothingYet, Running
  <1>3. CASE ~CallbackAppends
    <2>1. accepted = <<>>
      BY <1>3 DEF Next, CallbackStep, WriterStep, MainStep, SampleArrives, CallbackLocks,
         CallbackFlushes, CallbackFails, WriterChecks, WriterWrites, WriterFails, MainReleased,
         MainCloses, MainJoins, MainReports, Signal, Exited, envVars, vars
    <2>2. activeBuffer = <<>> /\ ~writePending /\ writer \notin {"write", "error"}
          /\ (Running => ~writeFailed)
      BY <2>1 DEF NothingYet
    <2>3. cb # "flush"
      <3>1. sampleCount + (IF InSpaceWait THEN 1 ELSE 0) = 0 /\ sampleCount \in Nat
        BY <1>1, <2>1 DEF IInv, Counting, TypeOK
      <3> QED
        BY <3>1 DEF InSpaceWait
    <2>4. CASE SampleArrives \/ CallbackLocks \/ CallbackFails \/ MainReleased \/ Signal
      BY <2>2, <2>4 DEF SampleArrives, CallbackLocks, CallbackFails, MainReleased, Signal, bufferVars,
         flagVars, threadVars, Running
    <2>5. CASE WriterStep
      BY <2>2, <2>5 DEF WriterStep, WriterChecks, WriterWrites, WriterFails, Running
    <2>6. CASE MainCloses
      BY <2>2, <2>6 DEF MainCloses, CloseNeedsFlush, NotifyWriter, Running
    <2>7. CASE MainJoins
      BY <2>2, <2>7 DEF MainJoins, CloseError, Running, bufferVars
    <2>8. CASE MainReports \/ UNCHANGED vars
      BY <2>2, <2>8 DEF MainReports, vars, Running, bufferVars, flagVars
    <2> QED
      BY <1>3, <2>3, <2>4, <2>5, <2>6, <2>7, <2>8
      DEF Next, CallbackStep, CallbackFlushes, MainStep, Exited
  <1> QED
    BY <1>2, <1>3

LEMMA NothingYetInvariance == Spec => []NothingYet
  <1>1. Init => NothingYet
    BY DEF Init, NothingYet
  <1> QED
    BY <1>1, NothingYetHolds, Invariance, PTL DEF Spec

\* What the process has printed.
LEMMA PipeSeen ==
  ASSUME exitCode # 0
  PROVE  SeenPipe = IF Announced THEN <<"START">> ELSE <<>>
  <1>1. <<"START">> \in Seq({"START", "WROTE"}) /\ <<>> \in Seq({"START", "WROTE"})
    OBVIOUS
  <1>2. <<>> \o <<>> = <<>> /\ <<"START">> \o <<>> = <<"START">>
    BY <1>1, ConcatEmptySeq
  <1> QED
    BY <1>2 DEF SeenPipe

LEMMA Printed ==
  /\ Append(<<>>, "START") = <<"START">>
  /\ Append(<<"START">>, "WROTE") = <<"START">> \o <<"WROTE">>
  <1>1. <<"START">> \in Seq({"START", "WROTE"})
    OBVIOUS
  <1> QED
    BY <1>1, AppendIsConcat

\* A step that leaves the process running and prints nothing.
LEMMA SeenStutter ==
  ASSUME Running, Running', Announced' = Announced, Ending' = Ending
  PROVE  UNCHANGED <<SeenProcess, SeenCode, SeenPipe>>
  <1>1. SeenProcess' = SeenProcess /\ SeenCode' = SeenCode
    BY DEF SeenProcess, SeenCode
  <1>2. SeenPipe' = SeenPipe
    BY DEF SeenPipe, Running
  <1> QED
    BY <1>1, <1>2

\* A step that tells the process to end.
LEMMA SeenTold ==
  ASSUME Running, Running', Announced' = Announced, Ending'
  PROVE  Seen!TerminalInterrupts \/ UNCHANGED <<SeenProcess, SeenCode, SeenPipe>>
  <1>1. SeenCode' = SeenCode
    BY DEF SeenCode
  <1>2. SeenPipe' = SeenPipe
    BY DEF SeenPipe, Running
  <1>3. \/ SeenProcess = "armed" /\ SeenProcess' = "abandoned"
        \/ SeenProcess = "recording" /\ SeenProcess' = "closing"
        \/ SeenProcess' = SeenProcess
    BY DEF SeenProcess
  <1> QED
    BY <1>1, <1>2, <1>3 DEF Seen!TerminalInterrupts, Seen!Signalled

LEMMA SeenSteps ==
  ASSUME IInv, NothingYet, [Next]_vars
  PROVE  Seen!ProcessNext \/ UNCHANGED <<SeenProcess, SeenCode, SeenPipe>>
  <1>1. TypeOK /\ Locking /\ Counting /\ WriterState /\ Closing
    BY DEF IInv
  <1>2. CASE SampleArrives
    <2>1. Running /\ Running' /\ Announced' = Announced
      BY <1>2 DEF SampleArrives, Running, Announced
    <2>2. Ending' = Ending
      BY <1>2 DEF SampleArrives, Ending
    <2> QED
      BY <2>1, <2>2, SeenStutter
  <1>3. CASE CallbackLocks
    <2>1. Running /\ Running' /\ accepted' = accepted /\ cb = "lock"
      BY <1>3 DEF CallbackLocks, Running, envVars
    <2>2. CASE cb' = "idle"
      <3>1. Announced' = Announced
        BY <2>1, <2>2 DEF Announced
      <3>2. Ending' = Ending \/ Ending'
        BY <1>3, <2>2 DEF CallbackLocks, Ending
      <3> QED
        BY <2>1, <3>1, <3>2, SeenStutter, SeenTold DEF Seen!ProcessNext
    <2>3. CASE cb' = "append" /\ UNCHANGED finished
      <3>1. Announced' /\ Ending' = Ending /\ exitCode # 0 /\ exitCode' # 0
        BY <1>3, <2>1, <2>3 DEF Announced, Ending, CallbackLocks, Running
      <3>2. CASE Announced
        BY <2>1, <3>1, <3>2, SeenStutter
      <3>3. CASE ~Announced
        <4>1. SeenPipe' = Append(SeenPipe, "START")
          <5>1. SeenPipe = <<>>
            BY <3>1, <3>3, PipeSeen
          <5>2. SeenPipe' = <<"START">>
            BY <3>1 DEF SeenPipe
          <5> QED
            BY <5>1, <5>2, Printed
        <4>2. SeenCode' = SeenCode
          BY <2>1 DEF SeenCode
        <4>3. \/ SeenProcess = "armed" /\ SeenProcess' = "recording"
              \/ SeenProcess = "abandoned" /\ SeenProcess' = "closing"
          BY <2>1, <3>1, <3>3 DEF SeenProcess
        <4> QED
          BY <4>1, <4>2, <4>3 DEF Seen!ProcessNext, Seen!ProcessRecords
      <3> QED
        BY <3>2, <3>3
    <2> QED
      BY <1>3, <2>2, <2>3 DEF CallbackLocks
  <1>4. CASE CallbackAppends
    <2>1. Running /\ Running' /\ Ending' = Ending /\ Announced
      BY <1>4 DEF CallbackAppends, Running, Ending, Announced
    <2>2. accepted' # <<>>
      <3>1. CASE writeFailed /\ accepted' = accepted
        BY <2>1, <3>1 DEF NothingYet
      <3>2. CASE accepted' = Append(accepted, arrived)
        <4>1. accepted \in Seq(1..MaxSamples) /\ arrived \in 1..MaxSamples
          BY <1>1, <1>4 DEF Counting, CallbackAppends, TypeOK, Rows
        <4> QED
          BY <3>2, <4>1, AppendProperties
      <3> QED
        BY <1>4, <3>1, <3>2 DEF CallbackAppends
    <2> QED
      BY <2>1, <2>2, SeenStutter DEF Announced
  <1>5. CASE CallbackFlushes
    <2>1. Running /\ Running' /\ Ending' = Ending /\ accepted' = accepted
      BY <1>5 DEF CallbackFlushes, Running, Ending, envVars
    <2>2. cb # "append" /\ cb' # "append"
      BY <1>5 DEF CallbackFlushes, Counted
    <2> QED
      BY <2>1, <2>2, SeenStutter DEF Announced
  <1>6. CASE CallbackFails
    <2>1. Running /\ Running' /\ Ending' /\ Announced' = Announced
      BY <1>6 DEF CallbackFails, Running, Ending, Announced, envVars
    <2> QED
      BY <2>1, SeenTold DEF Seen!ProcessNext
  <1>7. CASE WriterStep
    <2>1. Running /\ Running' /\ Ending' = Ending /\ accepted' = accepted
      BY <1>7 DEF WriterStep, WriterChecks, WriterWrites, WriterFails, Running, Ending, recorderVars,
         envVars
    <2>2. cb' = "append" <=> cb = "append"
      BY <1>7 DEF WriterStep, WriterChecks, WriterWrites, WriterFails, NotifySpace
    <2> QED
      BY <2>1, <2>2, SeenStutter DEF Announced
  <1>8. CASE MainReleased
    <2>1. Running /\ Running' /\ Ending' /\ Announced' = Announced
      BY <1>8 DEF MainReleased, Running, Ending, Announced, envVars
    <2> QED
      BY <2>1, SeenTold DEF Seen!ProcessNext
  <1>9. CASE MainCloses
    <2>1. Running /\ Running' /\ Ending' = Ending /\ Announced' = Announced
      BY <1>9 DEF MainCloses, Running, Ending, Announced, recorderVars, envVars
    <2> QED
      BY <2>1, SeenStutter
  <1>10. CASE Signal
    <2>1. Running /\ Running' /\ Ending' /\ Announced' = Announced
      BY <1>10 DEF Signal, Running, Ending, Announced, threadVars, envVars
    <2> QED
      BY <2>1, SeenTold DEF Seen!ProcessNext
  <1>11. CASE MainJoins
    <2>1. Running /\ Ending /\ UNCHANGED <<stopRequested, finished, cb, accepted>>
      BY <1>1, <1>11 DEF MainJoins, Locking, Ending, recorderVars
    <2>2. Ending' = Ending /\ Announced' = Announced
      BY <2>1 DEF Ending, Announced
    <2>3. CASE exitCode' = exitCode
      BY <2>1, <2>2, <2>3, SeenStutter DEF Running
    <2>4. CASE exitCode' = 7
      <3>1. ~Running' /\ SeenProcess' = "exited" /\ SeenCode' = 7
        BY <2>4 DEF Running, SeenProcess, SeenCode
      <3>2. SeenProcess \in {"closing", "abandoned"}
        BY <2>1 DEF SeenProcess
      <3>3. SeenPipe' = SeenPipe
        BY <2>1, <2>2, <2>4 DEF SeenPipe, Running
      <3> QED
        BY <3>1, <3>2, <3>3 DEF Seen!ProcessNext, Seen!ProcessCloses, Seen!Exits
    <2> QED
      BY <1>11, <2>3, <2>4 DEF MainJoins
  <1>12. CASE MainReports
    <2>1. Running /\ Ending /\ UNCHANGED <<stopRequested, finished, cb, accepted>>
      BY <1>1, <1>12 DEF MainReports, Locking, Ending, recorderVars, envVars
    <2>2. Announced' = Announced
      BY <2>1 DEF Announced
    <2>3. ~failure
      BY <1>1, <1>12 DEF MainReports, Closing, WriterState
    <2>4. sampleCount = 0 <=> ~Announced
      <3>1. ~InAppend
        BY <1>1, <1>12 DEF MainReports, Locking
      <3>2. sampleCount = Len(accepted)
        BY <1>1, <3>1 DEF Counting, InAppend, InSpaceWait, TypeOK
      <3>3. Len(accepted) = 0 <=> accepted = <<>>
        BY <1>1, EmptySeq DEF TypeOK, Rows
      <3> QED
        BY <3>1, <3>2, <3>3 DEF Announced, InAppend
    <2>5. SeenProcess = IF Announced THEN "closing" ELSE "abandoned"
      BY <2>1 DEF SeenProcess
    <2>6. exitCode' = IF Announced THEN 0 ELSE 9
      BY <1>12, <2>3, <2>4 DEF MainReports, ExitStatus
    <2>7. SeenProcess' = "exited" /\ SeenCode' = exitCode'
      BY <2>6 DEF Running, SeenProcess, SeenCode
    <2>8. CASE Announced
      <3>1. SeenPipe' = Append(SeenPipe, "WROTE")
        <4>1. SeenPipe = <<"START">>
          BY <2>1, <2>8, PipeSeen DEF Running
        <4>2. SeenPipe' = <<"START">> \o <<"WROTE">>
          BY <2>2, <2>6, <2>8 DEF SeenPipe
        <4> QED
          BY <4>1, <4>2, Printed
      <3> QED
        BY <2>5, <2>6, <2>7, <2>8, <3>1 DEF Seen!ProcessNext, Seen!ProcessCloses, Seen!Exits
    <2>9. CASE ~Announced
      <3>1. SeenPipe' = SeenPipe
        BY <2>1, <2>2, <2>6, <2>9 DEF SeenPipe, Running
      <3> QED
        BY <2>5, <2>6, <2>7, <2>9, <3>1 DEF Seen!ProcessNext, Seen!ProcessCloses, Seen!Exits
    <2> QED
      BY <2>8, <2>9
  <1>13. CASE UNCHANGED vars
    BY <1>13 DEF vars, SeenProcess, SeenCode, SeenPipe, Running, Announced, Ending
  <1> QED
    BY <1>2, <1>3, <1>4, <1>5, <1>6, <1>7, <1>8, <1>9, <1>10, <1>11, <1>12, <1>13
    DEF Next, CallbackStep, MainStep, Exited

\* main.cpp 131-168 and 394-411 implement RecorderProcess from the subscription
\* on: the readiness token and the exit codes are those the adapter's proofs
\* take from the process, so that a code 0 after a token there means here what
\* HonestExit says.
THEOREM ProcessKept == Spec => KeepsProcess
  <1>1. Init => Seen!Subscribed
    <2> SUFFICES ASSUME Init PROVE Seen!Subscribed
      OBVIOUS
    <2>1. Running /\ ~Announced /\ ~Ending
      BY DEF Init, Running, Announced, Ending
    <2>2. SeenProcess = "armed" /\ SeenCode = 0
      BY <2>1 DEF SeenProcess, SeenCode
    <2>3. SeenPipe = <<>>
      BY <2>1, PipeSeen DEF Running
    <2> QED
      BY <2>2, <2>3 DEF Seen!Subscribed
  <1>2. IInv /\ NothingYet /\ [Next]_vars => [Seen!ProcessNext]_(Seen!processVars)
    BY SeenSteps DEF Seen!processVars
  <1> QED
    BY <1>1, <1>2, Invariance, NothingYetInvariance, PTL DEF Spec, KeepsProcess, Seen!Runs
=============================================================================

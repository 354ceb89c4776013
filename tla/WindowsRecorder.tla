--------------------------- MODULE WindowsRecorder --------------------------
(***************************************************************************)
(* The recording loop of src/gator_recorder/windows/main.cpp.  One thread  *)
(* polls the driver; a poll is the number of rows it returned, the host    *)
(* clock when it did, and whether the stream failed on them.  The device   *)
(* gives no UTC: a batch is dated backwards from its receipt, by the span  *)
(* of its rows and then in steps, each rounded on its own.  The polls end  *)
(* where the console handler's flag, or the duration, is seen.             *)
(***************************************************************************)
EXTENDS Integers, SequencesExt

CONSTANTS PeriodNum, PeriodDen,  \* the sample period, in microseconds, is their quotient
          RowsPerRead            \* kRowsPerRead, the rows a poll has room for

\* llround of the duration of k periods.
Micros(k) == (2 * k * PeriodNum + PeriodDen) \div (2 * PeriodDen)

ASSUME PeriodAssumption == {PeriodNum, PeriodDen} \subseteq Nat \ {0} /\ Micros(1) > 0
ASSUME RoomAssumption   == RowsPerRead \in Nat \ {0}

NoTime == -1

\* Mutant: a batch is dated forwards from its receipt.
DatedForwards(poll) == [k \in 1 .. poll.count |-> poll.clock + (k - 1) * Micros(1)]

\* The timestamps of a batch; the clock's zero is a floor.
Batch(poll) ==
  LET first == Max({0, poll.clock - Micros(poll.count - 1)})
  IN  [k \in 1 .. poll.count |-> first + (k - 1) * Micros(1)]

\* Mutant: it is announced with the time of its batch's receipt.
AnnouncedAtReceipt(state, poll) == IF state.start = NoTime THEN poll.clock ELSE state.start

\* START_UTC_US is announced before the first row is handed to the stream, once.
Announced(state, poll) == IF state.start = NoTime THEN Batch(poll)[1] ELSE state.start

\* A poll after a failure is never made.  rows: what was handed to the stream.
Poll(state, poll) ==
  IF state.failed THEN state
  ELSE IF poll.count \notin 0 .. RowsPerRead THEN [state EXCEPT !.failed = TRUE]
  ELSE IF poll.count = 0 THEN state
  ELSE [failed |-> poll.writeFails, start |-> Announced(state, poll),
        rows |-> state.rows \o Batch(poll)]

\* Mutant: the flush is not checked.
FlushUnchecked(state, faults) == ~state.failed /\ "stop" \notin faults

\* The stream has been stopped and flushed.
Flushed(state, faults) == ~state.failed /\ {"stop", "flush"} \cap faults = {}

\* The rows that reach the file: a stream that failed, or was never flushed, keeps a
\* beginning of them, however short.
Written(state, faults, kept) ==
  IF state.failed \/ {"stop", "flush"} \cap faults # {}
  THEN SubSeq(state.rows, 1, Min({kept, Len(state.rows)}))
  ELSE state.rows

\* main, from the start of the stream: what it leaves and what it prints.  The
\* port is closed when the last token has been printed.
Record(polls, faults, kept) ==
  LET state == FoldLeft(Poll, [failed |-> FALSE, start |-> NoTime, rows |-> <<>>], polls)
      done  == Flushed(state, faults) /\ state.rows # <<>>
  IN  [exit |-> IF done /\ "close" \notin faults THEN 0 ELSE 1,
       file |-> Written(state, faults, kept), start |-> state.start,
       last |-> IF done THEN Last(state.rows) ELSE NoTime]
=============================================================================

--------------------------- MODULE ScheduleProofs ---------------------------
(***************************************************************************)
(* Type correctness and the three invariants of Schedule, for every set of *)
(* configurations and every delay of the clock.                            *)
(***************************************************************************)
EXTENDS Schedule, TLAPS

\* A run is dispatched on the grid plus its lateness, and opens its window
\* after the overhead of the start.
Dispatched(n) ==
  /\ log[n].dispatch = GridStart(n) + log[n].lateness
  /\ log[n].start >= log[n].dispatch /\ log[n].start <= log[n].dispatch + Overhead
  /\ n = 1 \/ log[n - 1].end <= GridStart(n) => log[n].lateness <= Wakeup

\* A window that has been measured.
Measured(r) ==
  /\ r.measured
  /\ r.stop >= r.start + config.duration /\ r.stop <= r.start + config.duration + Wakeup

\* A run that has ended.
Done(r) == Measured(r) /\ r.end >= r.stop /\ r.end <= r.stop + Overhead

Last == log[Len(log)]

\* What the program point says of the clock and of the last record.
AtPoint ==
  /\ pc = "begin" => log = <<>>
  /\ pc = "waiting" => IF log = <<>> THEN now = base ELSE Done(Last) /\ now = Last.end
  /\ pc = "starting" =>
       /\ Len(log) < config.runCount
       /\ now >= GridStart(RunNumber)
       /\ log = <<>> \/ (Done(Last) /\ Last.end <= now)
       /\ log = <<>> \/ Last.end <= GridStart(RunNumber) => now <= GridStart(RunNumber) + Wakeup
  /\ pc = "measuring" => /\ log # <<>> /\ Last.measured
                         /\ until = Last.start + config.duration /\ now = Last.start
  /\ pc = "processing" => log # <<>> /\ Measured(Last) /\ now = Last.stop
  /\ pc = "over" => \/ log = <<>> \/ Done(Last)
                    \/ ~Last.measured /\ status = "aborted"
  /\ status = "aborted" => log # <<>> /\ pc = "over" /\ Last.lateness > config.tolerance

IInv ==
  /\ TypeOK
  /\ \A n \in 1 .. Len(log) : Dispatched(n)
  /\ \A n \in 1 .. Len(log) :
       n < Len(log) => Done(log[n]) /\ log[n].end <= log[n + 1].dispatch
  /\ AtPoint
  /\ Feasible => \A n \in 1 .. Len(log) : log[n].lateness <= Wakeup

----------------------------------------------------------------------------
(* The grid, with its product. *)

LEMMA GridType == ASSUME TypeOK, NEW n \in Nat \ {0} PROVE GridStart(n) \in Nat
  <1>1. config.period \in Nat
    BY ScheduleAssumption DEF TypeOK
  <1>2. (n - 1) * config.period \in Nat
    BY <1>1
  <1> QED BY <1>2 DEF GridStart, TypeOK

LEMMA GridFirst == ASSUME TypeOK PROVE GridStart(1) = base
  <1>1. config.period \in Nat
    BY ScheduleAssumption DEF TypeOK
  <1>2. (1 - 1) * config.period = 0
    BY <1>1
  <1> QED BY <1>2 DEF GridStart, TypeOK

LEMMA GridNext == ASSUME TypeOK, NEW n \in Nat \ {0}
                  PROVE GridStart(n + 1) = GridStart(n) + config.period
  <1>1. config.period \in Nat
    BY ScheduleAssumption DEF TypeOK
  <1>2. (n + 1 - 1) * config.period = (n - 1) * config.period + config.period
    BY <1>1
  <1>3. (n - 1) * config.period \in Nat
    BY <1>1
  <1> QED BY <1>1, <1>2, <1>3 DEF GridStart, TypeOK

LEMMA ConfigType == ASSUME TypeOK
                    PROVE /\ config.period \in Nat /\ config.duration \in Nat
                          /\ config.tolerance \in Nat /\ config.runCount \in Nat \ {0}
                          /\ Wakeup \in Nat /\ Overhead \in Nat
  BY ScheduleAssumption DEF TypeOK

\* A feasible run that was dispatched in time ends before the next place on
\* the grid.
LEMMA EndsInTime ==
  ASSUME TypeOK, Feasible, NEW n \in 1 .. Len(log),
         Dispatched(n), Done(log[n]), log[n].lateness <= Wakeup
  PROVE  log[n].end <= GridStart(n + 1)
  <1>1. log[n] \in RunRecord
    BY DEF TypeOK
  <1>2. GridStart(n + 1) = GridStart(n) + config.period /\ GridStart(n) \in Nat
    <2>1. n \in Nat \ {0}
      BY DEF TypeOK
    <2> QED BY <2>1, GridNext, GridType
  <1>3. config.period \in Nat /\ config.duration \in Nat /\ Wakeup \in Nat /\ Overhead \in Nat
    BY ConfigType
  <1> DEFINE r == log[n]
  <1>4. /\ r.dispatch \in Nat /\ r.lateness \in Nat /\ r.start \in Nat
        /\ r.stop \in Nat /\ r.end \in Nat
    BY <1>1 DEF RunRecord
  <1>5. r.dispatch = GridStart(n) + r.lateness /\ r.lateness <= Wakeup
    BY DEF Dispatched
  <1>8. r.start <= r.dispatch + Overhead
    BY DEF Dispatched
  <1>9. r.stop <= r.start + config.duration + Wakeup
    BY DEF Done, Measured
  <1>10. r.end <= r.stop + Overhead
    BY DEF Done
  <1>6. config.period >= config.duration + 2 * Overhead + 2 * Wakeup
    BY DEF Feasible
  <1>7. r.end <= GridStart(n) + config.period
    <2> DEFINE grid == GridStart(n)
    <2> DEFINE window == config.duration
    <2> DEFINE period == config.period
    <2> DEFINE stop == r.stop
    <2> DEFINE end == r.end
    <2> DEFINE start == r.start
    <2>1. grid \in Nat /\ r.dispatch = grid + r.lateness
      BY <1>2, <1>5
    <2> HIDE DEF r, grid
    <2>2. r.dispatch <= grid + Wakeup
      BY <1>3, <1>4, <1>5, <2>1
    <2>3. r.start <= grid + Wakeup + Overhead
      BY <1>3, <1>4, <1>8, <2>1, <2>2
    <2>4. /\ grid \in Nat /\ window \in Nat /\ period \in Nat /\ Wakeup \in Nat
          /\ Overhead \in Nat /\ start \in Nat /\ stop \in Nat /\ end \in Nat
      BY <1>3, <1>4, <2>1
    <2>5. stop <= start + window + Wakeup /\ end <= stop + Overhead
      BY <1>9, <1>10
    <2>6. period >= window + 2 * Overhead + 2 * Wakeup
      BY <1>6
    <2> HIDE DEF window, period, stop, end, start
    <2>7. end <= grid + period
      <3>1. start <= grid + Wakeup + Overhead
        BY <2>3 DEF start
      <3> QED BY <3>1, <2>4, <2>5, <2>6
    <2> QED BY <2>7 DEF grid, period, end
  <1> QED BY <1>2, <1>7 DEF r

\* The lateness of a start is its distance from the grid.
LEMMA LatenessOfStart ==
  ASSUME TypeOK, now >= GridStart(RunNumber)
  PROVE  Lateness \in Nat /\ now = GridStart(RunNumber) + Lateness
  <1>1. GridStart(RunNumber) \in Nat /\ RunNumber \in Nat \ {0}
    BY GridType DEF RunNumber, TypeOK
  <1>2. Planned(RunNumber) = GridStart(RunNumber)
    BY DEF Planned, GridStart
  <1> QED BY <1>1, <1>2 DEF Lateness, TypeOK

----------------------------------------------------------------------------
(* The two steps that add a record. *)

LEMMA RecordAdded ==
  ASSUME IInv, pc = "starting", NEW r \in RunRecord, log' = Append(log, r),
         config' = config, base' = base,
         r.dispatch = now, r.lateness = Lateness, r.start >= now, r.start <= now + Overhead
  PROVE  /\ log' \in Seq(RunRecord) /\ Len(log') <= config.runCount
         /\ Len(log') = Len(log) + 1 /\ log'[Len(log')] = r
         /\ \A n \in 1 .. Len(log') : Dispatched(n)'
         /\ \A n \in 1 .. Len(log') :
              n < Len(log') => Done(log[n])' /\ log'[n].end <= log'[n + 1].dispatch
         /\ Feasible => \A n \in 1 .. Len(log') : log'[n].lateness <= Wakeup
  <1> DEFINE m == Len(log) + 1
  <1>1. /\ log \in Seq(RunRecord) /\ Len(log) \in Nat /\ Len(log) < config.runCount
        /\ config.runCount \in Nat
    BY ConfigType DEF IInv, TypeOK, AtPoint
  <1>2. /\ log' \in Seq(RunRecord) /\ Len(log') = m /\ log'[m] = r
        /\ \A n \in 1 .. Len(log) : log'[n] = log[n]
    BY <1>1
  <1>3. \A n \in Nat : GridStart(n)' = GridStart(n)
    BY DEF GridStart
  <1>4. RunNumber = m
    BY DEF RunNumber
  <1>5. Lateness \in Nat /\ now = GridStart(m) + Lateness
    BY <1>4, LatenessOfStart DEF IInv, AtPoint
  <1>6. GridStart(m) \in Nat /\ now \in Nat /\ Wakeup \in Nat
    BY <1>1, GridType, ConfigType DEF IInv, TypeOK
  <1>7. log = <<>> \/ log[Len(log)].end <= GridStart(m) => Lateness <= Wakeup
    BY <1>4, <1>5, <1>6 DEF IInv, AtPoint, Last
  <1>8. \A n \in 1 .. m : Dispatched(n)'
    <2> SUFFICES ASSUME NEW n \in 1 .. m PROVE Dispatched(n)'
      OBVIOUS
    <2>1. CASE n = m
      <3>1. n = 1 \/ log'[n - 1].end <= GridStart(n) => Lateness <= Wakeup
        <4>1. CASE n = 1
          <5>1. log = <<>>
            BY <1>1, <2>1, <4>1
          <5> QED BY <5>1, <1>7
        <4>2. CASE n # 1
          <5>1. n - 1 = Len(log) /\ Len(log) \in 1 .. Len(log)
            BY <1>1, <2>1, <4>2
          <5> QED BY <5>1, <1>2, <1>7, <2>1, <4>2
        <4> QED BY <4>1, <4>2
      <3> QED BY <1>1, <1>2, <1>3, <1>5, <2>1, <3>1 DEF Dispatched
    <2>2. CASE n \in 1 .. Len(log)
      <3>1. Dispatched(n)
        BY <2>2 DEF IInv
      <3>2. n = 1 \/ (n - 1 \in 1 .. Len(log) /\ log'[n - 1] = log[n - 1])
        BY <1>1, <1>2, <2>2
      <3> QED BY <1>1, <1>2, <1>3, <2>2, <3>1, <3>2 DEF Dispatched
    <2> QED BY <1>1, <2>1, <2>2
  <1>9. \A n \in 1 .. m : n < m => Done(log[n])' /\ log'[n].end <= log'[n + 1].dispatch
    <2> SUFFICES ASSUME NEW n \in 1 .. m, n < m
                 PROVE  Done(log[n])' /\ log'[n].end <= log'[n + 1].dispatch
      OBVIOUS
    <2>1. n \in 1 .. Len(log) /\ log'[n] = log[n]
      BY <1>1, <1>2
    <2>2. CASE n = Len(log)
      <3>1. Done(log[n]) /\ log[n].end <= now
        BY <1>1, <2>1, <2>2 DEF IInv, AtPoint, Last
      <3> QED BY <1>2, <2>1, <2>2, <3>1 DEF Done, Measured
    <2>3. CASE n < Len(log)
      <3>1. Done(log[n]) /\ log[n].end <= log[n + 1].dispatch
        BY <2>1, <2>3 DEF IInv
      <3>2. log'[n + 1] = log[n + 1]
        BY <1>1, <1>2, <2>1, <2>3
      <3> QED BY <2>1, <3>1, <3>2 DEF Done, Measured
    <2> QED BY <1>1, <2>1, <2>2, <2>3
  <1>10. Feasible => \A n \in 1 .. m : log'[n].lateness <= Wakeup
    <2> SUFFICES ASSUME Feasible, NEW n \in 1 .. m PROVE log'[n].lateness <= Wakeup
      OBVIOUS
    <2>1. CASE n \in 1 .. Len(log)
      BY <1>2, <2>1 DEF IInv
    <2>2. CASE n = m
      <3>1. CASE log = <<>>
        BY <1>2, <1>7, <2>2, <3>1
      <3>2. CASE log # <<>>
        <4>1. Len(log) \in 1 .. Len(log)
          BY <1>1, <3>2
        <4>2. Done(log[Len(log)])
          BY <3>2 DEF IInv, AtPoint, Last
        <4>3. log[Len(log)].end <= GridStart(m)
          BY <4>1, <4>2, EndsInTime DEF IInv
        <4> QED BY <1>2, <1>7, <2>2, <4>3
      <3> QED BY <3>1, <3>2
    <2> QED BY <1>1, <2>1, <2>2
  <1> QED BY <1>1, <1>2, <1>8, <1>9, <1>10

\* A step that changes only the last record's stop or end keeps every record
\* where it was dispatched.
LEMMA LastChanged ==
  ASSUME IInv, log # <<>>, config' = config, base' = base, NEW r \in RunRecord,
         log' = [log EXCEPT ![Len(log)] = r],
         r.dispatch = Last.dispatch, r.lateness = Last.lateness, r.start = Last.start
  PROVE  /\ log' \in Seq(RunRecord) /\ Len(log') = Len(log) /\ log' # <<>>
         /\ log'[Len(log')] = r
         /\ \A n \in 1 .. Len(log') : Dispatched(n)'
         /\ \A n \in 1 .. Len(log') :
              n < Len(log') => Done(log[n])' /\ log'[n].end <= log'[n + 1].dispatch
         /\ Feasible => \A n \in 1 .. Len(log') : log'[n].lateness <= Wakeup
  <1> DEFINE m == Len(log)
  <1>1. log \in Seq(RunRecord) /\ m \in Nat /\ m \in 1 .. m
    BY DEF IInv, TypeOK
  <1>2. /\ log' \in Seq(RunRecord) /\ Len(log') = m /\ log'[m] = r
        /\ \A n \in 1 .. m : n # m => log'[n] = log[n]
    BY <1>1
  <1>3. \A n \in Nat : GridStart(n)' = GridStart(n)
    BY DEF GridStart
  <1>4. \A n \in 1 .. m : /\ log'[n].dispatch = log[n].dispatch
                          /\ log'[n].lateness = log[n].lateness
                          /\ log'[n].start = log[n].start
    BY <1>1, <1>2 DEF Last
  <1>5. \A n \in 1 .. m : Dispatched(n)'
    <2> SUFFICES ASSUME NEW n \in 1 .. m PROVE Dispatched(n)'
      OBVIOUS
    <2>1. Dispatched(n)
      BY DEF IInv
    <2>2. n = 1 \/ (n - 1 \in 1 .. m /\ n - 1 # m)
      BY <1>1
    <2>3. n = 1 \/ log'[n - 1] = log[n - 1]
      BY <1>2, <2>2
    <2> QED BY <1>1, <1>3, <1>4, <2>1, <2>3 DEF Dispatched
  <1>6. \A n \in 1 .. m : n < m => Done(log[n])' /\ log'[n].end <= log'[n + 1].dispatch
    <2> SUFFICES ASSUME NEW n \in 1 .. m, n < m
                 PROVE  Done(log[n])' /\ log'[n].end <= log'[n + 1].dispatch
      OBVIOUS
    <2>1. Done(log[n]) /\ log[n].end <= log[n + 1].dispatch
      BY DEF IInv
    <2>2. n \in 1 .. m /\ n # m /\ n + 1 \in 1 .. m
      BY <1>1
    <2>3. log'[n] = log[n] /\ log'[n + 1].dispatch = log[n + 1].dispatch
      BY <1>2, <1>4, <2>2
    <2> QED BY <2>1, <2>3 DEF Done, Measured
  <1>7. Feasible => \A n \in 1 .. m : log'[n].lateness <= Wakeup
    BY <1>4 DEF IInv
  <1>9. Len(log') = m
    BY <1>2
  <1>8. log' # <<>>
    <2> SUFFICES ASSUME log' = <<>> PROVE FALSE
      OBVIOUS
    <2>1. Len(log') = 0
      OBVIOUS
    <2> QED BY <1>1, <1>9, <2>1
  <1>10. log' \in Seq(RunRecord) /\ log'[Len(log')] = r
    BY <1>2, <1>9
  <1>11. /\ \A n \in 1 .. Len(log') : Dispatched(n)'
         /\ \A n \in 1 .. Len(log') :
              n < Len(log') => Done(log[n])' /\ log'[n].end <= log'[n + 1].dispatch
         /\ Feasible => \A n \in 1 .. Len(log') : log'[n].lateness <= Wakeup
    <2> DEFINE A(n) == Dispatched(n)'
    <2> DEFINE B(n) == Done(log[n])' /\ log'[n].end <= log'[n + 1].dispatch
    <2>1. \A n \in 1 .. m : A(n) /\ (n < m => B(n))
      BY <1>5, <1>6
    <2> HIDE DEF m, A, B
    <2>2. \A n \in 1 .. Len(log') : A(n) /\ (n < Len(log') => B(n))
      BY <2>1, <1>9
    <2>3. Feasible => \A n \in 1 .. Len(log') : log'[n].lateness <= Wakeup
      BY <1>7, <1>9
    <2> QED BY <2>2, <2>3 DEF A, B
  <1> QED BY <1>8, <1>9, <1>10, <1>11

\* A step that leaves the log alone.
LEMMA LogKept ==
  ASSUME IInv, config' = config, log' = log, base' = base \/ log = <<>>
  PROVE  /\ \A n \in 1 .. Len(log') : Dispatched(n)'
         /\ \A n \in 1 .. Len(log') :
              n < Len(log') => Done(log[n])' /\ log'[n].end <= log'[n + 1].dispatch
         /\ Feasible' => \A n \in 1 .. Len(log') : log'[n].lateness <= Wakeup
  <1>1. CASE log = <<>>
    BY <1>1
  <1>2. CASE base' = base
    <2>1. \A n \in Nat : GridStart(n)' = GridStart(n)
      BY <1>2 DEF GridStart
    <2>2. \A n \in 1 .. Len(log) : n \in Nat /\ Dispatched(n)
      BY DEF IInv, TypeOK
    <2> QED BY <2>1, <2>2 DEF IInv, Dispatched, Done, Measured, Feasible
  <1> QED BY <1>1, <1>2

----------------------------------------------------------------------------
LEMMA InitIInv == Init => IInv
  <1> SUFFICES ASSUME Init PROVE IInv
    OBVIOUS
  <1>1. config \in Configs /\ config.runCount \in Nat \ {0}
    BY ScheduleAssumption DEF Init
  <1>2. TypeOK
    BY <1>1, ScheduleAssumption DEF Init, TypeOK
  <1> QED BY <1>2 DEF Init, IInv, AtPoint

LEMMA NextIInv == IInv /\ [Next]_vars => IInv'
  <1> SUFFICES ASSUME IInv, [Next]_vars PROVE IInv'
    OBVIOUS
  <1> USE DEF IInv
  <1>0. /\ config.duration \in Nat /\ config.runCount \in Nat \ {0}
        /\ Wakeup \in Nat /\ Overhead \in Nat
        /\ now \in Nat /\ until \in Nat /\ base \in Nat
    BY ConfigType DEF TypeOK
  <1>1. CASE SeriesBegins
    <2>1. TypeOK' /\ log' = <<>> /\ config' = config
      BY <1>1 DEF SeriesBegins, TypeOK, AtPoint
    <2>2. AtPoint'
      BY <1>1, <2>1 DEF SeriesBegins, AtPoint, TypeOK
    <2> QED BY <1>1, <2>1, <2>2, LogKept DEF SeriesBegins, AtPoint
  <1>2. CASE WaitForStart
    <2>1. RunNumber \in Nat \ {0} /\ RunNumber' = RunNumber /\ Len(log) \in Nat
          /\ Len(log) < config.runCount
      BY <1>2, ConfigType DEF WaitForStart, MoreRuns, RunNumber, TypeOK
    <2>2. GridStart(RunNumber) \in Nat /\ GridStart(RunNumber)' = GridStart(RunNumber)
      BY <1>2, <2>1, GridType DEF WaitForStart, GridStart
    <2>3. Planned(RunNumber) = GridStart(RunNumber)
      BY DEF Planned, GridStart
    <2>4. /\ now' \in Nat /\ now' >= GridStart(RunNumber) /\ now' >= now
          /\ now <= GridStart(RunNumber) => now' <= GridStart(RunNumber) + Wakeup
      BY <1>2, <2>2, <2>3, ConfigType DEF WaitForStart, WaitUntil, TypeOK
    <2>5. TypeOK'
      BY <1>2, <2>4 DEF WaitForStart, TypeOK
    <2>6. AtPoint'
      <3>1. log = <<>> => now = base /\ GridStart(RunNumber) = base
        BY <1>2, GridFirst DEF WaitForStart, AtPoint, RunNumber
      <3>2. log # <<>> => Done(Last) /\ now = Last.end
        BY <1>2 DEF WaitForStart, AtPoint
      <3>3. Last' = Last /\ log' = log /\ config' = config /\ pc' = "starting" /\ status # "aborted"
            /\ status' = status
        BY <1>2 DEF WaitForStart, Last, AtPoint
      <3>4. Done(Last) => Done(Last)'
        BY <3>3 DEF Done, Measured
      <3>5. log = <<>> \/ Last.end <= GridStart(RunNumber) => now <= GridStart(RunNumber)
        BY <2>2, <3>1, <3>2 DEF TypeOK
      <3> QED BY <2>1, <2>2, <2>4, <3>1, <3>2, <3>3, <3>4, <3>5 DEF AtPoint
    <2> QED BY <1>2, <2>5, <2>6, LogKept DEF WaitForStart
  <1>3. CASE MissedStart
    <2>1. now >= GridStart(RunNumber) /\ pc = "starting"
      BY <1>3 DEF MissedStart, AtPoint
    <2>2. Lateness \in Nat
      BY <2>1, LatenessOfStart
    <2>3. Record(FALSE) \in RunRecord
      BY <2>2 DEF Record, RunRecord, TypeOK
    <2>4. now \in Nat /\ Overhead \in Nat
      BY ConfigType DEF TypeOK
    <2> DEFINE r == Record(FALSE)
    <2>5. r.dispatch = now /\ r.lateness = Lateness /\ r.start >= now /\ r.start <= now + Overhead
          /\ ~r.measured
      BY <2>4 DEF Record
    <2> HIDE DEF r
    <2>6. log' = Append(log, r) /\ config' = config /\ base' = base /\ r \in RunRecord
      BY <1>3, <2>3 DEF MissedStart, r
    <2>7. /\ log' \in Seq(RunRecord) /\ Len(log') <= config.runCount
          /\ Len(log') = Len(log) + 1 /\ log'[Len(log')] = r
          /\ \A n \in 1 .. Len(log') : Dispatched(n)'
          /\ \A n \in 1 .. Len(log') :
               n < Len(log') => Done(log[n])' /\ log'[n].end <= log'[n + 1].dispatch
          /\ Feasible => \A n \in 1 .. Len(log') : log'[n].lateness <= Wakeup
      BY <2>1, <2>5, <2>6, RecordAdded
    <2>8. TypeOK'
      BY <1>3, <2>6, <2>7 DEF MissedStart, TypeOK
    <2>9. AtPoint'
      <3>1. Lateness > config.tolerance
        BY <1>3 DEF MissedStart, Missed
      <3>2. log' # <<>> /\ Last' = r
        BY <2>7 DEF Last, TypeOK
      <3> QED BY <1>3, <2>5, <2>6, <3>1, <3>2 DEF MissedStart, AtPoint
    <2> QED BY <2>6, <2>7, <2>8, <2>9 DEF Feasible
  <1>4. CASE StartRun
    <2>1. now >= GridStart(RunNumber) /\ pc = "starting"
      BY <1>4 DEF StartRun, AtPoint
    <2>2. Lateness \in Nat
      BY <2>1, LatenessOfStart
    <2>3. now' \in Nat /\ now' >= now /\ now' <= now + Overhead
      BY <1>0, <1>4 DEF StartRun, Busy
    <2> DEFINE r == [Record(TRUE) EXCEPT !.start = now']
    <2>4. r.dispatch = now /\ r.lateness = Lateness /\ r.start = now' /\ r.measured
      BY DEF Record
    <2>5. r \in RunRecord
      BY <2>2, <2>3 DEF Record, RunRecord, TypeOK
    <2> HIDE DEF r
    <2>6. log' = Append(log, r) /\ config' = config /\ base' = base
      BY <1>4 DEF StartRun, r
    <2>7. /\ log' \in Seq(RunRecord) /\ Len(log') <= config.runCount
          /\ Len(log') = Len(log) + 1 /\ log'[Len(log')] = r
          /\ \A n \in 1 .. Len(log') : Dispatched(n)'
          /\ \A n \in 1 .. Len(log') :
               n < Len(log') => Done(log[n])' /\ log'[n].end <= log'[n + 1].dispatch
          /\ Feasible => \A n \in 1 .. Len(log') : log'[n].lateness <= Wakeup
      BY <2>1, <2>3, <2>4, <2>5, <2>6, RecordAdded
    <2>8. TypeOK'
      BY <1>4, <2>3, <2>6, <2>7, ConfigType DEF StartRun, TypeOK
    <2>9. AtPoint'
      <3>1. log' # <<>> /\ Last' = r
        BY <2>7 DEF Last, TypeOK
      <3>2. status # "aborted" /\ status' = status /\ pc' = "measuring"
            /\ until' = now' + config.duration
        BY <1>4 DEF StartRun, AtPoint
      <3> QED BY <2>4, <2>6, <3>1, <3>2 DEF AtPoint
    <2> QED BY <2>6, <2>7, <2>8, <2>9 DEF Feasible
  <1>5. CASE MeasureWindow
    <2>1. /\ pc = "measuring" /\ log # <<>> /\ Last.measured
          /\ until = Last.start + config.duration /\ now = Last.start
      BY <1>5 DEF MeasureWindow, AtPoint
    <2>2. Last \in RunRecord /\ Len(log) \in 1 .. Len(log) /\ Len(log) \in Nat
      BY <2>1 DEF TypeOK, Last
    <2>3. now' \in Nat /\ now' >= until /\ now' <= until + Wakeup
      <3>1. until = now + config.duration
        BY <2>1
      <3> QED BY <1>0, <1>5, <3>1 DEF MeasureWindow, WaitUntil, Window
    <2> DEFINE r == [Last EXCEPT !.stop = now']
    <2>4. r \in RunRecord /\ r.dispatch = Last.dispatch /\ r.lateness = Last.lateness
          /\ r.start = Last.start /\ r.stop = now' /\ r.measured = Last.measured
      BY <2>2, <2>3 DEF RunRecord
    <2>5. log' = [log EXCEPT ![Len(log)] = r]
      BY <1>5, <2>2 DEF MeasureWindow, Last, TypeOK
    <2> HIDE DEF r
    <2>6. config' = config /\ base' = base
      BY <1>5 DEF MeasureWindow
    <2>7. /\ log' \in Seq(RunRecord) /\ Len(log') = Len(log) /\ log' # <<>>
          /\ log'[Len(log')] = r
          /\ \A n \in 1 .. Len(log') : Dispatched(n)'
          /\ \A n \in 1 .. Len(log') :
               n < Len(log') => Done(log[n])' /\ log'[n].end <= log'[n + 1].dispatch
          /\ Feasible => \A n \in 1 .. Len(log') : log'[n].lateness <= Wakeup
      BY <2>1, <2>4, <2>5, <2>6, LastChanged
    <2>8. TypeOK'
      BY <1>5, <2>3, <2>6, <2>7 DEF MeasureWindow, TypeOK
    <2>9. AtPoint'
      <3>1. Last' = r
        BY <2>7 DEF Last
      <3>2. Measured(r)
        BY <1>0, <2>1, <2>2, <2>3, <2>4 DEF Measured, RunRecord
      <3>3. status # "aborted" /\ status' = status /\ pc' = "processing"
        BY <1>5 DEF MeasureWindow, AtPoint
      <3>4. Measured(Last)'
        BY <3>1, <3>2, <2>6 DEF Measured, Last
      <3> QED BY <2>4, <2>7, <3>1, <3>3, <3>4 DEF AtPoint
    <2> QED BY <2>6, <2>7, <2>8, <2>9 DEF Feasible
  <1>6. CASE AppendRun
    <2>1. log # <<>> /\ Measured(Last) /\ now = Last.stop
      BY <1>6 DEF AppendRun, AtPoint
    <2>2. Last \in RunRecord /\ Len(log) \in 1 .. Len(log) /\ Len(log) \in Nat
      BY <2>1 DEF TypeOK, Last
    <2>3. now' \in Nat /\ now' >= now /\ now' <= now + Overhead
      BY <1>0, <1>6 DEF AppendRun, Busy
    <2> DEFINE r == [Last EXCEPT !.end = now']
    <2>4. r \in RunRecord /\ r.dispatch = Last.dispatch /\ r.lateness = Last.lateness
          /\ r.start = Last.start /\ r.stop = Last.stop /\ r.end = now' /\ r.measured = Last.measured
      BY <2>2, <2>3 DEF RunRecord
    <2>5. log' = [log EXCEPT ![Len(log)] = r]
      BY <1>6, <2>2 DEF AppendRun, Last, TypeOK
    <2> HIDE DEF r
    <2>6. config' = config /\ base' = base
      BY <1>6 DEF AppendRun
    <2>7. /\ log' \in Seq(RunRecord) /\ Len(log') = Len(log) /\ log' # <<>>
          /\ log'[Len(log')] = r
          /\ \A n \in 1 .. Len(log') : Dispatched(n)'
          /\ \A n \in 1 .. Len(log') :
               n < Len(log') => Done(log[n])' /\ log'[n].end <= log'[n + 1].dispatch
          /\ Feasible => \A n \in 1 .. Len(log') : log'[n].lateness <= Wakeup
      BY <2>1, <2>4, <2>5, <2>6, LastChanged
    <2>8. TypeOK'
      BY <1>6, <2>3, <2>6, <2>7 DEF AppendRun, TypeOK
    <2>9. AtPoint'
      <3>1. Last' = r
        BY <2>7 DEF Last
      <3>2. Done(Last)'
        BY <2>1, <2>3, <2>4, <2>6, <3>1 DEF Measured, Done
      <3>3. status # "aborted" /\ status' = status /\ pc' = "waiting"
        BY <1>6 DEF AppendRun, AtPoint
      <3> QED BY <2>4, <2>7, <3>1, <3>2, <3>3 DEF AtPoint
    <2> QED BY <2>6, <2>7, <2>8, <2>9 DEF Feasible
  <1>7. CASE SeriesEnds
    <2>1. TypeOK'
      BY <1>7 DEF SeriesEnds, TypeOK
    <2>2. AtPoint'
      <3>1. Last' = Last /\ log' = log /\ config' = config
        BY <1>7 DEF SeriesEnds, Last
      <3>2. log = <<>> \/ Done(Last)'
        BY <1>7, <3>1 DEF SeriesEnds, AtPoint, Done, Measured
      <3> QED BY <1>7, <3>1, <3>2 DEF SeriesEnds, AtPoint
    <2> QED BY <1>7, <2>1, <2>2, LogKept DEF SeriesEnds
  <1>8. CASE UNCHANGED vars
    <2>1. TypeOK'
      BY <1>8 DEF vars, TypeOK
    <2>2. AtPoint'
      BY <1>8 DEF vars, AtPoint, Last, RunNumber, GridStart, Done, Measured
    <2> QED BY <1>8, <2>1, <2>2, LogKept DEF vars
  <1> QED BY <1>1, <1>2, <1>3, <1>4, <1>5, <1>6, <1>7, <1>8 DEF Next

THEOREM Invariance == Spec => []IInv
  BY InitIInv, NextIInv, PTL DEF Spec

\* session.py:134-217, type correctness of the schedule.
THEOREM TypeCorrect == Spec => []TypeOK
  <1>1. IInv => TypeOK
    BY DEF IInv
  <1> QED BY <1>1, Invariance, PTL

\* session.py:145-151.  The grid never moves and no run leaves it for long.
LEMMA StaysOnGrid == Spec => []OnGrid
  <1>1. IInv => OnGrid
    <2> SUFFICES ASSUME IInv, NEW n \in 1 .. Len(log)
                 PROVE  /\ log[n].dispatch >= GridStart(n)
                        /\ n = 1 \/ log[n - 1].end <= GridStart(n)
                             => log[n].dispatch <= GridStart(n) + Wakeup
      BY DEF OnGrid
    <2>1. Dispatched(n) /\ log[n] \in RunRecord /\ GridStart(n) \in Nat /\ Wakeup \in Nat
      BY GridType, ConfigType DEF IInv, TypeOK
    <2> QED BY <2>1 DEF Dispatched, RunRecord
  <1> QED BY <1>1, Invariance, PTL

\* session.py:337-345.  Every measured window is whole and before the next run.
LEMMA WholeWindows == Spec => []WindowsAreWhole
  <1>1. IInv => WindowsAreWhole
    <2> SUFFICES ASSUME IInv, NEW n \in 1 .. Len(log)
                 PROVE  /\ log[n].measured /\ (n < Len(log) \/ pc # "measuring")
                             => log[n].stop >= log[n].start + config.duration
                        /\ n < Len(log) => log[n].stop <= log[n + 1].dispatch
      BY DEF WindowsAreWhole
    <2>1. log \in Seq(RunRecord) /\ Len(log) \in Nat /\ log[n] \in RunRecord
      BY DEF IInv, TypeOK
    <2>2. CASE n < Len(log)
      <3>1. Done(log[n]) /\ log[n].end <= log[n + 1].dispatch /\ log[n + 1] \in RunRecord
        BY <2>1, <2>2 DEF IInv
      <3>2. config.duration \in Nat
        BY ConfigType DEF IInv
      <3> DEFINE r == log[n]
      <3> DEFINE q == log[n + 1]
      <3>3. /\ r.start \in Nat /\ r.stop \in Nat /\ r.end \in Nat /\ q.dispatch \in Nat
        BY <2>1, <3>1 DEF RunRecord
      <3>4. r.stop >= r.start + config.duration /\ r.end >= r.stop /\ r.end <= q.dispatch
        BY <3>1 DEF Done, Measured
      <3> HIDE DEF r, q
      <3>5. r.stop <= q.dispatch
        BY <3>3, <3>4
      <3> QED BY <3>4, <3>5 DEF r, q
    <2>3. CASE n = Len(log) /\ pc # "measuring"
      <3>1. log[n].measured => Measured(log[n])
        BY <2>1, <2>3 DEF IInv, AtPoint, Last, Done, TypeOK
      <3> QED BY <2>1, <2>3, <3>1 DEF Measured
    <2> QED BY <2>1, <2>2, <2>3
  <1> QED BY <1>1, Invariance, PTL

\* session.py:145-151, 337-345.  Windows are whole and stay on the grid.
THEOREM WholeWindowsOnGrid == Spec => []WindowsStayOnGrid
  <1>1. OnGrid /\ WindowsAreWhole => WindowsStayOnGrid
    BY DEF WindowsStayOnGrid
  <1> QED BY <1>1, StaysOnGrid, WholeWindows, PTL

\* session.py:151-177.  A series whose period leaves room is never aborted.
THEOREM FeasibleSeries == Spec => []FeasibleIsNeverMissed
  <1>1. IInv => FeasibleIsNeverMissed
    <2> SUFFICES ASSUME IInv, Feasible
                 PROVE  /\ status # "aborted"
                        /\ \A n \in 1 .. Len(log) : log[n].lateness <= config.tolerance
      BY DEF FeasibleIsNeverMissed
    <2>1. \A n \in 1 .. Len(log) : log[n].lateness <= config.tolerance
      <3>1. Wakeup \in Nat /\ config.tolerance \in Nat
        BY ConfigType DEF IInv
      <3>2. \A n \in 1 .. Len(log) : log[n] \in RunRecord
        BY DEF IInv, TypeOK
      <3> QED BY <3>1, <3>2 DEF IInv, Feasible, RunRecord
    <2>2. status # "aborted"
      <3> SUFFICES ASSUME status = "aborted" PROVE FALSE
        OBVIOUS
      <3>1. log # <<>> /\ log[Len(log)].lateness > config.tolerance
        BY DEF IInv, AtPoint, Last
      <3>2. Len(log) \in 1 .. Len(log) /\ log[Len(log)] \in RunRecord
        BY <3>1 DEF IInv, TypeOK
      <3> QED BY <2>1, <3>1, <3>2, ConfigType DEF RunRecord, IInv
    <2> QED BY <2>1, <2>2
  <1> QED BY <1>1, Invariance, PTL
=============================================================================

------------------------------ MODULE Schedule ------------------------------
(***************************************************************************)
(* The schedule of a series (src/tbdaq/session.py, run): starts planned on *)
(* a fixed grid of the monotonic clock, the wait for the next of them, the *)
(* lateness of a start and what is done about it, and the measurement      *)
(* window.  Session.tla says what a run does; here a run is the time it    *)
(* takes.  Time is a number of ticks: it may pass while the program works, *)
(* and a wait ends at its target or a little later.                        *)
(***************************************************************************)
EXTENDS Naturals, Sequences

CONSTANTS Configs,    \* the session configurations
          Wakeup,     \* bound: ticks by which a wait may end late
          Overhead    \* bound: ticks of the work before, and after, a window

\* config.py:108-122: a series has a period that holds the window; a single
\* run is a series of one.
ASSUME ScheduleAssumption ==
  /\ Wakeup \in Nat /\ Overhead \in Nat
  /\ Configs \subseteq [period : Nat, duration : Nat \ {0}, tolerance : Nat,
                        policy : {"abort", "start_late"}, runCount : Nat \ {0}]
  /\ \A c \in Configs : c.runCount > 1 => c.period >= c.duration

VARIABLES
  config,  \* never changes
  now,     \* the monotonic clock
  base,    \* its value when the series began
  pc,      \* "begin", "waiting", "starting", "measuring", "processing", "over"
  until,   \* the end of the open measurement window
  log,     \* what each run leaves: dispatch, lateness, window start and stop, end
  status   \* "none", "success" or "aborted"

vars == <<config, now, base, pc, until, log, status>>

Init ==
  /\ config \in Configs /\ now \in 0 .. Wakeup
  /\ base = 0 /\ pc = "begin" /\ until = 0 /\ log = <<>> /\ status = "none"

\* Time passes while the program is busy.
Busy == \E ticks \in 0 .. Overhead : now' = now + ticks

\* _wait_until: short sleeps until the target has passed.  A target in the
\* past is not waited for.
WaitUntil(target) ==
  IF target <= now THEN now' = now
  ELSE \E ticks \in 0 .. Wakeup : now' = target + ticks

RunNumber == Len(log) + 1

\* Mutant: the period is counted from the start before.
PlannedFromLast(n) ==
  IF n = 1 THEN base ELSE log[n - 1].dispatch + config.period

Planned(n) == base + (n - 1) * config.period
Lateness == IF now > Planned(RunNumber) THEN now - Planned(RunNumber) ELSE 0

\* Mutant: the tolerance itself is too late.
MissedAtTolerance == Lateness >= config.tolerance

Missed == Lateness > config.tolerance

Record(measured) == [dispatch |-> now, lateness |-> Lateness, measured |-> measured,
                     start |-> now, stop |-> now, end |-> now]

SeriesBegins ==
  /\ pc = "begin" /\ base' = now /\ pc' = "waiting"
  /\ UNCHANGED <<config, now, until, log, status>>

\* Mutant: one run too many.
MoreRunsOffByOne == RunNumber - 1 <= config.runCount

MoreRuns == RunNumber <= config.runCount

WaitForStart ==
  /\ pc = "waiting" /\ MoreRuns
  /\ WaitUntil(Planned(RunNumber))
  /\ pc' = "starting"
  /\ UNCHANGED <<config, base, until, log, status>>

\* A missed start under the abort policy leaves an aborted record and no run.
MissedStart ==
  /\ pc = "starting" /\ Missed /\ config.policy = "abort"
  /\ log' = Append(log, Record(FALSE))
  /\ status' = "aborted" /\ pc' = "over"
  /\ UNCHANGED <<config, now, base, until>>

\* The sensors are started, which takes time; then the window opens.
\* _wait_duration: it is counted from its own beginning, not from the grid.
StartRun ==
  /\ pc = "starting" /\ ~(Missed /\ config.policy = "abort")
  /\ Busy
  /\ log' = Append(log, [Record(TRUE) EXCEPT !.start = now'])
  /\ until' = now' + config.duration
  /\ pc' = "measuring"
  /\ UNCHANGED <<config, base, status>>

\* Mutant: the window ends where the grid says.
GridWindow == Planned(Len(log)) + config.duration

Window == until

MeasureWindow ==
  /\ pc = "measuring"
  /\ WaitUntil(Window)
  /\ log' = [log EXCEPT ![Len(log)].stop = now']
  /\ pc' = "processing"
  /\ UNCHANGED <<config, base, until, status>>

\* Stop, remount, offload and processing; then the next run.
AppendRun ==
  /\ pc = "processing"
  /\ Busy
  /\ log' = [log EXCEPT ![Len(log)].end = now']
  /\ pc' = "waiting"
  /\ UNCHANGED <<config, base, until, status>>

SeriesEnds ==
  /\ pc = "waiting" /\ ~MoreRuns
  /\ status' = "success" /\ pc' = "over"
  /\ UNCHANGED <<config, now, base, until, log>>

Next == \/ SeriesBegins \/ WaitForStart \/ MissedStart \/ StartRun
        \/ MeasureWindow \/ AppendRun \/ SeriesEnds

Spec == Init /\ [][Next]_vars

----------------------------------------------------------------------------
(* Properties. *)

RunRecord == [dispatch : Nat, lateness : Nat, measured : BOOLEAN,
              start : Nat, stop : Nat, end : Nat]

TypeOK ==
  /\ config \in Configs /\ now \in Nat /\ base \in Nat /\ until \in Nat
  /\ pc \in {"begin", "waiting", "starting", "measuring", "processing", "over"}
  /\ log \in Seq(RunRecord) /\ Len(log) <= config.runCount
  /\ status \in {"none", "success", "aborted"}

\* The start the configuration promises for run n.
GridStart(n) == base + (n - 1) * config.period

\* session.py:145-151.  The schedule does not drift: no run is dispatched before
\* its place on the grid, and one whose predecessor ended in time is dispatched
\* there, however late the runs before it were.
OnGrid ==
  \A n \in 1 .. Len(log) :
    /\ log[n].dispatch >= GridStart(n)
    /\ n = 1 \/ log[n - 1].end <= GridStart(n) => log[n].dispatch <= GridStart(n) + Wakeup

\* session.py:337-345, 605-613.  A window that has been measured lasted at least
\* run_duration_s although its run may have started late, and ended before the
\* next run was dispatched.
WindowsAreWhole ==
  \A n \in 1 .. Len(log) :
    /\ log[n].measured /\ (n < Len(log) \/ pc # "measuring")
         => log[n].stop >= log[n].start + config.duration
    /\ n < Len(log) => log[n].stop <= log[n + 1].dispatch

\* session.py:145-151, 337-345.  Windows are whole and stay on the grid, whatever the
\* work between them takes.
WindowsStayOnGrid == OnGrid /\ WindowsAreWhole

\* The period leaves room for the window, the work around it and two waits that
\* end late, and the tolerance covers one of them.
Feasible ==
  /\ config.period >= config.duration + 2 * Overhead + 2 * Wakeup
  /\ config.tolerance >= Wakeup

\* session.py:151-177.  A feasible series never misses a start, under either
\* policy: the lateness of one run is not passed on to the next, and a start
\* exactly at the tolerance is in time.
FeasibleIsNeverMissed ==
  Feasible => /\ status # "aborted"
              /\ \A n \in 1 .. Len(log) : log[n].lateness <= config.tolerance
=============================================================================

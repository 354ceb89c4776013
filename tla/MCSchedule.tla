----------------------------- MODULE MCSchedule -----------------------------
EXTENDS Schedule
\* Periods shorter than, equal to and longer than what a run takes (2 ticks of
\* window, up to 2 of work, up to 2 of late waits); tolerances around Wakeup.
MCConfigs ==
  {c \in [period : {0, 2, 4, 6, 7}, duration : {2}, tolerance : 0 .. 2,
          policy : {"abort", "start_late"}, runCount : {1, 3}] :
     c.runCount > 1 => c.period >= c.duration}
=============================================================================

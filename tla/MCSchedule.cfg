SPECIFICATION Spec
CONSTANTS
  Configs <- MCConfigs
  Wakeup = 1
  Overhead = 1
\* A series that is over does nothing more.
CHECK_DEADLOCK FALSE
INVARIANTS
  TypeOK
  WindowsStayOnGrid
  FeasibleIsNeverMissed

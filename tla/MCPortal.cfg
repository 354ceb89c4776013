SPECIFICATION Spec
CONSTANTS
  t1 = t1
  t2 = t2
  short = short
  long = long
  NoLabel = NoLabel
  NumSessions = 2
  MaxRuns = 2
  Label = {short, long}
  TextSize <- MCTextSize
  Thread <- MCThread
  Scenarios <- MCScenarios
  MaxRequests = 3
  MaxFaults = 1
  QueueSize = 2
CHECK_DEADLOCK FALSE
INVARIANTS
  TypeOK
  LabelsSurvive
  ListingIsCurrent
  ArchiveIsWhole
PROPERTY StreamEnds

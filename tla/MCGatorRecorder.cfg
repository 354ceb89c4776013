SPECIFICATION FairSpec
CONSTANTS
    Capacity = 2
    MaxSamples = 7
    MaxFaults = 1
INVARIANTS
    TypeOK
    RowsConserved
    ExitIsHonest
PROPERTIES
    KeepsProcess
    StopExits
\* A write error can block the recorder for good: see SigtermReleases.
CHECK_DEADLOCK FALSE

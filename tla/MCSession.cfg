SPECIFICATION FairSpec
CONSTANTS
    MaxRuns = 2
    MaxInterrupts = 2
    MaxFaults = 1
INVARIANTS
    TypeOK
    SuccessIsEarned
    LeftRecordingIsExplained
    UsableRunsAreWhole
    CompleteSeriesIsExported
PROPERTIES
    DispatchIsSafe
    KeepsContracts
    NoStartAfterInterrupt
    SessionEnds

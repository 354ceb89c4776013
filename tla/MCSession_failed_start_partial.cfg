SPECIFICATION Spec
CONSTANTS
    MaxRuns = 1
    MaxInterrupts = 0
    MaxFaults = 0
INVARIANT FailedStartIsPartial

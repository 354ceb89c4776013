SPECIFICATION Spec
CONSTANTS
    MaxRuns = 2
    MaxInterrupts = 0
    MaxFaults = 0
INVARIANT DeferredIsExportedAtEnd

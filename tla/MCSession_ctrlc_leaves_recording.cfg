SPECIFICATION Spec
CONSTANTS
    MaxRuns = 1
    MaxInterrupts = 1
    MaxFaults = 0
INVARIANT CtrlCCleansUpActiveRun

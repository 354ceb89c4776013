SPECIFICATION Spec
CONSTANTS
    MaxRuns = 3
    MaxRecordings = 5
INVARIANTS
    TypeOK
    OffloadIsExact
    NeverTorn
PROPERTIES
    KeepsCustody
    KeepsContract

SPECIFICATION FairSpec
CONSTANT MaxRuns = 2
INVARIANTS
    TypeOK
    NoOrphan
    HonestStop
PROPERTIES
    CallsReturn
    KeepsContract

SPECIFICATION FairSpec
CONSTANTS
    o1 = o1
    o2 = o2
    none = none
    Op <- TwoOps
    NoOp = none
    Path <- TwoPaths
    Val <- Vals
    Kinds = {"patch"}
    MaxRecords = 8
    MaxFaults = 1
    MaxCrashes = 2
    MaxForeign = 0
CHECK_DEADLOCK FALSE
INVARIANTS
    TypeOK
    EvidenceIsTrue
    ReceiptIsTrue
    StagingIsMapped
    LeaseProtectsSnapshot
    CrashIsDecidable
PROPERTIES
    OperationEnds

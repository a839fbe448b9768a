SPECIFICATION Spec
CONSTANTS
    o1 = o1
    o2 = o2
    none = none
    Op <- TwoOps
    NoOp = none
    Path <- OnePath
    Val <- Vals
    Kinds = {"write", "mkdir"}
    MaxRecords = 3
    MaxFaults = 1
    MaxCrashes = 2
    MaxForeign = 1
SYMMETRY OpSymmetry
CHECK_DEADLOCK FALSE
INVARIANTS
    EvidenceIsTrue
PROPERTY
    NoLostUpdate

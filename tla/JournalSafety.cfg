SPECIFICATION Spec
CONSTANTS
    p1 = p1
    p2 = p2
    none = none
    Proc <- TwoProcs
    NoProc = none
    Id <- TwoIds
    MaxVer = 2
    MaxEpoch = 2
    MaxGen = 4
    MaxRecords = 2
    MaxFrames = 3
    MaxAncestors = 1
    TakesMarkers = TRUE
    FileSyncCommitsRenames = TRUE
SYMMETRY ProcSymmetry
INVARIANTS
    TypeOK
    RecoveredTruth
    NoStaleWriter
    CacheIsFile
    Reopenable
    MarkerStaysValid

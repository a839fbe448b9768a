SPECIFICATION FairSpec
CONSTANTS
    OpId <- TwoOps
    ReadOnly <- NoOps
    Direct <- DirectOp
    Capacity = 3
    MaxEpoch = 5
    BrokerMayRefuse = FALSE
INVARIANTS
    OpenIsOwned
    UnknownOutcomeFences
PROPERTIES
    CoreProgress
CHECK_DEADLOCK FALSE

SPECIFICATION Spec
CONSTANTS
    OpId <- TwoOps
    ReadOnly <- NoOps
    Direct <- NoOps
    Capacity = 1
    MaxEpoch = 3
    BrokerMayRefuse = FALSE
INVARIANTS
    UnknownOutcomeFences
CHECK_DEADLOCK FALSE

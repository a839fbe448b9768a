SPECIFICATION Spec
CONSTANTS
    OpId <- ThreeOps
    ReadOnly <- ReadOnlyOp
    Direct <- DirectOp
    Capacity = 2
    MaxEpoch = 3
    BrokerMayRefuse = TRUE
INVARIANTS
    TypeOK
    JournalFirst
    NoEffectBeforeCommit
    AppliedIsTrue
    DeadGenerationIsStale
PROPERTIES
    JournalStaysReadable
    ImplementsAtMostOnce
CHECK_DEADLOCK FALSE

SPECIFICATION FairSpec
CONSTANTS
    e1 = e1
    e2 = e2
    Effect <- TwoEffects
    Managed <- FirstManaged
    Kinds = {"journaled", "process"}
    MaxRecords = 5
    MaxCheckpoints = 2
    MaxCrashes = 2
CHECK_DEADLOCK FALSE
INVARIANTS
    TypeOK
    BrokerEvidenceIsTrue
    TerminalIsTrue
    DebtHoldsFence
PROPERTY
    CallsReturn

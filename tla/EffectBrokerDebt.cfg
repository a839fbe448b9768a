SPECIFICATION Spec
CONSTANTS
    e1 = e1
    e2 = e2
    Effect <- TwoEffects
    Managed <- FirstManaged
    Kinds = {"journaled", "process"}
    MaxRecords = 5
    MaxCheckpoints = 2
    MaxCrashes = 1
CHECK_DEADLOCK FALSE
INVARIANT
    DebtsAreFenced

SPECIFICATION Spec
CONSTANTS
    r1 = r1
    r2 = r2
    r3 = r3
    Runs = {r1, r2}
    Kind <- Shells
    Pids = {p1, p2}
    MaxBorn = 2
    MaxCrashes = 1
    Reuse = TRUE
    TokenLoss = FALSE
    PinsPid = TRUE
    Faults = FALSE
CHECK_DEADLOCK FALSE
INVARIANTS
    NotAppliedNeverRan

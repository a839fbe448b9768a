SPECIFICATION Spec
CONSTANTS
    r1 = r1
    r2 = r2
    r3 = r3
    Runs = {r1, r2, r3}
    Kind <- AllKinds
    Pids = {p1, p2}
    MaxBorn = 3
    MaxCrashes = 2
    Reuse = TRUE
    TokenLoss = FALSE
    PinsPid = TRUE
    Faults = TRUE
CHECK_DEADLOCK FALSE
INVARIANTS
    TypeOK
    ExitIsItsOwnButSessions
    NoSupervisedLeftover
    LeaseCoversChild
    RecoverySparesOthers

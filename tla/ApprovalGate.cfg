SPECIFICATION FairSpec
CONSTANTS
    c1 = c1
    c2 = c2
    c3 = c3
    g1 = g1
    Call <- Calls
    Exec <- Execs
    Passive <- Poll
    Grant <- Grants
    Covers <- Scope
    MaxRuns <- Caps
    Inners = {"interactive", "permissive", "denying"}
    MaxTime = 1
CHECK_DEADLOCK FALSE
INVARIANTS
    TypeOK
    AllowIsConsented
    NoRequestLeaks
    GrantEnvelope
PROPERTY
    AuthorizeReturns

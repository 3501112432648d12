SPECIFICATION FairSpec
CONSTANTS
    Requests = {r1, r2, r3}
    Conns = {c1, c2}
INVARIANTS
    LifespanTypeOK
    RequestsHaveOpenPool
    NoRefreshOutlivesPool
    ProductionHasDatabase
    ShutdownIsNotStuck
PROPERTIES
    ShutdownEnds
CHECK_DEADLOCK FALSE

SPECIFICATION FairSpec
CONSTANTS
    p1 = p1
    p2 = p2
    missing = missing
    r1 = r1
    r2 = r2
    r3 = r3
    c1 = c1
    c2 = c2
    c3 = c3
    c4 = c4
    ProductIds <- NamedProducts
    Products <- TwoProducts
    Requests = {r1, r2}
    Orders <- AllKinds
    Conns = {c1, c2, c3}
    OpeningStock <- OneUnitOfFirst
    MaxFaults = 1
INVARIANTS
    TypeOK
    AnswerMatchesLedger
    StockMatchesDomainRule
    OnlyRefreshDelays
PROPERTIES
    EveryRequestAnswered
CHECK_DEADLOCK FALSE

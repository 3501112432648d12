SPECIFICATION Spec
CONSTANTS
    p1 = p1
    p2 = p2
    missing = missing
    r1 = r1
    r2 = r2
    r3 = r3
    c1 = c1
    c2 = c2
    c3 = c3
    c4 = c4
    ProductIds <- OneProduct
    Products <- OneProduct
    Requests = {r1}
    Orders <- Deliveries
    Conns = {c1, c2}
    OpeningStock <- TwoUnits
    MaxFaults = 1
SYMMETRY Interchangeable
INVARIANTS
    FailedRequestLeavesNoRow
CHECK_DEADLOCK FALSE

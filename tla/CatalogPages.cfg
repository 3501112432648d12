SPECIFICATION Spec
CONSTANTS
    r1 = r1
    r2 = r2
    r3 = r3
    Requests = {r1, r2, r3}
    Bodies <- CreateBodies
    InitialCategories = {1}
    InitialDrawn <- DrawnBefore
    InitialRows = {1, 2}
    Keys = {1, 2, 3, 4, 5}
    Limits = {1, 2}
    MaxFaults = 1
SYMMETRY Interchangeable
INVARIANTS
    CatalogTypeOK
    CreatedOnce
    CategoryIsStillThere
    WalkMissesNothing
    TotalCoversPage

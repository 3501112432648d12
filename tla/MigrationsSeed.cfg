SPECIFICATION Spec
CONSTANTS
    Scripts = 2
    NonTransactional = {}
    SeedScript = 2
    Runners = {r1}
    MaxRuns = 1
    MaxSeeds = 1
INVARIANTS
    SeedRowsOnce
CHECK_DEADLOCK FALSE

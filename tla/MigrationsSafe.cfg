SPECIFICATION Spec
CONSTANTS
    Scripts = 4
    NonTransactional = {3}
    SeedScript = 4
    Runners = {r1, r2}
    MaxRuns = 2
    MaxSeeds = 1
INVARIANTS
    MigrationsTypeOK
    TrackedOnce
    ScriptsRunInOrder
    DoneMeansApplied
CHECK_DEADLOCK FALSE

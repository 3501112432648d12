SPECIFICATION ReadsFairSpec
CONSTANTS
    MaxRetries = 3
    Instances = {j1, j2}
    MaxMovements = 2
    MaxErrors = 5
INVARIANTS
    SchedulerTypeOK
    GivesUpOnlyWhenExhausted
    AnswersKeepUp
PROPERTIES
    ReadsGoBackOnce
    ImplementsAsyncView
    EveryMovementReachesView

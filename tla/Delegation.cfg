\* One task delegated by two requests, one stop or cancellation and one crash.
SPECIFICATION FairSpec
CONSTANTS
    q1 = q1
    q2 = q2
    q3 = q3
    a = a
    b = b
    ItemOf <- RetryOfOne
    Request = {q1, q2}
    Item = {a}
    MaxParallel = 2
    MaxAttempts = 2
    MaxContinuations = 2
    MaxTurns = 4
    MaxUserTurns = 1
    MaxStops = 1
    MaxCrashes = 1
    MaxReports = 1
    Env = {"crash"}
INVARIANTS
    RowsSound
    SettledTruthfully
    ToldOnce
PROPERTIES
    StopMeansStopped
    OutcomesReachCoordinator
CHECK_DEADLOCK FALSE

\* Two instances and three Runs: a summon, a further attempt or direct Runs, faults, two teardowns and a crash.
SPECIFICATION FairSpec
CONSTANTS
    MaxInstances = 2
    MaxRuns = 3
    MaxTeardowns = 2
    MaxCrashes = 1
    Env = {"direct", "again", "fault"}
INVARIANTS
    TeardownSound
PROPERTIES
    CleanupSettles
CHECK_DEADLOCK FALSE

\* Two jobs beside each other: no wake-up stays owed.
SPECIFICATION FairSpec
CONSTANTS
    Job = {k1, k2}
    External = {e1}
    Existing = {}
    UserTurn = {t1}
    NextTurn = {c1}
    None = None
    MaxProbes = 1
    MaxContinuations = 1
    Env = {}
PROPERTIES
    WakeDelivered
CHECK_DEADLOCK FALSE

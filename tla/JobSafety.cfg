\* One job, with everything that users, providers, grants and crashes may do to it.
SPECIFICATION Spec
CONSTANTS
    Job = {k1}
    External = {e1}
    Existing = {}
    UserTurn = {t1}
    NextTurn = {c1, c2}
    None = None
    MaxProbes = 1
    MaxContinuations = 2
    Env = {"attach", "parallel", "control", "stop", "revoke", "crash", "fault"}
INVARIANTS
    RowsSound
    WokenOnce
    WakeKept
PROPERTIES
    NoRevival
    ObservationsInOrder
SYMMETRY Alike
CHECK_DEADLOCK FALSE

\* Three messages of one session, the last a Continue, through two slots and three Runs, boundaries, stops, pauses, failed cleanup, lost connections and two crashes.
SPECIFICATION Spec
CONSTANTS
    m1 = m1
    m2 = m2
    m3 = m3
    s = s
    t = t
    None = None
    Message = {m1, m2, m3}
    Session = {s}
    SessionOf <- OneSession
    Continue = {m3}
    ConvRun = {r1, r2, r3}
    OtherRun = {}
    MaxConcurrentRuns = 2
    MaxCrashes = 2
    Env = {"cancel", "stuck", "pause", "revoke"}
INVARIANTS
    RowsSound
    ClaimOwned
PROPERTIES
    GivenOnce
    NoOvertaking
    NoSecondRun
SYMMETRY Alike
CHECK_DEADLOCK FALSE

\* Nothing stays queued: two sessions, one slot, other Runs that take it, stops and a restart.
SPECIFICATION FairSpec
CONSTANTS
    m1 = m1
    m2 = m2
    m3 = m3
    s = s
    t = t
    None = None
    Message = {m1, m3}
    Session = {s, t}
    SessionOf <- TwoSessions
    Continue = {}
    ConvRun = {r1, r2, r3}
    OtherRun = {o1}
    MaxConcurrentRuns = 1
    MaxCrashes = 1
    Env = {"cancel", "direct", "handoff", "continuation"}
INVARIANTS
    AnswerVisible
PROPERTIES
    NoneStranded
CHECK_DEADLOCK FALSE

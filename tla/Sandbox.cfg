\* An operation and a direct command, a capture, two stops and a restart.
SPECIFICATION FairSpec
CONSTANTS
    Op = {o1, o2}
    Tool = {o1}
    Keep = {o2}
    Capture = {c1}
    MaxStops = 2
    MaxCancels = 1
    MaxCrashes = 1
    Env = {"cancel", "timeout", "fault"}
INVARIANTS
    ReceiptsSound
    CutIsStable
    StoppedStaysStopped
PROPERTIES
    GateServesAll
CHECK_DEADLOCK FALSE

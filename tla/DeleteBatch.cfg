\* Batches over three nodes, with failing plugins and crashes at every point.
SPECIFICATION Spec
CONSTANTS
    a = a
    b = b
    c = c
    Node = {a, b, c}
    Before <- AgentFirst
    Agents = {a}
    MaxRev = 1
    Env = {"fail", "crash"}
INVARIANTS
    JournalSound
    CleanupOwed
    DependencyOrder
    BatchWhole
    RestorePossible
CHECK_DEADLOCK FALSE

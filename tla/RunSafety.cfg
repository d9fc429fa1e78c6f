\* Two runs of one agent with one slot, under everything but deletion and slow cleanup.
SPECIFICATION Spec
CONSTANTS
    r1 = r1
    r2 = r2
    r3 = r3
    a1 = a1
    a2 = a2
    None = None
    Run = {r1, r2}
    Agent = {a1}
    AgentOf <- OneAgent
    ParentOf <- Pair
    Ancestors <- PairAncestors
    Continuation = {}
    Limit <- One
    Env = {"suspend", "failure", "watchdog", "abort", "shutdown", "restart"}
INVARIANTS CapacityRespected ExecutionHoldsSlot LostNeverComplete
PROPERTY LedgerSpec
CHECK_DEADLOCK FALSE

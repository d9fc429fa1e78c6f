\* Two runs of one agent: its deletion and stops, with failing and slow cleanup.
SPECIFICATION Spec
CONSTANTS
    r1 = r1
    r2 = r2
    r3 = r3
    a1 = a1
    a2 = a2
    None = None
    Run = {r1, r2}
    Agent = {a1}
    AgentOf <- OneAgent
    ParentOf <- Pair
    Ancestors <- PairAncestors
    Continuation = {}
    Limit <- Two
    Env = {"delete", "failure", "timeout"}
INVARIANTS DeletedAgentIdle SettledHoldsNothing
CHECK_DEADLOCK FALSE

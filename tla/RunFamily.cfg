\* A chain of three runs over two agents: stops while runs start.
SPECIFICATION FairSpec
CONSTANTS
    r1 = r1
    r2 = r2
    r3 = r3
    a1 = a1
    a2 = a2
    None = None
    Run = {r1, r2, r3}
    Agent = {a1, a2}
    AgentOf <- ChainAgents
    ParentOf <- Chain
    Ancestors <- ChainAncestors
    Continuation = {r2}
    Limit <- Two
    Env = {}
INVARIANT StopReachesFamily
PROPERTY StopFreesSlot
CHECK_DEADLOCK FALSE

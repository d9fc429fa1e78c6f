\* One client of a hub whose queue holds one event: drops, a lost connection or a
\* restart, a failed request and an own edit, creation or deletion.
SPECIFICATION FairSpec
CONSTANTS
    card = card
    edge = edge
    Card = {card}
    Edge = {edge}
    QueueSize = 1
    WireSize = 1
    MaxMade = 2
    MaxRev = 2
    MaxEvents = 2
    MaxBreaks = 1
    MaxFails = 1
    MaxOwn = 1
    End <- AtC
    Env = {"chatter", "restart", "edit", "create", "delete"}
INVARIANTS
    CanvasSound
PROPERTIES
    ShowsTheWorld
    CatchesUp
CHECK_DEADLOCK FALSE

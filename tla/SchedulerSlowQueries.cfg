\* Leases that expire between any two steps; events every other tick.
SPECIFICATION Spec
CONSTANTS
    Workers = {w1, w2}
    gossip = gossip
    event = event
    Engines = {gossip, event}
    Ticks <- MCTicks
    EngineOrder <- GossipThenEvent
    Interval <- EventsEveryOther
    NoLease = NoLease
    NoSlot = NoSlot
    Writers = {}
    NoSnapshot = NoSnapshot
    TTL = 1
    MaxTime = 1
    MaxFaults = 0
    MaxTick = 2
    MaxDelta = 2
    Prompt = FALSE
SYMMETRY Symmetry
INVARIANT NoTickSilentlySkipped
CHECK_DEADLOCK FALSE

\* Two workers and one engine at two ticks, one fault of any kind.
SPECIFICATION FairSpec
CONSTANTS
    Workers = {w1, w2}
    gossip = gossip
    event = event
    Engines = {gossip}
    Ticks <- MCTicks
    EngineOrder <- GossipOnly
    Interval <- EveryTick
    NoLease = NoLease
    NoSlot = NoSlot
    Writers = {}
    NoSnapshot = NoSnapshot
    TTL = 2
    MaxTime = 2
    MaxFaults = 1
    MaxTick = 2
    MaxDelta = 1
    Prompt = TRUE
CHECK_DEADLOCK FALSE
PROPERTY EveryClockArrives

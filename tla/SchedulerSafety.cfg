\* Two workers, prompt queries, one fault of any kind, advances of one tick.
SPECIFICATION Spec
CONSTANTS
    Workers = {w1, w2}
    gossip = gossip
    event = event
    Engines = {gossip}
    Ticks <- MCTicks
    EngineOrder <- GossipOnly
    Interval <- EveryTick
    NoLease = NoLease
    NoSlot = NoSlot
    Writers = {pacing}
    NoSnapshot = NoSnapshot
    TTL = 2
    MaxTime = 3
    MaxFaults = 1
    MaxTick = 2
    MaxDelta = 1
    Prompt = TRUE
SYMMETRY Symmetry
INVARIANTS TypeOK MemoryNeverAhead NoTickSilentlySkipped RerunsCostFaults ExclusiveRun CleanTicksRunOnce
CHECK_DEADLOCK FALSE

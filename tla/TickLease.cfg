\* Three workers; leases may expire between any two steps.
SPECIFICATION LeaseSpec
CONSTANTS
    Workers = {w1, w2, w3}
    Engines = {gossip}
    Ticks <- MCTicks
    NoLease = NoLease
    NoSlot = NoSlot
    TTL = 2
    MaxTime = 3
    MaxFaults = 1
    Prompt = FALSE
SYMMETRY Symmetry
INVARIANT LeaseTypeOK
PROPERTY DoneIsFinal
CHECK_DEADLOCK FALSE

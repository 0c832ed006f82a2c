SPECIFICATION FairSpec
CONSTANTS
    Npcs = {n1}
    Players = {p1}
    Triggers = {need}
    Workers = {w1, w2}
    Polls = {q1}
    MaxTick = 3
    MaxScore = 2
    Cap = 1
    Lag = 1
    Limit = 2
    Expiry = 1
    MaxPasses = 3
    MaxFaults = 2
    Nobody = Nobody
INVARIANTS TypeOK CapKept DeliveredOnce EvictedForBetter
PROPERTIES AllDelivered
CHECK_DEADLOCK FALSE

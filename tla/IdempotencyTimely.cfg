\* No request outlives its pending timeout, none is abandoned.
SPECIFICATION Spec
CONSTANTS
    Requests = {r1, r2, r3}
    Slots = {s1}
    Payloads = {p1, p2}
    NoRecord = NoRecord
    NoCall = NoCall
    Nobody = Nobody
    Timeout = 1
    Retention = 2
    MaxTime = 5
    Timely = TRUE
    MayAbort = FALSE
INVARIANTS OncePerRetention
PROPERTY KeepsContract
CHECK_DEADLOCK FALSE

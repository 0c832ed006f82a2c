\* A handler slower than the pending timeout; nothing fails, nothing expires.
SPECIFICATION Spec
CONSTANTS
    Requests = {r1, r2, r3, r4}
    Slots = {s1}
    Payloads = {p1}
    NoRecord = NoRecord
    NoCall = NoCall
    Nobody = Nobody
    Timeout = 1
    Retention = 4
    MaxTime = 2
    Timely = FALSE
    MayAbort = FALSE
SYMMETRY Symmetry
INVARIANT ReplaysAgree
CHECK_DEADLOCK FALSE

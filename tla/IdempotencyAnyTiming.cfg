\* Slow handlers, aborts, crashes and cleanups in any order.
SPECIFICATION Spec
CONSTANTS
    Requests = {r1, r2, r3}
    Slots = {s1}
    Payloads = {p1, p2}
    NoRecord = NoRecord
    NoCall = NoCall
    Nobody = Nobody
    Timeout = 1
    Retention = 3
    MaxTime = 4
    Timely = FALSE
    MayAbort = TRUE
SYMMETRY Symmetry
INVARIANTS TypeOK AnswersAreGenuine DuplicateNeedsTimeout
CHECK_DEADLOCK FALSE

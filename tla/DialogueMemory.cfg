\* Three events and two players, two consolidations at a time.
SPECIFICATION Spec
CONSTANTS
    Players = {p1, p2}
    Events = {c1, c2, c3}
    Jobs = {j1, j2}
    MaxTurns = 2
    MaxPersisted = 2
    Threshold = 2
    ClearAfter = TRUE
    MaxOpen = 2
    Nobody = Nobody
SYMMETRY Symmetry
INVARIANTS TypeOK TurnsOnce SummarisedOnce MoodKept
PROPERTIES ForgetsOnlyRemembered RelationKept
CHECK_DEADLOCK FALSE

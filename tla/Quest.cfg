\* Two calls at a time on a quest with two objectives and two rewards.
SPECIFICATION Spec
CONSTANTS
    Callers = {c1, c2}
    Objectives = {o1, o2}
    Target = 1
    Deltas <- MCDeltas
    MaxProgress = 2
    N = 2
    NoDoc = NoDoc
    Nobody = Nobody
SYMMETRY Symmetry
INVARIANTS TypeOK DocumentSound RewardsOnce LaterTransfersOnce Settled
PROPERTIES KeepsPromise
CHECK_DEADLOCK FALSE

\* Three schemes for batches of two; the owner of the third comes and goes.
SPECIFICATION FairSpec
CONSTANTS
    Workers = {w1, w2}
    Schemes = {s1, s2, s3}
    Residents = {s1, s2}
    MaxSteps = 2
    MaxPerTick = 2
    MinSteps = 1
INVARIANTS TypeOK StepsBounded NumberedOnce
PROPERTIES SchemesEnd
CHECK_DEADLOCK FALSE

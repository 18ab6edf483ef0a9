SPECIFICATION FairSignalSpec
CONSTANTS
    Job = {j1, j2}
    Sig = {s1, s2}
    Null = Null
    MaxAttempt = 2
INVARIANTS
    ConsumedOnce
PROPERTIES
    NoEternalWait
CHECK_DEADLOCK FALSE

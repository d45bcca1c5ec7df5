SPECIFICATION FairSpec
CONSTANTS
    w1 = w1
    w2 = w2
    Worker = {w1, w2}
    None = None
    Size = 4
    MaxFaults = 3
INVARIANTS
    TypeOK
    TargetComplete
    TargetWhole
PROPERTIES
    JobDone
CHECK_DEADLOCK FALSE

SPECIFICATION Spec
CONSTANTS
    b1 = b1
    b2 = b2
    b3 = b3
    w1 = w1
    w2 = w2
    Token = {t1}
    Backend = {b1, b2}
    Worker = {w1, w2}
    Targets <- TwoWorkers
    None = None
    Deleter = {d1}
    BatchLimit = 5
    AdminOps = {"delete", "release"}
    PausedAtStart = TRUE
    MaxFaults = 2
INVARIANTS LinkServed ReplicaRowsHaveFiles
CHECK_DEADLOCK FALSE

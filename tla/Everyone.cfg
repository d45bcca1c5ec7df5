SPECIFICATION Spec
CONSTANTS
    b1 = b1
    b2 = b2
    b3 = b3
    w1 = w1
    w2 = w2
    Token = {t1}
    Backend = {b1, b2}
    Worker = {w1}
    Targets <- OneWorker
    None = None
    Deleter = {d1}
    BatchLimit = 5
    AdminOps = {"delete", "cancel", "release", "enable", "pause", "retry", "extend"}
    PausedAtStart = FALSE
    MaxFaults = 1
INVARIANTS TypeOK ReplicasServed ObjectsAccounted
CHECK_DEADLOCK FALSE

SPECIFICATION FairSpec
CONSTANTS
    b1 = b1
    b2 = b2
    b3 = b3
    w1 = w1
    w2 = w2
    Token = {t1}
    Backend = {b1, b2, b3}
    Worker = {w1}
    Targets <- OneWorker
    None = None
    Deleter = {}
    BatchLimit = 1
    AdminOps = {"retry", "extend"}
    PausedAtStart = FALSE
    MaxFaults = 1
PROPERTIES
    SpoolKept
    QueueDrains
CHECK_DEADLOCK FALSE

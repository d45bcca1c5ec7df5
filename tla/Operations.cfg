SPECIFICATION Spec
CONSTANTS
    a1 = a1
    b1 = b1
    b2 = b2
    Loop = Loop
    Panel = {a1}
    Keep <- Ones
    MaxTime = 2
    MaxErrors = 2
    Backend = {b1, b2}
    MaxChanges = 4
    MaxMishaps = 2
INVARIANTS
    OperationsTypeOK
    NewestSnapshotKept
    ReportsTrue
    NothingStrays
    AlertedOnce
PROPERTY AlertsArrive
CHECK_DEADLOCK FALSE

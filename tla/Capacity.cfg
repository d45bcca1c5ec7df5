SPECIFICATION Spec
CONSTANTS
    f1 = f1
    f2 = f2
    b1 = b1
    b2 = b2
    b3 = b3
    File = {f1, f2}
    OnDisk = {f2}
    Backend = {b1, b2, b3}
    Primary = {b1, b3}
    Room <- Tight
    Size <- Sizes
    Copies = 2
    None = None
    MaxForms = 1
    MaxFaults = 1
INVARIANTS
    TypeOK
    OverfullForCause
    OnDifferentServices
CHECK_DEADLOCK FALSE

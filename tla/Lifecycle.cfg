SPECIFICATION FairSpec
CONSTANTS
    f1 = f1
    b1 = b1
    b2 = b2
    d1 = d1
    v1 = v1
    File = {f1}
    Backend = {b1, b2}
    Local = Local
    None = None
    Deleter = {d1}
    Visitor = {v1}
    MaxForms = 1
    MaxFaults = 1
INVARIANTS
    TypeOK
    Served
    Accounted
    TurnedAwayForCause
PROPERTIES
    ExpiredGo
    MigrationEnds

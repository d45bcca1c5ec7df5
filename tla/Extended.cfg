SPECIFICATION FairSpec
CONSTANTS
    f1 = f1
    b1 = b1
    b2 = b2
    d1 = d1
    v1 = v1
    File = {f1}
    Backend = {b1}
    Local = Local
    None = None
    Deleter = {d1}
    Visitor = {}
    MaxForms = 1
    MaxFaults = 0
PROPERTIES
    CleanupSparesValid

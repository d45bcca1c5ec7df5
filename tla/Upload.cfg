SPECIFICATION FairSpec
CONSTANTS
    n1 = n1
    b1 = b1
    b2 = b2
    f1 = f1
    Nonce = {n1}
    File = {f1}
    FileOf <- SameFile
    Backend = {b1, b2}
    Admin = {a1}
    InitialRoles <- PrimaryAndReplica
    MaxForms = 1
    MaxFaults = 1
    Local = Local
    None = None
INVARIANTS
    TypeOK
    LinkBacked
    NothingLeft
    AbortHeeded
PROPERTIES
    RegistersAsStore
    OrphansCollected
    UploadsEnd

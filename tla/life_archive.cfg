SPECIFICATION Spec
CONSTANTS
    a1 = a1  a2 = a2  v1 = v1  v2 = v2  w1 = w1  w2 = w2
    NoAccount = NoAccount
    Deleted = Deleted
    NoVm = NoVm
    Accounts <- OneAccount
    VmOrder <- OneVm
    Sessions <- OneSession
    FailoverMax = 0
    MaxRetries = 0
    Operations <- Archival
    MaxMoves = 2
INVARIANTS
    ArchivedIsNotSynced
CHECK_DEADLOCK FALSE

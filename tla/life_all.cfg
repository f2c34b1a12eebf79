SPECIFICATION Spec
CONSTANTS
    a1 = a1  a2 = a2  v1 = v1  v2 = v2  w1 = w1  w2 = w2
    NoAccount = NoAccount
    Deleted = Deleted
    NoVm = NoVm
    Accounts <- TwoAccounts
    VmOrder <- TwoVms
    Sessions <- TwoSessions
    FailoverMax = 2
    MaxRetries = 1
    Operations <- AllOperations
    MaxMoves = 4
INVARIANTS
    TombstoneIsBare
    LinkedTerminalStays
    NoFolderForgotten
PROPERTIES
    LinkedRowsGoByRejection
CHECK_DEADLOCK FALSE

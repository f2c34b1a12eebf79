SPECIFICATION MCSpec
CONSTANTS
    t1 = t1  t2 = t2  r1 = r1  r2 = r2  b1 = b1  w1 = w1  w2 = w2
    None = None
    TradeAccounts <- TwoTradeAccounts
    Requests <- TwoRequests
    Batches <- OneBatch
    Sessions <- TwoSessions
    TrialDays = 1
    ExtensionDays <- OneDay
    MaxCapacity = 2
    MaxDay = 1
    MaxMoves = 4
INVARIANTS
    ActiveWithinCapacity
    PausedIsStopped
PROPERTIES
    TrialNotRenewed
    ExpiredIsPaused
CHECK_DEADLOCK FALSE

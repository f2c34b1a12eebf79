SPECIFICATION MCSpec
CONSTANTS
    k1 = k1  k2 = k2  p1 = p1  p2 = p2  s1 = s1
    None = None
    Workers <- TwoWorkers
    Tabs <- TwoTabs
    Syncs <- OneSync
    MaxWeek = 2
    MaxFaults = 2
    MinClosed = 1
    MaxRetries = 1
    KeepWeeks = 0
    ChatLimit = 2
    MinuteLimit = 1
INVARIANTS
    NoDuplicateReview
    GeneratingIsPending
    ChatWithinLimit
PROPERTIES
    ReviewInTheEnd
CHECK_DEADLOCK FALSE

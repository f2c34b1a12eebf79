SPECIFICATION MCSpec
CONSTANTS
    NumAccounts = 3
    t1 = t1
    t2 = t2
    p1 = p1
    v1 = v1
    v2 = v2
    w1 = w1
    w2 = w2
    None = None
    visit1 = visit1
    visit2 = visit2
    e1 = e1
    Visits = {visit1, visit2}
    Editors = {e1}
    MaxChanges = 2
    Trades <- TwoTrades
    Profiles <- OneProfile
    Values <- TwoValues
    Splits <- OneSplit
    Sessions <- TwoSessions
    MaxMoves = 4
SYMMETRY Symmetry
CHECK_DEADLOCK FALSE
INVARIANTS
    NothingTwice
    TradeIsCoherent
    
PROPERTY
    DefaultKept

SPECIFICATION Spec
CONSTANTS
    p1 = p1  p2 = p2  s1 = s1  s2 = s2  k1 = k1  k2 = k2  k3 = k3  u1 = u1  u2 = u2
    NoToken = NoToken
    NoTrade = NoTrade
    Positions <- OnePosition
    Importable <- OnePosition
    Ageing <- OnePosition
    Scaled <- OnePosition
    Legacy <- None
    Slots <- OneSlot
    Tokens <- TwoTokens
    Uploads <- None
    ManualKinds = {}
    MaxRetries = 0
    MaxMoves = 0
SYMMETRY SymmetryOne
INVARIANT
    RunningTradesStayOpen
CHECK_DEADLOCK FALSE

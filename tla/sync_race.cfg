SPECIFICATION Spec
CONSTANTS
    p1 = p1  p2 = p2  s1 = s1  s2 = s2  k1 = k1  k2 = k2  k3 = k3  u1 = u1  u2 = u2
    NoToken = NoToken
    NoTrade = NoTrade
    Positions <- OnePosition
    Importable <- OnePosition
    Ageing <- None
    Scaled <- None
    Legacy <- None
    Slots <- TwoSlots
    Tokens <- ThreeTokens
    Uploads <- TwoUploads
    ManualKinds = {"manual"}
    MaxRetries = 1
    MaxMoves = 2
SYMMETRY Symmetry
INVARIANTS
    LockSerialisesIngest
    OneTradePerPosition
    ClosedTradesAreRealised
PROPERTY
    ClosedNeverReopened
CHECK_DEADLOCK FALSE

SPECIFICATION FairSpec
CONSTANTS
    p1 = p1  p2 = p2  s1 = s1  s2 = s2  k1 = k1  k2 = k2  k3 = k3  u1 = u1  u2 = u2
    NoToken = NoToken
    NoTrade = NoTrade
    Positions <- TwoPositions
    Importable <- TwoPositions
    Ageing <- OnePosition
    Scaled <- OnePosition
    Legacy <- SecondPosition
    Slots <- OneSlot
    Tokens <- TwoTokens
    Uploads <- None
    ManualKinds = {"full", "recal"}
    MaxRetries = 1
    MaxMoves = 1
INVARIANTS
    ClosedWithEveryExit
    FullStampSound
PROPERTIES
    ClosedEventuallyRecorded
CHECK_DEADLOCK FALSE

SPECIFICATION MCSpec
CONSTANTS
  Parts = {"members", "bars", "review", "reflect"}
  u1 = u1  u2 = u2  e1 = e1  e2 = e2  e3 = e3  s1 = s1  w1 = w1  w2 = w2  x1 = x1
  None = None
  Users = {u1, u2}
  Emails = {e1, e2, e3}
  Subs = {s1}
  Sessions = {w1, w2}
  MaxUses = 2
  Approving = TRUE
  MaxMoves = 4
  Trades = {1, 2, 3}
  Gapped = {2}
  Batches = {1}
  Singles = {2}
  MaxBatch = 2
  MaxShift = 1
  MaxInterventions = 1
  Ids = {1, 2, 3, 4}
  Data <- MCData
  Flows <- MCFlows
  States = {"open", "closed", "exited", "timed"}
  WeekLength = 1000
  MaxWeek = 1
  MaxActs = 2
  Tolerance = 1
  Talks = {x1}
  DayLength = 210
  WeekShift = 60
  Days = {0, 1}
  MaxPeriod = 2
  MaxFreeform = 2
  MaxReplies = 1
INVARIANTS
  UsesAreMembers
  FiguresAgree
  CitationsLeadBack
  IdeasCountOnce
PROPERTIES
  ResetLinkOnce
  ChangeConfirmedByBoth
  UnverifiedLeave
  BarsInTheEnd
  SuggestionsSound
CHECK_DEADLOCK FALSE

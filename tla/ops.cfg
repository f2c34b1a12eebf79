SPECIFICATION MCSpec
CONSTANTS
  Parts = {"refresh", "delay", "sync", "setup", "symbols"}
  web1 = web1  web2 = web2  sync1 = sync1
  r1 = r1  r2 = r2
  w1 = w1  w2 = w2
  vmA = vmA  vmB = vmB
  acc1 = acc1
  chk1 = chk1  chk2 = chk2
  qL = qL  qA = qA  qB = qB  q0 = q0
  Nobody = Nobody
  Requests = {r1, r2}
  Workers = {w1, w2}
  Machines = {vmA, vmB}
  Home <- MCHome
  Listens <- MCListens
  Vms = {vmA}
  Accounts = {acc1}
  VmOf <- MCVmOf
  Checks = {chk1, chk2}
  LegacyQueues = {qL}
  NamedQueues = {qA}
  OtherQueues = {qB}
  HostOf <- MCHostOf
  SyncPrimary = qL
  SetupQueue = q0
  Table0 <- MCTable0
  Order <- MCOrder
  ActiveRows = {1, 2}
  Defaults <- MCDefaults
  ShortBases = {"EU"}
  CommonSuffixes = {"M", "PRO"}
  Proposals <- MCProposals
  Web = {web1, web2}
  Processes = {web1, web2, sync1}
  MaxEdits = 2
  Unread = Unread
INVARIANTS
  NothingLeftBehind
  OneAlertPerDelay
  NamesLeadBack
PROPERTIES
  RuntimeIsLeased
  DelayIsReported
  StallIsFlagged
CHECK_DEADLOCK FALSE

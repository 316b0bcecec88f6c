CONSTANTS
  h1 = h1
  h2 = h2
  h3 = h3
  alice = alice
  bob = bob
  task = task
  s1 = s1
  s2 = s2
  k1 = k1
  k2 = k2
  NoHub = NoHub
  NoBind = NoBind
  Hubs = {h1, h2}
  Agents = {alice, bob}
  Binds = {task}
  Auths <- BookAuths
  Receipts <- NoReceipts
  StatementIds = {}
  MaxInt = 4
  SettledKeptAfter = 2
  GuardKept = 4
  PeerReceiptMaxAge = 2
  ClearedKeptAfter = 3
  MaxSkew = 1
  MaxDrift = 1
  MaxNow = 1
  GrantAmounts <- NoGrants
  ClearAmounts = {}
  MaxAuthWindow = 1
  Slots = {s1, s2}
  Consoles = {}
  Payments <- MovePayments
  Movers = {alice, bob}
  MaxLost = 1
  FedRefuses = FALSE
SPECIFICATION MovesSpec
CHECK_DEADLOCK FALSE
PROPERTIES
  RepeatGetsReceipt

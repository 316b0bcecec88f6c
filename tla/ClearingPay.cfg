CONSTANTS
  h1 = h1
  h2 = h2
  h3 = h3
  alice = alice
  bob = bob
  task = task
  s1 = s1
  s2 = s2
  k1 = k1
  k2 = k2
  NoHub = NoHub
  NoBind = NoBind
  Hubs = {h1, h2, h3}
  Agents = {alice, bob}
  Binds = {task}
  Auths <- PayAuths
  Receipts <- MCReceipts
  StatementIds = {1, 2}
  MaxInt = 4
  SettledKeptAfter = 2
  GuardKept = 4
  PeerReceiptMaxAge = 2
  ClearedKeptAfter = 3
  MaxSkew = 1
  MaxDrift = 1
  MaxNow = 3
  GrantAmounts <- MCGrantAmounts
  ClearAmounts = {1, 2}
  MaxAuthWindow = 1
  Slots = {s1, s2}
  Consoles = {}
  Payments <- PayPayments
  Movers = {alice}
  MaxLost = 2
  FedRefuses = TRUE
SPECIFICATION MCSpec
SYMMETRY SlotSymmetry
CHECK_DEADLOCK FALSE
INVARIANTS
  LedgerSound
  CreditsSound
PROPERTIES
  ChargedNotRefused

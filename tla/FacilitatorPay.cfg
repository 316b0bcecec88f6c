CONSTANTS
  h1 = h1
  h2 = h2
  h3 = h3
  alice = alice
  bob = bob
  carol = carol
  task = task
  s1 = s1
  s2 = s2
  NoHub = NoHub
  NoBind = NoBind
  Hubs = {h1}
  Agents = {alice, bob, carol}
  Binds = {task}
  Auths <- LedgerAuths
  Receipts <- NoReceipts
  StatementIds = {}
  MaxInt = 4
  SettledKeptAfter = 2
  GuardKept = 4
  PeerReceiptMaxAge = 2
  ClearedKeptAfter = 3
  MaxSkew = 0
  MaxDrift = 10
  MaxNow = 5
  GrantAmounts <- NoGrants
  ClearAmounts = {}
  Slots = {s1, s2}
  Calls <- LedgerCalls
  MaxAuthWindow = 1
  MaxInFlight = 1
  NotesKept = 2
  MaxFirstVerifyPerPayer = 0
  MaxFirstVerifyUnfunded = 0
  MaxKey = 0
SPECIFICATION MCSpec
SYMMETRY SlotSymmetry
INVARIANTS
  ChargesStand
  RequestsSound
PROPERTIES
  RefusedUncharged

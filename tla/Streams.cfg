CONSTANTS
  None = None
  Null = Null
  p1 = p1
  p2 = p2
  a1 = a1
  a2 = a2
  r1 = r1
  r2 = r2
  Peers = {p1, p2}
  AIDs = {a1, a2}
  Requests = {r1, r2}
  Bodies = {1}
  MaxPage = 2
  MaxSeq = 1
  MaxKey = 1
  MaxHead = 2
  MaxStay = 2
  MaxHubKey = 2
  MaxDeals = 1
SPECIFICATION MCSpec
INVARIANTS
  OnceHere
  ReviewCursorCovers
  PinReaches
PROPERTIES
  DirectorySettles
  ReviewsArrive
CHECK_DEADLOCK FALSE

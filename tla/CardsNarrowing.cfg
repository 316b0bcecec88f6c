CONSTANTS
  None = None
  Null = Null
  p1 = p1
  p2 = p2
  a1 = a1
  a2 = a2
  r1 = r1
  r2 = r2
  Peers = {p1, p2}
  AIDs = {a1, a2}
  Requests = {r1, r2}
  Bodies = {1}
  MaxPage = 2
  MaxSeq = 2
  MaxKey = 2
  MaxHead = 2
  MaxStay = 2
SPECIFICATION MCSpec
INVARIANT
  NarrowingIsSaid
CHECK_DEADLOCK FALSE

CONSTANTS
  None = None
  Missing = Missing
  Unreadable = Unreadable
  a1 = a1
  AIDs = {a1}
  KELs <- MCKELs
  Reissue = 0
  Wait = 1
  LastTime = 2
  MaxN = 3
  MaxKey = 1
SPECIFICATION MCSpec
INVARIANTS
  HeldSaysNothing
  HistoriesSound
PROPERTY
  NoQuarantineUndue
CHECK_DEADLOCK FALSE

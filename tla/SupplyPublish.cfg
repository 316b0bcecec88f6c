CONSTANTS
  DayLength = 1
  EpochEvents = 2
  EpochDays = 2
  ProofKept = 2
  CacheRoom = 2
  Readers = {1}
  MaxTime = 4
  MaxEvents = 4
SPECIFICATION FairSupplySpec
INVARIANTS
  SupplySound
PROPERTIES
  ProofAnsweredInTime
  SupplyMovesOn

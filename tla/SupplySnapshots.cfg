CONSTANTS
  DayLength = 1
  EpochEvents = 2
  EpochDays = 2
  ProofKept = 1
  CacheRoom = 2
  Readers = {1}
  MaxTime = 3
  MaxEvents = 2
SPECIFICATION FairSupplySpec
PROPERTIES
  SnapshotsDropped

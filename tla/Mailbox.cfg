CONSTANTS
  owner = owner
  s1 = s1
  s2 = s2
  NoCap = NoCap
  Owners = {owner}
  Caps <- MCCaps
  KeySets <- MCKeySets
  Slots = {s1, s2}
  RevocationKeep = 2
  MaxRevocations = 1
  CacheSize = 1
  CapGrace = 0
  CapAhead = 2
  MaxCheck = 1
  MaxTime = 3
  Envelopes <- MCEnvelopes
  MailboxMessages = 2
  Shares <- MCShares
  MaxStrangerCapRows = 1
  MaxRedeliveries = 2
  RedeliveryWindow = 2
  DeliveryDeadline = 1
  UndeliveredTTL = 1
  MaxLifetime = 2
  DAckTTL = 2
  DAckFetchedTTL = 1
  MaxDAckRows = 1
  PollLimit = 1
  MaxRows = 4
SPECIFICATION MCSpec
INVARIANTS
  MailSound
  MailNeedsKeys
  PollerMissesNothing
  StatusTruthful
  RevokedStaysOut
PROPERTY
  MailGetsRead
CHECK_DEADLOCK FALSE

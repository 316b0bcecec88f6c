CONSTANTS
  agent = agent
  other = other
  peer = peer
  daemon = daemon
  hub = hub
  operator = operator
  Signers = {agent, other, peer}
  Shards = {1}
  ShardOf <- MCShardOf
  MaxSkew = 1
  W = 1
  KsOf <- MCKsOf
  SweepEvery = 1
  High = 2
  Low = 2
  MaxTime = 3
  Clients = {daemon, hub, operator}
  SignerOf <- MCSignerOf
  Peers = {peer}
  ClientSkew = 1
  Margin = 0
  MaxLives = 2
SPECIFICATION MCSpec
INVARIANT
  StaleSignedAgain
CHECK_DEADLOCK FALSE

SPECIFICATION Spec
CONSTANTS
  p1 = p1
  p2 = p2
  paper = paper
  probe = probe
  shard = shard
  Puts = {p1, p2}
  Digests = {paper, probe}
  Wants <- OneOrTwo
  Shards = {shard}
  ShardOf <- OneShard
  Probed = {probe}
  MaxChunks = 1
  MaxRots = 1
  Strategies = {"move", "direct", "object", "parts"}
  Sums <- OneDigest
  Attempts = 2
  MaxHung = 1
  MaxBackups = 2
  MaxRestores = 1
  MaxDecays = 1
INVARIANTS
  NoLeftovers
  SnapshotsHold
  RestoredOrNothing
PROPERTIES
  AnswersAreTrue
  ContractKept
  EveryPutEnds
CHECK_DEADLOCK FALSE

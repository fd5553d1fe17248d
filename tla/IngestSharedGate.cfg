SPECIFICATION FairSpec
CONSTANTS
  r1 = r1
  r2 = r2
  p1 = p1
  p2 = p2
  c1 = c1
  c2 = c2
  d1 = d1
  Pipelines = {p1}
  Runs = {r1, r2}
  Candidates = {c1, c2}
  Digests = {d1}
  Items = {i1, i2}
  PipeOf <- SharedPipeline
  RunOf <- RunsOfPair
  Bytes <- PairSameBytes
  MaxAttempts = 1
  MaxClaims = 1
  FailPoints <- Everywhere
  People = TRUE
  Nobody = Nobody
  NoDigest = NoDigest
  NoRun = NoRun
INVARIANTS
  TrashedFilingsAreRevived
PROPERTIES
  FilingsNeverMeet
  EveryRunEnds
CHECK_DEADLOCK FALSE

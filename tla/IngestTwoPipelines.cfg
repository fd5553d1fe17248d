SPECIFICATION Spec
CONSTANTS
  r1 = r1
  r2 = r2
  p1 = p1
  p2 = p2
  c1 = c1
  c2 = c2
  d1 = d1
  Pipelines = {p1, p2}
  Runs = {r1, r2}
  Candidates = {c1, c2}
  Digests = {d1}
  Items = {i1, i2}
  PipeOf <- OwnPipelines
  RunOf <- RunsOfPair
  Bytes <- PairSameBytes
  MaxAttempts = 2
  MaxClaims = 2
  FailPoints <- Everywhere
  People = FALSE
  Nobody = Nobody
  NoDigest = NoDigest
  NoRun = NoRun
SYMMETRY Symmetry
INVARIANTS
  EveryDocumentAccountedFor
  FailureIsAsked
  CheckpointsAreTrue
PROPERTIES
  ImplementsFileOnce
CHECK_DEADLOCK FALSE

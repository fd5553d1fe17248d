SPECIFICATION FairSpec
CONSTANTS
  Callers = {c1, c2, c3}
  zip = zip
  inner = inner
  doc = doc
  Keys = {zip, inner, doc}
  Contains <- Knot
  MaxDepth = 3
  MayTimeOut = TRUE
  NoKey = NoKey
  Nobody = Nobody
INVARIANTS
  MutualExclusion
PROPERTIES
  ArrivalOrder
  EveryWaitEnds
  ImplementsLease


SPECIFICATION FairSpec
CONSTANTS
  inbox = inbox
  scanner = scanner
  a = a
  b = b
  Torn = Torn
  Sources = {inbox}
  Paths = {1, 2}
  Contents = {a, b}
  Policies = {"leave", "move", "delete", "copy"}
  Limit = 1
  Names = 4
  MaxWrites = 3
  MaxFailures = 1
  MaxCrashes = 1
INVARIANTS
  HandledIsWhatWasFiled
PROPERTIES
  LostOnlyInTheGap
  EveryFileSettles
CHECK_DEADLOCK FALSE

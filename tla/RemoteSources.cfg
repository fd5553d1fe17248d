SPECIFICATION Spec
CONSTANTS
  Arrivals = 2
  Configs <- MailConfigs
  BatchSize = 2
  Width = 2
  MaxEpoch = 2
  MaxMishaps = 2
  Paths = {1, 2}
  Contents = {a, b}
  NoBytes = NoBytes
  Shares <- MCShares
  PageLimit = 1
  MaxWrites = 3
  MaxTroubles = 1
INVARIANTS
  RowsAreTrue
PROPERTIES
  FiledBeforeItGoes
  EverythingConcluded
CHECK_DEADLOCK FALSE

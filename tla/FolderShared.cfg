SPECIFICATION Spec
CONSTANTS
  inbox = inbox
  scanner = scanner
  a = a
  b = b
  Torn = Torn
  Sources = {inbox, scanner}
  Paths = {1}
  Contents = {a, b}
  Policies = {"move"}
  Limit = 1
  Names = 2
  MaxWrites = 3
  MaxFailures = 1
  MaxCrashes = 1
SYMMETRY Alike
PROPERTIES
  ArchivedStays
CHECK_DEADLOCK FALSE

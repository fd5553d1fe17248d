SPECIFICATION StagesSpec
CONSTANTS
  zip = zip
  page = page
  other = other
  mail = mail
  note = note
  box = box
  deep = deep
  Root = zip
  Nodes <- Parcel
  Inside <- ParcelInside
  Order <- ParcelOrder
  Name <- ParcelName
  Kind <- ParcelKind
  Size <- ParcelSize
  MaxTotal = 6
  MaxDepth = 2
  MaxAttempts = 2
  MaxClaims = 2
  la = la
  lb = lb
  eol = eol
  Patterns <- Expressions
  Texts <- Lines
  Newlines = {eol}
  WordChars = {la, lb}
  Budgets = {25, 200}
  m1 = m1
  m2 = m2
  m3 = m3
  Leaves = {m1, m2, m3}
  RuleSets <- Books
  MaxNesting = 3
INVARIANTS
  OneBudget
  ArchivesAreHonest
  MatchIsRightInTime
  RulesAreHeeded
CHECK_DEADLOCK FALSE

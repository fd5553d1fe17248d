SPECIFICATION Spec
CONSTANTS
  j1 = j1
  j2 = j2
  c1 = c1
  c2 = c2
  nothing = nothing
  root = root
  sub = sub
  tag = tag
  who = who
  paper = paper
  old = old
  copy = copy
  file = file
  lone = lone
  same = same
  lost = lost
  n1 = n1
  n2 = n2
  n3 = n3
  mark = mark
  scrawl = scrawl
  pdf = pdf
  doi = doi
  txt = txt
  Jobs = {j1, j2}
  Candidates = {c1, c2}
  Width = 2
  MaxStarts = 3
  MaxTogether = 2
  MaxTroubles = 1
  Nothing = nothing
  Zotero <- Shelf
  MaxStops = 1
  MaxTouches = 1
  bill = bill
  f1 = f1
  w1 = w1
  Paperless <- Server
  MaxEdits = 2
  Kinds = {"source", "zotero", "paperless"}
SYMMETRY Alike
INVARIANTS
  JobsAreTrue
  ImportedIsWhole
PROPERTIES
  CommittedIsNotRedone
  RerunIsSafe
CHECK_DEADLOCK FALSE

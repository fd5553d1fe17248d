SPECIFICATION LibrarySpec
CONSTANTS
  Items = {i1, i2}
  Documents = {d1, d2}
  Rows = {a1, a2}
  Folders = {c1, c2, c3}
  Members = {i1}
  Top = Top
  Creators = {p1, p2, p3}
  Works = {i1}
  Parts = {author}
  Nobody = Nobody
  MaxPlaces = 2
  MaxForms = 2
  Labels = {t1, t2, t3}
  Papers = {i1}
  NoTag = NoTag
  NoteIds = {n1, n2}
  Hosts = {i1}
  Alone = Alone
  Texts = {1, 2}
  MaxNoteVersion = 3
  Words = {w1, w2}
  NoWord = NoWord
  MaxItemVersion = 4
  Holders = {i1, i2}
  HolderTypes = {"book", "bill"}
  Options = {"yes", "no"}
INVARIANTS
  OpenRecordIsAboutTrash
  CascadeStaysWithItem
  RowsAgree
  IndexIsCurrent
PROPERTIES
  RestoreIsExact
  
  ListsAreKept
  NobodyOverwritten
CHECK_DEADLOCK FALSE

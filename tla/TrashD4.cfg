SPECIFICATION Spec
CONSTANTS
  Items = {i1}
  Documents = {d1}
  Rows = {a1, a2}
INVARIANTS
  NoLiveAttachmentOfTrashed

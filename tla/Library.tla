------------------------------- MODULE Library -------------------------------
(***************************************************************************)
(* What the services of packages/core/src/services keep beside the         *)
(* documents: collections, creators, tags, notes, the fields of an item    *)
(* and the custom ones; with what TrashService.restore and purge           *)
(* (trash.ts) dispatch to.  They meet in the items, each with rows of its  *)
(* own and its own part of the search index; so one kind moves at a time   *)
(* here, and the others stay as they were made.                            *)
(***************************************************************************)
EXTENDS DocumentTrash, Collections, Authors, Tags, Notes, ItemRecord, CustomFields

VARIABLE kind

libraryVars == <<kind, vars, treeVars, authorVars, tagVars, noteVars, itemVars, fieldVars>>

LibraryInit ==
  /\ kind \in {"item", "collection", "creator", "tag", "note", "record", "field"}
  /\ Init /\ TreeInit /\ AuthorsInit /\ TagsInit /\ NotesInit /\ ItemInit /\ FieldsInit
  /\ item = [a \in Rows |-> CHOOSE i \in Items : TRUE]
  /\ doc = [a \in Rows |-> CHOOSE d \in Documents : TRUE]
  /\ kind # "field" => typeOf = [h \in Holders |-> CHOOSE t \in HolderTypes : TRUE]

LibraryNext ==
  /\ UNCHANGED kind
  /\ kind # "item" => UNCHANGED vars
  /\ kind # "collection" => UNCHANGED treeVars
  /\ kind # "creator" => UNCHANGED authorVars
  /\ kind # "tag" => UNCHANGED tagVars
  /\ kind # "note" => UNCHANGED noteVars
  /\ kind # "record" => UNCHANGED itemVars
  /\ kind # "field" => UNCHANGED fieldVars
  /\ \/ kind = "item" /\ Next
     \/ kind = "collection" /\ TreeNext
     \/ kind = "creator" /\ AuthorsNext
     \/ kind = "tag" /\ TagsNext
     \/ kind = "note" /\ NotesNext
     \/ kind = "record" /\ ItemRecordNext
     \/ kind = "field" /\ FieldsNext

LibrarySpec == LibraryInit /\ [][LibraryNext]_libraryVars

-----------------------------------------------------------------------------
(* Properties *)

\* The state is well typed.
LibraryTypeOK == /\ TypeOK /\ TreeTypeOK /\ AuthorsTypeOK /\ TagsTypeOK
                 /\ NotesTypeOK /\ ItemTypeOK /\ FieldsTypeOK

\* Rows that make sense only together agree: the collections are a forest whose
\* depths are right, and no cascade comes back in part (DepthIsTrue and
\* CascadesReturnWhole); a note in the trash with its item is there as long as
\* that item (NotesStayWithItem); a field of the facet has what a person last
\* wrote and locked (TypedStays); every value of a custom field is read as it
\* was written (ReadsAsWritten).
RowsAgree == /\ LibraryTypeOK /\ DepthIsTrue /\ CascadesReturnWhole
             /\ NotesStayWithItem /\ TypedStays /\ ReadsAsWritten

\* The trash keeps what it took, and gives it back: NothingUnfiled of
\* collections, NothingUntagged of tags.
NothingForgotten == NothingUnfiled /\ NothingUntagged

\* Nobody is on a list twice (NobodyTwice), undoing a merge gives the author
\* lists back, and no operation but the restore of an item puts a creator who
\* is in the trash on a live item.
ListsAreKept == []NobodyTwice /\ UnmergeIsExact /\ OnlyRestoredNameTheTrashed

\* The search index says of an item what its authors, its tags, its notes and its
\* own fields say, whatever was written last and by whom: FoundByName, FoundByTag,
\* FoundByNote, FoundByField.
IndexIsCurrent == FoundByName /\ FoundByTag /\ FoundByNote /\ FoundByField

\* A write that hands back a version overwrites nothing its author has not read:
\* FormsAreCurrent of items, SavedDraftsAreCurrent of notes.
NobodyOverwritten == FormsAreCurrent /\ SavedDraftsAreCurrent
=============================================================================

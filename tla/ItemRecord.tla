------------------------------ MODULE ItemRecord ------------------------------
(***************************************************************************)
(* One item's own fields, who may write them, and its search entry:        *)
(* LibraryService.createItem, updateItem, trashItem and restoreItem        *)
(* (packages/core/src/services/library.ts) over ProvenanceService.         *)
(* Every operation is one transaction.                                     *)
(*                                                                         *)
(* The item has a title of its own; with a bibliographic facet it copies   *)
(* the facet's.  A person writes any field and locks it by writing; a      *)
(* resolver is kept out of locked fields.  Somebody edits by what they     *)
(* read and hands back the version; all others write without one.          *)
(***************************************************************************)
EXTENDS Integers

CONSTANTS Words,            \* values of a field
          NoWord,           \* null
          MaxItemVersion    \* bound: writes that change something

ASSUME ItemSetup == NoWord \notin Words /\ MaxItemVersion \in Nat \ {0}

VARIABLES
  title,     \* items.title
  facet,     \* the facet's fields
  hasFacet,
  version,   \* items.version, the ETag, 0 without the item
  listed,    \* without trashed_at
  stamp,     \* stamp[f]: no provenance row, one, or one with a lock
  typed,     \* history: what a person last wrote or locked, Free if they unlocked it since or never did
  form,      \* what somebody is editing: the version they read, and whether it was written over since
  entry      \* the search entry, NoEntry without one

itemVars == <<title, facet, hasFacet, version, listed, stamp, typed, form, entry>>

FacetFields == {"title", "abstract"}
Free == [free |-> TRUE]
Held(v) == [free |-> FALSE, value |-> v]
NoEntry == [title |-> NoWord, facet |-> [f \in FacetFields |-> NoWord]]
NoForm == [version |-> 0, overtaken |-> FALSE]
Content == [title |-> title, facet |-> facet]

Values == Words \cup {NoWord}

ItemTypeOK ==
  /\ title \in Values /\ facet \in [FacetFields -> Values]
  /\ hasFacet \in BOOLEAN /\ listed \in BOOLEAN
  /\ version \in 0 .. MaxItemVersion
  /\ stamp \in [FacetFields -> {"none", "open", "locked"}]
  /\ typed \in [FacetFields -> {Free} \cup {Held(v) : v \in Values}]
  /\ form \in [version : 0 .. MaxItemVersion, overtaken : BOOLEAN]
  /\ entry \in [title : Values, facet : [FacetFields -> Values]]

ItemInit == /\ title = NoWord /\ facet = [f \in FacetFields |-> NoWord]
            /\ hasFacet = FALSE /\ listed = FALSE /\ version = 0
            /\ stamp = [f \in FacetFields |-> "none"]
            /\ typed = [f \in FacetFields |-> Free]
            /\ form = NoForm /\ entry = NoEntry

-----------------------------------------------------------------------------
Writers == {"person", "resolver"}
Patches == UNION {[S -> Values] : S \in SUBSET FacetFields}

\* partition
Allowed(patch, who) == {f \in DOMAIN patch : who = "person" \/ stamp[f] # "locked"}

\* Mutant of Stamped: a resolver's stamp takes the lock of a field it was refused.
StampedAll(patch, who) ==
  [f \in FacetFields |-> IF f \notin DOMAIN patch THEN stamp[f]
                         ELSE IF who = "person" THEN "locked" ELSE "open"]

\* applyStamps: a field that is locked stays so.
Stamped(patch, who) ==
  [f \in FacetFields |-> IF f \notin Allowed(patch, who) THEN stamp[f]
                         ELSE IF who = "person" \/ stamp[f] = "locked" THEN "locked" ELSE "open"]

\* applyBibliographic; the empty patch is none at all.
ApplyBibliographic(patch, who) ==
  LET allowed == Allowed(patch, who)
  IN /\ facet' = [f \in FacetFields |-> IF f \in allowed THEN patch[f] ELSE facet[f]]
     /\ hasFacet' = (hasFacet \/ DOMAIN patch # {})
     /\ stamp' = Stamped(patch, who)
     /\ typed' = [f \in FacetFields |-> IF f \in DOMAIN patch /\ who = "person"
                                          THEN Held(patch[f]) ELSE typed[f]]

\* changedKeys
Changed(patch, who) == {f \in Allowed(patch, who) : ~hasFacet \/ facet[f] # patch[f]}

\* Mutant of Untouched: what the facet changed is not asked.
UntouchedItem(patch, who) == title' = title

Untouched(patch, who) == Changed(patch, who) = {} /\ title' = title

\* updateItemDetailed, with a title for the item, which is Content.title if it has none.
Update(patch, own, who) ==
  /\ version > 0 /\ listed
  /\ ApplyBibliographic(patch, who)
  /\ title' = IF hasFacet' /\ facet'["title"] # NoWord THEN facet'["title"] ELSE own
  /\ UNCHANGED listed
  /\ IF Untouched(patch, who) THEN UNCHANGED <<version, entry>>
     ELSE version < MaxItemVersion /\ version' = version + 1 /\ entry' = Content'

Overtaken == form' = [form EXCEPT !.overtaken = @ \/ (form # NoForm /\ Content' # Content)]

UpdateItem(patch, own, who) == Update(patch, own, who) /\ Overtaken

SubmitForm(patch, own) == /\ form # NoForm /\ form.version = version
                          /\ Update(patch, own, "person")
                          /\ form' = NoForm

RefuseForm == /\ form # NoForm /\ (form.version # version \/ ~listed)
              /\ form' = NoForm
              /\ UNCHANGED <<title, facet, hasFacet, version, listed, stamp, typed, entry>>

OpenForm == /\ form = NoForm /\ version > 0 /\ listed
            /\ form' = [NoForm EXCEPT !.version = version]
            /\ UNCHANGED <<title, facet, hasFacet, version, listed, stamp, typed, entry>>

\* createItem: the facet, if it comes with one, has a title, null or not, and its stamp.
CreateItem(patch, own, who) ==
  /\ version = 0
  /\ DOMAIN patch # {} => "title" \in DOMAIN patch
  /\ ApplyBibliographic(patch, who)
  /\ title' = IF DOMAIN patch = {} THEN own ELSE patch["title"]
  /\ version' = 1 /\ listed' = TRUE /\ entry' = Content'
  /\ UNCHANGED form

\* lock and unlock: no write as the version counts them.
LockField(f) == /\ stamp[f] = "open"
                /\ stamp' = [stamp EXCEPT ![f] = "locked"]
                /\ typed' = [typed EXCEPT ![f] = Held(facet[f])]
                /\ UNCHANGED <<title, facet, hasFacet, version, listed, form, entry>>

UnlockField(f) == /\ stamp[f] = "locked"
                  /\ stamp' = [stamp EXCEPT ![f] = "open"]
                  /\ typed' = [typed EXCEPT ![f] = Free]
                  /\ UNCHANGED <<title, facet, hasFacet, version, listed, form, entry>>

BinItem == /\ listed /\ version < MaxItemVersion
           /\ listed' = FALSE /\ version' = version + 1 /\ entry' = NoEntry
           /\ UNCHANGED <<title, facet, hasFacet, stamp, typed, form>>

UnbinItem == /\ version > 0 /\ ~listed /\ version < MaxItemVersion
             /\ listed' = TRUE /\ version' = version + 1 /\ entry' = Content
             /\ UNCHANGED <<title, facet, hasFacet, stamp, typed, form>>

ItemRecordNext ==
  \/ \E patch \in Patches, own \in Values, who \in Writers :
        CreateItem(patch, own, who) \/ UpdateItem(patch, own, who)
  \/ \E patch \in Patches, own \in Values : SubmitForm(patch, own)
  \/ OpenForm \/ RefuseForm \/ BinItem \/ UnbinItem
  \/ \E f \in FacetFields : LockField(f) \/ UnlockField(f)

-----------------------------------------------------------------------------
(* Properties *)

\* The item is found by its fields as they are, and shows the title of its facet.
FoundByField == /\ entry = IF listed THEN Content ELSE NoEntry
                /\ facet["title"] # NoWord => title = facet["title"]

\* What a person wrote into a field of the facet, or locked in it, is there until
\* a person writes or unlocks it (P4-2).
TypedStays == \A f \in FacetFields : typed[f] # Free => facet[f] = typed[f].value

\* What somebody submits with the version they read overwrites nothing they have
\* not read (P1).
FormsAreCurrent == [][form # NoForm /\ form' = NoForm /\ Content' # Content => ~form.overtaken]_itemVars
=============================================================================

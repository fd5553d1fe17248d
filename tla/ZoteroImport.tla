---------------------------- MODULE ZoteroImport ----------------------------
(***************************************************************************)
(* packages/import-zotero/src/import.ts: a Zotero library is copied into   *)
(* this one, stage by stage and record by record, each write in a          *)
(* transaction of its own.  There is no table of what was copied: a record *)
(* is found again by what it is, and a run cut short is repeated from the  *)
(* start of its stage.  The maps from Zotero's names to rows, which a run  *)
(* builds or a resumed run reads back, hold here what the library holds.   *)
(***************************************************************************)
EXTENDS ImportJob, SequencesExt, Functions

CONSTANTS
  Zotero,    \* the source: its records in order, and what it says of them
  Nothing

VARIABLES
  lib,       \* the library
  halved     \* history: hosts whose making was cut short

zoteroVars == <<jobVars, lib, halved>>

\* A record of the source: collections and their lines of ancestors, tags,
\* people, items, attachments, notes, annotations; the items that are related to
\* others; what is in Zotero's trash.
Deleted == Zotero.deleted
Items == ToSet(Zotero.items)
Files == ToSet(Zotero.attachments)
Standing == {f \in Files : Zotero.parent[f] = Nothing}
Hosts == Items \cup Standing
Host(f) == IF f \in Standing THEN f ELSE Zotero.parent[f]
\* What an attachment's row is known by: its document, or where the file should be.
Place(f) == IF Zotero.bytes[f] = Nothing THEN f ELSE Zotero.bytes[f]
NoteKey(n) == <<Zotero.parent[n], Zotero.text[n]>>
NoteKeys == {NoteKey(n) : n \in ToSet(Zotero.notes)}

\* What Zotero holds: no note twice, and what a record refers to is there.
ASSUME ZoteroLibrary ==
  /\ \A stage \in {"collections", "tags", "creators", "items", "attachments", "notes", "annotations",
                    "relations"} : Zotero[stage] \in Seq(ToSet(Zotero[stage]))
  /\ \A m, n \in DOMAIN Zotero.notes : Zotero.notes[m] = Zotero.notes[n] => m = n
  /\ \A c \in ToSet(Zotero.collections) :
        /\ Zotero.line[c] \in Seq(ToSet(Zotero.collections)) /\ c \in ToSet(Zotero.line[c])
        /\ \A d \in ToSet(Zotero.line[c]) : ToSet(Zotero.line[d]) \subseteq ToSet(Zotero.line[c])
  /\ Items \cap Files = {} /\ \A f \in Files : Zotero.parent[f] \in Items \cup {Nothing}
  /\ \A n \in ToSet(Zotero.notes) : Zotero.parent[n] \in Items \cup {Nothing}
  /\ \A a \in ToSet(Zotero.annotations) : Zotero.on[a] \in Files
  /\ ToSet(Zotero.relations) \subseteq Items
  /\ \A h \in Hosts : /\ Zotero.tagged[h] \subseteq ToSet(Zotero.tags)
                      /\ Zotero.filed[h] \subseteq ToSet(Zotero.collections)

Stages == <<"collections", "tags", "creators", "items", "attachments", "notes",
            "annotations", "relations", "trash", "finalise">>

Rows(stage) == CASE stage = "trash" -> <<"all">>
                 [] stage = "finalise" -> Zotero.items
                 [] OTHER -> Zotero[stage]

Status == {"none", "live", "trashed", "with"}   \* "with": trashed with its item

ZoteroTypeOK ==
  /\ JobTypeOK
  /\ doing.stage \in 0 .. Len(Stages) + 1
  /\ lib.collection \in [ToSet(Zotero.collections) -> Status]
  /\ lib.item \in [Hosts -> Status]
  /\ lib.annotation \in [ToSet(Zotero.annotations) -> Status]
  /\ \A k \in NoteKeys : lib.note[k] \in Seq(Status)
  /\ lib.attachment \in [Hosts -> [{Place(f) : f \in Files} -> Status]]
  /\ log \subseteq Files \cup Items
  /\ halved \subseteq Standing

ZoteroInit ==
  /\ JobInit
  /\ lib = [collection |-> [c \in ToSet(Zotero.collections) |-> "none"],
            tags |-> {}, creators |-> {},
            item |-> [h \in Hosts |-> "none"],
            authors |-> [i \in Items |-> <<>>],
            key |-> [i \in Items |-> Nothing],
            tagged |-> [h \in Hosts |-> {}], filed |-> [h \in Hosts |-> {}],
            documents |-> {}, provenance |-> {},
            attachment |-> [h \in Hosts |-> [p \in {Place(f) : f \in Files} |-> "none"]],
            note |-> [k \in NoteKeys |-> <<>>],
            annotation |-> [a \in ToSet(Zotero.annotations) |-> "none"],
            related |-> {}]
  /\ halved = {}

-----------------------------------------------------------------------------
(* plan: who keeps a value that only one live item may have *)

Claimants(i) == {j \in Items : Zotero.claim[j] = Zotero.claim[i]}
Rank(i) == CHOOSE n \in DOMAIN Zotero.items : Zotero.items[n] = i

\* Of the live ones, or else of all, the first.
Owner(i) ==
  LET live == Claimants(i) \ Deleted
      of == IF live # {} THEN live ELSE Claimants(i)
  IN CHOOSE j \in of : \A k \in of : Rank(j) <= Rank(k)

Keeps(i) == Zotero.claim[i] # Nothing /\ Owner(i) = i
Defers(i) == Zotero.claim[i] # Nothing /\ Owner(i) # i /\ i \in Deleted
Drops(i) == Zotero.claim[i] # Nothing /\ Owner(i) # i /\ i \notin Deleted

-----------------------------------------------------------------------------
(* A run and its stages *)

In(stage) == /\ doing.stage \in DOMAIN Stages /\ Stages[doing.stage] = stage
             /\ doing.n \in DOMAIN Rows(stage)
This == Rows(Stages[doing.stage])[doing.n]

Write(l) == lib' = l /\ UNCHANGED <<jobVars, halved>>

\* The same, by a run that remembers having made it.
Make(l) == lib' = l /\ doing' = [doing EXCEPT !.made = TRUE]
           /\ UNCHANGED <<import, log, stops, touches, touched, settled, halved>>

Start == Claim(1) /\ UNCHANGED <<lib, halved>>

\* The notes there are, under what they are found by, the trashed among them.
NoteIndex == [k \in NoteKeys |-> Len(lib.note[k])]

\* beginStage; the index of notes is made when it is first asked.
BeginStage ==
  /\ doing.stage \in DOMAIN Stages /\ doing.n = 0
  /\ Checkpoint(doing.stage)
  /\ doing' = [doing EXCEPT !.n = 1, !.left = IF Stages[doing.stage] = "notes" THEN NoteIndex ELSE <<>>]
  /\ UNCHANGED <<log, stops, touches, touched, settled, lib, halved>>

Halved == IF In("attachments") /\ doing.made /\ This \in Standing
             /\ ~ (Zotero.tagged[This] \subseteq lib.tagged[This]
                     /\ Zotero.filed[This] \subseteq lib.filed[This])
          THEN halved \cup {This} ELSE halved

CutRun == Cut /\ halved' = Halved /\ UNCHANGED lib

Advance ==
  /\ \/ /\ doing' = [doing EXCEPT !.n = @ + 1, !.made = FALSE]
        /\ UNCHANGED <<import, log, stops, touches, touched, settled>>
     \/ AbortRun
  /\ UNCHANGED <<lib, halved>>

EndStage ==
  /\ doing.stage \in DOMAIN Stages /\ doing.n > Len(Rows(Stages[doing.stage]))
  /\ doing' = [Idle EXCEPT !.stage = doing.stage + 1]
  /\ UNCHANGED <<import, log, stops, touches, touched, settled, lib, halved>>

ReportRun == doing.stage = Len(Stages) + 1 /\ Succeed /\ UNCHANGED <<lib, halved>>

-----------------------------------------------------------------------------
(* Collections, tags, creators: a collection's ancestors are made before it *)

ImportCollection ==
  /\ In("collections")
  /\ LET absent == {m \in DOMAIN Zotero.line[This] : lib.collection[Zotero.line[This][m]] = "none"}
     IN IF absent = {} THEN Advance
        ELSE LET m == CHOOSE m \in absent : \A k \in absent : m <= k
             IN Write([lib EXCEPT !.collection[Zotero.line[This][m]] = "live"])

ImportTag ==
  /\ In("tags")
  /\ IF This \in lib.tags THEN Advance ELSE Write([lib EXCEPT !.tags = @ \cup {This}])

ImportCreator ==
  /\ In("creators")
  /\ IF This \in lib.creators THEN Advance ELSE Write([lib EXCEPT !.creators = @ \cup {This}])

-----------------------------------------------------------------------------
(* Items *)

\* assignTags and fileInCollections: a row each, in a trashed collection too.
Sorted(h) == Zotero.tagged[h] \subseteq lib.tagged[h] /\ Zotero.filed[h] \subseteq lib.filed[h]

Sort(h) ==
  \/ \E t \in Zotero.tagged[h] \ lib.tagged[h] : Write([lib EXCEPT !.tagged[h] = @ \cup {t}])
  \/ /\ Zotero.tagged[h] \subseteq lib.tagged[h]
     /\ \E c \in Zotero.filed[h] \ lib.filed[h] : Write([lib EXCEPT !.filed[h] = @ \cup {c}])

\* An item in the trash is left alone; any other is found, or made with the value
\* it keeps, and the rest written again.
ImportItem ==
  /\ In("items")
  /\ \/ lib.item[This] = "trashed" /\ Advance
     \/ /\ lib.item[This] = "none"
        /\ Write([lib EXCEPT !.item[This] = "live",
                             !.key[This] = IF Keeps(This) THEN Zotero.claim[This] ELSE Nothing])
     \/ /\ lib.item[This] = "live"
        /\ \/ /\ lib.authors[This] # Zotero.authors[This]
              /\ Write([lib EXCEPT !.authors[This] = Zotero.authors[This]])
           \/ lib.authors[This] = Zotero.authors[This] /\ ~ Sorted(This) /\ Sort(This)
           \/ /\ lib.authors[This] = Zotero.authors[This] /\ Sorted(This)
              /\ Drops(This) /\ This \notin log
              /\ log' = log \cup {This}
              /\ UNCHANGED <<import, doing, stops, touches, touched, settled, lib, halved>>
           \/ /\ lib.authors[This] = Zotero.authors[This] /\ Sorted(This)
              /\ Drops(This) => This \in log
              /\ Advance

-----------------------------------------------------------------------------
(* Attachments *)

\* ensureAttachmentHostItem: a host that is there is taken as it is.
MakeHost == /\ This \in Standing /\ lib.item[This] = "none"
            /\ Make([lib EXCEPT !.item[This] = "live"])

Hosted == lib.item[Host(This)] # "none" /\ (doing.made => Sorted(This))

Stored == Zotero.bytes[This] # Nothing

\* The document's row and the record of its first arrival are one transaction.
IngestBuffer ==
  /\ Hosted /\ Stored /\ Zotero.bytes[This] \notin lib.documents
  /\ Write([lib EXCEPT !.documents = @ \cup {Zotero.bytes[This]}, !.provenance = @ \cup {This}])

EnsureDocumentProvenance ==
  /\ Hosted /\ Stored /\ Zotero.bytes[This] \in lib.documents /\ This \notin lib.provenance
  /\ Write([lib EXCEPT !.provenance = @ \cup {This}])

Placed == Hosted /\ (Stored => Zotero.bytes[This] \in lib.documents /\ This \in lib.provenance)

\* A row that is there is taken, whatever became of it.
Attach == /\ Placed /\ lib.attachment[Host(This)][Place(This)] = "none"
          /\ Write([lib EXCEPT !.attachment[Host(This)][Place(This)] = "live"])

AttachmentOutcome ==
  /\ Placed /\ lib.attachment[Host(This)][Place(This)] # "none" /\ This \notin log
  /\ log' = log \cup {This}
  /\ UNCHANGED <<import, doing, stops, touches, touched, settled, lib, halved>>

ImportAttachment ==
  /\ In("attachments")
  /\ \/ MakeHost
     \/ doing.made /\ Sort(This)
     \/ IngestBuffer \/ EnsureDocumentProvenance \/ Attach \/ AttachmentOutcome
     \/ Placed /\ lib.attachment[Host(This)][Place(This)] # "none" /\ This \in log /\ Advance

-----------------------------------------------------------------------------
(* Notes, annotations and relations *)

\* An item in the trash takes no note; a note on no item is refused by none.
Receives(h) == h \in Items => lib.item[h] = "live"

\* A match is used up; where there is none the note is made, and a refusal ends
\* the run.
ImportNote ==
  /\ In("notes")
  /\ LET k == NoteKey(This)
     IN \/ /\ ~ doing.made /\ doing.left[k] > 0
           /\ doing' = [doing EXCEPT !.made = TRUE, !.left[k] = @ - 1]
           /\ UNCHANGED <<import, log, stops, touches, touched, settled, lib, halved>>
        \/ /\ ~ doing.made /\ doing.left[k] = 0 /\ Receives(k[1])
           /\ Make([lib EXCEPT !.note[k] = Append(@, "live")])
        \/ /\ ~ doing.made /\ doing.left[k] = 0 /\ ~ Receives(k[1])
           /\ Throw /\ UNCHANGED <<lib, halved>>
        \/ doing.made /\ Advance

\* An annotation is of a document: without the file it is skipped.
ImportAnnotation ==
  /\ In("annotations")
  /\ IF Zotero.bytes[Zotero.on[This]] \in lib.documents /\ lib.annotation[This] = "none"
     THEN Write([lib EXCEPT !.annotation[This] = "live"])
     ELSE Advance

\* What an item is related to is the value of a field of it, in the trash or not.
ImportRelations ==
  /\ In("relations")
  /\ IF This \in lib.related THEN Advance ELSE Write([lib EXCEPT !.related = @ \cup {This}])

-----------------------------------------------------------------------------
(* The trash *)

Flip(status, from, to) == IF status = from THEN to ELSE status

\* trashItem and restoreItem take the item's live children along, or bring back
\* those that went with it.
WithChildren(h, state, from, to) ==
  [lib EXCEPT !.item[h] = state,
              !.attachment[h] = [p \in DOMAIN @ |-> Flip(@[p], from, to)],
              !.note = [k \in NoteKeys |-> IF k[1] # h THEN @[k]
                          ELSE [m \in DOMAIN @[k] |-> Flip(@[k][m], from, to)]],
              !.annotation = [a \in DOMAIN @ |-> IF Host(Zotero.on[a]) # h THEN @[a]
                                ELSE Flip(@[a], from, to)]]

ItemsDue == {i \in Items \cap Deleted : lib.item[i] = "live"}
\* trashNote looks at the first row of its text.
NotesDue == {n \in ToSet(Zotero.notes) \cap Deleted :
               lib.note[NoteKey(n)] # <<>> /\ Head(lib.note[NoteKey(n)]) = "live"}
FilesDue == {f \in Files \cap Deleted : lib.attachment[Host(f)][Place(f)] = "live"}
MarksDue == {a \in ToSet(Zotero.annotations) \cap Deleted : lib.annotation[a] = "live"}
CollectionsDue == {c \in ToSet(Zotero.collections) \cap Deleted : lib.collection[c] = "live"}

\* collections.trash: what is in the subtree is filed in it no longer.
CollectionTrashed(c) ==
  LET branch == {d \in ToSet(Zotero.collections) :
                c \in ToSet(Zotero.line[d]) /\ lib.collection[d] = "live"}
  IN [lib EXCEPT !.collection = [d \in DOMAIN @ |-> IF d \in branch THEN "trashed" ELSE @[d]],
                 !.filed = [h \in Hosts |-> @[h] \ branch]]

ApplyTrash ==
  /\ In("trash")
  /\ \/ \E i \in ItemsDue : Write(WithChildren(i, "trashed", "live", "with"))
     \/ /\ ItemsDue = {}
        /\ \/ \E n \in NotesDue : Write([lib EXCEPT !.note[NoteKey(n)][1] = "trashed"])
           \/ \E f \in FilesDue : Write([lib EXCEPT !.attachment[Host(f)][Place(f)] = "trashed"])
           \/ \E a \in MarksDue : Write([lib EXCEPT !.annotation[a] = "trashed"])
     \/ /\ ItemsDue \cup NotesDue \cup FilesDue \cup MarksDue = {}
        /\ IF CollectionsDue = {} THEN Advance
           ELSE \E c \in CollectionsDue : Write(CollectionTrashed(c))

\* The value is taken among the live items.
Taken(i) == \E j \in Items \ {i} : lib.item[j] = "live" /\ lib.key[j] = Zotero.claim[i]

\* finaliseItem writes what was deferred past the services: the index refuses it
\* if the item is live again and the value taken.
FinaliseItem ==
  /\ In("finalise")
  /\ IF Defers(This) /\ lib.key[This] # Zotero.claim[This]
     THEN IF lib.item[This] = "live" /\ Taken(This) THEN Throw /\ UNCHANGED <<lib, halved>>
          ELSE Write([lib EXCEPT !.key[This] = Zotero.claim[This]])
     ELSE Advance

-----------------------------------------------------------------------------
(* People, between runs and between the stages of one *)

TrashItem(h) == /\ lib.item[h] = "live"
                /\ lib' = WithChildren(h, "trashed", "live", "with")

\* The index of the values refuses the restore of an item whose value is taken.
RestoreItem(h) == /\ lib.item[h] = "trashed"
                  /\ h \in Items /\ lib.key[h] # Nothing => ~ Taken(h)
                  /\ lib' = WithChildren(h, "live", "with", "live")

\* A note that is rewritten has no source text any more (notes.update).
EditNote(k) == \E m \in DOMAIN lib.note[k] :
                 lib.note[k][m] = "live" /\ lib' = [lib EXCEPT !.note[k] = RemoveAt(@, m)]

People == /\ doing.n = 0
          /\ \/ \E h \in Hosts : TrashItem(h) \/ RestoreItem(h)
             \/ \E k \in NoteKeys : EditNote(k)
          /\ Touch /\ UNCHANGED halved

ZoteroNext ==
  \/ Start \/ BeginStage \/ EndStage \/ CutRun \/ ReportRun
  \/ ImportCollection \/ ImportTag \/ ImportCreator \/ ImportItem \/ ImportAttachment
  \/ ImportNote \/ ImportAnnotation \/ ImportRelations \/ ApplyTrash \/ FinaliseItem
  \/ People

-----------------------------------------------------------------------------
(* Properties *)

\* Two attachments of one item with the same bytes share a row, which goes to the
\* trash with either.
Unfiled(f) == \E g \in Files \cap Deleted : Host(g) = Host(f) /\ Place(g) = Place(f)

Gone(h) == h \in Items \cap Deleted

\* What the library holds of the source is all of it, and nothing twice.
Mirrors ==
  /\ lib.tags = ToSet(Zotero.tags) /\ lib.creators = ToSet(Zotero.creators)
  /\ lib.related = ToSet(Zotero.relations)
  /\ \A c \in ToSet(Zotero.collections) :
       lib.collection[c] = IF ToSet(Zotero.line[c]) \cap Deleted = {} THEN "live" ELSE "trashed"
  /\ \A i \in Items :
       /\ lib.item[i] = IF i \in Deleted THEN "trashed" ELSE "live"
       /\ lib.authors[i] = Zotero.authors[i]
       /\ lib.key[i] = IF Drops(i) THEN Nothing ELSE Zotero.claim[i]
  /\ \A f \in Standing : lib.item[f] = "live"
  /\ \A h \in Hosts \ halved :
       /\ lib.tagged[h] = Zotero.tagged[h]
       /\ {c \in Zotero.filed[h] : lib.collection[c] = "live"} \subseteq lib.filed[h]
  /\ \A f \in Files :
       lib.attachment[Host(f)][Place(f)] =
          IF Gone(Host(f)) THEN "with" ELSE IF Unfiled(f) THEN "trashed" ELSE "live"
  /\ \A a \in ToSet(Zotero.annotations) :
       lib.annotation[a] = IF Zotero.bytes[Zotero.on[a]] = Nothing THEN "none"
                           ELSE IF Gone(Host(Zotero.on[a])) THEN "with"
                           ELSE IF a \in Deleted THEN "trashed" ELSE "live"
  /\ \A k \in NoteKeys :
       LET of == {n \in ToSet(Zotero.notes) : NoteKey(n) = k}
       IN /\ Len(lib.note[k]) = Cardinality(of)
          /\ \/ Cardinality(of \cap Deleted) > 1 \/ Gone(k[1])
             \/ Cardinality({m \in DOMAIN lib.note[k] : lib.note[k][m] = "live"})
                   = Cardinality(of \ Deleted)

\* A run that succeeds has copied the source whole and reports on every
\* attachment and every refused value, however often runs before it were cut
\* short or aborted (import.ts: the interrupted stage is repeated from its
\* start), while people leave the copy alone.  Excused are the tags and
\* collections of a host whose making was cut short.
ZoteroWhole ==
  import.state = "succeeded" /\ ~ touched =>
     Mirrors /\ log = Files \cup {i \in Items : Drops(i)}

\* The library, but for what is filed in collections that are in the trash.
Visible == [lib EXCEPT !.filed = [h \in Hosts |-> {c \in @[h] : lib.collection[c] = "live"}]]

\* Once a run has succeeded, other runs change nothing until people do.
ZoteroRerunHarmless == settled = "ended" /\ settled' = "ended" => Visible' = Visible

\* Importing twice produces the same library.
ZoteroTwiceIsOnce == settled = "ended" /\ settled' = "ended" => UNCHANGED lib
=============================================================================

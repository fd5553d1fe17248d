--------------------------- MODULE DocumentTrash ---------------------------
(***************************************************************************)
(* The trash of packages/core as items, documents and the attachments      *)
(* between them see it: DocumentService (attach, detach, restore, trash),  *)
(* LibraryService.trashItem and restoreItem, and TrashService.purge.       *)
(*                                                                         *)
(* Every operation is one database transaction, so each is one action; an  *)
(* operation that refuses (InvariantError, ConflictError, NotFoundError)   *)
(* or violates a unique index rolls back and is simply not enabled.  Notes *)
(* and annotations follow their item as attachments do and have no rules   *)
(* of their own here; the ASN check of restoreItem is left out.            *)
(***************************************************************************)
EXTENDS FiniteSets

CONSTANTS Items, Documents,
          Rows        \* ids of attachments rows, as many as the run may insert

ASSUME Disjoint == /\ Items \cap Documents = {}
                   /\ Rows \cap (Items \cup Documents) = {}

Entities == Items \cup Documents \cup Rows
Roles == {"primary", "supplement"}

VARIABLES
  binned,    \* items and documents with trashed_at set
  inserted,  \* attachments rows that exist
  item, doc, role,  \* their columns
  live,      \* rows without trashed_at
  record,    \* record[e]: reason of e's open trash record, "none" without one
  payload    \* payload[i]: attachmentIds in the restore payload of i's open record

columns == <<item, doc, role>>
vars == <<binned, inserted, columns, live, record, payload>>

TypeOK == /\ binned \subseteq Items \cup Documents
          /\ inserted \subseteq Rows
          /\ item \in [Rows -> Items]
          /\ doc \in [Rows -> Documents]
          /\ role \in [Rows -> Roles]
          /\ live \subseteq inserted
          /\ record \in [Entities -> {"none", "user", "cascade"}]
          /\ payload \in [Items -> SUBSET Rows]

Init == /\ binned = {}
        /\ inserted = {}
        /\ item \in {[a \in Rows |-> i] : i \in Items}
        /\ doc \in {[a \in Rows |-> d] : d \in Documents}
        /\ role = [a \in Rows |-> "primary"]
        /\ live = {}
        /\ record = [e \in Entities |-> "none"]
        /\ payload = [i \in Items |-> {}]

-----------------------------------------------------------------------------
LiveOf(i) == {a \in live : item[a] = i}

\* ux_attachments_item_document and ux_attachments_primary over the rows of S
Unique(S) == \A a, b \in S : (a # b /\ item[a] = item[b]) =>
                /\ doc[a] # doc[b]
                /\ ~(role[a] = "primary" /\ role[b] = "primary")

\* findTrashGroup of item i's open record, the attachments in it
Group(i) == {a \in inserted : item[a] = i /\ record[a] = "cascade"}

\* The new row's id: which one it is says nothing.
NewRow == CHOOSE a \in Rows : a \notin inserted

\* attachDocument: refused for a trashed document, a no-op for a pair already attached;
\* a second primary becomes a supplement.
AttachDocument(i, d, r) ==
  /\ d \notin binned
  /\ \A a \in LiveOf(i) : doc[a] # d
  /\ Rows \ inserted # {}
  /\ LET a == NewRow
     IN /\ inserted' = inserted \cup {a}
        /\ item' = [item EXCEPT ![a] = i]
        /\ doc' = [doc EXCEPT ![a] = d]
        /\ role' = [role EXCEPT ![a] = IF \E b \in LiveOf(i) : role[b] = "primary"
                                         THEN "supplement" ELSE r]
        /\ live' = live \cup {a}
  /\ UNCHANGED <<binned, record, payload>>

DetachDocument(a) ==
  /\ a \in live
  /\ live' = live \ {a}
  /\ record' = [record EXCEPT ![a] = "user"]
  /\ UNCHANGED <<binned, inserted, columns, payload>>

\* restoreAttachment: not one that went with its item, not onto a trashed item,
\* not over a trashed document.
RestoreAttachment(a) ==
  /\ a \in inserted
  /\ record[a] = "user"
  /\ item[a] \notin binned
  /\ doc[a] \notin binned
  /\ Unique(live \cup {a})
  /\ live' = live \cup {a}
  /\ record' = [record EXCEPT ![a] = "none"]
  /\ UNCHANGED <<binned, inserted, columns, payload>>

\* trashItem: the item and its live attachments, one group.
TrashItem(i) ==
  /\ i \notin binned
  /\ binned' = binned \cup {i}
  /\ live' = live \ LiveOf(i)
  /\ record' = [e \in Entities |-> IF e = i THEN "user"
                                   ELSE IF e \in LiveOf(i) THEN "cascade" ELSE record[e]]
  /\ payload' = [payload EXCEPT ![i] = LiveOf(i)]
  /\ UNCHANGED <<inserted, columns>>

\* Mutants of RestoreItem: everything ever detached from the item comes back; rows over a
\* trashed document are passed over; the children's records stay open.
RestoreItemWhole(i) ==
  LET all == {a \in inserted : item[a] = i}
  IN /\ record[i] # "none"
     /\ Unique(live \cup all)
     /\ binned' = binned \ {i}
     /\ live' = live \cup all
     /\ record' = [e \in Entities |-> IF e = i \/ e \in all THEN "none" ELSE record[e]]
     /\ payload' = [payload EXCEPT ![i] = {}]
     /\ UNCHANGED <<inserted, columns>>

RestoreItemPassingOver(i) ==
  LET back == {a \in Group(i) : doc[a] \notin binned}
  IN /\ record[i] # "none"
     /\ Unique(live \cup back)
     /\ binned' = binned \ {i}
     /\ live' = live \cup back
     /\ record' = [e \in Entities |-> IF e = i \/ e \in back THEN "none" ELSE record[e]]
     /\ payload' = [payload EXCEPT ![i] = {}]
     /\ UNCHANGED <<inserted, columns>>

RestoreItemOnly(i) ==
  /\ record[i] # "none"
  /\ Unique(live \cup Group(i))
  /\ binned' = binned \ {i}
  /\ live' = live \cup Group(i)
  /\ record' = [record EXCEPT ![i] = "none"]
  /\ payload' = [payload EXCEPT ![i] = {}]
  /\ UNCHANGED <<inserted, columns>>

\* restoreItem: the whole group of its open record, whatever became of the documents.
RestoreItem(i) ==
  /\ record[i] # "none"
  /\ Unique(live \cup Group(i))
  /\ binned' = binned \ {i}
  /\ live' = live \cup Group(i)
  /\ record' = [e \in Entities |-> IF e = i \/ e \in Group(i) THEN "none" ELSE record[e]]
  /\ payload' = [payload EXCEPT ![i] = {}]
  /\ UNCHANGED <<inserted, columns>>

\* trashDocument: refused while a live attachment references it.
TrashDocument(d) ==
  /\ d \notin binned
  /\ \A a \in live : doc[a] # d
  /\ binned' = binned \cup {d}
  /\ record' = [record EXCEPT ![d] = "user"]
  /\ UNCHANGED <<inserted, columns, live, payload>>

RestoreDocument(d) ==
  /\ record[d] # "none"
  /\ binned' = binned \ {d}
  /\ record' = [record EXCEPT ![d] = "none"]
  /\ UNCHANGED <<inserted, columns, live, payload>>

\* purge: closes the record, leaves the entity's row as it is.
Purge(e) ==
  /\ record[e] # "none"
  /\ record' = [record EXCEPT ![e] = "none"]
  /\ payload' = [i \in Items |-> IF i = e THEN {} ELSE payload[i]]
  /\ UNCHANGED <<binned, inserted, columns, live>>

ItemStep(i) == \/ TrashItem(i) \/ RestoreItem(i)
               \/ \E d \in Documents, r \in Roles : AttachDocument(i, d, r)
DocumentStep(d) == TrashDocument(d) \/ RestoreDocument(d)
RowStep(a) == DetachDocument(a) \/ RestoreAttachment(a)

Next == \/ \E i \in Items : ItemStep(i)
        \/ \E d \in Documents : DocumentStep(d)
        \/ \E a \in Rows : RowStep(a)
        \/ \E e \in Entities : Purge(e)

Spec == Init /\ [][Next]_vars

-----------------------------------------------------------------------------
Trashed(e) == e \in binned \/ e \in inserted \ live

\* T1, the half purging keeps: an open trash record is about something in the trash, so
\* `restore` always has something to bring back.
OpenRecordIsAboutTrash == \A e \in Entities : record[e] # "none" => Trashed(e)

\* I4: an attachment that went into the trash with its item is there as long as the item
\* is, and cannot be stranded under a live one, where neither restore would touch it.
CascadeStaysWithItem == \A a \in inserted : record[a] = "cascade" => item[a] \in binned

\* A restored item gets back exactly what went into the trash with it and was not purged
\* since: nothing detached before or after, nothing of another item's.
RestoreIsExact ==
  [][\A i \in Items : (i \in binned /\ i \notin binned') =>
       live' \ live = {a \in payload[i] : record[a] = "cascade"}]_vars

\* D4 as data-model.md states it, from both ends.
NoLiveAttachmentOfTrashed == \A a \in live : doc[a] \notin binned
=============================================================================

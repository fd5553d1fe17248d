-------------------------------- MODULE Notes --------------------------------
(***************************************************************************)
(* Notes: packages/core/src/services/notes.ts, and what trashItem and      *)
(* restoreItem of library.ts do to the notes of an item.  Every operation  *)
(* is one transaction, the write to the search index in it.                *)
(*                                                                         *)
(* Somebody edits a note by what they read of it, handing back the version *)
(* they read; others write without one.  Unlike an attachment, a note that *)
(* went into the trash with its item comes back by itself if asked to, and *)
(* a note may be moved onto an item that is in the trash.                  *)
(***************************************************************************)
EXTENDS Integers

CONSTANTS NoteIds, Hosts, Alone,
          Texts,
          MaxNoteVersion   \* bound: writes to one note

ASSUME NotesSetup == Alone \notin Hosts \cup NoteIds /\ MaxNoteVersion \in Nat /\ Texts \subseteq Nat

VARIABLES
  note,      \* note[n]: its row, version 0 without one, and the reason of its open trash record
  hidden,    \* items in the trash
  bundle,    \* items with an open trash record
  draft,     \* what somebody is editing
  noteIndex  \* search entries of notes: the note, its item, its text

noteVars == <<note, hidden, bundle, draft, noteIndex>>

NotePlaces == Hosts \cup {Alone}
NoNote == [on |-> Alone, text |-> 0, version |-> 0, live |-> FALSE, record |-> "none"]
NoDraft == [of |-> Alone, version |-> 0, overtaken |-> FALSE]

NotesTypeOK ==
  /\ note \in [NoteIds -> [on : NotePlaces, text : Texts \cup {0}, version : 0 .. MaxNoteVersion,
                           live : BOOLEAN, record : {"none", "user", "cascade"}]]
  /\ bundle \subseteq hidden /\ hidden \subseteq Hosts
  /\ draft \in [of : NoteIds \cup {Alone}, version : 0 .. MaxNoteVersion, overtaken : BOOLEAN]
  /\ noteIndex \subseteq NoteIds \X NotePlaces \X Texts

NotesInit == /\ note = [n \in NoteIds |-> NoNote]
             /\ hidden = {} /\ bundle = {} /\ noteIndex = {}
             /\ draft = NoDraft

-----------------------------------------------------------------------------
NotesOn(i) == {n \in NoteIds : note[n].live /\ note[n].on = i}
Bundled(i) == {n \in NoteIds : note[n].record = "cascade" /\ note[n].on = i}

\* Mutant of Reindexed: a note that moves is indexed with the item it leaves.
ReindexedBefore(S) ==
  noteIndex' = {e \in noteIndex : e[1] \notin S}
               \cup {<<n, note[n].on, note'[n].text>> : n \in {m \in S : note'[m].live}}

\* indexNote of the notes of S, after the writes of the step.
Reindexed(S) == noteIndex' = {e \in noteIndex : e[1] \notin S}
                             \cup {<<n, note'[n].on, note'[n].text>> : n \in {m \in S : note'[m].live}}

Put(n, row) == /\ row.version <= MaxNoteVersion
               /\ note' = [note EXCEPT ![n] = row]
               /\ UNCHANGED <<hidden, bundle>>
               /\ Reindexed({n})

\* The draft of n rests on a text or a place n has no more.
Overtake(n) == draft' = [draft EXCEPT !.overtaken = @ \/ (draft.of = n /\ <<note[n].on, note[n].text>>
                                                                  # <<note'[n].on, note'[n].text>>)]

Written(n, on, text) == [note[n] EXCEPT !.on = on, !.text = text, !.version = @ + 1]

CreateNote(n, on, text) ==
  /\ note[n] = NoNote /\ on \notin hidden
  /\ Put(n, [on |-> on, text |-> text, version |-> 1, live |-> TRUE, record |-> "none"])
  /\ UNCHANGED draft

\* update without expectedVersion.
UpdateNote(n, on, text) ==
  /\ note[n].live
  /\ Put(n, Written(n, on, text))
  /\ Overtake(n)

ReadNote(n) == /\ draft = NoDraft /\ note[n].live
               /\ draft' = [NoDraft EXCEPT !.of = n, !.version = note[n].version]
               /\ UNCHANGED <<note, hidden, bundle, noteIndex>>

\* update with it.
SaveDraft(n, on, text) == /\ draft.of = n /\ note[n].live /\ note[n].version = draft.version
                          /\ Put(n, Written(n, on, text))
                          /\ draft' = NoDraft

RefuseDraft(n) == /\ draft.of = n
                  /\ ~note[n].live \/ note[n].version # draft.version
                  /\ draft' = NoDraft
                  /\ UNCHANGED <<note, hidden, bundle, noteIndex>>

TrashNote(n) == /\ note[n].live
                /\ Put(n, [note[n] EXCEPT !.live = FALSE, !.record = "user", !.version = @ + 1])
                /\ UNCHANGED draft

\* Of a note that went with its item too.
RestoreNote(n) == /\ note[n].record # "none"
                  /\ Put(n, [note[n] EXCEPT !.live = TRUE, !.record = "none", !.version = @ + 1])
                  /\ UNCHANGED draft

PurgeNote(n) == /\ note[n].record # "none"
                /\ note' = [note EXCEPT ![n].record = "none"]
                /\ UNCHANGED <<hidden, bundle, draft, noteIndex>>

\* trashItem and restoreItem, which leave the versions of the notes alone.
HideItem(i) ==
  /\ i \notin hidden
  /\ note' = [n \in NoteIds |-> IF n \in NotesOn(i)
                                  THEN [note[n] EXCEPT !.live = FALSE, !.record = "cascade"] ELSE note[n]]
  /\ hidden' = hidden \cup {i} /\ bundle' = bundle \cup {i}
  /\ UNCHANGED draft
  /\ Reindexed(NotesOn(i))

ShowItem(i) ==
  /\ i \in bundle
  /\ note' = [n \in NoteIds |-> IF n \in Bundled(i)
                                  THEN [note[n] EXCEPT !.live = TRUE, !.record = "none"] ELSE note[n]]
  /\ hidden' = hidden \ {i} /\ bundle' = bundle \ {i}
  /\ UNCHANGED draft
  /\ Reindexed(Bundled(i))

PurgeItem(i) == /\ i \in bundle
                /\ bundle' = bundle \ {i}
                /\ UNCHANGED <<note, hidden, draft, noteIndex>>

NoteStep(n) == \/ \E on \in NotePlaces, text \in Texts :
                    CreateNote(n, on, text) \/ UpdateNote(n, on, text) \/ SaveDraft(n, on, text)
               \/ ReadNote(n) \/ RefuseDraft(n)
               \/ TrashNote(n) \/ RestoreNote(n) \/ PurgeNote(n)

HostStep(i) == HideItem(i) \/ ShowItem(i) \/ PurgeItem(i)

NotesNext == (\E n \in NoteIds : NoteStep(n)) \/ \E i \in Hosts : HostStep(i)

-----------------------------------------------------------------------------
(* Properties *)

\* A note is found under the item it is on now by the text it has now, and one
\* that is in the trash is not found (N2).
FoundByNote == noteIndex = {<<n, note[n].on, note[n].text>> : n \in {m \in NoteIds : note[m].live}}

\* What somebody writes with the version they read overwrites nothing they have
\* not read.
SavedDraftsAreCurrent ==
  [][draft # NoDraft /\ draft' = NoDraft /\ note' # note => ~draft.overtaken]_noteVars

\* An open trash record is about a note in the trash, and a note that went there
\* with its item is there only as long as the item is (T1, I4).
NotesStayWithItem ==
  \A n \in NoteIds : /\ note[n].record # "none" => ~note[n].live
                     /\ note[n].record = "cascade" => note[n].on \in hidden
=============================================================================

-------------------------------- MODULE Tags --------------------------------
(***************************************************************************)
(* Tags and the items that carry them: packages/core/src/services/tags.ts. *)
(* Every operation is one transaction; a refused one, for a name that is   *)
(* taken for instance, changes nothing and is left out.  A tag has one of  *)
(* two names, and an item's search entry has those of its tags.            *)
(***************************************************************************)
EXTENDS FiniteSets

CONSTANTS Labels, Papers, NoTag

ASSUME TagsSetup == NoTag \notin Labels

VARIABLES
  labels,   \* tags with a row
  dropped,  \* tags in the trash
  carries,  \* carries[t]: item_tags
  slip,     \* slip[t]: the last trash record: the items that carried t, the tag it
           \* was merged into, open or not
  renamed,  \* tags that go by their second name
  marks     \* marks[i]: the tags, as they were named, of i's search entry

tagVars == <<labels, dropped, carries, slip, renamed, marks>>

NoSlip == [held |-> {}, winner |-> NoTag, open |-> FALSE]

TagsTypeOK == /\ labels \subseteq Labels /\ dropped \subseteq labels
              /\ carries \in [Labels -> SUBSET Papers] /\ renamed \subseteq labels
              /\ marks \in [Papers -> SUBSET (Labels \X BOOLEAN)]
              /\ slip \in [Labels -> [held : SUBSET Papers, winner : Labels \cup {NoTag}, open : BOOLEAN]]

TagsInit == /\ labels = {} /\ dropped = {} /\ renamed = {}
            /\ marks = [i \in Papers |-> {}]
            /\ carries = [t \in Labels |-> {}]
            /\ slip = [t \in Labels |-> NoSlip]

LiveTags == labels \ dropped

TagsOn(i) == {<<t, t \in renamed>> : t \in {u \in LiveTags : i \in carries[u]}}

\* indexItem of the items of S, after the writes of the step.
Remarked(S) == marks' = [i \in Papers |-> IF i \in S THEN TagsOn(i)' ELSE marks[i]]

CreateTag(t) == /\ t \notin labels
                /\ labels' = labels \cup {t}
                /\ UNCHANGED <<dropped, carries, slip, renamed, marks>>

RenameTag(t) == /\ t \in LiveTags
                /\ renamed' = (renamed \ {t}) \cup ({t} \ renamed)
                /\ UNCHANGED <<labels, dropped, carries, slip>>
                /\ Remarked(carries[t])

Assign(t, i) == /\ t \in LiveTags /\ i \notin carries[t]
                /\ carries' = [carries EXCEPT ![t] = @ \cup {i}]
                /\ UNCHANGED <<labels, dropped, slip, renamed>>
                /\ Remarked({i})

Unassign(t, i) == /\ i \in carries[t]
                  /\ carries' = [carries EXCEPT ![t] = @ \ {i}]
                  /\ UNCHANGED <<labels, dropped, slip, renamed>>
                  /\ Remarked({i})

\* Mutant of MergeTags: the record keeps the assignments that moved, not those that collapsed.
MergeTagsMovedOnly(loser, winner) ==
  /\ loser # winner /\ {loser, winner} \subseteq LiveTags
  /\ carries' = [carries EXCEPT ![winner] = @ \cup carries[loser], ![loser] = {}]
  /\ dropped' = dropped \cup {loser}
  /\ slip' = [slip EXCEPT ![loser] = [held |-> carries[loser] \ carries[winner],
                                      winner |-> winner, open |-> TRUE]]
  /\ UNCHANGED <<labels, renamed>>
  /\ Remarked(carries[loser])

\* The record of a merge is restored as one of a trash: the winner keeps what it got.
MergeTags(loser, winner) ==
  /\ loser # winner /\ {loser, winner} \subseteq LiveTags
  /\ carries' = [carries EXCEPT ![winner] = @ \cup carries[loser], ![loser] = {}]
  /\ dropped' = dropped \cup {loser}
  /\ slip' = [slip EXCEPT ![loser] = [held |-> carries[loser], winner |-> winner, open |-> TRUE]]
  /\ UNCHANGED <<labels, renamed>>
  /\ Remarked(carries[loser])

TrashTag(t) == /\ t \in LiveTags
               /\ carries' = [carries EXCEPT ![t] = {}]
               /\ dropped' = dropped \cup {t}
               /\ slip' = [slip EXCEPT ![t] = [NoSlip EXCEPT !.held = carries[t], !.open = TRUE]]
               /\ UNCHANGED <<labels, renamed>>
               /\ Remarked(carries[t])

RestoreTag(t) == /\ slip[t].open
                 /\ carries' = [carries EXCEPT ![t] = @ \cup slip[t].held]
                 /\ dropped' = dropped \ {t}
                 /\ slip' = [slip EXCEPT ![t].open = FALSE]
                 /\ UNCHANGED <<labels, renamed>>
                 /\ Remarked(slip[t].held)

\* TrashService.purge
PurgeTag(t) == /\ slip[t].open
               /\ slip' = [slip EXCEPT ![t].open = FALSE]
               /\ UNCHANGED <<labels, dropped, carries, renamed, marks>>

TagStep(t) == \/ CreateTag(t) \/ RenameTag(t) \/ TrashTag(t) \/ RestoreTag(t) \/ PurgeTag(t)
              \/ \E i \in Papers : Assign(t, i) \/ Unassign(t, i)
              \/ \E w \in Labels : MergeTags(t, w)

TagsNext == \E t \in Labels : TagStep(t)

-----------------------------------------------------------------------------
(* Properties *)

\* The search entry of an item has the names its tags have now.
FoundByTag == \A i \in Papers : marks[i] = TagsOn(i)

\* What carries a tag, or carried it when it went to the trash.
Carriers(t) == IF t \in dropped THEN slip[t].held ELSE carries[t]

\* What a tag was on when it went to the trash it is on again when it returns, and on nothing
\* meanwhile; the winner of a merge is on all that the loser was on, and undoing the merge takes
\* no tag off an item.  So it does not take from the winner what the merge alone gave it: the
\* comment of merge() says that the reversal removes exactly those assignments (tags.ts:479),
\* but restore() does not read the list of them that the record keeps.
NothingUntagged ==
  [][\A t \in Labels :
       /\ t \in dropped => carries[t] = {}
       /\ t \in dropped \cup dropped' => Carriers(t)' = Carriers(t)
       /\ t \in dropped' \ dropped /\ slip'[t].winner # NoTag =>
            carries'[slip'[t].winner] = carries[slip'[t].winner] \cup carries[t]
       /\ t \in dropped \ dropped' =>
            \A u \in Labels \ {t} : carries'[u] = carries[u]]_tagVars
=============================================================================

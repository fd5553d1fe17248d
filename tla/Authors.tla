------------------------------- MODULE Authors -------------------------------
(***************************************************************************)
(* Creators, the author lists of items, and merging one creator into       *)
(* another: packages/core/src/services/creators.ts.  Every operation is    *)
(* one transaction.                                                        *)
(*                                                                         *)
(* A list is a sequence, ordinals from zero in the code from one here.  A  *)
(* merge gives the loser's places to the winner, drops those the winner    *)
(* has already, and puts the loser in the trash with a record of its       *)
(* places; restoring it undoes the merge.  A refused operation changes     *)
(* nothing and is left out: two different ORCIDs, or a loser with an ORCID *)
(* and a winner without, which the unique index on ORCIDs refuses.         *)
(***************************************************************************)
EXTENDS Integers, FiniteSets, Sequences

CONSTANTS Creators, Works, Parts, Nobody,
          MaxPlaces,   \* bound: length of a list
          MaxForms     \* bound: names a creator goes by

ASSUME AuthorsSetup == Nobody \notin Creators /\ {MaxPlaces, MaxForms} \subseteq Nat

VARIABLES
  list,     \* list[w]: item_creators
  shelved,  \* items in the trash
  gone,     \* creators in the trash
  into,     \* into[c]: merged_into_creator_id
  trace,    \* trace[c]: the open trash record: none, or of a user or a merge with the lists before it
  forms,    \* forms[c]: the names c goes by: its own, which is c here, and name_variants
  printed   \* printed[w]: the names the search entry of w has, none without an entry

authorVars == <<list, shelved, gone, into, trace, forms, printed>>

Places == [who : Creators, role : Parts]
Lists == UNION {[1 .. n -> Places] : n \in 0 .. MaxPlaces}
Closed == [reason |-> "none", before |-> [w \in Works |-> <<>>]]

AuthorsTypeOK ==
  /\ list \in [Works -> Seq(Places)]
  /\ shelved \subseteq Works /\ gone \subseteq Creators
  /\ into \in [Creators -> Creators \cup {Nobody}]
  /\ forms \in [Creators -> SUBSET Creators] /\ printed \in [Works -> SUBSET Creators]
  /\ trace \in [Creators -> [reason : {"none", "user", "merge"}, before : [Works -> Seq(Places)]]]

AuthorsInit == /\ list = [w \in Works |-> <<>>]
               /\ shelved = {} /\ gone = {}
               /\ into = [c \in Creators |-> Nobody]
               /\ trace = [c \in Creators |-> Closed]
               /\ forms = [c \in Creators |-> {c}]
               /\ printed = [w \in Works |-> {}]

Named(l) == {l[n].who : n \in DOMAIN l}
Distinct(l) == \A m, n \in DOMAIN l : l[m] = l[n] => m = n

NamesOn(w) == IF w \in shelved THEN {} ELSE UNION {forms[c] : c \in Named(list[w])}

\* indexItem of the items of S, after the writes of the step.
Reprinted(S) == printed' = [w \in Works |-> IF w \in S THEN NamesOn(w)' ELSE printed[w]]

ListsOf(c) == {w \in Works : c \in Named(list[w])}

\* setItemCreators, which addToItem calls too.
SetItemCreators(w, l) ==
  /\ l # list[w] /\ Distinct(l) /\ Named(l) \cap gone = {}
  /\ list' = [list EXCEPT ![w] = l]
  /\ UNCHANGED <<shelved, gone, into, trace, forms>>
  /\ Reprinted({w})

\* update: the variants are typed anew, and every item of c is indexed.
RewriteForms(c) ==
  /\ c \notin gone
  /\ forms' = [forms EXCEPT ![c] = {c}]
  /\ UNCHANGED <<list, shelved, gone, into, trace>>
  /\ Reprinted(ListsOf(c))

\* Ordinals from zero again: the rows of f in their order.
Densify(f) == [n \in 1 .. Cardinality(DOMAIN f) |->
                 f[CHOOSE o \in DOMAIN f : Cardinality({p \in DOMAIN f : p <= o}) = n]]

\* One list when the loser's places are the winner's.
MergedList(l, loser, winner) ==
  LET clash == {n \in DOMAIN l : l[n].who = loser
                                 /\ \E m \in DOMAIN l : l[m] = [l[n] EXCEPT !.who = winner]}
  IN Densify([n \in DOMAIN l \ clash |-> IF l[n].who = loser THEN [l[n] EXCEPT !.who = winner] ELSE l[n]])

MergedLists(lists, loser, winner) == [w \in Works |-> MergedList(lists[w], loser, winner)]

\* The winner goes by the loser's names from here on, also after an undo; only the
\* items of the loser are indexed.
MergeCreators(loser, winner) ==
  /\ loser # winner /\ {loser, winner} \cap gone = {}
  /\ list' = MergedLists(list, loser, winner)
  /\ gone' = gone \cup {loser}
  /\ into' = [into EXCEPT ![loser] = winner]
  /\ trace' = [trace EXCEPT ![loser] = [reason |-> "merge", before |-> list]]
  /\ Cardinality(forms[winner] \cup forms[loser]) <= MaxForms
  /\ forms' = [forms EXCEPT ![winner] = @ \cup forms[loser]]
  /\ UNCHANGED shelved
  /\ Reprinted(ListsOf(loser))

\* Refused while the creator is on an item that is not in the trash.
TrashCreator(c) ==
  /\ c \notin gone /\ \A w \in Works \ shelved : c \notin Named(list[w])
  /\ gone' = gone \cup {c}
  /\ trace' = [trace EXCEPT ![c] = [Closed EXCEPT !.reason = "user"]]
  /\ UNCHANGED <<list, shelved, into, forms, printed>>

\* Mutant of Reinstated: the loser's rows come back beside the winner's.
ReinstatedBeside(l, old, c) ==
  LET mine == {n \in DOMAIN old : old[n].who = c}
  IN l \o Densify([n \in mine |-> old[n]])

\* The row of each ordinal the loser had gives way to the loser's.
Reinstated(l, old, c) ==
  LET mine == {n \in DOMAIN old : old[n].who = c}
  IN Densify([n \in DOMAIN l \cup mine |-> IF n \in mine THEN old[n] ELSE l[n]])

RestoreCreator(c) ==
  /\ trace[c].reason # "none"
  /\ list' = IF trace[c].reason = "merge"
               THEN [w \in Works |-> Reinstated(list[w], trace[c].before[w], c)] ELSE list
  /\ gone' = gone \ {c}
  /\ into' = [into EXCEPT ![c] = Nobody]
  /\ trace' = [trace EXCEPT ![c] = Closed]
  /\ UNCHANGED <<shelved, forms>>
  /\ Reprinted(IF trace[c].reason = "merge" THEN {w \in Works : c \in Named(trace[c].before[w])} ELSE {})

\* TrashService.purge: the creator stays in the trash for good.
PurgeCreator(c) == /\ trace[c].reason # "none"
                   /\ trace' = [trace EXCEPT ![c] = Closed]
                   /\ UNCHANGED <<list, shelved, gone, into, forms, printed>>

\* LibraryService.trashItem and restoreItem, which leave the list alone.
ShelveItem(w) == /\ w \notin shelved
                 /\ shelved' = shelved \cup {w}
                 /\ UNCHANGED <<list, gone, into, trace, forms>>
                 /\ Reprinted({w})

UnshelveItem(w) == /\ w \in shelved
                   /\ shelved' = shelved \ {w}
                   /\ UNCHANGED <<list, gone, into, trace, forms>>
                   /\ Reprinted({w})

CreatorStep(c) == \/ \E d \in Creators : MergeCreators(c, d)
                  \/ RewriteForms(c) \/ TrashCreator(c) \/ RestoreCreator(c) \/ PurgeCreator(c)

WorkStep(w) == \/ \E l \in Lists : SetItemCreators(w, l)
               \/ ShelveItem(w) \/ UnshelveItem(w)

AuthorsNext == (\E c \in Creators : CreatorStep(c)) \/ \E w \in Works : WorkStep(w)

-----------------------------------------------------------------------------
(* Properties *)

\* Nobody is on an item twice in one role, however merges and restores follow
\* each other (IC2).
NobodyTwice == \A w \in Works : Distinct(list[w])

\* Restoring the loser of a merge gives the lists back as they were, if no list
\* was edited since and the merge dropped no place.
Dropped(c) == \E w \in Works : Len(MergedList(trace[c].before[w], c, into[c])) # Len(trace[c].before[w])

UnmergeIsExact ==
  [][\A c \in Creators :
       /\ trace[c].reason = "merge" /\ c \in gone /\ c \notin gone'
       /\ list = MergedLists(trace[c].before, c, into[c]) /\ ~Dropped(c)
       => list' = trace[c].before]_authorVars

\* An item is found by the name of each of its authors and by no name none of
\* them goes by.  Names taken over in a merge may be missing: the winner's other
\* items are not indexed.
FoundByName == \A w \in Works \ shelved : /\ Named(list[w]) \subseteq printed[w]
                                          /\ printed[w] \subseteq NamesOn(w)

\* An item that is not in the trash names nobody who is, unless it was there
\* when they went.
NamesTheTrashed(w) == w \notin shelved /\ Named(list[w]) \cap gone # {}

OnlyRestoredNameTheTrashed ==
  [][\A w \in Works : NamesTheTrashed(w)' /\ ~NamesTheTrashed(w) => w \in shelved]_authorVars
=============================================================================

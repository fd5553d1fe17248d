----------------------------- MODULE Collections -----------------------------
(***************************************************************************)
(* The collection tree and its trash: packages/core/src/services/          *)
(* collections.ts.  Every operation is one transaction.                    *)
(*                                                                         *)
(* A collection takes its descendants into the trash with it, under one    *)
(* group, but never its items: which items it held is written into its     *)
(* record.  A refused operation changes nothing and is left out: a sibling *)
(* of the same name, rows for a saved search.                              *)
(***************************************************************************)
EXTENDS Integers, FiniteSets

CONSTANTS Folders, Members, Top

ASSUME TreeSetup == IsFiniteSet(Folders) /\ Top \notin Folders

VARIABLES
  made,    \* collections with a row
  parent,
  depth,
  bin,     \* collections in the trash
  filed,      \* filed[c]: collection_items
  treeRecord  \* treeRecord[c]: the last trash record: the root of its group, the items, open or not

treeVars == <<made, parent, depth, bin, filed, treeRecord>>

NoRecord == [group |-> Top, held |-> {}, open |-> FALSE]

TreeTypeOK ==
  /\ made \subseteq Folders /\ bin \subseteq made
  /\ parent \in [Folders -> Folders \cup {Top}]
  /\ depth \in [Folders -> 0 .. Cardinality(Folders)]
  /\ filed \in [Folders -> SUBSET Members]
  /\ treeRecord \in [Folders -> [group : Folders \cup {Top}, held : SUBSET Members, open : BOOLEAN]]

TreeInit == /\ made = {} /\ bin = {}
            /\ parent = [c \in Folders |-> Top]
            /\ depth = [c \in Folders |-> 0]
            /\ filed = [c \in Folders |-> {}]
            /\ treeRecord = [c \in Folders |-> NoRecord]

LiveTree == made \ bin
DepthUnder(p) == IF p = Top THEN 0 ELSE depth[p] + 1

\* The n-th row on the way up from d.
Up(d, n) == LET at[i \in 0 .. n] == IF i = 0 THEN d
                                    ELSE LET below == at[i - 1]
                                         IN IF below = Top THEN Top ELSE parent[below]
            IN at[n]

\* The recursive query over parent_id, trashed rows included, with the distance of each.
Distances(c, d) == {n \in 0 .. Cardinality(Folders) : Up(d, n) = c}
Subtree(c) == {d \in made : Distances(c, d) # {}}

Create(c, p) == /\ c \notin made /\ p \in LiveTree \cup {Top}
                /\ made' = made \cup {c}
                /\ parent' = [parent EXCEPT ![c] = p]
                /\ depth' = [depth EXCEPT ![c] = DepthUnder(p)]
                /\ UNCHANGED <<bin, filed, treeRecord>>

\* Mutant of MoveUnder: the depths of what is in the trash are left alone.
MoveUnderLive(c, p) ==
  LET moving == Subtree(c)
  IN /\ c \in LiveTree /\ p \in (LiveTree \cup {Top}) \ moving
     /\ parent' = [parent EXCEPT ![c] = p]
     /\ depth' = [d \in Folders |-> IF d \in moving \ bin
                                      THEN DepthUnder(p) + (CHOOSE n \in Distances(c, d) : TRUE)
                                      ELSE depth[d]]
     /\ UNCHANGED <<made, bin, filed, treeRecord>>

\* Walks up from p, and refuses when it meets c.
MoveUnder(c, p) ==
  LET moving == Subtree(c)
  IN /\ c \in LiveTree /\ p \in (LiveTree \cup {Top}) \ moving
     /\ parent' = [parent EXCEPT ![c] = p]
     /\ depth' = [d \in Folders |-> IF d \in moving
                                      THEN DepthUnder(p) + (CHOOSE n \in Distances(c, d) : TRUE)
                                      ELSE depth[d]]
     /\ UNCHANGED <<made, bin, filed, treeRecord>>

AddItem(c, i) == /\ c \in LiveTree /\ i \notin filed[c]
                 /\ filed' = [filed EXCEPT ![c] = @ \cup {i}]
                 /\ UNCHANGED <<made, parent, depth, bin, treeRecord>>

RemoveItem(c, i) == /\ i \in filed[c]
                    /\ filed' = [filed EXCEPT ![c] = @ \ {i}]
                    /\ UNCHANGED <<made, parent, depth, bin, treeRecord>>

\* Mutant of TrashTree: what is in the trash already joins the new group.
TrashTreeWhole(c) ==
  LET going == Subtree(c)
  IN /\ c \in LiveTree
     /\ bin' = bin \cup going
     /\ treeRecord' = [d \in Folders |-> IF d \in going
                                       THEN [group |-> c, held |-> filed[d], open |-> TRUE]
                                       ELSE treeRecord[d]]
     /\ filed' = [d \in Folders |-> IF d \in going THEN {} ELSE filed[d]]
     /\ UNCHANGED <<made, parent, depth>>

\* What is in the trash already keeps its record, but what is live below it goes too.
TrashTree(c) ==
  LET going == Subtree(c) \ bin
  IN /\ c \in LiveTree
     /\ bin' = bin \cup going
     /\ treeRecord' = [d \in Folders |-> IF d \in going
                                       THEN [group |-> c, held |-> filed[d], open |-> TRUE]
                                       ELSE treeRecord[d]]
     /\ filed' = [d \in Folders |-> IF d \in going THEN {} ELSE filed[d]]
     /\ UNCHANGED <<made, parent, depth>>

\* findTrashGroup
GroupOf(c) == {d \in made : treeRecord[d].open /\ treeRecord[d].group = treeRecord[c].group}

\* Brings back the whole group, whichever of it is asked for.
RestoreTree(c) ==
  LET back == GroupOf(c)
  IN /\ treeRecord[c].open
     /\ bin' = bin \ back
     /\ filed' = [d \in Folders |-> IF d \in back THEN filed[d] \cup treeRecord[d].held ELSE filed[d]]
     /\ treeRecord' = [d \in Folders |-> IF d \in back THEN [treeRecord[d] EXCEPT !.open = FALSE] ELSE treeRecord[d]]
     /\ UNCHANGED <<made, parent, depth>>

\* TrashService.purge closes the record; the collection stays in the trash for good.
PurgeTree(c) == /\ treeRecord[c].open
                /\ treeRecord' = [treeRecord EXCEPT ![c].open = FALSE]
                /\ UNCHANGED <<made, parent, depth, bin, filed>>

TreeStep(c) == \/ \E p \in Folders \cup {Top} : Create(c, p) \/ MoveUnder(c, p)
               \/ \E i \in Members : AddItem(c, i) \/ RemoveItem(c, i)
               \/ TrashTree(c) \/ RestoreTree(c) \/ PurgeTree(c)

TreeNext == \E c \in Folders : TreeStep(c)

-----------------------------------------------------------------------------
(* Properties *)

\* The hierarchy is a forest, in and out of the trash, and every depth is right
\* (spec/data-model.md, C1 and C4): rows whose depths grow by one downwards
\* close no circle.
DepthIsTrue == \A c \in made : /\ parent[c] \in made \cup {Top}
                               /\ depth[c] = DepthUnder(parent[c])

\* What a collection holds, or held when it went to the trash.
Holds(c) == IF c \in bin THEN treeRecord[c].held ELSE filed[c]

\* Neither the trash nor a restore, of any part of a tree in any order, files
\* or unfiles an item: a collection in the trash lists none, and has those of
\* its record back when it returns (C3).
NothingUnfiled ==
  [][\A c \in Folders : /\ c \in bin => filed[c] = {}
                        /\ c \in bin \/ c \in bin' => Holds(c)' = Holds(c)]_treeVars

\* A cascade comes back whole: a live collection is below one in the trash only
\* when the two went there apart, or when the record of the upper was purged.
CascadesReturnWhole ==
  \A c \in LiveTree : parent[c] \in bin =>
    \/ treeRecord[parent[c]].group # treeRecord[c].group
    \/ ~treeRecord[parent[c]].open
=============================================================================

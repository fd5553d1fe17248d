---------------------------- MODULE LibraryProofs ----------------------------
(***************************************************************************)
(* Theorems about Library, for any sets of items, collections, creators,   *)
(* tags, notes and fields.  Each part has its inductive invariant and what *)
(* its steps do; the theorems put them together at the end.                *)
(***************************************************************************)
EXTENDS Library, FiniteSetTheorems, WellFoundedInduction, TLAPS

-----------------------------------------------------------------------------
(* Documents, attachments and the trash, by themselves (DocumentTrash). *)

\* An open record is about a trashed row, told apart by what it is about.
RowRecords == \A a \in Rows : record[a] # "none" => a \in inserted \ live
OtherRecords == \A e \in Items \cup Documents : record[e] # "none" => e \in binned

\* A payload names rows of its item, and while the item's record is open it names at least
\* the group of its children: what is missing from the group was purged one by one.
PayloadIsGroup ==
  /\ \A i \in Items : \A a \in payload[i] : a \in inserted /\ item[a] = i
  /\ \A i \in Items : record[i] # "none" =>
       \A a \in inserted : (item[a] = i /\ record[a] = "cascade") => a \in payload[i]

\* The inductive invariant.
Inv == TypeOK /\ RowRecords /\ OtherRecords /\ CascadeStaysWithItem /\ PayloadIsGroup

LEMMA InitInv == Init => Inv
BY Disjoint DEF Init, Inv, TypeOK, RowRecords, OtherRecords, CascadeStaysWithItem,
                PayloadIsGroup, Entities, Roles

LEMMA AttachInv ==
  ASSUME Inv, NEW i \in Items, NEW d \in Documents, NEW r \in Roles, AttachDocument(i, d, r)
  PROVE  Inv'
<1>1. PICK a \in Rows \ inserted :
        /\ inserted' = inserted \cup {a}
        /\ item' = [item EXCEPT ![a] = i]
        /\ doc' = [doc EXCEPT ![a] = d]
        /\ role' = [role EXCEPT ![a] = IF \E b \in LiveOf(i) : role[b] = "primary"
                                          THEN "supplement" ELSE r]
        /\ live' = live \cup {a}
        /\ UNCHANGED <<binned, record, payload>>
  <2>1. PICK b \in Rows : b \notin inserted
    BY DEF AttachDocument
  <2>2. NewRow \in Rows \ inserted
    BY <2>1 DEF NewRow
  <2> QED
    BY <2>2 DEF AttachDocument
<1>2. TypeOK'
  BY <1>1 DEF Inv, TypeOK, Roles
<1>3. RowRecords' /\ OtherRecords'
  BY <1>1 DEF Inv, TypeOK, RowRecords, OtherRecords
<1>4. CascadeStaysWithItem'
  BY <1>1 DEF Inv, TypeOK, RowRecords, CascadeStaysWithItem
<1>5. PayloadIsGroup'
  BY <1>1 DEF Inv, TypeOK, RowRecords, PayloadIsGroup
<1> QED
  BY <1>2, <1>3, <1>4, <1>5 DEF Inv

LEMMA DetachInv == ASSUME Inv, NEW a \in Rows, DetachDocument(a) PROVE Inv'
<1> USE DEF DetachDocument, columns
<1>1. TypeOK'
  BY Disjoint DEF Inv, TypeOK, Entities
<1>2. RowRecords' /\ OtherRecords' /\ CascadeStaysWithItem'
  BY Disjoint DEF Inv, TypeOK, Entities, RowRecords, OtherRecords, CascadeStaysWithItem
<1>3. PayloadIsGroup'
  BY Disjoint DEF Inv, TypeOK, Entities, RowRecords, PayloadIsGroup
<1> QED
  BY <1>1, <1>2, <1>3 DEF Inv

LEMMA RestoreAttachmentInv == ASSUME Inv, NEW a \in Rows, RestoreAttachment(a) PROVE Inv'
<1> USE DEF RestoreAttachment, columns
<1>1. TypeOK'
  BY Disjoint DEF Inv, TypeOK, Entities
<1>2. RowRecords' /\ OtherRecords' /\ CascadeStaysWithItem'
  BY Disjoint DEF Inv, TypeOK, Entities, RowRecords, OtherRecords, CascadeStaysWithItem
<1>3. PayloadIsGroup'
  BY Disjoint DEF Inv, TypeOK, Entities, PayloadIsGroup
<1> QED
  BY <1>1, <1>2, <1>3 DEF Inv

LEMMA TrashItemInv == ASSUME Inv, NEW i \in Items, TrashItem(i) PROVE Inv'
<1> USE DEF TrashItem, columns, LiveOf
<1>1. TypeOK'
  BY Disjoint DEF Inv, TypeOK, Entities
<1>2. RowRecords'
  BY Disjoint DEF Inv, TypeOK, Entities, RowRecords
<1>3. OtherRecords'
  BY Disjoint DEF Inv, TypeOK, Entities, OtherRecords
<1>4. CascadeStaysWithItem'
  BY Disjoint DEF Inv, TypeOK, Entities, CascadeStaysWithItem
<1>5. PayloadIsGroup'
  <2>1. \A j \in Items : \A a \in payload'[j] : a \in inserted' /\ item'[a] = j
    BY DEF Inv, TypeOK, PayloadIsGroup
  <2>2. \A a \in inserted : item[a] = i => record[a] # "cascade"
    BY DEF Inv, CascadeStaysWithItem
  <2>3. ASSUME NEW j \in Items, record'[j] # "none", NEW a \in inserted', item'[a] = j,
               record'[a] = "cascade"
        PROVE  a \in payload'[j]
    BY <2>2, <2>3, Disjoint DEF Inv, TypeOK, Entities, PayloadIsGroup
  <2> QED
    BY <2>1, <2>3 DEF PayloadIsGroup
<1> QED
  BY <1>1, <1>2, <1>3, <1>4, <1>5 DEF Inv

LEMMA RestoreItemInv == ASSUME Inv, NEW i \in Items, RestoreItem(i) PROVE Inv'
<1> USE DEF RestoreItem, columns, Group
<1>1. TypeOK'
  BY Disjoint DEF Inv, TypeOK, Entities
<1>2. RowRecords' /\ OtherRecords'
  BY Disjoint DEF Inv, TypeOK, Entities, RowRecords, OtherRecords
<1>3. CascadeStaysWithItem'
  BY Disjoint DEF Inv, TypeOK, Entities, CascadeStaysWithItem
<1>4. PayloadIsGroup'
  BY Disjoint DEF Inv, TypeOK, Entities, PayloadIsGroup
<1> QED
  BY <1>1, <1>2, <1>3, <1>4 DEF Inv

LEMMA DocumentInv ==
  ASSUME Inv, NEW d \in Documents, TrashDocument(d) \/ RestoreDocument(d) PROVE Inv'
<1> USE DEF TrashDocument, RestoreDocument, columns
<1>1. TypeOK'
  BY Disjoint DEF Inv, TypeOK, Entities
<1>2. RowRecords' /\ OtherRecords' /\ CascadeStaysWithItem'
  BY Disjoint DEF Inv, TypeOK, Entities, RowRecords, OtherRecords, CascadeStaysWithItem
<1>3. PayloadIsGroup'
  BY Disjoint DEF Inv, TypeOK, Entities, PayloadIsGroup
<1> QED
  BY <1>1, <1>2, <1>3 DEF Inv

LEMMA PurgeInv == ASSUME Inv, NEW e \in Entities, Purge(e) PROVE Inv'
<1> USE DEF Purge, columns
<1>1. TypeOK'
  BY Disjoint DEF Inv, TypeOK, Entities
<1>2. RowRecords' /\ OtherRecords' /\ CascadeStaysWithItem'
  BY Disjoint DEF Inv, TypeOK, Entities, RowRecords, OtherRecords, CascadeStaysWithItem
<1>3. PayloadIsGroup'
  BY Disjoint DEF Inv, TypeOK, Entities, PayloadIsGroup
<1> QED
  BY <1>1, <1>2, <1>3 DEF Inv

LEMMA StepInv == Inv /\ [Next]_vars => Inv'
<1> SUFFICES ASSUME Inv, [Next]_vars PROVE Inv'
  OBVIOUS
<1>1. CASE \E i \in Items : ItemStep(i)
  BY <1>1, TrashItemInv, RestoreItemInv, AttachInv DEF ItemStep
<1>2. CASE \E d \in Documents : DocumentStep(d)
  BY <1>2, DocumentInv DEF DocumentStep
<1>3. CASE \E a \in Rows : RowStep(a)
  BY <1>3, DetachInv, RestoreAttachmentInv DEF RowStep
<1>4. CASE \E e \in Entities : Purge(e)
  BY <1>4, PurgeInv
<1>5. CASE UNCHANGED vars
  BY <1>5 DEF vars, columns, Inv, TypeOK, RowRecords, OtherRecords, CascadeStaysWithItem,
              PayloadIsGroup
<1> QED
  BY <1>1, <1>2, <1>3, <1>4, <1>5 DEF Next

\* Every reachable state of the trash satisfies the inductive invariant.
THEOREM InvHolds == Spec => []Inv
BY InitInv, StepInv, PTL DEF Spec

\* Nothing outside the trash ever has an open trash record (T1, the half that holds).
THEOREM RecordsHold == Spec => []OpenRecordIsAboutTrash
<1>1. Inv => OpenRecordIsAboutTrash
  BY DEF Inv, RowRecords, OtherRecords, OpenRecordIsAboutTrash, Trashed, Entities
<1> QED
  BY <1>1, InvHolds, PTL

\* An attachment trashed with its item is never left behind under a live item (I4).
THEOREM CascadeHolds == Spec => []CascadeStaysWithItem
<1>1. Inv => CascadeStaysWithItem
  BY DEF Inv
<1> QED
  BY <1>1, InvHolds, PTL

-----------------------------------------------------------------------------
\* What a step brings back to life when it takes an item out of the trash.
LEMMA RestoreStep ==
  ASSUME Inv, [Next]_vars, NEW i \in Items, i \in binned, i \notin binned'
  PROVE  live' \ live = {a \in payload[i] : record[a] = "cascade"}
<1>1. RestoreItem(i)
  <2>1. ~ UNCHANGED vars
    BY DEF vars
  <2>2. \A j \in Items : ItemStep(j) => RestoreItem(i)
    BY DEF ItemStep, TrashItem, RestoreItem, AttachDocument
  <2>3. \A d \in Documents : ~ DocumentStep(d)
    BY Disjoint DEF DocumentStep, TrashDocument, RestoreDocument
  <2>4. \A a \in Rows : ~ RowStep(a)
    BY DEF RowStep, DetachDocument, RestoreAttachment
  <2>5. \A e \in Entities : ~ Purge(e)
    BY DEF Purge
  <2> QED
    BY <2>1, <2>2, <2>3, <2>4, <2>5 DEF Next
<1>2. live' = live \cup Group(i) /\ record[i] # "none"
  BY <1>1 DEF RestoreItem
<1>3. Group(i) \cap live = {}
  BY DEF Inv, TypeOK, RowRecords, Group
<1>4. Group(i) = {a \in payload[i] : record[a] = "cascade"}
  BY <1>2 DEF Inv, TypeOK, PayloadIsGroup, Group
<1> QED
  BY <1>2, <1>3, <1>4

\* Restoring an item is exact however many detachments, restores, purges and re-attachments
\* came between its going into the trash and its coming back.
THEOREM RestoreHolds == Spec => RestoreIsExact
<1>1. Inv /\ [Next]_vars =>
        [\A i \in Items : (i \in binned /\ i \notin binned') =>
           live' \ live = {a \in payload[i] : record[a] = "cascade"}]_vars
  BY RestoreStep
<1> QED
  BY <1>1, InvHolds, PTL DEF Spec, RestoreIsExact

-----------------------------------------------------------------------------
(* The tree of collections. *)

\* Induction as a fact about a set: what has 0 and each successor has every number.
LEMMA Counting ==
  ASSUME NEW S, 0 \in S, \A n \in Nat : n \in S => n + 1 \in S PROVE Nat \subseteq S
<1> SUFFICES ASSUME Nat \ S # {} PROVE FALSE
  OBVIOUS
<1> DEFINE T == Nat \ S
<1>1. PICK x \in T : \A y \in T : ~ (<<y, x>> \in OpToRel(<, Nat))
  BY NatLessThanWellFounded, WFMin
<1>2. \A y \in T : ~ (y < x)
  BY <1>1 DEF OpToRel
<1>3. x # 0 /\ x - 1 \in Nat /\ x - 1 < x /\ (x - 1) + 1 = x
  OBVIOUS
<1>4. x - 1 \in S
  BY <1>2, <1>3
<1> QED
  BY <1>3, <1>4

-----------------------------------------------------------------------------
(* The way up, in any table g of parents. *)

Climb(g, d, n, f) == f = [i \in 0 .. n |-> IF i = 0 THEN d
                                           ELSE LET below == f[i - 1]
                                                IN IF below = Top THEN Top ELSE g[below]]
Above(g, d, n) == (CHOOSE f : Climb(g, d, n, f))[n]

LEMMA UpIsAbove == \A d, n : Up(d, n) = Above(parent, d, n)
BY DEF Up, Above, Climb

LEMMA Climbs == ASSUME NEW g, NEW d, NEW n \in Nat PROVE \E f : Climb(g, d, n, f)
<1> DEFINE S == {k \in Nat : \E f : Climb(g, d, k, f)}
<1>1. 0 \in S
  <2>1. Climb(g, d, 0, [i \in 0 .. 0 |-> d])
    BY DEF Climb
  <2> QED
    BY <2>1
<1>2. ASSUME NEW k \in Nat, k \in S PROVE k + 1 \in S
  <2>1. PICK f : Climb(g, d, k, f)
    BY <1>2
  <2> DEFINE next == IF f[k] = Top THEN Top ELSE g[f[k]]
             h == [i \in 0 .. k + 1 |-> IF i = k + 1 THEN next ELSE f[i]]
  <2>2. \A i \in 0 .. k : h[i] = f[i]
    OBVIOUS
  <2>3. h[k + 1] = next
    OBVIOUS
  <2>4. \A i \in 0 .. k : f[i] = IF i = 0 THEN d ELSE IF f[i - 1] = Top THEN Top ELSE g[f[i - 1]]
    BY <2>1 DEF Climb
  <2> DEFINE e(i) == IF i = 0 THEN d ELSE IF h[i - 1] = Top THEN Top ELSE g[h[i - 1]]
  <2>5. ASSUME NEW i \in 0 .. k + 1 PROVE h[i] = e(i)
    <3>1. CASE i = k + 1
      <4>1. h[i - 1] = f[k] /\ i # 0
        BY <3>1
      <4> QED
        BY <2>3, <3>1, <4>1
    <3>2. CASE i # k + 1 /\ i # 0
      <4>1. i \in 0 .. k /\ i - 1 \in 0 .. k
        BY <3>2
      <4> QED
        BY <2>2, <2>4, <3>2, <4>1
    <3>3. CASE i = 0
      BY <2>2, <2>4, <3>3
    <3> QED
      BY <3>1, <3>2, <3>3
  <2>6. h = [i \in 0 .. k + 1 |-> h[i]]
    OBVIOUS
  <2> HIDE DEF h
  <2>7. Climb(g, d, k + 1, h)
    BY <2>5, <2>6 DEF Climb
  <2> QED
    BY <2>7
<1>3. Nat \subseteq S
  BY <1>1, <1>2, Counting
<1> QED
  BY <1>3

\* Two ways up are the same as far as both go.
LEMMA OneClimb ==
  ASSUME NEW g, NEW d, NEW n \in Nat, NEW m \in Nat, NEW f, Climb(g, d, n, f), NEW h, Climb(g, d, m, h)
  PROVE  \A i \in Nat : i <= n /\ i <= m => f[i] = h[i]
<1> DEFINE S == {k \in Nat : k <= n /\ k <= m => f[k] = h[k]}
<1>1. 0 \in S
  <2>1. 0 \in 0 .. n /\ 0 \in 0 .. m
    OBVIOUS
  <2>2. f[0] = d /\ h[0] = d
    BY <2>1 DEF Climb
  <2> QED
    BY <2>2
<1>2. ASSUME NEW k \in Nat, k \in S PROVE k + 1 \in S
  <2> SUFFICES ASSUME k + 1 <= n, k + 1 <= m PROVE f[k + 1] = h[k + 1]
    OBVIOUS
  <2>1. f[k] = h[k]
    BY <1>2
  <2>2. k + 1 \in 0 .. n /\ k + 1 \in 0 .. m /\ k + 1 # 0 /\ (k + 1) - 1 = k
    OBVIOUS
  <2>3. f[k + 1] = IF f[k] = Top THEN Top ELSE g[f[k]]
    BY <2>2 DEF Climb
  <2>4. h[k + 1] = IF h[k] = Top THEN Top ELSE g[h[k]]
    BY <2>2 DEF Climb
  <2> QED
    BY <2>1, <2>3, <2>4
<1>3. Nat \subseteq S
  BY <1>1, <1>2, Counting
<1> QED
  BY <1>3

LEMMA AboveStep ==
  ASSUME NEW g, NEW d
  PROVE  /\ Above(g, d, 0) = d
         /\ \A n \in Nat : Above(g, d, n + 1) = IF Above(g, d, n) = Top THEN Top ELSE g[Above(g, d, n)]
<1> DEFINE F(n) == CHOOSE f : Climb(g, d, n, f)
<1>1. \A n \in Nat : Climb(g, d, n, F(n)) /\ Above(g, d, n) = F(n)[n]
  BY Climbs DEF Above
<1> HIDE DEF F
<1>2. Above(g, d, 0) = d
  <2>1. Climb(g, d, 0, F(0)) /\ Above(g, d, 0) = F(0)[0]
    BY <1>1
  <2> QED
    BY <2>1 DEF Climb
<1>3. ASSUME NEW n \in Nat PROVE Above(g, d, n + 1) = IF Above(g, d, n) = Top THEN Top ELSE g[Above(g, d, n)]
  <2>1. F(n + 1)[n] = F(n)[n]
    <3>1. Climb(g, d, n + 1, F(n + 1)) /\ Climb(g, d, n, F(n)) /\ n + 1 \in Nat /\ n <= n + 1 /\ n <= n
      BY <1>1
    <3> QED
      BY <3>1, OneClimb
  <2>2. Climb(g, d, n + 1, F(n + 1)) /\ n + 1 \in 0 .. n + 1 /\ n + 1 # 0 /\ (n + 1) - 1 = n
    BY <1>1
  <2>3. F(n + 1)[n + 1] = IF F(n + 1)[n] = Top THEN Top ELSE g[F(n + 1)[n]]
    BY <2>2 DEF Climb
  <2>4. Above(g, d, n) = F(n)[n] /\ Above(g, d, n + 1) = F(n + 1)[n + 1]
    BY <1>1
  <2> QED
    BY <2>1, <2>3, <2>4
<1> QED
  BY <1>2, <1>3

\* One row up first, or last: the same way.
LEMMA AboveParent ==
  ASSUME NEW g, NEW d, d # Top, NEW n \in Nat PROVE Above(g, d, n + 1) = Above(g, g[d], n)
<1> DEFINE S == {k \in Nat : Above(g, d, k + 1) = Above(g, g[d], k)}
<1>1. 0 \in S
  <2>1. /\ Above(g, d, 0) = d /\ Above(g, g[d], 0) = g[d]
        /\ Above(g, d, 0 + 1) = IF Above(g, d, 0) = Top THEN Top ELSE g[Above(g, d, 0)]
    BY AboveStep
  <2> QED
    BY <2>1
<1>2. ASSUME NEW k \in Nat, k \in S PROVE k + 1 \in S
  <2>1. Above(g, d, k + 1) = Above(g, g[d], k) /\ k + 1 \in Nat
    BY <1>2
  <2>2. Above(g, d, (k + 1) + 1) = IF Above(g, d, k + 1) = Top THEN Top ELSE g[Above(g, d, k + 1)]
    BY <2>1, AboveStep
  <2>3. Above(g, g[d], k + 1) = IF Above(g, g[d], k) = Top THEN Top ELSE g[Above(g, g[d], k)]
    BY AboveStep
  <2> QED
    BY <2>1, <2>2, <2>3
<1>3. Nat \subseteq S
  BY <1>1, <1>2, Counting
<1> QED
  BY <1>3

LEMMA AboveTop == ASSUME NEW g, NEW n \in Nat PROVE Above(g, Top, n) = Top
<1> DEFINE S == {k \in Nat : Above(g, Top, k) = Top}
<1>1. 0 \in S
  BY AboveStep
<1>2. ASSUME NEW k \in Nat, k \in S PROVE k + 1 \in S
  BY <1>2, AboveStep
<1>3. Nat \subseteq S
  BY <1>1, <1>2, Counting
<1> QED
  BY <1>3

-----------------------------------------------------------------------------
(* Forests: rows m, their parents g and their depths h. *)

Forest(m, g, h) ==
  /\ m \subseteq Folders /\ g \in [Folders -> Folders \cup {Top}] /\ h \in [Folders -> Nat]
  /\ \A c \in m : /\ g[c] \in m \cup {Top}
                  /\ h[c] = IF g[c] = Top THEN 0 ELSE h[g[c]] + 1

LEMMA AboveDepth ==
  ASSUME NEW m, NEW g, NEW h, Forest(m, g, h), NEW d \in m, NEW n \in Nat, Above(g, d, n) # Top
  PROVE  Above(g, d, n) \in m /\ h[d] = h[Above(g, d, n)] + n
<1> DEFINE S == {k \in Nat : Above(g, d, k) # Top => Above(g, d, k) \in m /\ h[d] = h[Above(g, d, k)] + k}
<1>0. \A c \in m : c \in Folders /\ h[c] \in Nat
  BY DEF Forest
<1>1. 0 \in S
  BY <1>0, AboveStep
<1>2. ASSUME NEW k \in Nat, k \in S PROVE k + 1 \in S
  <2> SUFFICES ASSUME Above(g, d, k + 1) # Top
               PROVE  Above(g, d, k + 1) \in m /\ h[d] = h[Above(g, d, k + 1)] + (k + 1)
    OBVIOUS
  <2>0. Above(g, d, k + 1) = IF Above(g, d, k) = Top THEN Top ELSE g[Above(g, d, k)]
    BY AboveStep
  <2>1. Above(g, d, k) # Top /\ Above(g, d, k + 1) = g[Above(g, d, k)]
    BY <2>0
  <2>2. Above(g, d, k) \in m /\ h[d] = h[Above(g, d, k)] + k
    BY <1>2, <2>1
  <2>3. Above(g, d, k + 1) \in m /\ h[Above(g, d, k)] = h[Above(g, d, k + 1)] + 1
    BY <2>1, <2>2 DEF Forest
  <2> QED
    BY <1>0, <2>2, <2>3
<1>3. Nat \subseteq S
  BY <1>1, <1>2, Counting
<1> QED
  BY <1>3

\* The way up from d passes through every depth, so no depth reaches the number of rows.
LEMMA DepthIsBounded ==
  ASSUME NEW m, NEW g, NEW h, Forest(m, g, h), NEW d \in m PROVE h[d] < Cardinality(Folders)
<1>0. h[d] \in Nat /\ \A c \in m : h[c] \in Nat /\ c \in Folders /\ c # Top
  BY TreeSetup DEF Forest
<1> DEFINE k == h[d]
           S == {n \in Nat : n <= k => Above(g, d, n) # Top}
<1>1. 0 \in S
  BY <1>0, AboveStep
<1>2. ASSUME NEW n \in Nat, n \in S PROVE n + 1 \in S
  <2> SUFFICES ASSUME n + 1 <= k PROVE Above(g, d, n + 1) # Top
    OBVIOUS
  <2>1. Above(g, d, n) # Top
    BY <1>0, <1>2
  <2>2. Above(g, d, n) \in m /\ k = h[Above(g, d, n)] + n
    BY <2>1, AboveDepth
  <2>3. h[Above(g, d, n)] # 0
    BY <1>0, <2>2
  <2>4. g[Above(g, d, n)] # Top
    BY <2>2, <2>3 DEF Forest
  <2> QED
    BY <2>1, <2>4, AboveStep
<1>3. Nat \subseteq S
  BY <1>1, <1>2, Counting
<1> DEFINE f == [n \in 0 .. k |-> Above(g, d, n)]
<1>4. \A n \in 0 .. k : Above(g, d, n) \in m /\ h[Above(g, d, n)] + n = k
  <2>1. \A n \in 0 .. k : n \in Nat /\ Above(g, d, n) # Top
    BY <1>0, <1>3
  <2> QED
    BY <2>1, AboveDepth
<1>5. f \in Injection(0 .. k, Folders)
  <2>1. \A n \in 0 .. k : f[n] \in Folders
    BY <1>0, <1>4
  <2>2. ASSUME NEW a \in 0 .. k, NEW b \in 0 .. k, f[a] = f[b] PROVE a = b
    BY <1>0, <1>4, <2>2
  <2> QED
    BY <2>1, <2>2 DEF Injection, IsInjective
<1>6. Cardinality(0 .. k) <= Cardinality(Folders)
  BY <1>5, TreeSetup, FS_Injection
<1>7. Cardinality(0 .. k) = k + 1
  BY <1>0, FS_Interval
<1>8. Cardinality(Folders) \in Nat
  BY TreeSetup, FS_CardinalityType
<1> QED
  BY <1>0, <1>6, <1>7, <1>8

-----------------------------------------------------------------------------
(* The subtree of a collection. *)

LEMMA ForestNow == TreeTypeOK /\ DepthIsTrue => Forest(made, parent, depth)
<1> SUFFICES ASSUME TreeTypeOK, DepthIsTrue PROVE Forest(made, parent, depth)
  OBVIOUS
<1>1. Cardinality(Folders) \in Nat
  BY TreeSetup, FS_CardinalityType
<1>2. depth \in [Folders -> Nat]
  BY <1>1 DEF TreeTypeOK
<1> QED
  BY <1>2 DEF TreeTypeOK, DepthIsTrue, DepthUnder, Forest

LEMMA DistanceIsTrue ==
  ASSUME TreeTypeOK, DepthIsTrue, NEW c \in Folders, NEW d \in made, NEW n \in Distances(c, d)
  PROVE  n \in Nat /\ c \in made /\ depth[d] = depth[c] + n
<1>1. n \in Nat /\ Above(parent, d, n) = c /\ c # Top
  <2>1. n \in 0 .. Cardinality(Folders) /\ Up(d, n) = c
    BY DEF Distances
  <2>2. Cardinality(Folders) \in Nat
    BY TreeSetup, FS_CardinalityType
  <2> QED
    BY <2>1, <2>2, UpIsAbove, TreeSetup
<1> QED
  BY <1>1, ForestNow, AboveDepth

LEMMA SubtreeParts ==
  ASSUME TreeTypeOK, DepthIsTrue, NEW c \in made
  PROVE  /\ Subtree(c) \subseteq made /\ c \in Subtree(c)
         /\ \A d \in made : parent[d] \in Subtree(c) => d \in Subtree(c)
         /\ \A d \in Subtree(c) : d # c => parent[d] \in Subtree(c)
         /\ \A d \in Subtree(c) : \E n \in Distances(c, d) : TRUE
<1> DEFINE N == Cardinality(Folders)
<1>0. /\ N \in Nat /\ \A d \in made : d \in Folders /\ d # Top /\ depth[d] \in Nat /\ depth[d] < N
      /\ \A d \in made : parent[d] \in made \cup {Top}
  <2>1. \A d \in made : depth[d] < N
    BY ForestNow, DepthIsBounded
  <2>2. N \in Nat
    BY TreeSetup, FS_CardinalityType
  <2> HIDE DEF N
  <2>3. \A d \in made : d \in Folders /\ d # Top /\ depth[d] \in Nat
    BY ForestNow, TreeSetup DEF Forest
  <2> QED
    BY <2>1, <2>2, <2>3 DEF DepthIsTrue
<1> HIDE DEF N
<1>1. \A d \in made : d \in Subtree(c) <=> \E n \in Nat : n <= N /\ Above(parent, d, n) = c
  BY <1>0, UpIsAbove DEF Subtree, Distances, N
<1>2. c \in Subtree(c)
  <2>1. Above(parent, c, 0) = c
    BY AboveStep
  <2> QED
    BY <1>0, <1>1, <2>1
<1>3. ASSUME NEW d \in made, parent[d] \in Subtree(c) PROVE d \in Subtree(c)
  <2>1. parent[d] \in made
    BY <1>3 DEF Subtree
  <2>2. PICK n \in Nat : n <= N /\ Above(parent, parent[d], n) = c
    BY <1>1, <1>3, <2>1
  <2>3. Above(parent, d, n + 1) = c
    BY <1>0, <2>2, AboveParent
  <2>4. depth[d] = depth[c] + (n + 1)
    BY <1>0, <2>3, ForestNow, AboveDepth
  <2>5. n + 1 <= N
    BY <1>0, <2>4
  <2> QED
    BY <1>1, <2>3, <2>5
<1>4. ASSUME NEW d \in Subtree(c), d # c PROVE parent[d] \in Subtree(c)
  <2>1. d \in made
    BY DEF Subtree
  <2>2. PICK n \in Nat : n <= N /\ Above(parent, d, n) = c
    BY <1>1, <2>1
  <2>3. n # 0
    BY <1>4, <2>2, AboveStep
  <2>4. n - 1 \in Nat /\ (n - 1) + 1 = n /\ n - 1 <= N
    BY <1>0, <2>2, <2>3
  <2>5. Above(parent, parent[d], n - 1) = c
    <3>1. Above(parent, d, (n - 1) + 1) = Above(parent, parent[d], n - 1)
      BY <1>0, <2>1, <2>4, AboveParent
    <3> QED
      BY <2>2, <2>4, <3>1
  <2>6. parent[d] # Top
    BY <1>0, <2>4, <2>5, AboveTop
  <2> QED
    BY <1>0, <1>1, <2>1, <2>4, <2>5, <2>6
<1> QED
  BY <1>2, <1>3, <1>4 DEF Subtree

-----------------------------------------------------------------------------
(* The invariant of the tree. *)

TreeInv == /\ TreeTypeOK /\ DepthIsTrue /\ CascadesReturnWhole
           /\ \A c \in bin : filed[c] = {}

LEMMA TreeInitInv == TreeInit => TreeInv
<1> SUFFICES ASSUME TreeInit PROVE TreeInv
  OBVIOUS
<1>1. Cardinality(Folders) \in Nat
  BY TreeSetup, FS_CardinalityType
<1>2. NoRecord \in [group : Folders \cup {Top}, held : SUBSET Members, open : BOOLEAN]
  BY DEF NoRecord
<1>3. TreeTypeOK
  BY <1>1, <1>2 DEF TreeInit, TreeTypeOK
<1> QED
  BY <1>3 DEF TreeInit, TreeInv, DepthIsTrue, CascadesReturnWhole, LiveTree

LEMMA CreateInv ==
  ASSUME TreeInv, NEW c \in Folders, NEW p \in Folders \cup {Top}, Create(c, p) PROVE TreeInv'
<1> USE DEF Create, LiveTree
<1>0. /\ Forest(made, parent, depth) /\ Cardinality(Folders) \in Nat /\ made \subseteq Folders
      /\ \A d \in made : d # c /\ d # Top /\ depth[d] \in Nat /\ depth[d] < Cardinality(Folders)
      /\ \A d \in made : parent[d] \in made \cup {Top}
  <2>1. Forest(made, parent, depth) /\ Cardinality(Folders) \in Nat
    BY ForestNow, TreeSetup, FS_CardinalityType DEF TreeInv
  <2>2. \A d \in made : depth[d] < Cardinality(Folders)
    BY <2>1, DepthIsBounded
  <2> QED
    BY <2>1, <2>2, TreeSetup DEF Forest
<1>1. DepthUnder(p) \in 0 .. Cardinality(Folders)
  BY <1>0 DEF DepthUnder
<1>2. TreeTypeOK'
  BY <1>1 DEF TreeInv, TreeTypeOK
<1>3. /\ parent'[c] = p /\ depth'[c] = DepthUnder(p)
      /\ \A d \in Folders : d # c => parent'[d] = parent[d] /\ depth'[d] = depth[d]
  BY DEF TreeInv, TreeTypeOK
<1>4. DepthIsTrue'
  <2>1. \A q \in made \cup {Top} : DepthUnder(q)' = DepthUnder(q)
    BY <1>0, <1>3 DEF DepthUnder
  <2>2. \A d \in made : parent[d] \in made \cup {Top} /\ depth[d] = DepthUnder(parent[d])
    BY DEF TreeInv, DepthIsTrue
  <2> QED
    BY <1>0, <1>3, <2>1, <2>2 DEF DepthIsTrue
<1>5. CascadesReturnWhole'
  BY <1>0, <1>3, TreeSetup DEF TreeInv, TreeTypeOK, CascadesReturnWhole
<1> QED
  BY <1>2, <1>4, <1>5 DEF TreeInv

LEMMA MoveUnderInv ==
  ASSUME TreeInv, NEW c \in Folders, NEW p \in Folders \cup {Top}, MoveUnder(c, p) PROVE TreeInv'
<1> DEFINE moving == Subtree(c)
           far(d) == CHOOSE n \in Distances(c, d) : TRUE
           N == Cardinality(Folders)
<1>0. /\ TreeTypeOK /\ DepthIsTrue /\ c \in made /\ c \notin bin
      /\ p \in ((made \ bin) \cup {Top}) /\ p \notin moving
      /\ parent' = [parent EXCEPT ![c] = p]
      /\ depth' = [d \in Folders |-> IF d \in moving THEN DepthUnder(p) + far(d) ELSE depth[d]]
      /\ UNCHANGED <<made, bin, filed, treeRecord>>
  BY DEF MoveUnder, LiveTree, TreeInv
<1>1. ASSUME NEW d \in moving PROVE far(d) \in Nat /\ depth[d] = depth[c] + far(d)
  <2>1. d \in made /\ far(d) \in Distances(c, d)
    BY <1>0, SubtreeParts
  <2> QED
    BY <1>0, <2>1, DistanceIsTrue
<1>2. /\ moving \subseteq made /\ c \in moving
      /\ \A d \in made : parent[d] \in moving => d \in moving
      /\ \A d \in moving : d # c => parent[d] \in moving
  BY <1>0, SubtreeParts
<1> HIDE DEF moving, far
<1>3. /\ made \subseteq Folders /\ N \in Nat /\ Top \notin made
      /\ \A d \in Folders : depth[d] \in 0 .. N /\ depth[d] \in Nat
      /\ \A d \in made : parent[d] \in made \cup {Top} /\ depth[d] = DepthUnder(parent[d])
  <2>1. N \in Nat
    BY TreeSetup, FS_CardinalityType
  <2> HIDE DEF N
  <2>2. \A d \in Folders : depth[d] \in 0 .. N
    BY <1>0 DEF TreeTypeOK, N
  <2> QED
    BY <1>0, <2>1, <2>2, TreeSetup DEF TreeTypeOK, DepthIsTrue
<1> HIDE DEF N
<1>4. DepthUnder(p) \in Nat
  BY <1>0, <1>3 DEF DepthUnder
<1>5. \A d \in Folders : depth'[d] = IF d \in moving THEN DepthUnder(p) + far(d) ELSE depth[d]
  BY <1>0
<1>6. \A d \in Folders : parent'[d] = IF d = c THEN p ELSE parent[d]
  BY <1>0 DEF TreeTypeOK
<1>7. \A d \in made : /\ parent'[d] \in made \cup {Top}
                     /\ depth'[d] = IF parent'[d] = Top THEN 0 ELSE depth'[parent'[d]] + 1
  <2> TAKE d \in made
  <2>1. CASE d = c
    <3>1. far(c) = 0 /\ parent'[d] = p /\ depth'[d] = DepthUnder(p)
      BY <1>1, <1>2, <1>3, <1>4, <1>5, <1>6, <2>1
    <3>2. DepthUnder(p)' = DepthUnder(p)
      BY <1>0, <1>3, <1>5 DEF DepthUnder
    <3> QED
      BY <1>0, <3>1, <3>2 DEF DepthUnder
  <2>2. CASE d # c /\ d \in moving
    <3>1. parent'[d] = parent[d] /\ parent[d] \in moving /\ parent[d] # Top
      BY <1>2, <1>3, <1>6, <2>2
    <3>2. depth[d] = depth[parent[d]] + 1
      BY <1>3, <3>1 DEF DepthUnder
    <3>3. far(d) = far(parent[d]) + 1
      BY <1>1, <1>2, <1>3, <2>2, <3>1, <3>2
    <3>4. depth'[d] = depth'[parent[d]] + 1
      BY <1>1, <1>2, <1>3, <1>4, <1>5, <2>2, <3>1, <3>3
    <3> QED
      BY <1>2, <3>1, <3>4 DEF DepthUnder
  <2>3. CASE d \notin moving
    <3>1. parent'[d] = parent[d] /\ parent[d] \notin moving /\ parent[d] \in made \cup {Top}
      BY <1>2, <1>3, <1>6, <2>3
    <3> QED
      BY <1>3, <1>5, <2>3, <3>1 DEF DepthUnder
  <2> QED
    BY <2>1, <2>2, <2>3
<1>8. Forest(made, parent', depth')
  <2>1. depth' \in [Folders -> Nat]
    <3>1. \A d \in Folders : depth'[d] \in Nat
      BY <1>1, <1>3, <1>4, <1>5
    <3> QED
      BY <1>0, <3>1
  <2>2. parent' \in [Folders -> Folders \cup {Top}]
    BY <1>0 DEF TreeTypeOK
  <2> QED
    BY <1>3, <1>7, <2>1, <2>2 DEF Forest
<1>9. TreeTypeOK'
  <2>1. ASSUME NEW d \in Folders PROVE depth'[d] \in 0 .. N
    <3>1. CASE d \in made
      <4>1. depth'[d] < N /\ depth'[d] \in Nat
        BY <1>8, <3>1, DepthIsBounded DEF Forest, N
      <4> QED
        BY <1>3, <4>1
    <3>2. CASE d \notin made
      BY <1>2, <1>3, <1>5, <3>2
    <3> QED
      BY <3>1, <3>2
  <2>2. depth' \in [Folders -> 0 .. N]
    BY <1>0, <2>1
  <2>3. parent' \in [Folders -> Folders \cup {Top}]
    BY <1>8 DEF Forest
  <2> QED
    BY <1>0, <2>2, <2>3 DEF TreeTypeOK, N
<1>10. DepthIsTrue'
  BY <1>0, <1>7 DEF DepthIsTrue, DepthUnder
<1>11. CascadesReturnWhole'
  BY <1>0, <1>3, <1>6, TreeSetup DEF TreeInv, TreeTypeOK, CascadesReturnWhole, LiveTree
<1> QED
  BY <1>0, <1>9, <1>10, <1>11 DEF TreeInv

\* The steps that leave the rows and their depths alone.
LEMMA DepthStays ==
  ASSUME DepthIsTrue, UNCHANGED <<made, parent, depth>> PROVE DepthIsTrue'
BY DEF DepthIsTrue, DepthUnder

LEMMA FileInv ==
  ASSUME TreeInv, NEW c \in Folders, NEW i \in Members, AddItem(c, i) \/ RemoveItem(c, i) PROVE TreeInv'
<1> USE DEF AddItem, RemoveItem
<1>1. TreeTypeOK'
  BY DEF TreeInv, TreeTypeOK
<1>2. DepthIsTrue' /\ CascadesReturnWhole'
  BY DepthStays DEF TreeInv, CascadesReturnWhole, LiveTree
<1>3. \A d \in bin' : filed'[d] = {}
  BY DEF TreeInv, TreeTypeOK, LiveTree
<1> QED
  BY <1>1, <1>2, <1>3 DEF TreeInv

LEMMA TrashTreeInv == ASSUME TreeInv, NEW c \in Folders, TrashTree(c) PROVE TreeInv'
<1> DEFINE going == Subtree(c) \ bin
<1>1. c \in made /\ TreeTypeOK /\ DepthIsTrue
  BY DEF TrashTree, LiveTree, TreeInv
<1>2. Subtree(c) \subseteq made /\ \A d \in made : parent[d] \in Subtree(c) => d \in Subtree(c)
  BY <1>1, SubtreeParts
<1>3. TreeTypeOK'
  BY <1>1, <1>2 DEF TrashTree, TreeTypeOK
<1>4. DepthIsTrue'
  BY <1>1, DepthStays DEF TrashTree
<1>5. CascadesReturnWhole'
  <2> SUFFICES ASSUME NEW d \in made, d \notin bin', parent[d] \in bin'
               PROVE  treeRecord'[parent[d]].group # treeRecord'[d].group \/ ~treeRecord'[parent[d]].open
    BY DEF CascadesReturnWhole, LiveTree, TrashTree
  <2>1. d \notin Subtree(c) /\ d \notin bin /\ parent[d] \notin Subtree(c) /\ parent[d] \in bin
    BY <1>2 DEF TrashTree
  <2>2. treeRecord'[d] = treeRecord[d] /\ treeRecord'[parent[d]] = treeRecord[parent[d]]
    BY <1>1, <2>1 DEF TrashTree, TreeTypeOK
  <2> QED
    BY <2>1, <2>2 DEF TreeInv, CascadesReturnWhole, LiveTree
<1>6. \A d \in bin' : filed'[d] = {}
  BY <1>1, <1>2 DEF TrashTree, TreeInv, TreeTypeOK
<1> QED
  BY <1>3, <1>4, <1>5, <1>6 DEF TreeInv

\* What a restore does to a record: it closes that of each it brings back.
LEMMA RestoredRecords ==
  ASSUME TreeInv, NEW c \in Folders, RestoreTree(c), NEW d \in Folders
  PROVE  /\ treeRecord'[d] \in [group : Folders \cup {Top}, held : SUBSET Members, open : BOOLEAN]
         /\ treeRecord'[d].group = treeRecord[d].group /\ treeRecord'[d].held = treeRecord[d].held
         /\ treeRecord'[d].open => treeRecord[d].open
<1>1. treeRecord[d] \in [group : Folders \cup {Top}, held : SUBSET Members, open : BOOLEAN]
  BY DEF TreeInv, TreeTypeOK
<1>2. treeRecord'[d] = treeRecord[d] \/ treeRecord'[d] = [treeRecord[d] EXCEPT !.open = FALSE]
  BY DEF RestoreTree
<1> QED
  BY <1>1, <1>2

LEMMA RestoreTreeInv == ASSUME TreeInv, NEW c \in Folders, RestoreTree(c) PROVE TreeInv'
<1>1. TreeTypeOK /\ DepthIsTrue
  BY DEF TreeInv
<1>2. TreeTypeOK'
  <2>1. \A d \in Folders : treeRecord'[d] \in [group : Folders \cup {Top}, held : SUBSET Members, open : BOOLEAN]
    BY RestoredRecords
  <2>2. treeRecord' = [d \in Folders |-> treeRecord'[d]]
    BY DEF RestoreTree
  <2>3. filed' \in [Folders -> SUBSET Members]
    BY <1>1 DEF RestoreTree, TreeTypeOK
  <2> QED
    BY <1>1, <2>1, <2>2, <2>3 DEF RestoreTree, TreeTypeOK
<1>3. DepthIsTrue'
  BY <1>1, DepthStays DEF RestoreTree
<1>4. CascadesReturnWhole'
  <2> SUFFICES ASSUME NEW d \in made, d \notin bin', parent[d] \in bin', treeRecord'[parent[d]].open
               PROVE  treeRecord'[parent[d]].group # treeRecord'[d].group
    BY DEF CascadesReturnWhole, LiveTree, RestoreTree
  <2>1. /\ parent[d] \in bin /\ parent[d] \notin GroupOf(c) /\ parent[d] \in made
        /\ d \in Folders /\ parent[d] \in Folders
    BY <1>1 DEF RestoreTree, TreeTypeOK
  <2>2. treeRecord[parent[d]].open /\ treeRecord[parent[d]].group # treeRecord[c].group
    BY <2>1, RestoredRecords DEF GroupOf
  <2>3. CASE d \in bin
    <3>1. treeRecord[d].group = treeRecord[c].group
      BY <2>3 DEF RestoreTree, GroupOf
    <3> QED
      BY <2>1, <2>2, <3>1, RestoredRecords
  <2>4. CASE d \notin bin
    <3>1. treeRecord[parent[d]].group # treeRecord[d].group
      BY <2>1, <2>2, <2>4 DEF TreeInv, CascadesReturnWhole, LiveTree
    <3> QED
      BY <2>1, <3>1, RestoredRecords
  <2> QED
    BY <2>3, <2>4
<1>5. \A d \in bin' : filed'[d] = {}
  BY <1>1 DEF RestoreTree, TreeInv, TreeTypeOK
<1> QED
  BY <1>2, <1>3, <1>4, <1>5 DEF TreeInv

LEMMA PurgeTreeInv == ASSUME TreeInv, NEW c \in Folders, PurgeTree(c) PROVE TreeInv'
<1> DEFINE Records == [group : Folders \cup {Top}, held : SUBSET Members, open : BOOLEAN]
<1>1. \A r \in Records : [r EXCEPT !.open = FALSE] \in Records /\ [r EXCEPT !.open = FALSE].group = r.group
                           /\ ~[r EXCEPT !.open = FALSE].open
  OBVIOUS
<1>2. \A d \in Folders : treeRecord'[d] = IF d = c THEN [treeRecord[d] EXCEPT !.open = FALSE] ELSE treeRecord[d]
  BY DEF PurgeTree, TreeInv, TreeTypeOK
<1>3. \A d \in Folders : /\ treeRecord'[d] \in Records /\ treeRecord'[d].group = treeRecord[d].group
                          /\ treeRecord'[d].open => treeRecord[d].open
  <2>1. \A d \in Folders : treeRecord[d] \in Records
    BY DEF TreeInv, TreeTypeOK
  <2> QED
    BY <1>1, <1>2, <2>1
<1>4. TreeTypeOK'
  <2>1. treeRecord' \in [Folders -> Records]
    <3>1. treeRecord \in [Folders -> Records] /\ [treeRecord[c] EXCEPT !.open = FALSE] \in Records
      BY <1>1 DEF TreeInv, TreeTypeOK
    <3>2. treeRecord' = [treeRecord EXCEPT ![c] = [treeRecord[c] EXCEPT !.open = FALSE]]
      BY DEF PurgeTree
    <3> HIDE DEF Records
    <3> QED
      BY <3>1, <3>2
  <2> QED
    BY <2>1 DEF PurgeTree, TreeInv, TreeTypeOK
<1>5. DepthIsTrue'
  BY DepthStays DEF PurgeTree, TreeInv
<1>6. CascadesReturnWhole'
  BY <1>3, TreeSetup DEF PurgeTree, TreeInv, TreeTypeOK, CascadesReturnWhole, LiveTree
<1>7. \A d \in bin' : filed'[d] = {}
  BY DEF PurgeTree, TreeInv
<1> QED
  BY <1>4, <1>5, <1>6, <1>7 DEF TreeInv

LEMMA TreeStepInv == TreeInv /\ [TreeNext]_treeVars => TreeInv'
<1> SUFFICES ASSUME TreeInv, [TreeNext]_treeVars PROVE TreeInv'
  OBVIOUS
<1>1. ASSUME NEW c \in Folders, TreeStep(c) PROVE TreeInv'
  BY <1>1, CreateInv, MoveUnderInv, FileInv, TrashTreeInv, RestoreTreeInv, PurgeTreeInv DEF TreeStep
<1>2. ASSUME UNCHANGED treeVars PROVE TreeInv'
  BY <1>2, DepthStays DEF treeVars, TreeInv, TreeTypeOK, CascadesReturnWhole, LiveTree
<1> QED
  BY <1>1, <1>2 DEF TreeNext

\* What a step does to the items of a collection that is in the trash, or comes or goes.
LEMMA FiledStep ==
  ASSUME TreeInv, [TreeNext]_treeVars, NEW d \in Folders, d \in bin \/ d \in bin' PROVE Holds(d)' = Holds(d)
<1>1. ASSUME NEW c \in Folders, TreeStep(c) PROVE Holds(d)' = Holds(d)
  <2>1. ASSUME NEW p \in Folders \cup {Top}, Create(c, p) \/ MoveUnder(c, p) PROVE Holds(d)' = Holds(d)
    BY <2>1 DEF Create, MoveUnder, Holds
  <2>2. ASSUME NEW i \in Members, AddItem(c, i) \/ RemoveItem(c, i) PROVE Holds(d)' = Holds(d)
    BY <2>2 DEF AddItem, RemoveItem, Holds, TreeInv, TreeTypeOK, LiveTree
  <2>3. ASSUME TrashTree(c) PROVE Holds(d)' = Holds(d)
    <3>1. CASE d \in Subtree(c) \ bin
      <4>1. treeRecord'[d].held = filed[d] /\ d \in bin'
        BY <2>3, <3>1 DEF TrashTree
      <4> QED
        BY <3>1, <4>1 DEF Holds
    <3>2. CASE d \notin Subtree(c) \ bin
      BY <2>3, <3>2 DEF TrashTree, Holds
    <3> QED
      BY <3>1, <3>2
  <2>4. ASSUME RestoreTree(c) PROVE Holds(d)' = Holds(d)
    <3>0. d \in bin /\ filed[d] = {} /\ treeRecord'[d].held = treeRecord[d].held
      BY <2>4, RestoredRecords DEF RestoreTree, TreeInv
    <3>1. CASE d \in GroupOf(c)
      <4>1. filed'[d] = treeRecord[d].held /\ d \notin bin'
        BY <2>4, <3>0, <3>1 DEF RestoreTree
      <4> QED
        BY <3>0, <4>1 DEF Holds
    <3>2. CASE d \notin GroupOf(c)
      BY <2>4, <3>0, <3>2 DEF RestoreTree, Holds
    <3> QED
      BY <3>1, <3>2
  <2>5. ASSUME PurgeTree(c) PROVE Holds(d)' = Holds(d)
    <3>1. treeRecord[d] \in [group : Folders \cup {Top}, held : SUBSET Members, open : BOOLEAN]
      BY DEF TreeInv, TreeTypeOK
    <3>2. treeRecord'[d] = treeRecord[d] \/ treeRecord'[d] = [treeRecord[d] EXCEPT !.open = FALSE]
      BY <2>5 DEF PurgeTree, TreeInv, TreeTypeOK
    <3>3. treeRecord'[d].held = treeRecord[d].held
      BY <3>1, <3>2
    <3> QED
      BY <2>5, <3>3 DEF PurgeTree, Holds
  <2> QED
    BY <1>1, <2>1, <2>2, <2>3, <2>4, <2>5 DEF TreeStep
<1>2. ASSUME UNCHANGED treeVars PROVE Holds(d)' = Holds(d)
  BY <1>2 DEF treeVars, Holds
<1> QED
  BY <1>1, <1>2 DEF TreeNext

-----------------------------------------------------------------------------
(* The author lists: the rows a merge makes and an undo puts back. *)

(* Densify: how far an ordinal is down the ordinals that are left. *)
Rank(S, o) == Cardinality({p \in S : p <= o})

LEMMA RankOrder ==
  ASSUME NEW S \in SUBSET Nat, IsFiniteSet(S)
  PROVE  /\ \A o \in S : Rank(S, o) \in 1 .. Cardinality(S)
         /\ \A o, q \in S : o < q => Rank(S, o) < Rank(S, q)
         /\ \A o, q \in S : Rank(S, o) = Rank(S, q) => o = q
<1> DEFINE Upto(o) == {p \in S : p <= o}
<1>1. Cardinality(S) \in Nat
  BY FS_CardinalityType
<1>2. ASSUME NEW o \in S PROVE IsFiniteSet(Upto(o)) /\ Cardinality(Upto(o)) \in 1 .. Cardinality(S)
  <2>1. Upto(o) \in SUBSET S /\ o \in Upto(o)
    OBVIOUS
  <2>2. IsFiniteSet(Upto(o)) /\ Cardinality(Upto(o)) <= Cardinality(S)
    BY <2>1, FS_Subset
  <2>3. Cardinality(Upto(o)) # 0 /\ Cardinality(Upto(o)) \in Nat
    BY <2>1, <2>2, FS_EmptySet, FS_CardinalityType
  <2> QED
    BY <1>1, <2>2, <2>3
<1>3. ASSUME NEW o \in S, NEW q \in S, o < q PROVE Cardinality(Upto(o)) < Cardinality(Upto(q))
  <2>1. Upto(o) \in SUBSET Upto(q) /\ q \in Upto(q) /\ q \notin Upto(o)
    <3>1. o \in Nat /\ q \in Nat /\ \A p \in S : p \in Nat
      OBVIOUS
    <3>2. \A p \in S : p <= o => p <= q
      BY <1>3, <3>1
    <3>3. ~ (q <= o) /\ q <= q
      BY <1>3, <3>1
    <3> QED
      BY <3>2, <3>3
  <2>2. Cardinality(Upto(o)) <= Cardinality(Upto(q)) /\ Cardinality(Upto(o)) # Cardinality(Upto(q))
    BY <1>2, <2>1, FS_Subset
  <2> QED
    BY <1>2, <2>2
<1>4. \A o \in S : Rank(S, o) \in 1 .. Cardinality(S)
  BY <1>2 DEF Rank
<1>5. \A o, q \in S : o < q => Rank(S, o) < Rank(S, q)
  BY <1>3 DEF Rank
<1>6. \A o, q \in S : Rank(S, o) = Rank(S, q) => o = q
  <2> SUFFICES ASSUME NEW o \in S, NEW q \in S, Rank(S, o) = Rank(S, q), o # q PROVE FALSE
    OBVIOUS
  <2>1. o < q \/ q < o
    OBVIOUS
  <2>2. Rank(S, o) \in Nat /\ Rank(S, q) \in Nat
    BY <1>1, <1>4
  <2> QED
    BY <1>5, <2>1, <2>2
<1> QED
  BY <1>4, <1>5, <1>6

\* Every place of the dense list is that of one of the ordinals.
LEMMA RankOnto ==
  ASSUME NEW S \in SUBSET Nat, IsFiniteSet(S), NEW n \in 1 .. Cardinality(S)
  PROVE  \E o \in S : Rank(S, o) = n
<1> DEFINE T == 1 .. Cardinality(S)
           f == [o \in S |-> Rank(S, o)]
<1>1. Cardinality(S) \in Nat
  BY FS_CardinalityType
<1>2. IsFiniteSet(T) /\ Cardinality(T) = Cardinality(S)
  BY <1>1, FS_Interval
<1>3. f \in Injection(S, T)
  BY RankOrder DEF Injection, IsInjective
<1>4. f \in Surjection(S, T)
  BY <1>2, <1>3, FS_Injection
<1> QED
  BY <1>4 DEF Surjection

\* What Densify makes of a function on ordinals: the same values, each as often.
LEMMA DensifyParts ==
  ASSUME NEW f, DOMAIN f \in SUBSET Nat, IsFiniteSet(DOMAIN f)
  PROVE  /\ DOMAIN Densify(f) = 1 .. Cardinality(DOMAIN f)
         /\ \A n \in DOMAIN Densify(f) :
              \E o \in DOMAIN f : Rank(DOMAIN f, o) = n /\ Densify(f)[n] = f[o]
<1> DEFINE S == DOMAIN f
           At(n) == CHOOSE o \in S : Rank(S, o) = n
<1>1. Densify(f) = [n \in 1 .. Cardinality(S) |-> f[At(n)]]
  BY DEF Densify, Rank
<1>2. \A n \in 1 .. Cardinality(S) : At(n) \in S /\ Rank(S, At(n)) = n
  BY RankOnto
<1> HIDE DEF At
<1> QED
  BY <1>1, <1>2

LEMMA DensifyDistinct ==
  ASSUME NEW f, DOMAIN f \in SUBSET Nat, IsFiniteSet(DOMAIN f), Distinct(f) PROVE Distinct(Densify(f))
<1> SUFFICES ASSUME NEW m \in DOMAIN Densify(f), NEW n \in DOMAIN Densify(f), Densify(f)[m] = Densify(f)[n]
             PROVE  m = n
  BY DEF Distinct
<1>1. PICK o \in DOMAIN f : Rank(DOMAIN f, o) = m /\ Densify(f)[m] = f[o]
  BY DensifyParts
<1>2. PICK q \in DOMAIN f : Rank(DOMAIN f, q) = n /\ Densify(f)[n] = f[q]
  BY DensifyParts
<1> QED
  BY <1>1, <1>2 DEF Distinct

LEMMA DensifyNames ==
  ASSUME NEW f, DOMAIN f \in SUBSET Nat, IsFiniteSet(DOMAIN f) PROVE Named(Densify(f)) \subseteq Named(f)
BY DensifyParts DEF Named

LEMMA DensifySeq ==
  ASSUME NEW f, DOMAIN f \in SUBSET Nat, IsFiniteSet(DOMAIN f), NEW T, \A o \in DOMAIN f : f[o] \in T
  PROVE  Densify(f) \in Seq(T) /\ Len(Densify(f)) = Cardinality(DOMAIN f)
<1>1. Cardinality(DOMAIN f) \in Nat
  BY FS_CardinalityType
<1>2. Densify(f) \in [1 .. Cardinality(DOMAIN f) -> T]
  <2>1. \A n \in 1 .. Cardinality(DOMAIN f) : Densify(f)[n] \in T
    BY DensifyParts
  <2>2. Densify(f) = [n \in 1 .. Cardinality(DOMAIN f) |-> Densify(f)[n]]
    BY DEF Densify
  <2> QED
    BY <2>1, <2>2
<1> QED
  BY <1>1, <1>2

\* A list without gaps stays as it is.
LEMMA DensifyWhole ==
  ASSUME NEW k \in Nat, NEW T, NEW f \in [1 .. k -> T] PROVE Densify(f) = f
<1>1. DOMAIN f = 1 .. k
  OBVIOUS
<1>2. IsFiniteSet(1 .. k) /\ Cardinality(1 .. k) = k
  BY FS_Interval
<1>3. ASSUME NEW o \in 1 .. k PROVE Rank(1 .. k, o) = o
  <2>1. {p \in 1 .. k : p <= o} = 1 .. o
    OBVIOUS
  <2>2. Cardinality(1 .. o) = o
    BY FS_Interval
  <2> QED
    BY <2>1, <2>2 DEF Rank
<1>4. ASSUME NEW n \in 1 .. k PROVE Densify(f)[n] = f[n]
  <2>1. PICK o \in 1 .. k : Rank(1 .. k, o) = n /\ Densify(f)[n] = f[o]
    <3>1. /\ DOMAIN f \in SUBSET Nat /\ IsFiniteSet(DOMAIN f) /\ Cardinality(DOMAIN f) = k
          /\ n \in 1 .. Cardinality(DOMAIN f)
      BY <1>1, <1>2
    <3>2. n \in DOMAIN Densify(f)
      BY <3>1, DensifyParts
    <3>3. \E o \in DOMAIN f : Rank(DOMAIN f, o) = n /\ Densify(f)[n] = f[o]
      BY <3>1, <3>2, DensifyParts
    <3> QED
      BY <1>1, <3>3
  <2> QED
    BY <1>3, <2>1
<1>5. Densify(f) = [n \in 1 .. k |-> Densify(f)[n]]
  BY <1>1, <1>2 DEF Densify
<1> QED
  BY <1>4, <1>5

-----------------------------------------------------------------------------
(* The lists a merge makes, and an undo. *)

\* A finite sequence and the ordinals of a part of it.
LEMMA SeqParts ==
  ASSUME NEW l \in Seq(Places)
  PROVE  /\ Len(l) \in Nat /\ DOMAIN l = 1 .. Len(l) /\ l = [n \in 1 .. Len(l) |-> l[n]]
         /\ \A n \in DOMAIN l : l[n] \in Places
         /\ \A S \in SUBSET DOMAIN l : S \in SUBSET Nat /\ IsFiniteSet(S)
         /\ Cardinality(DOMAIN l) = Len(l) /\ IsFiniteSet(DOMAIN l)
<1>1. /\ Len(l) \in Nat /\ DOMAIN l = 1 .. Len(l) /\ l = [n \in 1 .. Len(l) |-> l[n]]
      /\ \A n \in DOMAIN l : l[n] \in Places
  OBVIOUS
<1>2. IsFiniteSet(1 .. Len(l)) /\ Cardinality(1 .. Len(l)) = Len(l)
  <2>1. ASSUME NEW k \in Nat PROVE IsFiniteSet(1 .. k) /\ Cardinality(1 .. k) = k
    BY FS_Interval
  <2> QED
    BY <1>1, <2>1
<1> QED
  BY <1>1, <1>2, FS_Subset

LEMMA DensifySame ==
  ASSUME NEW l \in Seq(Places) PROVE Densify(l) = l
<1>1. Len(l) \in Nat /\ l \in [1 .. Len(l) -> Places]
  BY SeqParts
<1> QED
  BY <1>1, DensifyWhole

\* The rows a merge leaves, at the ordinals they have before they are made dense.
Clash(l, loser, winner) ==
  {n \in DOMAIN l : l[n].who = loser /\ \E m \in DOMAIN l : l[m] = [l[n] EXCEPT !.who = winner]}
Kept(l, loser, winner) ==
  [n \in DOMAIN l \ Clash(l, loser, winner) |->
     IF l[n].who = loser THEN [l[n] EXCEPT !.who = winner] ELSE l[n]]

LEMMA KeptParts ==
  ASSUME NEW l \in Seq(Places), NEW loser \in Creators, NEW winner \in Creators
  PROVE  LET f == Kept(l, loser, winner)
         IN /\ MergedList(l, loser, winner) = Densify(f)
            /\ DOMAIN f \in SUBSET Nat /\ IsFiniteSet(DOMAIN f) /\ DOMAIN f \in SUBSET DOMAIN l
            /\ \A n \in DOMAIN f : f[n] \in Places
<1> DEFINE f == Kept(l, loser, winner)
<1>1. MergedList(l, loser, winner) = Densify(f)
  BY DEF MergedList, Kept, Clash
<1>2. DOMAIN f = DOMAIN l \ Clash(l, loser, winner)
  BY DEF Kept
<1>3. ASSUME NEW n \in DOMAIN f PROVE f[n] \in Places
  <2>1. n \in DOMAIN l /\ l[n] \in Places
    BY <1>2, SeqParts
  <2> QED
    BY <1>2, <2>1 DEF Kept, Places
<1> QED
  BY <1>1, <1>2, <1>3, SeqParts

LEMMA MergedTyped ==
  ASSUME NEW l \in Seq(Places), NEW loser \in Creators, NEW winner \in Creators
  PROVE  MergedList(l, loser, winner) \in Seq(Places)
BY KeptParts, DensifySeq

LEMMA MergedNames ==
  ASSUME NEW l \in Seq(Places), NEW loser \in Creators, NEW winner \in Creators
  PROVE  Named(MergedList(l, loser, winner)) \subseteq (Named(l) \ {loser}) \cup {winner}
<1> DEFINE f == Kept(l, loser, winner)
<1>1. Named(MergedList(l, loser, winner)) \subseteq Named(f)
  BY KeptParts, DensifyNames
<1>2. ASSUME NEW n \in DOMAIN f PROVE f[n].who \in (Named(l) \ {loser}) \cup {winner}
  <2>1. n \in DOMAIN l /\ l[n] \in Places
    BY SeqParts DEF Kept
  <2> QED
    BY <2>1 DEF Kept, Named, Places
<1> QED
  BY <1>1, <1>2 DEF Named

\* A list without the loser stays as it is.
LEMMA MergedElsewhere ==
  ASSUME NEW l \in Seq(Places), NEW loser, NEW winner, loser \notin Named(l)
  PROVE  MergedList(l, loser, winner) = l
<1>1. \A n \in DOMAIN l : l[n].who # loser
  BY DEF Named
<1>2. Clash(l, loser, winner) = {}
  BY <1>1 DEF Clash
<1>3. Kept(l, loser, winner) = [n \in DOMAIN l |-> l[n]]
  BY <1>1, <1>2 DEF Kept
<1>4. Kept(l, loser, winner) = l
  BY <1>3, SeqParts
<1>5. Densify(l) = l
  BY DensifySame
<1> QED
  BY <1>4, <1>5 DEF MergedList, Kept, Clash

LEMMA MergedDistinct ==
  ASSUME NEW l \in Seq(Places), NEW loser \in Creators, NEW winner \in Creators, Distinct(l)
  PROVE  Distinct(MergedList(l, loser, winner))
<1> DEFINE f == Kept(l, loser, winner)
<1>1. ASSUME NEW m \in DOMAIN f, NEW n \in DOMAIN f, f[m] = f[n] PROVE m = n
  <2>1. /\ m \in DOMAIN l /\ n \in DOMAIN l /\ l[m] \in Places /\ l[n] \in Places
        /\ m \notin Clash(l, loser, winner) /\ n \notin Clash(l, loser, winner)
    BY SeqParts DEF Kept
  <2>2. l[m].who = loser <=> l[n].who = loser
    BY <1>1, <2>1 DEF Kept, Clash
  <2>3. l[m] = l[n]
    BY <1>1, <2>1, <2>2 DEF Kept, Places
  <2> QED
    BY <2>1, <2>3 DEF Distinct
<1>2. Distinct(f)
  BY <1>1 DEF Distinct
<1> QED
  BY <1>2, KeptParts, DensifyDistinct

\* The rows an undo leaves, at their ordinals.
Mine(old, c) == {n \in DOMAIN old : old[n].who = c}
Undone(l, old, c) == [n \in DOMAIN l \cup Mine(old, c) |-> IF n \in Mine(old, c) THEN old[n] ELSE l[n]]

LEMMA UndoneParts ==
  ASSUME NEW l \in Seq(Places), NEW old \in Seq(Places), NEW c
  PROVE  LET f == Undone(l, old, c)
         IN /\ Reinstated(l, old, c) = Densify(f)
            /\ DOMAIN f \in SUBSET Nat /\ IsFiniteSet(DOMAIN f)
            /\ \A n \in DOMAIN f : f[n] \in Places
<1> DEFINE f == Undone(l, old, c)
<1>1. Reinstated(l, old, c) = Densify(f)
  BY DEF Reinstated, Undone, Mine
<1>2. DOMAIN f = DOMAIN l \cup Mine(old, c) /\ Mine(old, c) \in SUBSET DOMAIN old
  BY DEF Undone, Mine
<1>3. ASSUME NEW n \in DOMAIN f PROVE f[n] \in Places
  <2>1. CASE n \in Mine(old, c)
    BY <1>2, <2>1, SeqParts DEF Undone
  <2>2. CASE n \notin Mine(old, c)
    BY <1>2, <2>2, SeqParts DEF Undone
  <2> QED
    BY <2>1, <2>2
<1>4. IsFiniteSet(DOMAIN l \cup Mine(old, c)) /\ DOMAIN l \cup Mine(old, c) \in SUBSET Nat
  <2>1. IsFiniteSet(DOMAIN l) /\ DOMAIN l \in SUBSET Nat
    BY SeqParts
  <2>2. IsFiniteSet(Mine(old, c)) /\ Mine(old, c) \in SUBSET Nat
    BY <1>2, SeqParts
  <2> QED
    BY <2>1, <2>2, FS_Union
<1> QED
  BY <1>1, <1>2, <1>3, <1>4

LEMMA ReinstatedTyped ==
  ASSUME NEW l \in Seq(Places), NEW old \in Seq(Places), NEW c
  PROVE  Reinstated(l, old, c) \in Seq(Places)
BY UndoneParts, DensifySeq

LEMMA ReinstatedNames ==
  ASSUME NEW l \in Seq(Places), NEW old \in Seq(Places), NEW c
  PROVE  Named(Reinstated(l, old, c)) \subseteq Named(l) \cup {c}
<1> DEFINE f == Undone(l, old, c)
<1>1. Named(Reinstated(l, old, c)) \subseteq Named(f)
  BY UndoneParts, DensifyNames
<1>2. ASSUME NEW n \in DOMAIN f PROVE f[n].who \in Named(l) \cup {c}
  BY DEF Undone, Mine, Named
<1> QED
  BY <1>1, <1>2 DEF Named

LEMMA ReinstatedElsewhere ==
  ASSUME NEW l \in Seq(Places), NEW old \in Seq(Places), NEW c, c \notin Named(old)
  PROVE  Reinstated(l, old, c) = l
<1>1. Mine(old, c) = {}
  BY DEF Mine, Named
<1>2. Undone(l, old, c) = [n \in DOMAIN l |-> l[n]]
  BY <1>1 DEF Undone
<1>3. Undone(l, old, c) = l
  BY <1>2, SeqParts
<1>4. Densify(l) = l
  BY DensifySame
<1> QED
  BY <1>3, <1>4, UndoneParts

LEMMA ReinstatedDistinct ==
  ASSUME NEW l \in Seq(Places), NEW old \in Seq(Places), NEW c,
         Distinct(l), Distinct(old), c \notin Named(l)
  PROVE  Distinct(Reinstated(l, old, c))
<1> DEFINE f == Undone(l, old, c)
<1>1. ASSUME NEW m \in DOMAIN f, NEW n \in DOMAIN f, f[m] = f[n] PROVE m = n
  <2>1. \A k \in DOMAIN l : l[k].who # c
    BY DEF Named
  <2>2. \A k \in DOMAIN f : k \in Mine(old, c) <=> f[k].who = c
    BY <2>1 DEF Undone, Mine
  <2>3. m \in Mine(old, c) <=> n \in Mine(old, c)
    BY <1>1, <2>2
  <2>4. CASE m \in Mine(old, c)
    <3>1. m \in DOMAIN old /\ n \in DOMAIN old /\ old[m] = old[n]
      BY <1>1, <2>3, <2>4 DEF Undone, Mine
    <3> QED
      BY <3>1 DEF Distinct
  <2>5. CASE m \notin Mine(old, c)
    <3>1. m \in DOMAIN l /\ n \in DOMAIN l /\ l[m] = l[n]
      BY <1>1, <2>3, <2>5 DEF Undone
    <3> QED
      BY <3>1 DEF Distinct
  <2> QED
    BY <2>4, <2>5
<1>2. Distinct(f)
  BY <1>1 DEF Distinct
<1> QED
  BY <1>2, UndoneParts, DensifyDistinct

\* An undo is exact where the merge dropped no place.
LEMMA ReinstatedIsExact ==
  ASSUME NEW b \in Seq(Places), NEW c \in Creators, NEW d \in Creators, Distinct(b),
         Len(MergedList(b, c, d)) = Len(b)
  PROVE  Reinstated(MergedList(b, c, d), b, c) = b
<1> DEFINE k == Len(b)
           f == Kept(b, c, d)
<1>1. k \in Nat /\ DOMAIN b = 1 .. k /\ IsFiniteSet(1 .. k) /\ Cardinality(1 .. k) = k
  BY SeqParts
<1>2. DOMAIN f = DOMAIN b
  <2>1. Cardinality(DOMAIN f) = k
    BY KeptParts, DensifySeq
  <2>2. DOMAIN f \in SUBSET DOMAIN b
    BY KeptParts
  <2> QED
    BY <1>1, <2>1, <2>2, FS_Subset
<1>3. f \in [1 .. k -> Places]
  <2>1. \A n \in 1 .. k : f[n] \in Places
    BY <1>1, <1>2, KeptParts
  <2>2. f = [n \in 1 .. k |-> f[n]]
    BY <1>1, <1>2 DEF Kept
  <2> QED
    BY <2>1, <2>2
<1>4. MergedList(b, c, d) = f
  <2>1. Densify(f) = f
    BY <1>1, <1>3, DensifyWhole
  <2> QED
    BY <2>1, KeptParts
<1>5. Undone(f, b, c) = b
  <2>1. Mine(b, c) \in SUBSET DOMAIN b
    BY DEF Mine
  <2>2. \A n \in DOMAIN b : n \notin Mine(b, c) => f[n] = b[n]
    BY <1>2 DEF Mine, Kept, Clash
  <2>3. Undone(f, b, c) = [n \in DOMAIN b |-> b[n]]
    BY <1>2, <2>1, <2>2 DEF Undone
  <2> QED
    BY <2>3, SeqParts
<1>6. Densify(b) = b
  BY DensifySame
<1>7. f \in Seq(Places)
  BY <1>4, MergedTyped
<1> QED
  BY <1>4, <1>5, <1>6, <1>7, UndoneParts

-----------------------------------------------------------------------------
(* The invariant of the author lists. *)

MergedWell(c) ==
  /\ into[c] \in Creators
  /\ \A w \in Works : c \notin Named(list[w]) /\ Distinct(trace[c].before[w])

AuthorsInv == /\ AuthorsTypeOK /\ NobodyTwice /\ FoundByName
              /\ \A c \in Creators : c \in forms[c]
              /\ \A c \in Creators : trace[c].reason # "none" => c \in gone
              /\ \A c \in Creators : trace[c].reason = "merge" => MergedWell(c)

LEMMA AuthorsInitInv == AuthorsInit => AuthorsInv
<1> SUFFICES ASSUME AuthorsInit PROVE AuthorsInv
  OBVIOUS
<1> USE DEF AuthorsInit
<1>1. \A w \in Works : Named(list[w]) = {} /\ Distinct(list[w])
  BY DEF Named, Distinct
<1>2. Closed \in [reason : {"none", "user", "merge"}, before : [Works -> Seq(Places)]]
  BY DEF Closed
<1>3. AuthorsTypeOK
  BY <1>2, AuthorsSetup DEF AuthorsTypeOK
<1>4. NobodyTwice /\ FoundByName
  BY <1>1 DEF NobodyTwice, FoundByName
<1>5. \A c \in Creators : trace[c].reason = "none"
  BY DEF Closed
<1> QED
  BY <1>3, <1>4, <1>5 DEF AuthorsInv

\* The names of a list as its creators go by them.
NamesOf(l, f) == UNION {f[c] : c \in Named(l)}

\* The invariant of the entries, from what a step does to each item: it is
\* indexed, or its list is as it was and nobody on it lost a name.
LEMMA FoundStep ==
  ASSUME AuthorsInv, AuthorsTypeOK', \A c \in Creators : (c \in forms[c])', NEW S \in SUBSET Works, Reprinted(S),
         \A w \in Works \ S : /\ list'[w] = list[w] /\ (w \in shelved' => w \in shelved) /\ (w \in shelved => w \in shelved')
                              /\ \A c \in Named(list[w]) : forms[c] \subseteq forms'[c]
  PROVE  FoundByName'
<1> SUFFICES ASSUME NEW w \in Works, w \notin shelved'
             PROVE  Named(list'[w]) \subseteq printed'[w] /\ printed'[w] \subseteq NamesOn(w)'
  BY DEF FoundByName
<1>0. NamesOn(w)' = NamesOf(list'[w], forms')
  BY DEF NamesOn, NamesOf
<1>1. list'[w] \in Seq(Places) /\ \A c \in Named(list'[w]) : c \in Creators
  <2>1. list'[w] \in Seq(Places)
    BY DEF AuthorsTypeOK
  <2> QED
    BY <2>1, SeqParts DEF Named, Places
<1>2. CASE w \in S
  <2>1. printed'[w] = NamesOn(w)'
    BY <1>2 DEF Reprinted
  <2>2. Named(list'[w]) \subseteq NamesOf(list'[w], forms')
    BY <1>1 DEF NamesOf
  <2> QED
    BY <1>0, <2>1, <2>2
<1>3. CASE w \notin S
  <2>1. printed'[w] = printed[w] /\ list'[w] = list[w] /\ w \notin shelved
    BY <1>3 DEF Reprinted
  <2>2. Named(list[w]) \subseteq printed[w] /\ printed[w] \subseteq NamesOf(list[w], forms)
    BY <2>1 DEF AuthorsInv, FoundByName, NamesOn, NamesOf
  <2>3. NamesOf(list[w], forms) \subseteq NamesOf(list[w], forms')
    BY <1>3 DEF NamesOf
  <2> QED
    BY <1>0, <2>1, <2>2, <2>3
<1> QED
  BY <1>2, <1>3

LEMMA ReprintedTyped ==
  ASSUME NEW S \in SUBSET Works, Reprinted(S), printed \in [Works -> SUBSET Creators],
         list' \in [Works -> Seq(Places)], forms' \in [Creators -> SUBSET Creators]
  PROVE  printed' \in [Works -> SUBSET Creators]
<1>1. ASSUME NEW w \in Works PROVE NamesOn(w)' \in SUBSET Creators
  <2>1. \A c \in Named(list'[w]) : c \in Creators
    BY SeqParts DEF Named, Places
  <2>2. \A c \in Named(list'[w]) : forms'[c] \in SUBSET Creators
    BY <2>1
  <2> QED
    BY <2>2 DEF NamesOn
<1> QED
  BY <1>1 DEF Reprinted

\* The steps that change one list, one set of names, or the trash.
LEMMA SetItemCreatorsInv ==
  ASSUME AuthorsInv, NEW w \in Works, NEW l \in Lists, SetItemCreators(w, l) PROVE AuthorsInv'
<1>1. l \in Seq(Places)
  <2>1. \A k \in Nat : \A s \in [1 .. k -> Places] : s \in Seq(Places)
    OBVIOUS
  <2> QED
    BY <2>1, AuthorsSetup DEF Lists
<1>2. AuthorsTypeOK'
  <2>1. list' \in [Works -> Seq(Places)]
    BY <1>1 DEF SetItemCreators, AuthorsInv, AuthorsTypeOK
  <2>2. printed' \in [Works -> SUBSET Creators]
    BY <2>1, ReprintedTyped DEF SetItemCreators, AuthorsInv, AuthorsTypeOK
  <2> QED
    BY <2>1, <2>2 DEF SetItemCreators, AuthorsInv, AuthorsTypeOK
<1>3. \A v \in Works : list'[v] = l \/ list'[v] = list[v]
  BY DEF SetItemCreators, AuthorsInv, AuthorsTypeOK
<1>4. NobodyTwice'
  BY <1>3 DEF SetItemCreators, AuthorsInv, NobodyTwice
<1>5. FoundByName'
  BY <1>2, FoundStep DEF SetItemCreators, AuthorsInv, AuthorsTypeOK
<1>6. ASSUME NEW c \in Creators, trace'[c].reason = "merge" PROVE MergedWell(c)'
  <2>1. MergedWell(c) /\ c \in gone
    BY <1>6 DEF SetItemCreators, AuthorsInv
  <2>2. c \notin Named(l)
    BY <2>1 DEF SetItemCreators
  <2> QED
    BY <1>3, <2>1, <2>2 DEF MergedWell, SetItemCreators
<1> QED
  BY <1>2, <1>4, <1>5, <1>6 DEF AuthorsInv, SetItemCreators

LEMMA RewriteFormsInv == ASSUME AuthorsInv, NEW c \in Creators, RewriteForms(c) PROVE AuthorsInv'
<1>1. AuthorsTypeOK'
  <2>1. forms' \in [Creators -> SUBSET Creators] /\ ListsOf(c) \in SUBSET Works
    BY DEF RewriteForms, AuthorsInv, AuthorsTypeOK, ListsOf
  <2>2. printed' \in [Works -> SUBSET Creators]
    BY <2>1, ReprintedTyped DEF RewriteForms, AuthorsInv, AuthorsTypeOK
  <2> QED
    BY <2>1, <2>2 DEF RewriteForms, AuthorsInv, AuthorsTypeOK
<1>2. \A d \in Creators : d \in forms'[d]
  BY DEF RewriteForms, AuthorsInv, AuthorsTypeOK
<1>3. ASSUME NEW w \in Works \ ListsOf(c), NEW d \in Named(list[w]) PROVE forms[d] \subseteq forms'[d]
  BY DEF RewriteForms, ListsOf, AuthorsInv, AuthorsTypeOK
<1>4. FoundByName'
  <2>1. ListsOf(c) \in SUBSET Works
    BY DEF ListsOf
  <2> QED
    BY <1>1, <1>2, <1>3, <2>1, FoundStep DEF RewriteForms
<1>5. NobodyTwice'
  BY DEF RewriteForms, NobodyTwice, AuthorsInv
<1>6. \A d \in Creators : trace'[d].reason = "merge" => MergedWell(d)'
  BY DEF RewriteForms, MergedWell, AuthorsInv
<1> QED
  BY <1>1, <1>2, <1>4, <1>5, <1>6 DEF AuthorsInv, RewriteForms

LEMMA ShelfInv ==
  ASSUME AuthorsInv, NEW w \in Works, ShelveItem(w) \/ UnshelveItem(w) PROVE AuthorsInv'
<1> USE DEF ShelveItem, UnshelveItem
<1>1. AuthorsTypeOK'
  <2>1. printed' \in [Works -> SUBSET Creators]
    BY ReprintedTyped DEF AuthorsInv, AuthorsTypeOK
  <2> QED
    BY <2>1 DEF AuthorsInv, AuthorsTypeOK
<1>2. FoundByName'
  <2>1. \A v \in Works \ {w} : (v \in shelved' => v \in shelved) /\ (v \in shelved => v \in shelved')
    OBVIOUS
  <2> QED
    BY <1>1, <2>1, FoundStep DEF AuthorsInv
<1>3. NobodyTwice'
  BY DEF NobodyTwice, AuthorsInv
<1>4. \A d \in Creators : trace'[d].reason = "merge" => MergedWell(d)'
  BY DEF MergedWell, AuthorsInv
<1> QED
  BY <1>1, <1>2, <1>3, <1>4 DEF AuthorsInv

\* The trash record a step writes: its reason, and who has it.
LEMMA TrashedInv ==
  ASSUME AuthorsInv, NEW c \in Creators, TrashCreator(c) \/ PurgeCreator(c) PROVE AuthorsInv'
<1> USE DEF TrashCreator, PurgeCreator
<1> DEFINE Traces == [reason : {"none", "user", "merge"}, before : [Works -> Seq(Places)]]
<1>0. /\ Closed \in Traces /\ [Closed EXCEPT !.reason = "user"] \in Traces
      /\ Closed.reason = "none" /\ [Closed EXCEPT !.reason = "user"].reason = "user"
  <2>1. Closed \in Traces /\ Closed.reason = "none"
    BY DEF Closed
  <2>2. \A r \in Traces : [r EXCEPT !.reason = "user"] \in Traces /\ [r EXCEPT !.reason = "user"].reason = "user"
    OBVIOUS
  <2> QED
    BY <2>1, <2>2
<1>1. PICK row \in Traces : row.reason \in {"none", "user"} /\ trace' = [trace EXCEPT ![c] = row]
  BY <1>0
<1>3. AuthorsTypeOK'
  BY <1>1 DEF AuthorsInv, AuthorsTypeOK
<1>4. \A d \in Creators : d # c => trace'[d] = trace[d]
  BY <1>1 DEF AuthorsInv, AuthorsTypeOK
<1>5. trace'[c].reason \in {"none", "user"}
  BY <1>1 DEF AuthorsInv, AuthorsTypeOK
<1>6. NobodyTwice' /\ FoundByName'
  BY DEF NobodyTwice, FoundByName, NamesOn, AuthorsInv
<1>7. ASSUME NEW d \in Creators, trace'[d].reason # "none" PROVE d \in gone'
  <2>1. CASE d = c
    BY <1>5, <1>7, <2>1 DEF AuthorsInv
  <2>2. CASE d # c
    BY <1>4, <1>7, <2>2 DEF AuthorsInv
  <2> QED
    BY <2>1, <2>2
<1>8. ASSUME NEW d \in Creators, trace'[d].reason = "merge" PROVE MergedWell(d)'
  BY <1>4, <1>5, <1>8 DEF AuthorsInv, MergedWell
<1> QED
  BY <1>3, <1>6, <1>7, <1>8 DEF AuthorsInv

\* A merge: the loser is on no list any more, and its record holds the lists before.
LEMMA MergeCreatorsInv ==
  ASSUME AuthorsInv, NEW loser \in Creators, NEW winner \in Creators, MergeCreators(loser, winner)
  PROVE  AuthorsInv'
<1> USE DEF MergeCreators
<1> DEFINE Traces == [reason : {"none", "user", "merge"}, before : [Works -> Seq(Places)]]
           row == [reason |-> "merge", before |-> list]
<1>1. \A w \in Works : list[w] \in Seq(Places) /\ Distinct(list[w]) /\ list'[w] = MergedList(list[w], loser, winner)
  BY DEF MergedLists, AuthorsInv, AuthorsTypeOK, NobodyTwice
<1>2. list' \in [Works -> Seq(Places)]
  <2>1. \A w \in Works : MergedList(list[w], loser, winner) \in Seq(Places)
    BY <1>1, MergedTyped
  <2> QED
    BY <2>1 DEF MergedLists
<1>3. row \in Traces
  BY DEF AuthorsInv, AuthorsTypeOK
<1>4. AuthorsTypeOK'
  <2>1. forms' \in [Creators -> SUBSET Creators] /\ ListsOf(loser) \in SUBSET Works
    BY DEF AuthorsInv, AuthorsTypeOK, ListsOf
  <2>2. printed' \in [Works -> SUBSET Creators]
    BY <1>2, <2>1, ReprintedTyped DEF AuthorsInv, AuthorsTypeOK
  <2> QED
    BY <1>2, <1>3, <2>1, <2>2 DEF AuthorsInv, AuthorsTypeOK
<1>5. NobodyTwice'
  BY <1>1, MergedDistinct DEF NobodyTwice
<1>6. \A d \in Creators : forms[d] \subseteq forms'[d]
  BY DEF AuthorsInv, AuthorsTypeOK
<1>7. FoundByName'
  <2>1. ListsOf(loser) \in SUBSET Works
    BY DEF ListsOf
  <2>2. \A w \in Works \ ListsOf(loser) : list'[w] = list[w]
    BY <1>1, MergedElsewhere DEF ListsOf
  <2>3. \A w \in Works : \A d \in Named(list[w]) : d \in Creators
    BY <1>1, SeqParts DEF Named, Places
  <2>4. \A d \in Creators : d \in forms'[d]
    BY <1>6 DEF AuthorsInv
  <2> QED
    BY <1>4, <1>6, <2>1, <2>2, <2>3, <2>4, FoundStep
<1>8. ASSUME NEW d \in Creators, trace'[d].reason = "merge" PROVE MergedWell(d)'
  <2>1. \A w \in Works : Named(list'[w]) \subseteq (Named(list[w]) \ {loser}) \cup {winner}
    BY <1>1, MergedNames
  <2>2. CASE d = loser
    <3>1. trace'[d].before = list /\ into'[d] = winner
      BY <2>2 DEF AuthorsInv, AuthorsTypeOK
    <3> QED
      BY <1>1, <2>1, <2>2, <3>1 DEF MergedWell
  <2>3. CASE d # loser
    <3>1. trace'[d] = trace[d] /\ into'[d] = into[d]
      BY <2>3 DEF AuthorsInv, AuthorsTypeOK
    <3>2. MergedWell(d) /\ d \in gone
      BY <1>8, <3>1 DEF AuthorsInv
    <3>3. d # winner
      BY <3>2
    <3> QED
      BY <2>1, <3>1, <3>2, <3>3 DEF MergedWell
  <2> QED
    BY <2>2, <2>3
<1>9. ASSUME NEW d \in Creators, trace'[d].reason # "none" PROVE d \in gone'
  <2>1. d # loser => trace'[d] = trace[d]
    BY DEF AuthorsInv, AuthorsTypeOK
  <2> QED
    BY <1>9, <2>1 DEF AuthorsInv
<1> QED
  BY <1>4, <1>5, <1>6, <1>7, <1>8, <1>9 DEF AuthorsInv

\* A restore: what it does to the lists, of a merge and of a plain removal.
LEMMA RestoredLists ==
  ASSUME AuthorsInv, NEW c \in Creators, RestoreCreator(c), NEW w \in Works
  PROVE  /\ list'[w] \in Seq(Places) /\ Distinct(list'[w])
         /\ Named(list'[w]) \subseteq Named(list[w]) \cup {c}
         /\ list'[w] # list[w] => trace[c].reason = "merge" /\ c \in Named(trace[c].before[w])
<1>0. list[w] \in Seq(Places) /\ Distinct(list[w])
  BY DEF AuthorsInv, AuthorsTypeOK, NobodyTwice
<1>1. CASE trace[c].reason # "merge"
  BY <1>0, <1>1 DEF RestoreCreator
<1>2. CASE trace[c].reason = "merge"
  <2> DEFINE old == trace[c].before[w]
  <2>1. old \in Seq(Places) /\ Distinct(old) /\ c \notin Named(list[w])
    BY <1>2 DEF AuthorsInv, AuthorsTypeOK, MergedWell
  <2>2. list'[w] = Reinstated(list[w], old, c)
    BY <1>2 DEF RestoreCreator
  <2> HIDE DEF old
  <2>3. c \notin Named(old) => list'[w] = list[w]
    BY <1>0, <2>1, <2>2, ReinstatedElsewhere
  <2>4. list'[w] \in Seq(Places) /\ Distinct(list'[w]) /\ Named(list'[w]) \subseteq Named(list[w]) \cup {c}
    BY <1>0, <2>1, <2>2, ReinstatedTyped, ReinstatedDistinct, ReinstatedNames
  <2> QED
    BY <1>2, <2>3, <2>4 DEF old
<1> QED
  BY <1>1, <1>2

LEMMA RestoreCreatorInv == ASSUME AuthorsInv, NEW c \in Creators, RestoreCreator(c) PROVE AuthorsInv'
<1> DEFINE Traces == [reason : {"none", "user", "merge"}, before : [Works -> Seq(Places)]]
           S == IF trace[c].reason = "merge" THEN {w \in Works : c \in Named(trace[c].before[w])} ELSE {}
<1>1. S \in SUBSET Works /\ Reprinted(S) /\ UNCHANGED <<shelved, forms>>
  BY DEF RestoreCreator
<1>2. list' \in [Works -> Seq(Places)]
  <2>1. list' = [w \in Works |-> list'[w]]
    BY DEF RestoreCreator, AuthorsInv, AuthorsTypeOK
  <2>2. \A w \in Works : list'[w] \in Seq(Places)
    BY RestoredLists
  <2> QED
    BY <2>1, <2>2
<1>3. Closed \in Traces /\ Closed.reason = "none"
  BY DEF Closed
<1>4. AuthorsTypeOK'
  <2>1. printed' \in [Works -> SUBSET Creators]
    BY <1>1, <1>2, ReprintedTyped DEF AuthorsInv, AuthorsTypeOK
  <2> QED
    BY <1>1, <1>2, <1>3, <2>1, AuthorsSetup DEF RestoreCreator, AuthorsInv, AuthorsTypeOK
<1>5. NobodyTwice'
  BY RestoredLists DEF NobodyTwice
<1>6. FoundByName'
  <2>1. \A w \in Works \ S : list'[w] = list[w]
    BY RestoredLists
  <2>2. \A d \in Creators : d \in forms'[d]
    BY <1>1 DEF AuthorsInv
  <2> HIDE DEF S
  <2> QED
    BY <1>1, <1>4, <2>1, <2>2, FoundStep
<1>7. \A d \in Creators : IF d = c THEN trace'[d].reason = "none" ELSE trace'[d] = trace[d] /\ into'[d] = into[d]
  BY <1>3 DEF RestoreCreator, AuthorsInv, AuthorsTypeOK
<1>8. ASSUME NEW d \in Creators, trace'[d].reason = "merge" PROVE MergedWell(d)'
  <2>1. d # c /\ MergedWell(d) /\ trace'[d] = trace[d] /\ into'[d] = into[d]
    BY <1>7, <1>8 DEF AuthorsInv
  <2> QED
    BY <2>1, RestoredLists DEF MergedWell
<1>9. ASSUME NEW d \in Creators, trace'[d].reason # "none" PROVE d \in gone'
  BY <1>7, <1>9 DEF AuthorsInv, RestoreCreator
<1> QED
  BY <1>1, <1>4, <1>5, <1>6, <1>8, <1>9 DEF AuthorsInv

LEMMA AuthorsStepInv == AuthorsInv /\ [AuthorsNext]_authorVars => AuthorsInv'
<1> SUFFICES ASSUME AuthorsInv, [AuthorsNext]_authorVars PROVE AuthorsInv'
  OBVIOUS
<1>1. ASSUME NEW c \in Creators, CreatorStep(c) PROVE AuthorsInv'
  BY <1>1, MergeCreatorsInv, RewriteFormsInv, TrashedInv, RestoreCreatorInv DEF CreatorStep
<1>2. ASSUME NEW w \in Works, WorkStep(w) PROVE AuthorsInv'
  BY <1>2, SetItemCreatorsInv, ShelfInv DEF WorkStep
<1>3. ASSUME UNCHANGED authorVars PROVE AuthorsInv'
  BY <1>3 DEF authorVars, AuthorsInv, AuthorsTypeOK, NobodyTwice, FoundByName, NamesOn, MergedWell
<1> QED
  BY <1>1, <1>2, <1>3 DEF AuthorsNext

\* Undoing a merge.
LEMMA UnmergeStep ==
  ASSUME AuthorsInv, [AuthorsNext]_authorVars, NEW c \in Creators,
         trace[c].reason = "merge", c \in gone, c \notin gone',
         list = MergedLists(trace[c].before, c, into[c]), ~Dropped(c)
  PROVE  list' = trace[c].before
<1>1. RestoreCreator(c)
  <2>1. ASSUME NEW d \in Creators, CreatorStep(d) PROVE RestoreCreator(c)
    BY <2>1 DEF CreatorStep, MergeCreators, RewriteForms, TrashCreator, RestoreCreator, PurgeCreator
  <2>2. ASSUME NEW w \in Works, WorkStep(w) PROVE FALSE
    BY <2>2 DEF WorkStep, SetItemCreators, ShelveItem, UnshelveItem
  <2>3. ASSUME UNCHANGED authorVars PROVE FALSE
    BY <2>3 DEF authorVars
  <2> QED
    BY <2>1, <2>2, <2>3 DEF AuthorsNext
<1> DEFINE b == trace[c].before
           d == into[c]
<1>2. b \in [Works -> Seq(Places)] /\ d \in Creators /\ \A w \in Works : Distinct(b[w])
  BY DEF AuthorsInv, AuthorsTypeOK, MergedWell
<1>3. ASSUME NEW w \in Works PROVE list[w] = MergedList(b[w], c, d) /\ Len(MergedList(b[w], c, d)) = Len(b[w])
  BY DEF MergedLists, Dropped
<1>4. list' = [w \in Works |-> Reinstated(list[w], b[w], c)]
  BY <1>1 DEF RestoreCreator
<1> HIDE DEF b, d
<1>5. \A w \in Works : Reinstated(list[w], b[w], c) = b[w]
  BY <1>2, <1>3, ReinstatedIsExact
<1>6. list' = b
  BY <1>2, <1>4, <1>5
<1> QED
  BY <1>6 DEF b

\* Who is on a live item although in the trash.
LEMMA TrashedStay ==
  ASSUME AuthorsInv, [AuthorsNext]_authorVars, NEW w \in Works, NamesTheTrashed(w)', ~NamesTheTrashed(w)
  PROVE  w \in shelved
<1> SUFFICES ASSUME w \notin shelved PROVE FALSE
  OBVIOUS
<1>1. Named(list[w]) \cap gone = {} /\ w \notin shelved' /\ Named(list'[w]) \cap gone' # {}
  BY DEF NamesTheTrashed
<1>2. ASSUME NEW c \in Creators, CreatorStep(c) PROVE FALSE
  <2>1. ASSUME NEW d \in Creators, MergeCreators(c, d) PROVE FALSE
    <3>1. list[w] \in Seq(Places) /\ list'[w] = MergedList(list[w], c, d)
      BY <2>1 DEF MergeCreators, MergedLists, AuthorsInv, AuthorsTypeOK
    <3>2. Named(list'[w]) \subseteq (Named(list[w]) \ {c}) \cup {d}
      BY <3>1, MergedNames
    <3> QED
      BY <1>1, <2>1, <3>2 DEF MergeCreators
  <2>2. ASSUME RestoreCreator(c) PROVE FALSE
    <3>1. Named(list'[w]) \subseteq Named(list[w]) \cup {c}
      BY <2>2, RestoredLists
    <3> QED
      BY <1>1, <2>2, <3>1 DEF RestoreCreator
  <2>3. ASSUME TrashCreator(c) PROVE FALSE
    BY <1>1, <2>3 DEF TrashCreator
  <2>4. ASSUME RewriteForms(c) \/ PurgeCreator(c) PROVE FALSE
    BY <1>1, <2>4 DEF RewriteForms, PurgeCreator
  <2> QED
    BY <1>2, <2>1, <2>2, <2>3, <2>4 DEF CreatorStep
<1>3. ASSUME NEW v \in Works, WorkStep(v) PROVE FALSE
  <2>1. ASSUME NEW l \in Lists, SetItemCreators(v, l) PROVE FALSE
    <3>1. list'[w] = l \/ list'[w] = list[w]
      BY <2>1 DEF SetItemCreators, AuthorsInv, AuthorsTypeOK
    <3> QED
      BY <1>1, <2>1, <3>1 DEF SetItemCreators
  <2>2. ASSUME ShelveItem(v) \/ UnshelveItem(v) PROVE FALSE
    BY <1>1, <2>2 DEF ShelveItem, UnshelveItem
  <2> QED
    BY <1>3, <2>1, <2>2 DEF WorkStep
<1> QED
  BY <1>1, <1>2, <1>3 DEF AuthorsNext, authorVars

-----------------------------------------------------------------------------
(* The tags. *)

\* The inductive invariant of the tags: the search entries are up to date, a tag that is in the
\* trash or has no row is on no item, and an open record is about a tag in the trash.
TagsInv == /\ TagsTypeOK /\ FoundByTag
           /\ \A t \in Labels \ LiveTags : carries[t] = {}
           /\ \A t \in Labels : slip[t].open => t \in dropped

LEMMA TagsInitInv == TagsInit => TagsInv
<1> SUFFICES ASSUME TagsInit PROVE TagsInv
  OBVIOUS
<1>1. slip \in [Labels -> [held : SUBSET Papers, winner : Labels \cup {NoTag}, open : BOOLEAN]]
  BY DEF TagsInit, NoSlip
<1>2. TagsTypeOK
  BY <1>1 DEF TagsInit, TagsTypeOK
<1>3. FoundByTag
  BY DEF TagsInit, FoundByTag, TagsOn, LiveTags
<1> QED
  BY <1>2, <1>3 DEF TagsInit, TagsInv, NoSlip

\* Indexing the items whose tags or names a step changed brings every entry up to date.
LEMMA RemarkedFinds ==
  ASSUME NEW S, FoundByTag, Remarked(S), \A i \in Papers \ S : TagsOn(i)' = TagsOn(i)
  PROVE  FoundByTag'
BY DEF Remarked, FoundByTag

\* The entry of an item is a set of tags, each with which of its names it has.
LEMMA NamesTyped ==
  ASSUME NEW S \in SUBSET Labels, NEW R PROVE {<<t, t \in R>> : t \in S} \subseteq Labels \X BOOLEAN
<1> SUFFICES ASSUME NEW t \in S PROVE <<t, t \in R>> \in Labels \X BOOLEAN
  OBVIOUS
<1>1. (t \in R) \in BOOLEAN
  OBVIOUS
<1> QED
  BY <1>1

LEMMA MarksTyped ==
  ASSUME NEW S, Remarked(S), TagsTypeOK, LiveTags' \subseteq Labels
  PROVE  marks' \in [Papers -> SUBSET (Labels \X BOOLEAN)]
<1>1. \A i \in Papers : TagsOn(i)' \subseteq Labels \X BOOLEAN
  BY NamesTyped DEF TagsOn
<1> QED
  BY <1>1 DEF Remarked, TagsTypeOK

LEMMA TagStepInv == ASSUME TagsInv, NEW t \in Labels, TagStep(t) PROVE TagsInv'
<1> USE DEF TagsInv, TagsTypeOK
<1>1. CASE CreateTag(t)
  <2>1. \A i \in Papers : TagsOn(i)' = TagsOn(i)
    BY <1>1 DEF CreateTag, TagsOn, LiveTags
  <2> QED
    BY <1>1, <2>1 DEF CreateTag, FoundByTag, LiveTags
<1>2. CASE RenameTag(t)
  <2>1. \A i \in Papers \ carries[t] : TagsOn(i)' = TagsOn(i)
    <3> SUFFICES ASSUME NEW i \in Papers \ carries[t] PROVE TagsOn(i)' = TagsOn(i)
      OBVIOUS
    <3>1. \A u \in LiveTags : i \in carries[u] => (u \in renamed' <=> u \in renamed)
      BY <1>2 DEF RenameTag
    <3> QED
      BY <1>2, <3>1 DEF RenameTag, TagsOn, LiveTags
  <2>2. FoundByTag'
    BY <1>2, <2>1, RemarkedFinds DEF RenameTag
  <2>3. marks' \in [Papers -> SUBSET (Labels \X BOOLEAN)]
    BY <1>2, MarksTyped DEF RenameTag, LiveTags
  <2> QED
    BY <1>2, <2>2, <2>3 DEF RenameTag, LiveTags
<1>3. CASE \E i \in Papers : Assign(t, i) \/ Unassign(t, i)
  <2>1. PICK i \in Papers : Assign(t, i) \/ Unassign(t, i)
    BY <1>3
  <2>2. \A j \in Papers \ {i} : TagsOn(j)' = TagsOn(j)
    BY <2>1 DEF Assign, Unassign, TagsOn, LiveTags
  <2>3. FoundByTag'
    BY <2>1, <2>2, RemarkedFinds DEF Assign, Unassign
  <2>4. marks' \in [Papers -> SUBSET (Labels \X BOOLEAN)]
    BY <2>1, MarksTyped DEF Assign, Unassign, LiveTags
  <2> QED
    BY <2>1, <2>3, <2>4 DEF Assign, Unassign, LiveTags
<1>4. CASE \E w \in Labels : MergeTags(t, w)
  <2>1. PICK w \in Labels : MergeTags(t, w)
    BY <1>4
  <2>2. \A i \in Papers \ carries[t] : TagsOn(i)' = TagsOn(i)
    BY <2>1 DEF MergeTags, TagsOn, LiveTags
  <2>3. FoundByTag'
    BY <2>1, <2>2, RemarkedFinds DEF MergeTags
  <2>4. marks' \in [Papers -> SUBSET (Labels \X BOOLEAN)]
    BY <2>1, MarksTyped DEF MergeTags, LiveTags
  <2> QED
    BY <2>1, <2>3, <2>4 DEF MergeTags, LiveTags
<1>5. CASE TrashTag(t)
  <2>1. \A i \in Papers \ carries[t] : TagsOn(i)' = TagsOn(i)
    BY <1>5 DEF TrashTag, TagsOn, LiveTags
  <2>2. FoundByTag'
    BY <1>5, <2>1, RemarkedFinds DEF TrashTag
  <2>3. marks' \in [Papers -> SUBSET (Labels \X BOOLEAN)]
    BY <1>5, MarksTyped DEF TrashTag, LiveTags
  <2> QED
    BY <1>5, <2>2, <2>3 DEF TrashTag, LiveTags, NoSlip
<1>6. CASE RestoreTag(t)
  <2>1. \A i \in Papers \ slip[t].held : TagsOn(i)' = TagsOn(i)
    BY <1>6 DEF RestoreTag, TagsOn, LiveTags
  <2>2. FoundByTag'
    BY <1>6, <2>1, RemarkedFinds DEF RestoreTag
  <2>3. marks' \in [Papers -> SUBSET (Labels \X BOOLEAN)]
    BY <1>6, MarksTyped DEF RestoreTag, LiveTags
  <2> QED
    BY <1>6, <2>2, <2>3 DEF RestoreTag, LiveTags
<1>7. CASE PurgeTag(t)
  <2>1. UNCHANGED <<labels, dropped, carries, renamed, marks>>
    BY <1>7 DEF PurgeTag
  <2>2. FoundByTag'
    BY <2>1 DEF FoundByTag, TagsOn, LiveTags
  <2>3. /\ slip' \in [Labels -> [held : SUBSET Papers, winner : Labels \cup {NoTag}, open : BOOLEAN]]
        /\ \A u \in Labels : slip'[u].open => slip[u].open
    BY <1>7 DEF PurgeTag
  <2> QED
    BY <2>1, <2>2, <2>3 DEF LiveTags
<1> QED
  BY <1>1, <1>2, <1>3, <1>4, <1>5, <1>6, <1>7 DEF TagStep

LEMMA TagsStepInv == TagsInv /\ [TagsNext]_tagVars => TagsInv'
<1>1. CASE UNCHANGED tagVars
  BY <1>1 DEF tagVars, TagsInv, TagsTypeOK, FoundByTag, TagsOn, LiveTags
<1> QED
  BY <1>1, TagStepInv DEF TagsNext

\* One step takes a tag off no item but to keep it in the record, or to give it to the winner,
\* and a tag that returns takes nothing from the others.
LEMMA StepKeepsTags ==
  ASSUME TagsInv, [TagsNext]_tagVars, NEW t \in Labels
  PROVE  /\ t \in dropped => carries[t] = {}
         /\ t \in dropped \cup dropped' => Carriers(t)' = Carriers(t)
         /\ t \in dropped' \ dropped /\ slip'[t].winner # NoTag =>
              carries'[slip'[t].winner] = carries[slip'[t].winner] \cup carries[t]
         /\ t \in dropped \ dropped' =>
              \A u \in Labels \ {t} : carries'[u] = carries[u]
<1> USE DEF TagsInv, TagsTypeOK, Carriers, LiveTags
<1>1. CASE UNCHANGED tagVars
  BY <1>1 DEF tagVars
<1>2. CASE TagsNext
  <2> PICK u \in Labels : TagStep(u)
    BY <1>2 DEF TagsNext
  <2>1. CASE CreateTag(u) \/ RenameTag(u) \/ PurgeTag(u)
    BY <2>1 DEF CreateTag, RenameTag, PurgeTag
  <2>2. CASE \E i \in Papers : Assign(u, i) \/ Unassign(u, i)
    BY <2>2 DEF Assign, Unassign
  <2>3. CASE \E w \in Labels : MergeTags(u, w)
    BY <2>3, TagsSetup DEF MergeTags
  <2>4. CASE TrashTag(u)
    BY <2>4 DEF TrashTag, NoSlip
  <2>5. CASE RestoreTag(u)
    BY <2>5 DEF RestoreTag
  <2> QED
    BY <2>1, <2>2, <2>3, <2>4, <2>5 DEF TagStep
<1> QED
  BY <1>1, <1>2

-----------------------------------------------------------------------------
(* The notes. *)

\* The inductive invariant of the notes.  The version somebody read is behind the note's once
\* the note was written over: that is what SaveDraft goes by.
DraftIsBehind == /\ draft.of \in NoteIds => draft.version \in 1 .. note[draft.of].version
                 /\ draft.overtaken => /\ draft.of \in NoteIds
                                       /\ draft.version < note[draft.of].version
\* A note that was written has a text.
HasText == \A n \in NoteIds : /\ note[n].version > 0 => note[n].text \in Texts
                              /\ note[n].live \/ note[n].record # "none" => note[n].version > 0
NotesInv == NotesTypeOK /\ FoundByNote /\ NotesStayWithItem /\ DraftIsBehind /\ HasText

LEMMA NotesInitInv == NotesInit => NotesInv
BY NotesSetup DEF NotesInit, NotesInv, NotesTypeOK, FoundByNote, NotesStayWithItem, DraftIsBehind, HasText, NoNote,
       NoDraft, NotePlaces

\* Indexing the notes a step wrote brings the index up to date.
LEMMA ReindexedFinds ==
  ASSUME NEW S \in SUBSET NoteIds, NotesTypeOK, FoundByNote, Reindexed(S),
         \A n \in NoteIds \ S : note'[n] = note[n]
  PROVE  FoundByNote'
BY DEF NotesTypeOK, Reindexed, FoundByNote

\* The parts of a note's row.
NoteRows(texts, versions) == [on : NotePlaces, text : texts, version : versions,
                              live : BOOLEAN, record : {"none", "user", "cascade"}]

LEMMA RowParts ==
  ASSUME NEW texts, NEW versions, NEW row \in NoteRows(texts, versions)
  PROVE  /\ row.on \in NotePlaces /\ row.text \in texts /\ row.version \in versions
         /\ row.live \in BOOLEAN /\ row.record \in {"none", "user", "cascade"}
BY DEF NoteRows

LEMMA RowsTyped ==
  ASSUME NotesInv, NEW n \in NoteIds
  PROVE  /\ note[n] \in NoteRows(Texts \cup {0}, 0 .. MaxNoteVersion)
         /\ note[n].live \/ note[n].record # "none" \/ note[n].version > 0 =>
              note[n] \in NoteRows(Texts, 0 .. MaxNoteVersion)
         /\ note[n].version \in Nat /\ note[n].version + 1 \in Nat \ {0} /\ note[n].version + 1 > note[n].version
<1>1. note[n] \in NoteRows(Texts \cup {0}, 0 .. MaxNoteVersion)
  BY DEF NoteRows, NotesInv, NotesTypeOK
<1>2. note[n].version \in 0 .. MaxNoteVersion
  BY <1>1, RowParts
<1>3. note[n].text \in Texts => note[n] \in NoteRows(Texts, 0 .. MaxNoteVersion)
  BY <1>1 DEF NoteRows
<1> QED
  BY <1>1, <1>2, <1>3, NotesSetup DEF NotesInv, HasText

\* What a write of one note, with its place in the index, leads to.
LEMMA PutInv ==
  ASSUME NotesInv, NEW n \in NoteIds, NEW row \in NoteRows(Texts, Nat \ {0}), Put(n, row),
         row.record # "none" => ~row.live, row.record = "cascade" => row.on \in hidden
  PROVE  /\ note'[n] = row /\ \A m \in NoteIds \ {n} : note'[m] = note[m]
         /\ note' \in [NoteIds -> NoteRows(Texts \cup {0}, 0 .. MaxNoteVersion)]
         /\ bundle' = bundle /\ hidden' = hidden
         /\ noteIndex' \subseteq NoteIds \X NotePlaces \X Texts
         /\ FoundByNote' /\ NotesStayWithItem' /\ HasText'
<1> USE DEF NotesInv, NotesTypeOK
<1>1. note'[n] = row /\ \A m \in NoteIds \ {n} : note'[m] = note[m]
  BY DEF Put
<1>2. row \in NoteRows(Texts \cup {0}, 0 .. MaxNoteVersion)
  BY NotesSetup DEF Put, NoteRows
<1>3. note' \in [NoteIds -> NoteRows(Texts \cup {0}, 0 .. MaxNoteVersion)]
  BY <1>2 DEF Put, NoteRows
<1>4. FoundByNote'
  BY <1>1, ReindexedFinds DEF Put
<1>5. noteIndex' \subseteq NoteIds \X NotePlaces \X Texts
  BY <1>1, RowParts DEF Put, Reindexed
<1>6. NotesStayWithItem'
  BY <1>1 DEF Put, NotesStayWithItem
<1>7. HasText'
  BY <1>1, RowParts DEF HasText
<1> QED
  BY <1>1, <1>3, <1>4, <1>5, <1>6, <1>7 DEF Put

Drafts == [of : NoteIds \cup {Alone}, version : 0 .. MaxNoteVersion, overtaken : BOOLEAN]

\* The draft of a note that is written over has a version that is behind.
LEMMA OvertakeKeeps ==
  ASSUME NotesInv, NEW n \in NoteIds, Overtake(n) \/ UNCHANGED draft,
         \A m \in NoteIds \ {n} : note'[m] = note[m],
         note'[n].version > note[n].version, note'[n].version \in Nat
  PROVE  draft' \in Drafts /\ DraftIsBehind'
<1> USE DEF NotesInv, NotesTypeOK
<1>1. /\ draft'.of = draft.of /\ draft'.version = draft.version
      /\ draft'.overtaken \in BOOLEAN
      /\ draft'.overtaken => draft.overtaken \/ draft.of = n
      /\ draft' \in Drafts
  BY DEF Overtake, Drafts
<1>2. \A m \in NoteIds : note[m].version \in Nat
  BY RowsTyped
<1>3. \A m \in NoteIds : note'[m].version >= note[m].version /\ note[m].version \in Nat
  <2> TAKE m \in NoteIds
  <2>1. CASE m = n
    BY <1>2, <2>1
  <2>2. CASE m # n
    <3>1. note'[m].version = note[m].version
      BY <2>2
    <3> QED
      BY <1>2, <3>1
  <2> QED
    BY <2>1, <2>2
<1> QED
  BY <1>1, <1>3 DEF DraftIsBehind

\* A write that hands back a new version.
LEMMA WriteInv ==
  ASSUME NotesInv, NEW n \in NoteIds, NEW row \in NoteRows(Texts, Nat \ {0}), Put(n, row),
         row.record # "none" => ~row.live, row.record = "cascade" => row.on \in hidden,
         row.version > note[n].version, Overtake(n) \/ UNCHANGED draft
  PROVE  NotesInv'
<1>1. /\ note'[n] = row /\ \A m \in NoteIds \ {n} : note'[m] = note[m]
      /\ note' \in [NoteIds -> NoteRows(Texts \cup {0}, 0 .. MaxNoteVersion)]
      /\ bundle' = bundle /\ hidden' = hidden
      /\ noteIndex' \subseteq NoteIds \X NotePlaces \X Texts
      /\ FoundByNote' /\ NotesStayWithItem' /\ HasText'
  BY PutInv
<1>2. row.version \in Nat
  BY RowParts
<1>3. draft' \in Drafts /\ DraftIsBehind'
  BY <1>1, <1>2, OvertakeKeeps
<1> QED
  BY <1>1, <1>3 DEF NotesInv, NotesTypeOK, NoteRows, Drafts

\* What update writes.
LEMMA WrittenRow ==
  ASSUME NotesInv, NEW n \in NoteIds, NEW on \in NotePlaces, NEW text \in Texts, note[n].live
  PROVE  /\ Written(n, on, text) \in NoteRows(Texts, Nat \ {0})
         /\ Written(n, on, text).record = "none"
         /\ Written(n, on, text).version > note[n].version
<1>1. note[n].record = "none"
  BY RowsTyped, RowParts DEF NotesInv, NotesStayWithItem
<1> QED
  <2>1. /\ note[n] \in NoteRows(Texts, 0 .. MaxNoteVersion)
        /\ note[n].version + 1 \in Nat \ {0} /\ note[n].version + 1 > note[n].version
    BY RowsTyped
  <2> QED
    BY <1>1, <2>1 DEF Written, NoteRows

LEMMA NoteStepInv == ASSUME NotesInv, NEW n \in NoteIds, NoteStep(n) PROVE NotesInv'
<1> USE DEF NotesInv
<1>1. CASE \E on \in NotePlaces, text \in Texts : CreateNote(n, on, text)
  <2>1. PICK on \in NotePlaces, text \in Texts : CreateNote(n, on, text)
    BY <1>1
  <2> DEFINE row == [on |-> on, text |-> text, version |-> 1, live |-> TRUE, record |-> "none"]
  <2>2. /\ row \in NoteRows(Texts, Nat \ {0}) /\ row.record = "none" /\ row.version > note[n].version
        /\ Put(n, row) /\ UNCHANGED draft
    BY <2>1 DEF CreateNote, NoNote, NoteRows
  <2> HIDE DEF row
  <2> QED
    BY <2>2, WriteInv
<1>2. CASE \E on \in NotePlaces, text \in Texts : UpdateNote(n, on, text)
  <2>1. PICK on \in NotePlaces, text \in Texts : UpdateNote(n, on, text)
    BY <1>2
  <2> QED
    BY <2>1, WrittenRow, WriteInv DEF UpdateNote
<1>3. CASE \E on \in NotePlaces, text \in Texts : SaveDraft(n, on, text)
  <2>1. PICK on \in NotePlaces, text \in Texts : SaveDraft(n, on, text)
    BY <1>3
  <2>2. /\ bundle' = bundle /\ hidden' = hidden /\ FoundByNote' /\ NotesStayWithItem' /\ HasText'
        /\ note' \in [NoteIds -> NoteRows(Texts \cup {0}, 0 .. MaxNoteVersion)]
        /\ noteIndex' \subseteq NoteIds \X NotePlaces \X Texts
    BY <2>1, WrittenRow, PutInv DEF SaveDraft
  <2>3. draft' \in Drafts /\ DraftIsBehind'
    BY <2>1, NotesSetup DEF SaveDraft, NoDraft, DraftIsBehind, Drafts
  <2> QED
    BY <2>2, <2>3 DEF NotesTypeOK, NoteRows, Drafts
<1>4. CASE ReadNote(n)
  <2>1. /\ draft' = [of |-> n, version |-> note[n].version, overtaken |-> FALSE] /\ note' = note
        /\ note[n].version \in 1 .. MaxNoteVersion
    <3>1. note[n].version > 0
      BY <1>4 DEF ReadNote, HasText
    <3>2. note[n].version \in 0 .. MaxNoteVersion
      BY RowsTyped, RowParts
    <3>3. draft' = [of |-> n, version |-> note[n].version, overtaken |-> FALSE] /\ note' = note
      BY <1>4 DEF ReadNote, NoDraft
    <3> QED
      BY <3>1, <3>2, <3>3, NotesSetup
  <2>2. draft' \in Drafts /\ DraftIsBehind'
    BY <2>1, NotesSetup DEF DraftIsBehind, Drafts
  <2> QED
    BY <1>4, <2>2 DEF ReadNote, FoundByNote, NotesStayWithItem, HasText, NotesTypeOK, Drafts
<1>5. CASE RefuseDraft(n)
  <2>1. draft' \in Drafts /\ DraftIsBehind'
    BY <1>5, NotesSetup DEF RefuseDraft, NoDraft, DraftIsBehind, Drafts
  <2> QED
    BY <1>5, <2>1 DEF RefuseDraft, FoundByNote, NotesStayWithItem, HasText, NotesTypeOK, Drafts
<1>6. CASE TrashNote(n)
  <2> DEFINE row == [note[n] EXCEPT !.live = FALSE, !.record = "user", !.version = note[n].version + 1]
  <2>1. Put(n, row) /\ UNCHANGED draft /\ note[n].live
    BY <1>6 DEF TrashNote
  <2>2. /\ row \in NoteRows(Texts, Nat \ {0}) /\ row.record = "user" /\ ~row.live
        /\ row.version > note[n].version
    <3>1. /\ note[n] \in NoteRows(Texts, 0 .. MaxNoteVersion)
          /\ note[n].version + 1 \in Nat \ {0} /\ note[n].version + 1 > note[n].version
      BY <2>1, RowsTyped
    <3> QED
      BY <3>1 DEF NoteRows
  <2> HIDE DEF row
  <2> QED
    BY <2>1, <2>2, WriteInv
<1>7. CASE RestoreNote(n)
  <2> DEFINE row == [note[n] EXCEPT !.live = TRUE, !.record = "none", !.version = note[n].version + 1]
  <2>1. Put(n, row) /\ UNCHANGED draft /\ note[n].record # "none"
    BY <1>7 DEF RestoreNote
  <2>2. /\ row \in NoteRows(Texts, Nat \ {0}) /\ row.record = "none"
        /\ row.version > note[n].version
    <3>1. /\ note[n] \in NoteRows(Texts, 0 .. MaxNoteVersion)
          /\ note[n].version + 1 \in Nat \ {0} /\ note[n].version + 1 > note[n].version
      BY <2>1, RowsTyped
    <3> QED
      BY <3>1 DEF NoteRows
  <2> HIDE DEF row
  <2> QED
    BY <2>1, <2>2, WriteInv
<1>8. CASE PurgeNote(n)
  <2>1. note' \in [NoteIds -> [on : NotePlaces, text : Texts \cup {0}, version : 0 .. MaxNoteVersion,
                               live : BOOLEAN, record : {"none", "user", "cascade"}]]
        /\ \A m \in NoteIds : /\ note'[m].on = note[m].on /\ note'[m].text = note[m].text
                              /\ note'[m].live = note[m].live /\ note'[m].version = note[m].version
                              /\ note'[m].record \in {"none", note[m].record}
    BY <1>8 DEF PurgeNote, NotesTypeOK
  <2> QED
    BY <1>8, <2>1 DEF PurgeNote, FoundByNote, NotesStayWithItem, HasText, DraftIsBehind, NotesTypeOK
<1> QED
  BY <1>1, <1>2, <1>3, <1>4, <1>5, <1>6, <1>7, <1>8 DEF NoteStep

\* An item that goes to the trash or comes back takes its notes along: which they are, how
\* their rows change, and the rest.
LEMMA MovedNotesInv ==
  ASSUME NotesInv, NEW S \in SUBSET NoteIds, NEW isLive \in BOOLEAN, NEW rec \in {"none", "cascade"},
         note' = [n \in NoteIds |-> IF n \in S THEN [note[n] EXCEPT !.live = isLive, !.record = rec] ELSE note[n]],
         Reindexed(S), UNCHANGED draft, isLive <=> rec = "none",
         \A n \in S : note[n].live \/ note[n].record # "none",
         rec = "cascade" => \A n \in S : note[n].on \in hidden',
         \A n \in NoteIds \ S : note[n].record = "cascade" => note[n].on \in hidden',
         bundle' \subseteq hidden', hidden' \subseteq Hosts
  PROVE  NotesInv'
<1>1. ASSUME NEW n \in S
      PROVE  /\ note'[n] \in NoteRows(Texts, 0 .. MaxNoteVersion)
             /\ note'[n].on = note[n].on /\ note'[n].text = note[n].text
             /\ note'[n].version = note[n].version /\ note'[n].live = isLive /\ note'[n].record = rec
  <2>1. note'[n] = [note[n] EXCEPT !.live = isLive, !.record = rec]
    OBVIOUS
  <2>2. note[n] \in NoteRows(Texts, 0 .. MaxNoteVersion)
    BY RowsTyped
  <2> QED
    BY <2>1, <2>2 DEF NoteRows
<1>2. \A n \in NoteIds \ S : note'[n] = note[n]
  OBVIOUS
<1>3. \A n \in NoteIds : /\ note'[n].text = note[n].text /\ note'[n].version = note[n].version
                         /\ note'[n].on = note[n].on
  BY <1>1, <1>2
<1>4. ASSUME NEW n \in NoteIds PROVE note'[n] \in NoteRows(Texts \cup {0}, 0 .. MaxNoteVersion)
  <2>1. CASE n \in S
    BY <2>1, <1>1 DEF NoteRows
  <2>2. CASE n \notin S
    BY <2>2, <1>2, RowsTyped
  <2> QED
    BY <2>1, <2>2
<1>5. note' \in [NoteIds -> NoteRows(Texts \cup {0}, 0 .. MaxNoteVersion)]
  BY <1>4
<1>6. FoundByNote'
  BY <1>2, ReindexedFinds DEF NotesInv
<1>7. noteIndex' \subseteq NoteIds \X NotePlaces \X Texts
  <2>1. \A n \in S : note'[n].on \in NotePlaces /\ note'[n].text \in Texts
    BY <1>1 DEF NoteRows
  <2>2. \A n \in S : <<n, note'[n].on, note'[n].text>> \in NoteIds \X NotePlaces \X Texts
    BY <2>1
  <2>3. /\ noteIndex \subseteq NoteIds \X NotePlaces \X Texts
        /\ noteIndex' \subseteq noteIndex \cup {<<n, note'[n].on, note'[n].text>> : n \in S}
    BY DEF Reindexed, NotesInv, NotesTypeOK
  <2> QED
    BY <2>2, <2>3
<1>8. NotesStayWithItem'
  <2>1. \A n \in S : note'[n].live = isLive /\ note'[n].record = rec
    BY <1>1
  <2> QED
    BY <1>2, <1>3, <2>1 DEF NotesStayWithItem, NotesInv
<1>9. HasText'
  BY <1>1, <1>2, <1>3, RowParts DEF HasText, NotesInv
<1>10. DraftIsBehind'
  BY <1>3 DEF DraftIsBehind, NotesInv
<1> QED
  BY <1>5, <1>6, <1>7, <1>8, <1>9, <1>10 DEF NotesInv, NotesTypeOK, NoteRows

LEMMA HostStepInv == ASSUME NotesInv, NEW i \in Hosts, HostStep(i) PROVE NotesInv'
<1>1. CASE HideItem(i)
  <2>1. NotesOn(i) \in SUBSET NoteIds /\ \A n \in NotesOn(i) : note[n].live /\ note[n].on = i
    BY DEF NotesOn
  <2> DEFINE S == NotesOn(i)
             isLive == FALSE
             rec == "cascade"
  <2>2. /\ note' = [n \in NoteIds |-> IF n \in S THEN [note[n] EXCEPT !.live = isLive, !.record = rec] ELSE note[n]]
        /\ Reindexed(S) /\ UNCHANGED draft
    BY <1>1 DEF HideItem
  <2>3. bundle' \subseteq hidden' /\ hidden' \subseteq Hosts /\ i \in hidden' /\ hidden \subseteq hidden'
    BY <1>1 DEF HideItem, NotesInv, NotesTypeOK
  <2>4. /\ \A n \in S : note[n].on \in hidden'
        /\ \A n \in NoteIds \ S : note[n].record = "cascade" => note[n].on \in hidden'
    BY <2>1, <2>3 DEF NotesInv, NotesStayWithItem
  <2>5. isLive \in BOOLEAN /\ rec \in {"none", "cascade"} /\ (isLive <=> rec = "none")
    OBVIOUS
  <2> HIDE DEF S, isLive, rec
  <2> QED
    BY <2>1, <2>2, <2>3, <2>4, <2>5, MovedNotesInv DEF S
<1>2. CASE ShowItem(i)
  <2>1. Bundled(i) \in SUBSET NoteIds /\ \A n \in Bundled(i) : note[n].record # "none"
    BY DEF Bundled
  <2>2. \A n \in NoteIds \ Bundled(i) : note[n].record = "cascade" => note[n].on \in hidden'
    BY <1>2 DEF ShowItem, Bundled, NotesInv, NotesStayWithItem
  <2> QED
    BY <1>2, <2>1, <2>2, MovedNotesInv DEF ShowItem, NotesInv, NotesTypeOK
<1>3. CASE PurgeItem(i)
  BY <1>3 DEF PurgeItem, NotesInv, NotesTypeOK, FoundByNote, NotesStayWithItem, HasText, DraftIsBehind
<1> QED
  BY <1>1, <1>2, <1>3 DEF HostStep

LEMMA NotesStepInv == NotesInv /\ [NotesNext]_noteVars => NotesInv'
<1>1. CASE UNCHANGED noteVars
  BY <1>1 DEF noteVars, NotesInv, NotesTypeOK, FoundByNote, NotesStayWithItem, DraftIsBehind, HasText
<1> QED
  BY <1>1, NoteStepInv, HostStepInv DEF NotesNext

\* A draft is closed over changed notes only by saving it with the version it was read at.
LEMMA SavedIsRead ==
  ASSUME NotesInv, [NotesNext]_noteVars
  PROVE  [draft # NoDraft /\ draft' = NoDraft /\ note' # note => ~draft.overtaken]_noteVars
<1> SUFFICES ASSUME NotesNext, draft # NoDraft, draft' = NoDraft, note' # note PROVE ~draft.overtaken
  BY DEF noteVars
<1>1. CASE \E i \in Hosts : HostStep(i)
  BY <1>1 DEF HostStep, HideItem, ShowItem, PurgeItem
<1>2. ASSUME NEW n \in NoteIds, NoteStep(n) PROVE ~draft.overtaken
  <2>1. CASE \E on \in NotePlaces, text \in Texts : CreateNote(n, on, text)
    BY <2>1 DEF CreateNote
  <2>2. CASE \E on \in NotePlaces, text \in Texts : UpdateNote(n, on, text)
    BY <2>2, NotesSetup DEF UpdateNote, Overtake, NotesInv, NotesTypeOK, DraftIsBehind, NoDraft
  <2>3. CASE \E on \in NotePlaces, text \in Texts : SaveDraft(n, on, text)
    BY <2>3 DEF SaveDraft, NotesInv, NotesTypeOK, DraftIsBehind
  <2>4. CASE ReadNote(n) \/ RefuseDraft(n) \/ TrashNote(n) \/ RestoreNote(n) \/ PurgeNote(n)
    BY <2>4 DEF ReadNote, RefuseDraft, TrashNote, RestoreNote, PurgeNote
  <2> QED
    BY <1>2, <2>1, <2>2, <2>3, <2>4 DEF NoteStep
<1> QED
  BY <1>1, <1>2 DEF NotesNext

-----------------------------------------------------------------------------
(* The fields of an item. *)

\* The inductive invariant of an item: an item that was not made has nothing; what a person
\* typed is locked; a form that was written over has a version that is behind.
NotMade == version = 0 => /\ ~listed /\ ~hasFacet /\ entry = NoEntry
                          /\ \A f \in FacetFields : stamp[f] = "none" /\ typed[f] = Free
NoFacet == ~hasFacet => \A f \in FacetFields : facet[f] = NoWord
TypedIsLocked == \A f \in FacetFields : typed[f] # Free => stamp[f] = "locked"
FormIsBehind == /\ form # NoForm => form.version \in 1 .. version
                /\ form.overtaken => form # NoForm /\ form.version < version
ItemInv == /\ ItemTypeOK /\ NotMade /\ NoFacet /\ TypedIsLocked /\ FormIsBehind
           /\ FoundByField /\ TypedStays

LEMMA ItemInitInv == ItemInit => ItemInv
<1> SUFFICES ASSUME ItemInit PROVE ItemInv
  OBVIOUS
<1> USE DEF ItemInit
<1>1. ItemTypeOK
  <2>1. entry \in [title : Values, facet : [FacetFields -> Values]]
    BY DEF NoEntry, Values
  <2>2. form \in [version : 0 .. MaxItemVersion, overtaken : BOOLEAN] /\ 0 \in 0 .. MaxItemVersion
    BY ItemSetup DEF NoForm
  <2> QED
    BY <2>1, <2>2 DEF ItemTypeOK, Values
<1>2. NotMade /\ NoFacet /\ TypedIsLocked
  BY DEF NotMade, NoFacet, TypedIsLocked
<1>3. FormIsBehind
  BY DEF FormIsBehind, NoForm
<1>4. FoundByField /\ TypedStays
  BY DEF FoundByField, TypedStays, FacetFields
<1> QED
  BY <1>1, <1>2, <1>3, <1>4 DEF ItemInv

\* What writing a patch, whoever writes it, keeps of a field's lock and of what a person typed.
LEMMA PatchKeeps ==
  ASSUME ItemInv, NEW patch \in Patches, NEW who \in Writers, ApplyBibliographic(patch, who)
  PROVE  /\ facet' \in [FacetFields -> Values] /\ hasFacet' \in BOOLEAN
         /\ stamp' \in [FacetFields -> {"none", "open", "locked"}]
         /\ typed' \in [FacetFields -> {Free} \cup {Held(v) : v \in Values}]
         /\ NoFacet' /\ TypedIsLocked' /\ TypedStays'
<1> USE DEF ItemInv, ItemTypeOK, ApplyBibliographic, Stamped, Allowed, Patches, Writers
<1>1. DOMAIN patch \subseteq FacetFields /\ \A f \in DOMAIN patch : patch[f] \in Values
  OBVIOUS
<1>2. facet' \in [FacetFields -> Values] /\ hasFacet' \in BOOLEAN
  BY <1>1
<1>3. stamp' \in [FacetFields -> {"none", "open", "locked"}]
  BY <1>1
<1>4. \A v : Held(v) # Free /\ Held(v).value = v
  BY DEF Held, Free
<1>5. typed' \in [FacetFields -> {Free} \cup {Held(v) : v \in Values}]
  BY <1>1
<1>6. ASSUME NEW f \in FacetFields, typed'[f] # Free
      PROVE  stamp'[f] = "locked" /\ facet'[f] = typed'[f].value
  <2>1. CASE f \in DOMAIN patch /\ who = "person"
    BY <2>1, <1>1, <1>4
  <2>2. CASE ~(f \in DOMAIN patch /\ who = "person")
    BY <1>6, <2>2, <1>1 DEF TypedIsLocked, TypedStays
  <2> QED
    BY <2>1, <2>2
<1>7. NoFacet'
  BY <1>1 DEF NoFacet
<1> QED
  BY <1>2, <1>3, <1>5, <1>6, <1>7 DEF TypedIsLocked, TypedStays

\* A write by anybody: the version counts it when it changed anything, and only then is the
\* index written.
LEMMA UpdateKeeps ==
  ASSUME ItemInv, NEW patch \in Patches, NEW own \in Values, NEW who \in Writers, Update(patch, own, who)
  PROVE  /\ title' \in Values /\ version' \in 0 .. MaxItemVersion /\ version' >= version /\ listed'
         /\ entry' \in [title : Values, facet : [FacetFields -> Values]]
         /\ FoundByField' /\ NotMade'
         /\ Content' # Content => version' > version
<1> USE DEF ItemInv, ItemTypeOK, Update
<1>1. /\ facet' \in [FacetFields -> Values] /\ hasFacet' \in BOOLEAN
      /\ stamp' \in [FacetFields -> {"none", "open", "locked"}]
      /\ typed' \in [FacetFields -> {Free} \cup {Held(v) : v \in Values}]
      /\ NoFacet'
  BY PatchKeeps
<1>2. title' \in Values
  BY <1>1 DEF FacetFields
<1>3. version' \in 0 .. MaxItemVersion /\ version' >= version /\ listed'
  BY ItemSetup
<1>4. Untouched(patch, who) => Content' = Content
  <2> SUFFICES ASSUME Untouched(patch, who) PROVE facet' = facet /\ title' = title
    BY DEF Content
  <2>1. \A f \in Allowed(patch, who) : hasFacet /\ facet[f] = patch[f]
    BY DEF Untouched, Changed
  <2>2. \A f \in FacetFields : facet'[f] = facet[f]
    BY <2>1 DEF ApplyBibliographic
  <2> QED
    BY <2>2, <1>1 DEF Untouched
<1>5. entry' = Content'
  BY <1>4 DEF FoundByField
<1>6. entry' \in [title : Values, facet : [FacetFields -> Values]]
  BY <1>1, <1>2, <1>5 DEF Content
<1>7. FoundByField'
  BY <1>1, <1>3, <1>5 DEF FoundByField, NoFacet, FacetFields
<1>8. Content' # Content => version' > version
  BY <1>4
<1>9. NotMade'
  BY <1>3 DEF NotMade
<1> QED
  BY <1>1, <1>2, <1>3, <1>6, <1>7, <1>8, <1>9

LEMMA UpdateItemInv ==
  ASSUME ItemInv, NEW patch \in Patches, NEW own \in Values, NEW who \in Writers, UpdateItem(patch, own, who)
  PROVE  ItemInv'
<1>1. Update(patch, own, who) /\ ApplyBibliographic(patch, who)
  BY DEF UpdateItem, Update
<1>2. /\ version' \in 0 .. MaxItemVersion /\ version' >= version
      /\ Content' # Content => version' > version
  BY <1>1, UpdateKeeps
<1>3. form' \in [version : 0 .. MaxItemVersion, overtaken : BOOLEAN] /\ FormIsBehind'
  <2> USE DEF ItemInv, ItemTypeOK
  <2>1. /\ form'.version = form.version /\ form'.overtaken \in BOOLEAN
        /\ form' \in [version : 0 .. MaxItemVersion, overtaken : BOOLEAN]
        /\ form'.overtaken => form.overtaken \/ (form # NoForm /\ Content' # Content)
    BY DEF UpdateItem, Overtaken
  <2>2. form = NoForm => form' = NoForm
    BY DEF UpdateItem, Overtaken, NoForm
  <2>3. form # NoForm => form.version \in 1 .. version /\ form' # NoForm
    BY <2>1 DEF FormIsBehind, NoForm
  <2> QED
    BY <1>2, <2>1, <2>2, <2>3, ItemSetup DEF FormIsBehind, NoForm
<1>4. ItemTypeOK'
  BY <1>1, <1>3, PatchKeeps, UpdateKeeps DEF ItemTypeOK
<1> QED
  BY <1>1, <1>3, <1>4, PatchKeeps, UpdateKeeps DEF ItemInv

LEMMA SubmitInv ==
  ASSUME ItemInv, NEW patch \in Patches, NEW own \in Values, SubmitForm(patch, own) PROVE ItemInv'
<1>1. Update(patch, own, "person") /\ ApplyBibliographic(patch, "person") /\ "person" \in Writers
  BY DEF SubmitForm, Update, Writers
<1>2. form' \in [version : 0 .. MaxItemVersion, overtaken : BOOLEAN] /\ FormIsBehind'
  BY ItemSetup DEF SubmitForm, FormIsBehind, NoForm
<1>3. ItemTypeOK'
  BY <1>1, <1>2, PatchKeeps, UpdateKeeps DEF ItemTypeOK
<1> QED
  BY <1>1, <1>2, <1>3, PatchKeeps, UpdateKeeps DEF ItemInv

LEMMA CreateItemInv ==
  ASSUME ItemInv, NEW patch \in Patches, NEW own \in Values, NEW who \in Writers, CreateItem(patch, own, who)
  PROVE  ItemInv'
<1> USE DEF ItemInv, ItemTypeOK, CreateItem
<1>1. /\ facet' \in [FacetFields -> Values] /\ hasFacet' \in BOOLEAN
      /\ stamp' \in [FacetFields -> {"none", "open", "locked"}]
      /\ typed' \in [FacetFields -> {Free} \cup {Held(v) : v \in Values}]
      /\ NoFacet' /\ TypedIsLocked' /\ TypedStays'
  BY PatchKeeps
<1>2. DOMAIN patch # {} => title' = facet'["title"] /\ title' \in Values
  <2> SUFFICES ASSUME DOMAIN patch # {} PROVE title' = facet'["title"] /\ title' \in Values
    OBVIOUS
  <2>1. "title" \in Allowed(patch, who)
    BY DEF Allowed, NotMade, FacetFields
  <2> QED
    BY <2>1 DEF ApplyBibliographic, FacetFields, Patches
<1>3. DOMAIN patch = {} => facet'["title"] = NoWord
  BY DEF ApplyBibliographic, Allowed, NotMade, NoFacet, FacetFields
<1>4. title' \in Values
  BY <1>2
<1>5. entry' \in [title : Values, facet : [FacetFields -> Values]]
  BY <1>1, <1>4 DEF Content
<1>6. version' \in 0 .. MaxItemVersion
  BY ItemSetup
<1>7. FoundByField'
  BY <1>2, <1>3 DEF FoundByField
<1>8. NotMade' /\ form = NoForm
  BY DEF NotMade, FormIsBehind
<1>9. FormIsBehind'
  BY <1>8 DEF FormIsBehind, NoForm
<1> QED
  BY <1>1, <1>4, <1>5, <1>6, <1>7, <1>8, <1>9

\* What leaves the fields and the title alone.
LEMMA FormInv == ASSUME ItemInv, OpenForm \/ RefuseForm PROVE ItemInv'
<1> USE DEF ItemInv, ItemTypeOK, OpenForm, RefuseForm
<1>1. /\ UNCHANGED <<title, facet, hasFacet, version, listed, stamp, typed, entry>>
      /\ form' = NoForm \/ (form' = [NoForm EXCEPT !.version = version] /\ version > 0)
  OBVIOUS
<1>2. form' \in [version : 0 .. MaxItemVersion, overtaken : BOOLEAN] /\ FormIsBehind'
  <2>1. form' = NoForm \/ (form' = [version |-> version, overtaken |-> FALSE] /\ version > 0)
    BY <1>1 DEF NoForm
  <2>2. form' \in [version : 0 .. MaxItemVersion, overtaken : BOOLEAN] /\ ~form'.overtaken
    <3>1. version \in 0 .. MaxItemVersion /\ 0 \in 0 .. MaxItemVersion
      BY ItemSetup
    <3>2. PICK v \in {0, version} : form' = [version |-> v, overtaken |-> FALSE]
      BY <2>1 DEF NoForm
    <3> QED
      BY <3>1, <3>2
  <2>3. form' # NoForm => form'.version \in 1 .. version'
    BY <1>1, <2>1
  <2> QED
    BY <2>2, <2>3 DEF FormIsBehind
<1> QED
  BY <1>1, <1>2 DEF NotMade, NoFacet, TypedIsLocked, FoundByField, TypedStays, Content

LEMMA LockInv == ASSUME ItemInv, NEW f \in FacetFields, LockField(f) \/ UnlockField(f) PROVE ItemInv'
<1> USE DEF ItemInv, ItemTypeOK, LockField, UnlockField
<1>1. \A v : Held(v) # Free /\ Held(v).value = v
  BY DEF Held, Free
<1>2. stamp' \in [FacetFields -> {"none", "open", "locked"}]
  OBVIOUS
<1>3. typed' \in [FacetFields -> {Free} \cup {Held(v) : v \in Values}]
  OBVIOUS
<1>4. ASSUME NEW g \in FacetFields, typed'[g] # Free
      PROVE  stamp'[g] = "locked" /\ facet'[g] = typed'[g].value
  <2>1. CASE g = f
    BY <2>1, <1>1, <1>4
  <2>2. CASE g # f
    BY <2>2, <1>4 DEF TypedIsLocked, TypedStays
  <2> QED
    BY <2>1, <2>2
<1>5. NotMade'
  BY DEF NotMade
<1> QED
  BY <1>2, <1>3, <1>4, <1>5 DEF NoFacet, TypedIsLocked, FormIsBehind, FoundByField, TypedStays, Content

LEMMA BinInv == ASSUME ItemInv, BinItem \/ UnbinItem PROVE ItemInv'
<1> USE DEF ItemInv, ItemTypeOK, BinItem, UnbinItem
<1>1. version' = version + 1 /\ version' \in 0 .. MaxItemVersion
  BY ItemSetup
<1>2. entry' \in [title : Values, facet : [FacetFields -> Values]]
  BY DEF Content, NoEntry, Values
<1>3. FormIsBehind' /\ NotMade'
  BY <1>1 DEF FormIsBehind, NotMade
<1> QED
  BY <1>1, <1>2, <1>3 DEF NoFacet, TypedIsLocked, FoundByField, TypedStays, Content

LEMMA ItemStepInv == ItemInv /\ [ItemRecordNext]_itemVars => ItemInv'
<1>1. CASE UNCHANGED itemVars
  BY <1>1 DEF itemVars, ItemInv, ItemTypeOK, NotMade, NoFacet, TypedIsLocked, FormIsBehind, FoundByField,
              TypedStays, Content
<1> QED
  BY <1>1, CreateItemInv, UpdateItemInv, SubmitInv, FormInv, LockInv, BinInv DEF ItemRecordNext

\* A form is closed over changed fields only by submitting it with the version it was read at.
LEMMA SubmittedIsRead ==
  ASSUME ItemInv, [ItemRecordNext]_itemVars
  PROVE  [form # NoForm /\ form' = NoForm /\ Content' # Content => ~form.overtaken]_itemVars
<1> SUFFICES ASSUME ItemRecordNext, form # NoForm, form' = NoForm, Content' # Content PROVE ~form.overtaken
  BY DEF itemVars
<1>1. CASE \E patch \in Patches, own \in Values : SubmitForm(patch, own)
  BY <1>1 DEF SubmitForm, ItemInv, ItemTypeOK, FormIsBehind
<1>2. CASE \E patch \in Patches, own \in Values, who \in Writers : CreateItem(patch, own, who)
  BY <1>2 DEF CreateItem
<1>3. CASE \E patch \in Patches, own \in Values, who \in Writers : UpdateItem(patch, own, who)
  BY <1>3 DEF UpdateItem, Overtaken, ItemInv, ItemTypeOK, FormIsBehind, NoForm
<1>4. CASE OpenForm \/ RefuseForm \/ BinItem \/ UnbinItem \/ \E f \in FacetFields : LockField(f) \/ UnlockField(f)
  BY <1>4 DEF OpenForm, RefuseForm, BinItem, UnbinItem, LockField, UnlockField, Content
<1> QED
  BY <1>1, <1>2, <1>3, <1>4 DEF ItemRecordNext

-----------------------------------------------------------------------------
(* The values of custom fields. *)

\* The inductive invariant of a custom field: what its values were written as is its type.
FieldsInv == FieldsTypeOK /\ ReadsAsWritten

LEMMA FieldsInitInv == FieldsInit => FieldsInv
BY DEF FieldsInit, FieldsInv, FieldsTypeOK, ReadsAsWritten, Filled, SlotRows, Ordinals

\* What a row of the field's type, or a blank one, reads as.
LEMMA RowsRead ==
  ASSUME NEW type \in FieldTypes, NEW content \in Contents(type)
  PROVE  /\ Row(type, content) \in SlotRows /\ Row(type, content).as = type
         /\ Row(type, content).of = content /\ Row(type, content).column = ColumnOf(type)
BY DEF Row, SlotRows, NoRow

LEMMA FieldTyped ==
  ASSUME FieldsTypeOK, field # NoField
  PROVE  field.type \in FieldTypes /\ field.repeatable \in BOOLEAN
BY DEF FieldsTypeOK, FieldRows

LEMMA FieldsStepInv == FieldsInv /\ [FieldsNext]_fieldVars => FieldsInv'
<1> SUFFICES ASSUME FieldsInv, [FieldsNext]_fieldVars PROVE FieldsInv'
  OBVIOUS
<1> USE DEF FieldsInv
<1>1. CASE UNCHANGED fieldVars
  BY <1>1 DEF fieldVars, FieldsTypeOK, ReadsAsWritten, Filled, Decoded
<1>2. CASE \E row \in FieldRows : DefineField(row)
  BY <1>2 DEF DefineField, FieldsTypeOK, ReadsAsWritten, Filled
<1>3. CASE \E config \in Configs(field.type), applies \in SUBSET HolderTypes, repeatable \in BOOLEAN :
             UpdateField(config, applies, repeatable)
  <2>1. PICK config \in Configs(field.type), applies \in SUBSET HolderTypes, repeatable \in BOOLEAN :
             UpdateField(config, applies, repeatable)
    BY <1>3
  <2>2. PICK t \in FieldTypes : field \in [type : {t}, config : Configs(t), applies : SUBSET HolderTypes,
                                           repeatable : BOOLEAN]
    BY <2>1 DEF UpdateField, FieldsTypeOK, FieldRows
  <2>3. /\ field' \in [type : {t}, config : Configs(t), applies : SUBSET HolderTypes, repeatable : BOOLEAN]
        /\ field'.type = field.type /\ field'.repeatable = repeatable
    BY <2>1, <2>2 DEF UpdateField
  <2>4. field' \in FieldRows /\ field' # NoField
    BY <2>3 DEF FieldRows, NoField, FieldTypes
  <2> QED
    BY <2>1, <2>3, <2>4 DEF UpdateField, FieldsTypeOK, ReadsAsWritten, Filled, Decoded
<1>4. CASE RemoveField
  BY <1>4 DEF RemoveField, FieldsTypeOK, ReadsAsWritten, Filled
<1>5. CASE \E h \in Holders, n \in Ordinals, content \in Contents(field.type) : SetValue(h, n, content)
  <2>1. PICK h \in Holders, n \in Ordinals, content \in Contents(field.type) : SetValue(h, n, content)
    BY <1>5
  <2>2. field # NoField /\ field.type \in FieldTypes /\ (n > 0 => field.repeatable)
    BY <2>1, FieldTyped DEF SetValue, Takes
  <2> DEFINE row == Row(field.type, content)
  <2>3. /\ row \in SlotRows /\ row.as = field.type /\ row.of = content
        /\ row.column = ColumnOf(field.type)
    BY <2>2, RowsRead
  <2>4. slot' = [slot EXCEPT ![h][n] = row] /\ UNCHANGED <<field, typeOf>>
    BY <2>1 DEF SetValue
  <2> HIDE DEF row
  <2>5. \A g \in Holders, m \in Ordinals : slot'[g][m] = IF g = h /\ m = n THEN row ELSE slot[g][m]
    BY <2>4 DEF FieldsTypeOK
  <2>6. FieldsTypeOK'
    BY <2>3, <2>4 DEF FieldsTypeOK
  <2> QED
    BY <2>2, <2>3, <2>4, <2>5, <2>6 DEF ReadsAsWritten, Filled, Decoded
<1>6. CASE \E h \in Holders, n \in Ordinals : SetBlank(h, n)
  BY <1>6 DEF SetBlank, Takes, FieldsTypeOK, ReadsAsWritten, Filled, Decoded, SlotRows
<1>7. CASE \E h \in Holders, n \in Ordinals : ClearValue(h, n)
  BY <1>7 DEF ClearValue, FieldsTypeOK, ReadsAsWritten, Filled, Decoded, SlotRows
<1>8. CASE \E h \in Holders, type \in HolderTypes : ChangeType(h, type)
  BY <1>8 DEF ChangeType, FieldsTypeOK, ReadsAsWritten, Filled, Decoded
<1> QED
  BY <1>1, <1>2, <1>3, <1>4, <1>5, <1>6, <1>7, <1>8 DEF FieldsNext

-----------------------------------------------------------------------------
(* The library. *)

\* The inductive invariant: one part for each kind of row.
LibraryInv == Inv /\ TreeInv /\ AuthorsInv /\ TagsInv /\ NotesInv /\ ItemInv /\ FieldsInv

\* A step of the library is a step of each of its parts, or leaves it alone.
LEMMA PartsStep ==
  ASSUME [LibraryNext]_libraryVars
  PROVE  /\ [Next]_vars /\ [TreeNext]_treeVars /\ [AuthorsNext]_authorVars /\ [TagsNext]_tagVars
         /\ [NotesNext]_noteVars /\ [ItemRecordNext]_itemVars /\ [FieldsNext]_fieldVars
BY DEF LibraryNext, libraryVars

LEMMA LibraryInitInv == LibraryInit => LibraryInv
BY InitInv, TreeInitInv, AuthorsInitInv, TagsInitInv, NotesInitInv, ItemInitInv, FieldsInitInv
   DEF LibraryInit, LibraryInv

LEMMA LibraryStepInv == LibraryInv /\ [LibraryNext]_libraryVars => LibraryInv'
BY PartsStep, StepInv, TreeStepInv, AuthorsStepInv, TagsStepInv, NotesStepInv, ItemStepInv, FieldsStepInv
   DEF LibraryInv

\* Every reachable state of the library satisfies the inductive invariant of each part.
THEOREM LibraryInvHolds == LibrarySpec => []LibraryInv
BY LibraryInitInv, LibraryStepInv, PTL DEF LibrarySpec

\* Rows that make sense only together agree: the collections are a forest with the right
\* depths at any number of moves, no cascade comes back in part, a note is in the trash with
\* its item, what a person typed stays, and every custom value is read as it was written.
THEOREM RowsAgreeHolds == LibrarySpec => []RowsAgree
<1>1. LibraryInv => RowsAgree
  BY DEF LibraryInv, RowsAgree, LibraryTypeOK, Inv, TreeInv, AuthorsInv, TagsInv, NotesInv, ItemInv, FieldsInv
<1> QED
  BY <1>1, LibraryInvHolds, PTL

\* The search index says of an item what its authors, tags, notes and fields say, at any time.
THEOREM IndexIsCurrentHolds == LibrarySpec => []IndexIsCurrent
<1>1. LibraryInv => IndexIsCurrent
  BY DEF LibraryInv, IndexIsCurrent, AuthorsInv, TagsInv, NotesInv, ItemInv
<1> QED
  BY <1>1, LibraryInvHolds, PTL

\* In the whole library too nothing outside the trash has an open trash record (T1), and no
\* attachment is left in the trash under a live item (I4).
THEOREM LibraryTrashHolds == LibrarySpec => [](OpenRecordIsAboutTrash /\ CascadeStaysWithItem)
<1>1. LibraryInv => OpenRecordIsAboutTrash /\ CascadeStaysWithItem
  BY DEF LibraryInv, Inv, OpenRecordIsAboutTrash, RowRecords, OtherRecords, Trashed, Entities, CascadeStaysWithItem
<1> QED
  BY <1>1, LibraryInvHolds, PTL

\* The trash keeps what it took and gives it back: neither trash nor restore of any part of a
\* tree files or unfiles an item; a tag's carriers survive its merge and its return, which takes
\* no other tag off anything, the winner's new ones included.
THEOREM NothingForgottenHolds == LibrarySpec => NothingForgotten
<1>1. LibraryInv /\ [LibraryNext]_libraryVars =>
        [\A c \in Folders : /\ c \in bin => filed[c] = {}
                            /\ c \in bin \/ c \in bin' => Holds(c)' = Holds(c)]_treeVars
  BY PartsStep, FiledStep DEF LibraryInv, TreeInv
<1>2. LibraryInv /\ [LibraryNext]_libraryVars =>
        [\A t \in Labels :
           /\ t \in dropped => carries[t] = {}
           /\ t \in dropped \cup dropped' => Carriers(t)' = Carriers(t)
           /\ t \in dropped' \ dropped /\ slip'[t].winner # NoTag =>
                carries'[slip'[t].winner] = carries[slip'[t].winner] \cup carries[t]
           /\ t \in dropped \ dropped' =>
                \A u \in Labels \ {t} : carries'[u] = carries[u]]_tagVars
  BY PartsStep, StepKeepsTags DEF LibraryInv
<1>3. LibrarySpec => NothingUnfiled
  BY <1>1, LibraryInvHolds, PTL DEF LibrarySpec, NothingUnfiled
<1>4. LibrarySpec => NothingUntagged
  BY <1>2, LibraryInvHolds, PTL DEF LibrarySpec, NothingUntagged
<1> QED
  BY <1>3, <1>4 DEF NothingForgotten

\* Nobody is on an author list twice in one role, undoing a merge that dropped no place gives
\* the lists back, and only the restore of an item brings back a creator who is in the trash.
THEOREM ListsAreKeptHolds == LibrarySpec => ListsAreKept
<1>1. LibraryInv => NobodyTwice
  BY DEF LibraryInv, AuthorsInv
<1>2. LibraryInv /\ [LibraryNext]_libraryVars =>
        [\A c \in Creators :
           /\ trace[c].reason = "merge" /\ c \in gone /\ c \notin gone'
           /\ list = MergedLists(trace[c].before, c, into[c]) /\ ~Dropped(c)
           => list' = trace[c].before]_authorVars
  BY PartsStep, UnmergeStep DEF LibraryInv
<1>3. LibraryInv /\ [LibraryNext]_libraryVars =>
        [\A w \in Works : NamesTheTrashed(w)' /\ ~NamesTheTrashed(w) => w \in shelved]_authorVars
  BY PartsStep, TrashedStay DEF LibraryInv
<1>4. LibrarySpec => []NobodyTwice
  BY <1>1, LibraryInvHolds, PTL
<1>5. LibrarySpec => UnmergeIsExact
  BY <1>2, LibraryInvHolds, PTL DEF LibrarySpec, UnmergeIsExact
<1>6. LibrarySpec => OnlyRestoredNameTheTrashed
  BY <1>3, LibraryInvHolds, PTL DEF LibrarySpec, OnlyRestoredNameTheTrashed
<1> QED
  BY <1>4, <1>5, <1>6 DEF ListsAreKept

\* A form or a draft that hands back the version it was read at overwrites nothing its author
\* has not read, whoever wrote in between.
THEOREM NobodyOverwrittenHolds == LibrarySpec => NobodyOverwritten
<1>1. LibraryInv /\ [LibraryNext]_libraryVars =>
        [form # NoForm /\ form' = NoForm /\ Content' # Content => ~form.overtaken]_itemVars
  BY PartsStep, SubmittedIsRead DEF LibraryInv
<1>2. LibraryInv /\ [LibraryNext]_libraryVars =>
        [draft # NoDraft /\ draft' = NoDraft /\ note' # note => ~draft.overtaken]_noteVars
  BY PartsStep, SavedIsRead DEF LibraryInv
<1>3. LibrarySpec => FormsAreCurrent
  BY <1>1, LibraryInvHolds, PTL DEF LibrarySpec, FormsAreCurrent
<1>4. LibrarySpec => SavedDraftsAreCurrent
  BY <1>2, LibraryInvHolds, PTL DEF LibrarySpec, SavedDraftsAreCurrent
<1> QED
  BY <1>3, <1>4 DEF NobodyOverwritten
=============================================================================

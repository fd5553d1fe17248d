----------------------- MODULE ArchiveExpansionProofs -----------------------
(***************************************************************************)
(* Proofs about archives: one budget for a tree of any shape and size, and *)
(* what a container's end says of the files inside it.                     *)
(*                                                                         *)
(* The tree and the sums are finite, and what is said of them by induction *)
(* is said by the least counterexample: a set of counterexamples that is   *)
(* not empty would have one of the fewest elements.                        *)
(***************************************************************************)
EXTENDS ArchiveExpansion, FiniteSetTheorems, WellFoundedInduction, TLAPS

-----------------------------------------------------------------------------
(* Least and greatest *)

LEMMA LeastNumber == ASSUME NEW T \in SUBSET Nat, T # {} PROVE \E n \in T : \A m \in T : n <= m
<1>1. IsWellFoundedOn(OpToRel(<, Nat), Nat)
  BY NatLessThanWellFounded
<1>2. PICK n \in T : \A m \in T : <<m, n>> \notin OpToRel(<, Nat)
  BY <1>1, WFMin
<1>3. ASSUME NEW m \in T PROVE n <= m
  <2>1. ~ m < n
    BY <1>2, <1>3 DEF OpToRel
  <2> QED
    BY <2>1
<1> QED
  BY <1>3

\* Among finite sets, one of the fewest elements.
LEMMA LeastSet ==
  ASSUME NEW B, B # {}, \A s \in B : IsFiniteSet(s)
  PROVE  \E s \in B : \A t \in B : Cardinality(s) <= Cardinality(t)
<1> DEFINE C == {Cardinality(s) : s \in B}
<1>1. C \in SUBSET Nat /\ C # {}
  BY FS_CardinalityType
<1>2. PICK n \in C : \A m \in C : n <= m
  BY <1>1, LeastNumber
<1> QED
  BY <1>2

LEMMA FewerWithout ==
  ASSUME NEW S, IsFiniteSet(S), NEW x \in S
  PROVE  /\ IsFiniteSet(S \ {x})
         /\ Cardinality(S) \in Nat \ {0} /\ Cardinality(S \ {x}) = Cardinality(S) - 1
         /\ Cardinality(S \ {x}) < Cardinality(S)
<1>1. Cardinality(S) \in Nat /\ Cardinality(S \ {x}) = Cardinality(S) - 1
  BY FS_RemoveElement, FS_CardinalityType
<1>2. Cardinality(S) # 0
  BY FS_EmptySet
<1>3. IsFiniteSet(S \ {x})
  BY FS_RemoveElement
<1> QED
  BY <1>1, <1>2, <1>3

\* Among the elements of a finite set of nodes, one of the highest index.
LEMMA LastInOrder ==
  ASSUME NEW S \in SUBSET Nodes, S # {} PROVE \E m \in S : \A o \in S : Order[o] <= Order[m]
<1> DEFINE B == {T \in SUBSET S : T # {} /\ ~ \E m \in T : \A o \in T : Order[o] <= Order[m]}
<1> USE Tree
<1>1. IsFiniteSet(S) /\ \A T \in B : IsFiniteSet(T)
  BY FS_Subset
<1>2. SUFFICES ASSUME B # {} PROVE FALSE
  OBVIOUS
<1>3. PICK T \in B : \A U \in B : Cardinality(T) <= Cardinality(U)
  BY <1>1, <1>2, LeastSet
<1>4. PICK x \in T : TRUE
  OBVIOUS
<1>5. Cardinality(T \ {x}) < Cardinality(T) /\ T \ {x} \in SUBSET S
  BY <1>1, <1>4, FewerWithout
<1>6. T \ {x} \notin B
  <2> SUFFICES ASSUME T \ {x} \in B PROVE FALSE
    OBVIOUS
  <2>1. Cardinality(T) <= Cardinality(T \ {x})
    BY <1>3
  <2>2. Cardinality(T) \in Nat /\ Cardinality(T \ {x}) \in Nat
    BY <1>1, FS_CardinalityType
  <2> QED
    BY <1>5, <2>1, <2>2
<1>7. CASE T \ {x} = {}
  <2>1. T = {x} /\ Order[x] <= Order[x]
    BY <1>4, <1>7
  <2> QED
    BY <2>1
<1>8. CASE T \ {x} # {}
  <2>1. PICK m \in T \ {x} : \A o \in T \ {x} : Order[o] <= Order[m]
    BY <1>6, <1>8
  <2>2. CASE Order[x] <= Order[m]
    BY <2>1, <2>2
  <2>3. CASE Order[m] <= Order[x]
    <3>1. \A o \in T : Order[o] <= Order[x]
      BY <2>1, <2>3
    <3> QED
      BY <3>1
  <2> QED
    BY <2>2, <2>3
<1> QED
  BY <1>7, <1>8

LEMMA MinOf == ASSUME NEW S \in SUBSET Nat, S # {} PROVE Min(S) \in S /\ \A m \in S : Min(S) <= m
<1>1. \E n \in S : \A m \in S : n <= m
  BY LeastNumber
<1> QED
  BY <1>1 DEF Min

-----------------------------------------------------------------------------
(* Sums of sizes *)

\* What the fold of a sum over a set S is: a function of the subsets of S.
Sums(S, f) == f = [s \in SUBSET S |-> IF s = {} THEN 0
                                      ELSE LET x == CHOOSE x \in s : TRUE IN Size[x] + f[s \ {x}]]

LEMMA BytesIsSum == ASSUME NEW S PROVE Bytes(S) = (CHOOSE f : Sums(S, f))[S]
  BY DEF Bytes, MapThenSumSet, MapThenFoldSet, Sums

\* Of a finite set there is one, built up from the smaller subsets.
LEMMA SumsExist == ASSUME NEW S, IsFiniteSet(S) PROVE \E f : Sums(S, f)
<1> DEFINE D(n) == {t \in SUBSET S : Cardinality(t) <= n}
           Sum(f, t) == IF t = {} THEN 0 ELSE LET x == CHOOSE x \in t : TRUE IN Size[x] + f[t \ {x}]
           Up(n) == \E f : f = [t \in D(n) |-> Sum(f, t)]
           B == {n \in Nat : ~ Up(n)}
<1>1. \A t \in SUBSET S : IsFiniteSet(t) /\ Cardinality(t) \in Nat
  BY FS_Subset, FS_CardinalityType
<1>2. ASSUME B # {} PROVE FALSE
  <2>1. PICK n \in B : \A m \in B : n <= m
    <3> HIDE DEF Up
    <3> QED
      BY <1>2, LeastNumber
  <2>2. CASE n = 0
    <3>1. D(0) = {{}}
      BY <1>1, FS_EmptySet
    <3> DEFINE f == [t \in {{}} |-> 0]
    <3>2. f = [t \in D(0) |-> Sum(f, t)]
      BY <3>1
    <3> QED
      BY <2>1, <2>2, <3>2
  <2>3. CASE n # 0
    <3>1. n - 1 \in Nat /\ n - 1 \notin B
      <4> HIDE DEF Up
      <4>1. n \in Nat /\ n - 1 \in Nat /\ ~ n <= n - 1
        BY <2>1, <2>3
      <4> QED
        BY <2>1, <4>1
    <3>2. PICK f : f = [t \in D(n - 1) |-> Sum(f, t)]
      BY <3>1
    <3> DEFINE g == [t \in D(n) |-> Sum(f, t)]
    <3>3. ASSUME NEW t \in D(n), t # {}, NEW x \in t PROVE t \ {x} \in D(n - 1)
      BY <1>1, <3>3, FewerWithout
    <3>4. ASSUME NEW t \in D(n - 1) PROVE t \in D(n) /\ g[t] = f[t]
      BY <1>1, <3>2
    <3>5. ASSUME NEW t \in D(n) PROVE Sum(f, t) = Sum(g, t)
      <4>1. CASE t = {}
        BY <4>1
      <4>2. CASE t # {}
        <5>1. (CHOOSE x \in t : TRUE) \in t
          BY <4>2
        <5> QED
          BY <3>3, <3>4, <4>2, <5>1
      <4> QED
        BY <4>1, <4>2
    <3>6. g = [t \in D(n) |-> Sum(g, t)]
      <4> HIDE DEF Sum
      <4> QED
        BY <3>5
    <3> QED
      BY <2>1, <3>6
  <2> QED
    BY <2>2, <2>3
<1>3. Up(Cardinality(S))
  BY <1>1, <1>2
<1>4. D(Cardinality(S)) = SUBSET S
  BY FS_Subset
<1> QED
  BY <1>3, <1>4 DEF Sums

\* What a sum makes of a set does not depend on the set it is summed in.
LEMMA SumsAgree ==
  ASSUME NEW S, NEW T \in SUBSET S, IsFiniteSet(S), NEW f, NEW g, Sums(S, f), Sums(T, g)
  PROVE  f[T] = g[T]
<1> DEFINE B == {t \in SUBSET T : f[t] # g[t]}
<1>1. IsFiniteSet(T) /\ \A t \in SUBSET T : IsFiniteSet(t) /\ Cardinality(t) \in Nat
  BY FS_Subset, FS_CardinalityType
<1>2. SUFFICES ASSUME B # {} PROVE FALSE
  OBVIOUS
<1>3. PICK t \in B : \A s \in B : Cardinality(t) <= Cardinality(s)
  BY <1>1, <1>2, LeastSet
<1>4. CASE t = {}
  BY <1>3, <1>4 DEF Sums
<1>5. CASE t # {}
  <2> DEFINE x == CHOOSE x \in t : TRUE
  <2>1. x \in t
    BY <1>5
  <2>2. Cardinality(t \ {x}) < Cardinality(t)
    BY <1>1, <2>1, FewerWithout
  <2>3. t \ {x} \in SUBSET T /\ Cardinality(t \ {x}) \in Nat /\ Cardinality(t) \in Nat
    BY <1>1
  <2>4. f[t \ {x}] = g[t \ {x}]
    BY <1>3, <2>2, <2>3
  <2>5. f[t] = Size[x] + f[t \ {x}]
    BY <1>5 DEF Sums
  <2>6. g[t] = Size[x] + g[t \ {x}]
    BY <1>5 DEF Sums
  <2> QED
    BY <1>3, <2>4, <2>5, <2>6
<1> QED
  BY <1>4, <1>5

LEMMA BytesOfNone == Bytes({}) = 0
<1>1. PICK f : Sums({}, f)
  BY SumsExist, FS_EmptySet
<1>2. \A g : Sums({}, g) => g[{}] = 0
  BY DEF Sums
<1> QED
  BY <1>1, <1>2, BytesIsSum

LEMMA BytesOfChosen ==
  ASSUME NEW S, IsFiniteSet(S), S # {}
  PROVE  LET x == CHOOSE x \in S : TRUE IN Bytes(S) = Size[x] + Bytes(S \ {x})
<1> DEFINE x == CHOOSE x \in S : TRUE
           f == CHOOSE f : Sums(S, f)
           g == CHOOSE g : Sums(S \ {x}, g)
           h == [t \in SUBSET (S \ {x}) |-> f[t]]
<1>1. IsFiniteSet(S \ {x})
  BY FS_RemoveElement
<1>2. Sums(S, f) /\ Sums(S \ {x}, g)
  BY <1>1, SumsExist
<1>3. f[S] = Size[x] + f[S \ {x}]
  BY <1>2 DEF Sums
<1>4. f[S \ {x}] = g[S \ {x}]
  BY <1>2, SumsAgree
<1> QED
  BY <1>3, <1>4, BytesIsSum

LEMMA BytesIsNat == \A S \in SUBSET Nodes : Bytes(S) \in Nat
<1> DEFINE B == {S \in SUBSET Nodes : Bytes(S) \notin Nat}
<1> USE Tree
<1>1. \A S \in SUBSET Nodes : IsFiniteSet(S)
  BY FS_Subset
<1>2. SUFFICES ASSUME B # {} PROVE FALSE
  OBVIOUS
<1>3. PICK S \in B : \A T \in B : Cardinality(S) <= Cardinality(T)
  BY <1>1, <1>2, LeastSet
<1>4. S # {}
  BY <1>3, BytesOfNone
<1> DEFINE x == CHOOSE x \in S : TRUE
<1>5. x \in S
  BY <1>4
<1>6. Cardinality(S \ {x}) < Cardinality(S) /\ Cardinality(S) \in Nat /\ Cardinality(S \ {x}) \in Nat
  BY <1>1, <1>5, FewerWithout, FS_CardinalityType
<1>7. Bytes(S \ {x}) \in Nat
  BY <1>3, <1>6
<1>8. Bytes(S) = Size[x] + Bytes(S \ {x})
  BY <1>1, <1>4, BytesOfChosen
<1>9. Size[x] \in Nat
  BY <1>5
<1> QED
  BY <1>3, <1>7, <1>8, <1>9

\* A sum is the same whichever element is taken out first.
LEMMA BytesOfAny ==
  ASSUME NEW S \in SUBSET Nodes, NEW x \in S PROVE Bytes(S) = Size[x] + Bytes(S \ {x})
<1> DEFINE B == {T \in SUBSET Nodes : \E y \in T : Bytes(T) # Size[y] + Bytes(T \ {y})}
<1>1. \A T \in SUBSET Nodes : IsFiniteSet(T)
  BY Tree, FS_Subset
<1>2. SUFFICES ASSUME B # {} PROVE FALSE
  OBVIOUS
<1>3. PICK T \in B : \A U \in B : Cardinality(T) <= Cardinality(U)
  BY <1>1, <1>2, LeastSet
<1>4. PICK y \in T : Bytes(T) # Size[y] + Bytes(T \ {y})
  BY <1>3
<1> DEFINE c == CHOOSE c \in T : TRUE
<1>5. c \in T /\ Bytes(T) = Size[c] + Bytes(T \ {c})
  BY <1>1, <1>4, BytesOfChosen
<1>6. c # y
  BY <1>4, <1>5
<1>7. ASSUME NEW z \in T PROVE T \ {z} \notin B
  <2>1. Cardinality(T \ {z}) < Cardinality(T) /\ Cardinality(T) \in Nat /\ Cardinality(T \ {z}) \in Nat
    BY <1>1, FewerWithout, FS_CardinalityType
  <2> QED
    BY <1>3, <2>1
<1>8. Bytes(T \ {c}) = Size[y] + Bytes((T \ {c}) \ {y})
  BY <1>4, <1>5, <1>6, <1>7
<1>9. Bytes(T \ {y}) = Size[c] + Bytes((T \ {y}) \ {c})
  BY <1>4, <1>5, <1>6, <1>7
<1>10. (T \ {c}) \ {y} = (T \ {y}) \ {c}
  OBVIOUS
<1>11. Size[c] \in Nat /\ Size[y] \in Nat /\ Bytes((T \ {y}) \ {c}) \in Nat
  BY <1>4, <1>5, BytesIsNat, Tree
<1>12. Bytes(T \ {c}) = Size[y] + Bytes((T \ {y}) \ {c})
  BY <1>8, <1>10
<1>13. Bytes(T) = Size[y] + Bytes(T \ {y})
  <2> HIDE DEF c
  <2> QED
    BY <1>5, <1>9, <1>11, <1>12
<1> QED
  BY <1>4, <1>13

\* More nodes have no fewer bytes.
LEMMA BytesGrow ==
  ASSUME NEW T \in SUBSET Nodes, NEW S \in SUBSET T PROVE Bytes(S) <= Bytes(T)
<1> DEFINE B == {U \in SUBSET T : S \subseteq U /\ ~ Bytes(S) <= Bytes(U)}
<1>1. \A U \in SUBSET T : IsFiniteSet(U) /\ Bytes(U) \in Nat
  BY Tree, FS_Subset, BytesIsNat
<1>2. SUFFICES ASSUME B # {} PROVE FALSE
  OBVIOUS
<1>3. PICK U \in B : \A V \in B : Cardinality(U) <= Cardinality(V)
  BY <1>1, <1>2, LeastSet
<1>4. U # S
  BY <1>1, <1>3
<1>5. PICK x \in U : x \notin S
  BY <1>3, <1>4
<1>6. Cardinality(U \ {x}) < Cardinality(U) /\ Cardinality(U) \in Nat /\ Cardinality(U \ {x}) \in Nat
  BY <1>1, <1>5, FewerWithout, FS_CardinalityType
<1>7. Bytes(S) <= Bytes(U \ {x})
  BY <1>3, <1>5, <1>6
<1>8. Bytes(U) = Size[x] + Bytes(U \ {x})
  BY <1>5, BytesOfAny
<1>9. Size[x] \in Nat
  BY <1>5, Tree
<1> QED
  BY <1>1, <1>3, <1>7, <1>8, <1>9

\* Two sets of nodes together have no more bytes than the one and the other.
LEMMA BytesOfBoth ==
  ASSUME NEW S \in SUBSET Nodes, NEW T \in SUBSET Nodes
  PROVE  Bytes(S \cup T) <= Bytes(S) + Bytes(T)
<1> DEFINE B == {U \in SUBSET T : ~ Bytes(S \cup U) <= Bytes(S) + Bytes(U)}
<1>1. \A U \in SUBSET T : IsFiniteSet(U) /\ Bytes(U) \in Nat /\ Bytes(S \cup U) \in Nat
  BY Tree, FS_Subset, BytesIsNat
<1>2. Bytes(S) \in Nat
  BY BytesIsNat
<1>3. SUFFICES ASSUME B # {} PROVE FALSE
  OBVIOUS
<1>4. PICK U \in B : \A V \in B : Cardinality(U) <= Cardinality(V)
  BY <1>1, <1>3, LeastSet
<1>5. U # {}
  BY <1>2, <1>4, BytesOfNone
<1>6. PICK x \in U : TRUE
  BY <1>5
<1>7. Cardinality(U \ {x}) < Cardinality(U) /\ Cardinality(U) \in Nat /\ Cardinality(U \ {x}) \in Nat
  BY <1>1, <1>6, FewerWithout, FS_CardinalityType
<1>8. Bytes(S \cup (U \ {x})) <= Bytes(S) + Bytes(U \ {x})
  BY <1>4, <1>7
<1>9. Bytes(U) = Size[x] + Bytes(U \ {x}) /\ Size[x] \in Nat
  BY <1>6, BytesOfAny, Tree
<1>10. Bytes(S \cup U) <= Size[x] + Bytes(S \cup (U \ {x}))
  <2>1. CASE x \in S
    <3>1. S \cup U = S \cup (U \ {x})
      BY <2>1
    <3> QED
      BY <1>1, <1>9, <3>1
  <2>2. CASE x \notin S
    <3>1. (S \cup U) \ {x} = S \cup (U \ {x})
      BY <2>2
    <3>2. Bytes(S \cup U) = Size[x] + Bytes((S \cup U) \ {x})
      BY <1>6, BytesOfAny
    <3> QED
      BY <1>1, <1>9, <3>1, <3>2
  <2> QED
    BY <2>1, <2>2
<1>11. U \ {x} \in SUBSET T
  OBVIOUS
<1> QED
  BY <1>1, <1>2, <1>4, <1>8, <1>9, <1>10, <1>11

-----------------------------------------------------------------------------
(* The tree *)

LEMMA InsideTypes ==
  ASSUME NEW n \in Nodes
  PROVE  Inside[n] \in SUBSET Nodes /\ IsFiniteSet(Inside[n]) /\ Depth(n) \in Nat /\ n \notin Inside[n]
<1>1. Inside[n] \in SUBSET Nodes /\ n \notin Inside[n]
  BY Tree
<1>2. IsFiniteSet(Inside[n])
  BY <1>1, Tree, FS_Subset
<1> QED
  BY <1>1, <1>2, FS_CardinalityType DEF Depth

LEMMA Parts == ASSUME NEW n \in Nodes PROVE Within(n) \in SUBSET Nodes /\ Members(n) \in SUBSET Within(n)
  BY DEF Within, Members

LEMMA LeastDeep ==
  ASSUME NEW B \in SUBSET Nodes, B # {} PROVE \E n \in B : \A m \in B : Depth(n) <= Depth(m)
<1> DEFINE C == {Depth(n) : n \in B}
<1>1. C \in SUBSET Nat /\ C # {}
  BY InsideTypes
<1>2. PICK d \in C : \A m \in C : d <= m
  BY <1>1, LeastNumber
<1> QED
  BY <1>2

\* The archive a candidate is in, of which Tree says there is one.
LEMMA Parent ==
  ASSUME NEW n \in Nodes \ {Root}
  PROVE  \E p \in Inside[n] : p \in Nodes /\ Inside[n] = Inside[p] \cup {p} /\ Depth(n) = Depth(p) + 1
<1>1. PICK p \in Inside[n] : Inside[n] = Inside[p] \cup {p}
  BY Tree
<1>2. p \in Nodes /\ p \notin Inside[p] /\ IsFiniteSet(Inside[p])
  BY InsideTypes
<1>3. Cardinality(Inside[n]) = Cardinality(Inside[p]) + 1
  BY <1>1, <1>2, FS_AddElement
<1> QED
  BY <1>1, <1>2, <1>3 DEF Depth

\* What an archive is inside of, its members are inside of.
LEMMA InsideInside == \A n \in Nodes : \A p \in Inside[n] : Inside[p] \subseteq Inside[n]
<1> DEFINE B == {n \in Nodes : \E p \in Inside[n] : ~ Inside[p] \subseteq Inside[n]}
<1>1. SUFFICES ASSUME B # {} PROVE FALSE
  OBVIOUS
<1>2. PICK n \in B : \A m \in B : Depth(n) <= Depth(m)
  BY <1>1, LeastDeep
<1>3. PICK p \in Inside[n] : ~ Inside[p] \subseteq Inside[n]
  BY <1>2
<1>4. n \in Nodes \ {Root}
  BY <1>2, <1>3, Tree
<1>5. PICK a \in Inside[n] : a \in Nodes /\ Inside[n] = Inside[a] \cup {a} /\ Depth(n) = Depth(a) + 1
  BY <1>4, Parent
<1>6. a \notin B
  <2>1. Depth(a) \in Nat /\ Depth(n) \in Nat
    BY <1>4, <1>5, InsideTypes
  <2> QED
    BY <1>2, <1>5, <2>1
<1>7. p \in Inside[a]
  BY <1>3, <1>5
<1> QED
  BY <1>3, <1>5, <1>6, <1>7

\* A member is inside its archive and what that is inside of, and nothing else.
LEMMA MemberInside ==
  ASSUME NEW p \in Nodes, NEW n \in Members(p) PROVE Inside[n] = Inside[p] \cup {p} /\ n \in Nodes \ {Root}
<1>1. n \in Nodes /\ p \in Inside[n] /\ Depth(n) = Depth(p) + 1
  BY DEF Members, Within
<1>2. Inside[p] \cup {p} \in SUBSET Inside[n]
  BY <1>1, InsideInside
<1>3. Cardinality(Inside[p] \cup {p}) = Cardinality(Inside[n])
  BY <1>1, InsideTypes, FS_AddElement DEF Depth
<1>4. Inside[n] = Inside[p] \cup {p}
  BY <1>1, <1>2, <1>3, InsideTypes, FS_Subset
<1>5. n # Root
  BY <1>1, Tree
<1> QED
  BY <1>1, <1>4, <1>5

LEMMA ArchiveOf ==
  ASSUME NEW n \in Nodes \ {Root}
  PROVE  /\ Archive(n) \in Nodes /\ Archive(n) \in Inside[n] /\ n \in Members(Archive(n))
         /\ Inside[n] = Inside[Archive(n)] \cup {Archive(n)}
         /\ Root \in Inside[Archive(n)] \cup {Archive(n)}
<1>1. PICK p \in Inside[n] : p \in Nodes /\ Depth(n) = Depth(p) + 1
  BY Parent
<1>2. n \in Members(p)
  BY <1>1 DEF Members, Within
<1>3. Archive(n) \in Inside[n] /\ n \in Members(Archive(n))
  BY <1>2 DEF Archive
<1>4. Archive(n) \in Nodes
  BY <1>3, InsideTypes
<1>5. Inside[n] = Inside[Archive(n)] \cup {Archive(n)}
  BY <1>3, <1>4, MemberInside
<1>6. Root \in Inside[n]
  BY Tree
<1> QED
  BY <1>3, <1>4, <1>5, <1>6

\* What is inside an archive is a member of it or inside one.
LEMMA ThroughMembers ==
  ASSUME NEW n \in Nodes
  PROVE  \A x \in Within(n) : \E m \in Members(n) : x = m \/ x \in Within(m)
<1> DEFINE B == {x \in Within(n) : ~ \E m \in Members(n) : x = m \/ x \in Within(m)}
<1>1. SUFFICES ASSUME B # {} PROVE FALSE
  OBVIOUS
<1>2. B \in SUBSET Nodes
  BY DEF Within
<1>3. PICK x \in B : \A y \in B : Depth(x) <= Depth(y)
  BY <1>1, <1>2, LeastDeep
<1>4. x \in Nodes \ {Root} /\ n \in Inside[x]
  BY <1>3, Tree DEF Within
<1>5. PICK a \in Inside[x] : a \in Nodes /\ Inside[x] = Inside[a] \cup {a} /\ Depth(x) = Depth(a) + 1
  BY <1>4, Parent
<1>6. CASE a = n
  BY <1>3, <1>4, <1>5, <1>6 DEF Members, Within
<1>7. CASE a # n
  <2>1. a \in Within(n)
    BY <1>4, <1>5, <1>7 DEF Within
  <2>2. a \notin B
    <3>1. Depth(a) \in Nat /\ Depth(x) \in Nat
      BY <1>4, <1>5, InsideTypes
    <3> QED
      BY <1>3, <1>5, <3>1
  <2>3. PICK m \in Members(n) : a = m \/ a \in Within(m)
    BY <2>1, <2>2
  <2>4. x \in Within(m)
    BY <1>4, <1>5, <2>3 DEF Within
  <2> QED
    BY <1>3, <2>4
<1> QED
  BY <1>6, <1>7

-----------------------------------------------------------------------------
(* One budget *)

\* What the expanded archives produced that is counted.
Counted == {m \in Nodes : ledger[m] # NoLedger /\ outcome[m].status # "review"}
Produced == UNION {Members(n) : n \in Counted}

\* The top ledger is charged for all of it, and charged no more than it may be.
Spent == /\ ledger[Root].spent <= ledger[Root].ceiling
         /\ ledger[Root].ceiling <= MaxTotal
         /\ Bytes(Produced) <= ledger[Root].spent

\* A node that was not begun, or not begun anew, has no ledger and no outcome.
NotYet == \A n \in Nodes : /\ pc[n] = "idle" => ledger[n] = NoLedger
                           /\ pc[n] # "done" => outcome[n] = NoOutcome

BudgetInv == TypeOK /\ Spent /\ NotYet

Left(m) == IF ledger[m].spent <= ledger[m].ceiling THEN ledger[m].ceiling - ledger[m].spent ELSE 0

\* What remains to an archive is no more than any archive around it has left.
LEMMA RemainingIsLeast ==
  ASSUME TypeOK, NEW n \in Nodes
  PROVE  Remaining(n) \in Nat /\ \A m \in Inside[n] \cup {n} : Remaining(n) <= Left(m)
<1> DEFINE S == {Left(m) : m \in Inside[n] \cup {n}}
<1>1. \A m \in Nodes : Left(m) \in Nat
  <2> SUFFICES ASSUME NEW m \in Nodes PROVE Left(m) \in Nat
    OBVIOUS
  <2>1. ledger[m].spent \in Nat /\ ledger[m].ceiling \in Nat
    BY DEF TypeOK
  <2> QED
    BY <2>1 DEF Left
<1>2. S \in SUBSET Nat /\ S # {}
  BY <1>1, InsideTypes
<1>3. Remaining(n) = Min(S)
  BY DEF Remaining, Left
<1> QED
  BY <1>2, <1>3, MinOf

LEMMA CeilingFits ==
  ASSUME TypeOK, NEW n \in Nodes
  PROVE  /\ Ceiling(n) \in Nat
         /\ n # Root => \A m \in Inside[n] : Ceiling(n) <= Left(m)
<1>1. CASE n = Root
  BY <1>1, Tree DEF Ceiling
<1>2. CASE n # Root
  <2>1. Archive(n) \in Nodes /\ Inside[n] = Inside[Archive(n)] \cup {Archive(n)}
    BY <1>2, ArchiveOf
  <2> QED
    BY <1>2, <2>1, RemainingIsLeast DEF Ceiling
<1> QED
  BY <1>1, <1>2

LEMMA FittingFits ==
  ASSUME TypeOK, NEW n \in Nodes
  PROVE  Fitting(n) \in SUBSET Nodes /\ Bytes(Fitting(n)) <= Ceiling(n)
<1> DEFINE Upto(m) == {o \in Members(n) : Order[o] <= Order[m]}
<1>1. Members(n) \in SUBSET Nodes
  BY Parts
<1>2. Fitting(n) \in SUBSET Members(n)
  BY DEF Fitting
<1>3. CASE Fitting(n) = {}
  BY <1>3, BytesOfNone, CeilingFits
<1>4. CASE Fitting(n) # {}
  <2>1. PICK m \in Fitting(n) : \A o \in Fitting(n) : Order[o] <= Order[m]
    BY <1>1, <1>2, <1>4, LastInOrder
  <2>2. Fitting(n) \in SUBSET Upto(m)
    BY <1>2, <2>1
  <2>3. Bytes(Upto(m)) <= Ceiling(n)
    BY <2>1 DEF Fitting
  <2>4. Bytes(Fitting(n)) <= Bytes(Upto(m))
    BY <1>1, <2>2, BytesGrow
  <2>5. Bytes(Fitting(n)) \in Nat /\ Bytes(Upto(m)) \in Nat /\ Ceiling(n) \in Nat
    BY <1>1, <1>2, BytesIsNat, CeilingFits
  <2> QED
    BY <1>1, <1>2, <2>3, <2>4, <2>5
<1> QED
  BY <1>3, <1>4

LEMMA OutcomeTypes ==
  /\ NoOutcome \in Outcome
  /\ \A s \in {"settled", "alone", "container", "review", "failed"}, f \in SUBSET Nodes :
        [status |-> s, failed |-> f] \in Outcome
  /\ \A o \in Outcome : o.failed \in SUBSET Nodes
  BY DEF NoOutcome, Outcome

\* An archive around n is not inside it.
LEMMA NotBoth ==
  ASSUME NEW n \in Nodes
  PROVE  /\ n \notin Within(n) /\ n \notin Inside[n] /\ Within(n) \in SUBSET Nodes
         /\ \A m \in Inside[n] : m \in Nodes /\ m \notin Within(n)
<1>1. n \notin Within(n) /\ n \notin Inside[n] /\ Within(n) \in SUBSET Nodes
  BY InsideTypes DEF Within
<1>2. ASSUME NEW m \in Inside[n], m \in Within(n) PROVE FALSE
  <2>1. n \in Inside[m] /\ m \in Nodes
    BY <1>2 DEF Within
  <2>2. m \in Inside[m]
    BY <2>1, InsideInside
  <2> QED
    BY <2>1, <2>2, InsideTypes
<1> QED
  BY <1>1, <1>2, InsideTypes

\* What Expand and Refuse charge: a ledger of its own, more in the ledgers around it,
\* none inside it.
LEMMA ChargeOwn == ASSUME NEW n \in Nodes, NEW b PROVE Charge(n, b)[n] = [ceiling |-> Ceiling(n), spent |-> b]
  BY DEF Charge

LEMMA ChargeAround ==
  ASSUME NEW n \in Nodes, NEW b, NEW m \in Inside[n]
  PROVE  Charge(n, b)[m] = [ledger[m] EXCEPT !.spent = @ + b]
  BY NotBoth DEF Charge

LEMMA ChargeWithin == ASSUME NEW n \in Nodes, NEW b, NEW m \in Within(n) PROVE Charge(n, b)[m] = NoLedger
  BY NotBoth DEF Charge

LEMMA ChargeElse ==
  ASSUME NEW n \in Nodes, NEW b, NEW m \in Nodes \ (Inside[n] \cup Within(n) \cup {n})
  PROVE  Charge(n, b)[m] = ledger[m]
  BY DEF Charge

LEMMA ChargeTypes ==
  ASSUME TypeOK, NEW n \in Nodes, NEW b \in Nat
  PROVE  Charge(n, b) \in [Nodes -> [ceiling : Nat, spent : Nat]]
<1>1. Ceiling(n) \in Nat
  BY CeilingFits
<1>2. \A m \in Nodes : ledger[m] \in [ceiling : Nat, spent : Nat]
  BY DEF TypeOK
<1>3. \A m \in Nodes : [ledger[m] EXCEPT !.spent = @ + b] \in [ceiling : Nat, spent : Nat]
  BY <1>2
<1>4. NoLedger \in [ceiling : Nat, spent : Nat]
  BY DEF NoLedger
<1> QED
  BY <1>1, <1>2, <1>3, <1>4 DEF Charge

\* A node is among those of its path, and the first and the last of them are nodes.
LEMMA KeyIsNode ==
  ASSUME NEW n \in Nodes
  PROVE  /\ Key[n] \in SamePath[n] /\ Reads[n] \in SamePath[n]
         /\ SamePath[n] \in SUBSET Nodes
<1>1. n \in SamePath[n] /\ SamePath[n] \in SUBSET Nodes
  <2>1. CASE n = Root
    BY <2>1 DEF SamePath
  <2>2. CASE n # Root
    <3>1. n \in Members(Archive(n)) /\ Archive(n) \in Nodes
      BY <2>2, ArchiveOf
    <3>2. Members(Archive(n)) \in SUBSET Nodes
      BY <3>1, Parts
    <3> QED
      BY <2>2, <3>1, <3>2 DEF SamePath
  <2> QED
    BY <2>1, <2>2
<1>2. \E m \in SamePath[n] : \A o \in SamePath[n] : Order[o] <= Order[m]
  BY <1>1, LastInOrder
<1>3. \E m \in SamePath[n] : \A o \in SamePath[n] : Order[m] <= Order[o]
  <2> DEFINE C == {Order[m] : m \in SamePath[n]}
  <2>1. C \in SUBSET Nat /\ C # {}
    BY <1>1, Tree
  <2>2. PICK i \in C : \A j \in C : i <= j
    BY <2>1, LeastNumber
  <2> QED
    BY <2>2
<1> QED
  BY <1>1, <1>2, <1>3 DEF Key, Reads

LEMMA ArchiveTypesInit == Init => TypeOK
<1> SUFFICES ASSUME Init PROVE TypeOK
  OBVIOUS
<1> USE DEF Init
<1>1. MaxAttempts \in Nat /\ MaxClaims \in Nat
  BY Tree
<1>2. 0 \in 0 .. MaxAttempts /\ 0 \in 0 .. MaxClaims
  BY <1>1
<1>3. NoLedger \in [ceiling : Nat, spent : Nat]
  BY DEF NoLedger
<1>4. /\ pc \in [Nodes -> Places]
      /\ attempt \in [Nodes -> 0 .. MaxAttempts]
  BY <1>2 DEF Places
<1>5. ledger \in [Nodes -> [ceiling : Nat, spent : Nat]] /\ inner \in [Nodes -> SUBSET Nodes]
  BY <1>3
<1>6. outcome \in [Nodes -> Outcome] /\ final \in [Nodes -> Outcome] /\ expanded \in [Nodes -> Outcome]
  BY OutcomeTypes
<1> QED
  BY <1>2, <1>4, <1>5, <1>6 DEF TypeOK

LEMMA CloseTypes ==
  ASSUME TypeOK, NEW n \in Nodes, NEW o \in Outcome, Close(n, o)
  PROVE  pc' \in [Nodes -> Places] /\ outcome' \in [Nodes -> Outcome]
  BY DEF TypeOK, Close, Places

LEMMA FinishTypes ==
  ASSUME TypeOK, NEW n \in Nodes, NEW o \in Outcome, Finish(n, o)
  PROVE  /\ pc' \in [Nodes -> Places] /\ outcome' \in [Nodes -> Outcome]
         /\ final' \in [Nodes -> Outcome] /\ expanded' \in [Nodes -> Outcome]
  BY CloseTypes, OutcomeTypes DEF TypeOK, Finish

LEMMA ArchiveTypesStep == TypeOK /\ [Next]_vars => TypeOK'
<1> SUFFICES ASSUME TypeOK, [Next]_vars PROVE TypeOK'
  OBVIOUS
<1>0. MaxAttempts \in Nat \ {0} /\ MaxClaims \in Nat
  BY Tree
<1> USE DEF library
<1>1. CASE ClaimRun
  <2> USE <1>1 DEF ClaimRun
  <2>1. claims' \in 0 .. MaxClaims
    BY <1>0 DEF TypeOK
  <2>2. \A n \in Nodes : 0 \in 0 .. MaxAttempts /\ NoLedger \in [ceiling : Nat, spent : Nat]
    BY <1>0 DEF NoLedger
  <2>3. /\ pc' \in [Nodes -> Places]
        /\ attempt' \in [Nodes -> 0 .. MaxAttempts]
        /\ ledger' \in [Nodes -> [ceiling : Nat, spent : Nat]]
        /\ inner' \in [Nodes -> SUBSET Nodes]
    BY <2>2 DEF Places
  <2>4. outcome' \in [Nodes -> Outcome]
    BY OutcomeTypes
  <2>5. final' \in [Nodes -> Outcome] /\ expanded' \in [Nodes -> Outcome]
    BY OutcomeTypes DEF TypeOK
  <2> QED
    BY <2>1, <2>3, <2>4, <2>5 DEF TypeOK
<1>2. CASE FinishRun
  BY <1>2 DEF TypeOK, FinishRun, memory, journal
<1>3. CASE Stop
  BY <1>3 DEF TypeOK, Stop, memory, journal
<1>4. ASSUME NEW n \in Nodes, Begin(n) PROVE TypeOK'
  <2> USE <1>4 DEF Begin, journal, TypeOK
  <2>1. Start(n) \in Places /\ "done" \in Places
    BY DEF Start, Places
  <2>2. Key[n] \in Nodes /\ 1 \in 0 .. MaxAttempts
    BY <1>0, KeyIsNode
  <2>3. final[Key[n]] \in Outcome /\ expanded[Key[n]].failed \in SUBSET Nodes
    BY <2>2, OutcomeTypes
  <2>4. pc' \in [Nodes -> Places]
    BY <2>1
  <2>5. attempt' \in [Nodes -> 0 .. MaxAttempts] /\ inner' \in [Nodes -> SUBSET Nodes]
    BY <2>2, <2>3
  <2>6. outcome' \in [Nodes -> Outcome]
    BY <2>3
  <2>7. UNCHANGED <<ledger, final, expanded, arrived, filed, refused, givenUp, job, claims, on>>
    OBVIOUS
  <2> QED
    BY <2>4, <2>5, <2>6, <2>7
<1>5. ASSUME NEW n \in Nodes, Expand(n) PROVE TypeOK'
  <2> USE <1>5 DEF Expand, journal, TypeOK
  <2>1. Bytes(Members(n)) \in Nat
    BY Parts, BytesIsNat
  <2>2. ledger' \in [Nodes -> [ceiling : Nat, spent : Nat]]
    BY <2>1, ChargeTypes
  <2>3. outcome' \in [Nodes -> Outcome]
    BY OutcomeTypes
  <2>4. pc' \in [Nodes -> Places]
    BY DEF Places
  <2> QED
    BY <2>2, <2>3, <2>4
<1>6. ASSUME NEW n \in Nodes, Refuse(n) PROVE TypeOK'
  <2> USE <1>6 DEF Refuse, TypeOK
  <2>1. Bytes(Fitting(n)) \in Nat
    BY FittingFits, BytesIsNat
  <2>2. ledger' \in [Nodes -> [ceiling : Nat, spent : Nat]]
    BY <2>1, ChargeTypes
  <2>3. [status |-> "review", failed |-> {}] \in Outcome
    BY OutcomeTypes
  <2> QED
    BY <2>2, <2>3, FinishTypes
<1>7. ASSUME NEW n \in Nodes, CloseMembers(n) PROVE TypeOK'
  <2> DEFINE failed == UNION {outcome[m].failed : m \in Members(n)}
             ended == [status |-> "container", failed |-> failed]
  <2>1. failed \in SUBSET Nodes
    BY Parts, OutcomeTypes DEF TypeOK
  <2>2. ended \in Outcome
    BY <2>1, OutcomeTypes
  <2>3. /\ \/ Finish(n, ended) /\ UNCHANGED inner
           \/ Close(n, ended) /\ UNCHANGED <<inner, journal>>
           \/ /\ inner' = [inner EXCEPT ![n] = failed]
              /\ expanded' = [expanded EXCEPT ![Key[n]] = ended] \/ expanded' = expanded
              /\ pc' = [pc EXCEPT ![n] = "stages"]
              /\ UNCHANGED <<outcome, final>>
        /\ UNCHANGED <<attempt, ledger, library, job, claims, on>>
    BY <1>7 DEF CloseMembers
  <2> HIDE DEF ended, failed
  <2>4. CASE Finish(n, ended) /\ UNCHANGED inner
    BY <2>2, <2>3, <2>4, FinishTypes DEF TypeOK
  <2>5. CASE Close(n, ended) /\ UNCHANGED <<inner, journal>>
    BY <2>2, <2>3, <2>5, CloseTypes DEF TypeOK, journal
  <2>6. CASE /\ inner' = [inner EXCEPT ![n] = failed]
             /\ expanded' = [expanded EXCEPT ![Key[n]] = ended] \/ expanded' = expanded
             /\ pc' = [pc EXCEPT ![n] = "stages"]
             /\ UNCHANGED <<outcome, final>>
    <3>1. pc' \in [Nodes -> Places]
      BY <2>6 DEF TypeOK, Places
    <3>2. inner' \in [Nodes -> SUBSET Nodes]
      BY <2>1, <2>6 DEF TypeOK
    <3>3. expanded' \in [Nodes -> Outcome]
      BY <2>2, <2>6 DEF TypeOK
    <3> QED
      BY <2>3, <2>6, <3>1, <3>2, <3>3 DEF TypeOK
  <2> QED
    BY <2>3, <2>4, <2>5, <2>6
<1>8. ASSUME NEW n \in Nodes, Commit(n) PROVE TypeOK'
  BY <1>8 DEF Commit, journal, TypeOK, Places
<1>9. ASSUME NEW n \in Nodes, Settle(n) PROVE TypeOK'
  <2> USE <1>9 DEF Settle, TypeOK
  <2>1. [status |-> "settled", failed |-> inner[n]] \in Outcome /\ Reads[n] \in Nodes
    BY OutcomeTypes, KeyIsNode
  <2> QED
    BY <2>1, FinishTypes
<1>10. ASSUME NEW n \in Nodes, EndAlone(n) PROVE TypeOK'
  <2> USE <1>10 DEF EndAlone, TypeOK
  <2>1. [status |-> "alone", failed |-> {}] \in Outcome
    BY OutcomeTypes
  <2> QED
    BY <2>1, FinishTypes
<1>11. ASSUME NEW n \in Nodes, Throws(n) PROVE TypeOK'
  <2> USE <1>11 DEF Throws, journal, TypeOK
  <2>1. Start(n) \in Places
    BY DEF Start, Places
  <2>2. [status |-> "failed", failed |-> {n}] \in Outcome
    BY OutcomeTypes
  <2>3. attempt' \in [Nodes -> 0 .. MaxAttempts]
    BY <1>0
  <2> QED
    BY <2>1, <2>2, <2>3, CloseTypes
<1>12. CASE UNCHANGED vars
  BY <1>12 DEF TypeOK, vars, memory, journal
<1> QED
  BY <1>1, <1>2, <1>3, <1>4, <1>5, <1>6, <1>7, <1>8, <1>9, <1>10, <1>11, <1>12 DEF Next, Step

\* A charge that fits leaves a ledger that was not opened as it is, but for n's own.
LEMMA ChargeNothing ==
  ASSUME TypeOK, NEW n \in Nodes, NEW b \in Nat, b <= Ceiling(n), NEW m \in Nodes \ {n}, ledger[m] = NoLedger
  PROVE  Charge(n, b)[m] = NoLedger
<1>1. CASE m \in Inside[n]
  <2>1. n # Root
    BY <1>1, Tree
  <2>2. Ceiling(n) <= 0
    BY <1>1, <2>1, CeilingFits DEF Left, NoLedger
  <2>3. b = 0
    BY <2>2, CeilingFits
  <2> QED
    BY <1>1, <2>3, ChargeAround DEF NoLedger
<1>2. CASE m \in Within(n)
  BY <1>2, ChargeWithin
<1>3. CASE m \notin Inside[n] \cup Within(n)
  BY <1>3, ChargeElse
<1> QED
  BY <1>1, <1>2, <1>3

\* A charge that fits an archive fits the top ledger.
LEMMA ChargeFits ==
  ASSUME TypeOK, Spent, NEW n \in Nodes, NEW b \in Nat, b <= Ceiling(n)
  PROVE  LET top == Charge(n, b)[Root]
         IN /\ top.spent <= top.ceiling /\ top.ceiling <= MaxTotal
            /\ top.spent = IF n = Root THEN b ELSE ledger[Root].spent + b
<1>0. Root \in Nodes /\ ledger[Root].spent \in Nat /\ ledger[Root].ceiling \in Nat
  BY Tree DEF TypeOK
<1>1. CASE n = Root
  <2>1. Charge(n, b)[Root] = [ceiling |-> MaxTotal, spent |-> b]
    BY <1>0, <1>1, ChargeOwn DEF Ceiling
  <2>2. b <= MaxTotal /\ MaxTotal \in Nat
    BY <1>1, Tree DEF Ceiling
  <2> QED
    BY <1>1, <2>1, <2>2
<1>2. CASE n # Root
  <2>1. Root \in Inside[n]
    BY <1>2, Tree
  <2>2. Charge(n, b)[Root] = [ledger[Root] EXCEPT !.spent = @ + b]
    BY <1>0, <2>1, ChargeAround
  <2>3. b <= ledger[Root].ceiling - ledger[Root].spent
    <3>1. Ceiling(n) <= ledger[Root].ceiling - ledger[Root].spent
      BY <1>2, <2>1, CeilingFits DEF Left, Spent
    <3> QED
      BY <1>0, <3>1, CeilingFits
  <2>4. ledger[Root] \in [ceiling : Nat, spent : Nat]
    BY <1>0 DEF TypeOK
  <2>5. /\ Charge(n, b)[Root].spent = ledger[Root].spent + b
        /\ Charge(n, b)[Root].ceiling = ledger[Root].ceiling
    BY <2>2, <2>4
  <2> QED
    BY <1>0, <1>2, <2>3, <2>5 DEF Spent
<1> QED
  BY <1>1, <1>2

LEMMA ProducedTypes == Produced \in SUBSET Nodes
  BY Parts DEF Produced, Counted

\* A step that charges nothing and calls no archive back from review counts no more.
LEMMA NothingSpent ==
  ASSUME Spent, TypeOK, TypeOK', UNCHANGED ledger,
         \A m \in Nodes : outcome[m].status = "review" => outcome'[m].status = "review"
  PROVE  Spent'
<1>1. Produced' \in SUBSET Produced
  BY DEF Produced, Counted
<1>2. Bytes(Produced') <= Bytes(Produced)
  BY <1>1, ProducedTypes, BytesGrow
<1>3. ledger[Root].spent \in Nat /\ Bytes(Produced) \in Nat /\ Bytes(Produced') \in Nat
  BY <1>1, ProducedTypes, BytesIsNat, Tree DEF TypeOK
<1>4. Bytes(Produced)' = Bytes(Produced')
  OBVIOUS
<1> QED
  BY <1>2, <1>3, <1>4 DEF Spent

LEMMA ExpandSpends == ASSUME BudgetInv, NEW n \in Nodes, Expand(n), TypeOK' PROVE Spent'
<1> DEFINE b == Bytes(Members(n))
<1> USE DEF BudgetInv
<1>1. b \in Nat /\ b <= Ceiling(n) /\ Members(n) \in SUBSET Nodes /\ Produced \in SUBSET Nodes
  BY Parts, BytesIsNat, ProducedTypes DEF Expand
<1>2. ledger' = Charge(n, b)
  BY DEF Expand
<1>3. Bytes(Produced') <= IF n = Root THEN b ELSE ledger[Root].spent + b
  <2>1. CASE n = Root
    <3>1. Counted' \subseteq {n}
      <4> SUFFICES ASSUME NEW m \in Nodes \ {Root} PROVE m \notin Counted'
        BY <2>1 DEF Counted
      <4>1. m \in Within(n)
        BY <2>1, Tree DEF Within
      <4> QED
        BY <1>1, <1>2, <4>1, ChargeWithin DEF Counted
    <3>2. Produced' \in SUBSET Members(n)
      BY <3>1 DEF Produced
    <3> QED
      BY <1>1, <2>1, <3>2, BytesGrow
  <2>2. CASE n # Root
    <3>1. Counted' \subseteq Counted \cup {n}
      <4> SUFFICES ASSUME NEW m \in Nodes \ {n}, m \in Counted' PROVE m \in Counted
        BY DEF Counted
      <4>1. ledger'[m] # NoLedger /\ outcome'[m].status # "review"
        BY DEF Counted
      <4>2. ledger[m] # NoLedger
        BY <1>1, <1>2, <4>1, ChargeNothing
      <4>3. m \notin Within(n)
        BY <1>1, <1>2, <4>1, ChargeWithin
      <4> QED
        BY <4>1, <4>2, <4>3 DEF Expand, Counted
    <3>2. Produced' \in SUBSET (Produced \cup Members(n))
      BY <3>1 DEF Produced
    <3>3. Bytes(Produced') <= Bytes(Produced \cup Members(n))
      BY <1>1, <3>2, BytesGrow
    <3>4. Bytes(Produced \cup Members(n)) <= Bytes(Produced) + b
      BY <1>1, BytesOfBoth
    <3>5. /\ Bytes(Produced') \in Nat /\ Bytes(Produced) \in Nat
          /\ Bytes(Produced \cup Members(n)) \in Nat /\ ledger[Root].spent \in Nat
      BY <1>1, <3>2, BytesIsNat, Tree DEF TypeOK
    <3>6. Bytes(Produced) <= ledger[Root].spent
      BY DEF Spent
    <3> HIDE DEF b
    <3> QED
      BY <1>1, <2>2, <3>3, <3>4, <3>5, <3>6
  <2> QED
    BY <2>1, <2>2
<1>4. /\ ledger'[Root].spent <= ledger'[Root].ceiling /\ ledger'[Root].ceiling <= MaxTotal
      /\ ledger'[Root].spent = IF n = Root THEN b ELSE ledger[Root].spent + b
  BY <1>1, <1>2, ChargeFits
<1> HIDE DEF b
<1> QED
  BY <1>3, <1>4 DEF Spent

LEMMA RefuseSpends == ASSUME BudgetInv, NEW n \in Nodes, Refuse(n), TypeOK' PROVE Spent'
<1> DEFINE b == IF Kind[n] = "eml" \/ Bytes(Members(n)) > MaxTotal THEN 0 ELSE Bytes(Fitting(n))
<1> USE DEF BudgetInv
<1>1. b \in Nat /\ b <= Ceiling(n) /\ Produced \in SUBSET Nodes
  BY FittingFits, CeilingFits, BytesIsNat, ProducedTypes
<1>2. ledger' = Charge(n, b) /\ outcome' = [outcome EXCEPT ![n] = [status |-> "review", failed |-> {}]]
  BY DEF Refuse, Finish, Close
<1>3. n \notin Counted' /\ \A m \in Nodes \ {n} : outcome'[m] = outcome[m]
  BY <1>2 DEF Counted, TypeOK
<1>4. Counted' \subseteq Counted
  <2> SUFFICES ASSUME NEW m \in Nodes \ {n}, m \in Counted' PROVE m \in Counted
    BY <1>3 DEF Counted
  <2>1. ledger[m] # NoLedger
    BY <1>1, <1>2, ChargeNothing DEF Counted
  <2> QED
    BY <1>3, <2>1 DEF Counted
<1>5. Produced' \in SUBSET Produced
  BY <1>4 DEF Produced
<1>6. Bytes(Produced') <= Bytes(Produced) /\ Bytes(Produced') \in Nat /\ Bytes(Produced) \in Nat
  BY <1>1, <1>5, BytesGrow, BytesIsNat
<1>7. n = Root => Bytes(Produced') = 0
  <2> SUFFICES ASSUME n = Root PROVE Counted' = {}
    BY BytesOfNone DEF Produced
  <2> SUFFICES ASSUME NEW m \in Nodes \ {Root} PROVE m \notin Counted'
    BY <1>3 DEF Counted
  <2>1. m \in Within(n)
    BY Tree DEF Within
  <2> QED
    BY <1>1, <1>2, <2>1, ChargeWithin DEF Counted
<1>8. /\ ledger'[Root].spent <= ledger'[Root].ceiling /\ ledger'[Root].ceiling <= MaxTotal
      /\ ledger'[Root].spent = IF n = Root THEN b ELSE ledger[Root].spent + b
  BY <1>1, <1>2, ChargeFits
<1>9. ledger[Root].spent \in Nat /\ Bytes(Produced) <= ledger[Root].spent
  BY Tree DEF TypeOK, Spent
<1>10. Bytes(Produced') <= ledger'[Root].spent
  <2> HIDE DEF b
  <2> QED
    BY <1>1, <1>6, <1>7, <1>8, <1>9
<1> QED
  BY <1>8, <1>10 DEF Spent

LEMMA NotYetStep == ASSUME BudgetInv, [Next]_vars, TypeOK' PROVE NotYet'
<1> USE DEF BudgetInv
<1>1. CASE ClaimRun
  BY <1>1 DEF ClaimRun, NotYet
<1>2. CASE FinishRun \/ Stop \/ UNCHANGED vars
  BY <1>2 DEF FinishRun, Stop, vars, memory, NotYet
<1>3. ASSUME NEW n \in Nodes, Begin(n) PROVE NotYet'
  <2>1. Start(n) \notin {"idle", "done"}
    BY DEF Start
  <2>2. pc[n] = "idle" /\ ledger' = ledger /\ \A m \in Nodes \ {n} : pc'[m] = pc[m] /\ outcome'[m] = outcome[m]
    BY <1>3 DEF Begin, TypeOK
  <2>3. pc'[n] = "done" \/ (pc'[n] = Start(n) /\ outcome'[n] = outcome[n])
    BY <1>3 DEF Begin, TypeOK
  <2> QED
    BY <2>1, <2>2, <2>3 DEF NotYet
<1>4. ASSUME NEW n \in Nodes, Expand(n) PROVE NotYet'
  <2> SUFFICES ASSUME NEW m \in Nodes
               PROVE  (pc'[m] = "idle" => ledger'[m] = NoLedger) /\ (pc'[m] # "done" => outcome'[m] = NoOutcome)
    BY DEF NotYet
  <2>1. /\ Bytes(Members(n)) \in Nat /\ Bytes(Members(n)) <= Ceiling(n)
        /\ ledger' = Charge(n, Bytes(Members(n))) /\ n \notin Within(n) /\ pc[n] = "expand"
    BY <1>4, Parts, BytesIsNat, InsideTypes DEF Expand, Within
  <2>2. CASE m \in Within(n)
    BY <1>4, <2>1, <2>2, ChargeWithin DEF Expand
  <2>3. CASE m = n
    BY <1>4, <2>1, <2>3 DEF Expand, NotYet
  <2>4. CASE m \notin Within(n) /\ m # n
    <3>1. pc'[m] = pc[m] /\ outcome'[m] = outcome[m]
      BY <1>4, <2>4 DEF Expand
    <3>2. ledger[m] = NoLedger => ledger'[m] = NoLedger
      BY <2>1, <2>4, ChargeNothing
    <3> QED
      BY <3>1, <3>2 DEF NotYet
  <2> QED
    BY <2>2, <2>3, <2>4
<1>5. ASSUME NEW n \in Nodes, Refuse(n) PROVE NotYet'
  <2> DEFINE b == IF Kind[n] = "eml" \/ Bytes(Members(n)) > MaxTotal THEN 0 ELSE Bytes(Fitting(n))
  <2>1. b \in Nat /\ b <= Ceiling(n) /\ ledger' = Charge(n, b)
    BY <1>5, FittingFits, CeilingFits, BytesIsNat DEF Refuse
  <2>2. \A m \in Nodes \ {n} : ledger[m] = NoLedger => ledger'[m] = NoLedger
    BY <2>1, ChargeNothing
  <2>3. pc'[n] = "done" /\ \A m \in Nodes \ {n} : pc'[m] = pc[m] /\ outcome'[m] = outcome[m]
    BY <1>5 DEF Refuse, Finish, Close, TypeOK
  <2> QED
    BY <2>2, <2>3 DEF NotYet
<1>6. ASSUME NEW n \in Nodes, CloseMembers(n) PROVE NotYet'
  <2>1. pc[n] = "members" /\ ledger' = ledger
    BY <1>6 DEF CloseMembers
  <2>2. /\ \A m \in Nodes \ {n} : pc'[m] = pc[m] /\ outcome'[m] = outcome[m]
        /\ pc'[n] = "done" \/ (pc'[n] = "stages" /\ outcome'[n] = outcome[n])
    BY <1>6 DEF CloseMembers, Finish, Close, TypeOK
  <2> QED
    BY <2>1, <2>2 DEF NotYet
<1>7. ASSUME NEW n \in Nodes, Commit(n) PROVE NotYet'
  BY <1>7 DEF Commit, NotYet, TypeOK
<1>8. ASSUME NEW n \in Nodes, Settle(n) \/ EndAlone(n) PROVE NotYet'
  BY <1>8 DEF Settle, EndAlone, Finish, Close, NotYet, TypeOK
<1>9. ASSUME NEW n \in Nodes, Throws(n) PROVE NotYet'
  BY <1>9 DEF Throws, Close, Start, NotYet, TypeOK
<1> QED
  BY <1>1, <1>2, <1>3, <1>4, <1>5, <1>6, <1>7, <1>8, <1>9 DEF Next, Step

LEMMA SpentStep == ASSUME BudgetInv, [Next]_vars, TypeOK' PROVE Spent'
<1> USE DEF BudgetInv
<1>1. CASE ClaimRun
  <2>1. Counted' = {}
    BY <1>1 DEF ClaimRun, Counted
  <2>2. Bytes(Produced') = 0
    BY <2>1, BytesOfNone DEF Produced
  <2>3. ledger'[Root] = NoLedger /\ MaxTotal \in Nat
    BY <1>1, Tree DEF ClaimRun
  <2> QED
    BY <2>2, <2>3 DEF Spent, NoLedger
<1>2. CASE FinishRun \/ Stop \/ UNCHANGED vars
  BY <1>2, NothingSpent DEF FinishRun, Stop, vars, memory
<1>3. ASSUME NEW n \in Nodes, Begin(n) \/ CloseMembers(n) \/ Commit(n) \/ Settle(n) \/ EndAlone(n) \/ Throws(n)
      PROVE  Spent'
  <2>1. outcome[n].status # "review" /\ UNCHANGED ledger
    BY <1>3 DEF Begin, CloseMembers, Commit, Settle, EndAlone, Throws, NotYet, NoOutcome
  <2>2. \A m \in Nodes \ {n} : outcome'[m] = outcome[m]
    BY <1>3 DEF Begin, CloseMembers, Commit, Settle, EndAlone, Throws, Finish, Close, TypeOK
  <2> QED
    BY <2>1, <2>2, NothingSpent
<1> QED
  BY <1>1, <1>2, <1>3, ExpandSpends, RefuseSpends DEF Next, Step

\* ADR-0022, BudgetLedger of budgets.ts: whatever the shape of the tree, its sizes and the
\* retries, what the archives expanded in it produced is within the top one's ceiling.
THEOREM OneBudgetHolds == Spec => []OneBudget
<1>1. Init => BudgetInv
  <2> SUFFICES ASSUME Init PROVE BudgetInv
    OBVIOUS
  <2>1. Produced = {}
    BY DEF Init, Produced, Counted
  <2>2. ledger[Root] = NoLedger /\ MaxTotal \in Nat
    BY Tree DEF Init
  <2> QED
    BY <2>1, <2>2, BytesOfNone, ArchiveTypesInit DEF BudgetInv, Spent, NotYet, NoLedger, Init
<1>2. BudgetInv /\ [Next]_vars => BudgetInv'
  BY ArchiveTypesStep, SpentStep, NotYetStep DEF BudgetInv
<1>3. BudgetInv => OneBudget
  <2> SUFFICES ASSUME BudgetInv PROVE OneBudget
    OBVIOUS
  <2>1. Bytes(Produced) \in Nat /\ MaxTotal \in Nat
    BY ProducedTypes, BytesIsNat, Tree
  <2>2. ledger[Root].spent \in Nat /\ ledger[Root].ceiling \in Nat
    BY Tree DEF BudgetInv, TypeOK
  <2>3. Bytes(Produced) <= MaxTotal
    BY <2>1, <2>2 DEF BudgetInv, Spent
  <2> QED
    BY <2>3 DEF BudgetInv, OneBudget, Produced, Counted
<1> QED
  BY <1>1, <1>2, <1>3, PTL DEF Spec

-----------------------------------------------------------------------------
(* What an end says of the files *)

\* A file is in the library, or a person was asked about an archive around it, ...
Answered(n) == n \in arrived \/ IsContainer(n) \/ Inside[n] \cap refused # {}

\* ... or about a candidate that was given up, which it is or is in.
Hopeless(n) == \E m \in Inside[n] \cup {n} : m \in givenUp

\* What is known of the files of a message, whatever becomes of its outcomes, and what an
\* outcome without a failure says of them.
Known(n) == Apart(n) => Answered(n) \/ Hopeless(n)
Here(n) == Apart(n) => \/ Answered(n)
                       \/ Hopeless(n) /\ \E m \in Inside[n] : final[m].status = "alone"

Whole(n) == \A m \in Within(n) \cup {n} : Here(m)
MembersWhole(n) == \A m \in Members(n) : Whole(m)
AllKnown(n) == \A m \in Within(n) \cup {n} : Known(m)
MembersKnown(n) == \A m \in Members(n) : AllKnown(m)

\* What is at work has no end yet, only containers are expanded, and a message goes on with
\* the failures its checkpoint names.
AtStage ==
  \A n \in Nodes :
     /\ pc[n] \in {"expand", "members"} => IsContainer(n)
     /\ Apart(n) =>
          /\ pc[n] \notin {"idle", "done"} => final[n] = NoOutcome
          /\ pc[n] \in {"expand", "members"} => expanded[n] = NoOutcome
          /\ pc[n] \in {"stages", "committed"} /\ expanded[n] # NoOutcome => inner[n] = expanded[n].failed
          /\ expanded[n] # NoOutcome => IsContainer(n)

\* Whatever ended without a failure in it is whole.
Wholes ==
  \A n \in Nodes :
     /\ final[n] # NoOutcome /\ final[n].failed = {} => Whole(n)
     /\ expanded[n] # NoOutcome /\ expanded[n].failed = {} => MembersWhole(n)
     /\ pc[n] \in {"stages", "committed"} /\ inner[n] = {} => MembersWhole(n)
     /\ pc[n] = "done" /\ outcome[n].failed = {} => Whole(n)

\* What is linked is filed.
Linked == \A n \in Nodes : pc[n] = "linked" => n \in filed

\* Of whatever ended or is filed, all is known.
Knowns ==
  \A n \in Nodes :
     /\ final[n] # NoOutcome => AllKnown(n)
     /\ expanded[n] # NoOutcome \/ n \in filed => MembersKnown(n)
     /\ pc[n] \in {"linked", "stages", "committed"} => MembersKnown(n)
     /\ pc[n] = "done" => AllKnown(n)

\* A file or a message that is done and did not fail is checkpointed.
Noted == \A n \in Nodes :
            Apart(n) /\ pc[n] = "done" /\ outcome[n].status # "failed" /\ Kind[n] # "zip" => final[n] # NoOutcome

\* OwnFilesFinished of a candidate whose journal rows are its own.
Own == \A n \in Nodes : (final[n].status = "container" \/ expanded[n] # NoOutcome) =>
          \A m \in Members(n) : Apart(m) /\ Kind[m] # "zip" => final[m] # NoOutcome

Ended == job \in {"waiting_review", "succeeded"} => ~ on /\ Whole(Root)

HonestInv == TypeOK /\ AtStage /\ Linked /\ Wholes /\ Knowns /\ Noted /\ Own /\ Ended

\* What extractZip makes of entries plain(1), plain(2), ... whose positional paths are
\* placed(1), placed(2), ...
Resolved(plain, placed, path) ==
  path = [i \in DOMAIN plain |-> IF \E j \in 1 .. i - 1 : path[j] = plain[i] THEN placed[i] ELSE plain[i]]

\* There is such a function, built up entry by entry.
LEMMA ResolvedExists ==
  ASSUME NEW N \in Nat, NEW plain, NEW placed, DOMAIN plain = 1 .. N
  PROVE  \E path : Resolved(plain, placed, path)
<1> DEFINE At(path, i) == IF \E j \in 1 .. i - 1 : path[j] = plain[i] THEN placed[i] ELSE plain[i]
           Up(n) == \E path : path = [i \in 1 .. n |-> At(path, i)]
           B == {n \in Nat : ~ Up(n)}
<1>1. ASSUME B # {} PROVE FALSE
  <2>1. PICK n \in B : \A m \in B : n <= m
    <3> HIDE DEF Up
    <3> QED
      BY <1>1, LeastNumber
  <2>2. CASE n = 0
    <3> DEFINE f == [i \in 1 .. 0 |-> 0]
    <3>1. f = [i \in 1 .. 0 |-> At(f, i)]
      OBVIOUS
    <3> QED
      BY <2>1, <2>2, <3>1
  <2>3. CASE n # 0
    <3>1. n - 1 \in Nat /\ n - 1 \notin B
      <4> HIDE DEF Up
      <4>1. n \in Nat /\ n - 1 \in Nat /\ ~ n <= n - 1
        BY <2>1, <2>3
      <4> QED
        BY <2>1, <4>1
    <3>2. PICK f : f = [i \in 1 .. n - 1 |-> At(f, i)]
      BY <3>1
    <3> DEFINE g == [i \in 1 .. n |-> At(f, i)]
    <3>3. ASSUME NEW j \in 1 .. n - 1 PROVE g[j] = f[j]
      <4>1. j \in 1 .. n
        BY <2>1
      <4> HIDE DEF At
      <4>2. f[j] = At(f, j)
        BY <3>2
      <4> QED
        BY <4>1, <4>2
    <3>4. ASSUME NEW i \in 1 .. n PROVE At(f, i) = At(g, i)
      <4>1. \A j \in 1 .. i - 1 : j \in 1 .. n - 1
        BY <2>1
      <4>2. \A j \in 1 .. i - 1 : g[j] = f[j]
        BY <3>3, <4>1
      <4> HIDE DEF g
      <4> QED
        BY <4>2
    <3>5. g = [i \in 1 .. n |-> At(g, i)]
      <4> HIDE DEF At
      <4> QED
        BY <3>4
    <3> QED
      BY <2>1, <3>5
  <2> QED
    BY <2>2, <2>3
<1>2. Up(N)
  BY <1>1
<1> QED
  BY <1>2 DEF Resolved

\* Positional paths that keep off the names and one another keep all paths apart.
LEMMA ResolvedDiffer ==
  ASSUME NEW N \in Nat, NEW plain, NEW placed, DOMAIN plain = 1 .. N, NEW path, Resolved(plain, placed, path),
         \A i, j \in 1 .. N : i # j => placed[i] # plain[j] /\ placed[i] # placed[j]
  PROVE  \A i, j \in 1 .. N : i # j => path[i] # path[j]
<1>1. SUFFICES ASSUME NEW i \in 1 .. N, NEW j \in 1 .. i - 1 PROVE path[i] # path[j]
  <2> SUFFICES ASSUME NEW i \in 1 .. N, NEW j \in 1 .. N, i # j PROVE path[i] # path[j]
    OBVIOUS
  <2>1. CASE j < i
    BY <1>1, <2>1
  <2>2. CASE i < j
    BY <1>1, <2>2
  <2> QED
    BY <2>1, <2>2
<1>2. j \in 1 .. N /\ i # j
  OBVIOUS
<1>3. path[i] = IF \E k \in 1 .. i - 1 : path[k] = plain[i] THEN placed[i] ELSE plain[i]
  BY DEF Resolved
<1>4. path[j] = plain[j] \/ path[j] = placed[j]
  BY <1>2 DEF Resolved
<1>5. CASE path[i] = plain[i] /\ ~ \E k \in 1 .. i - 1 : path[k] = plain[i]
  BY <1>5
<1>6. CASE path[i] = placed[i]
  BY <1>2, <1>4, <1>6
<1> QED
  BY <1>3, <1>5, <1>6

LEMMA PathsResolved ==
  ASSUME NEW n \in Nodes
  PROVE  LET entry(i) == CHOOSE m \in Members(n) : Order[m] = i
             N == Cardinality(Members(n))
             plain == [i \in 1 .. N |-> Normal(Name[entry(i)])]
             placed == [i \in 1 .. N |-> <<ToString(i)>> \o Normal(Name[entry(i)])]
         IN Resolved(plain, placed, Paths[n])
<1> DEFINE entry(i) == CHOOSE m \in Members(n) : Order[m] = i
           N == Cardinality(Members(n))
           plain == [i \in 1 .. N |-> Normal(Name[entry(i)])]
           placed == [i \in 1 .. N |-> <<ToString(i)>> \o Normal(Name[entry(i)])]
           At(path, i) == IF \E j \in 1 .. i - 1 : path[j] = Normal(Name[entry(i)])
                            THEN <<ToString(i)>> \o Normal(Name[entry(i)]) ELSE Normal(Name[entry(i)])
<1>1. Paths[n] = CHOOSE path : path = [i \in 1 .. N |-> At(path, i)]
  BY DEF Paths
<1>2. ASSUME NEW path PROVE Resolved(plain, placed, path) <=> path = [i \in 1 .. N |-> At(path, i)]
  BY DEF Resolved
<1>3. N \in Nat
  BY Parts, Tree, FS_Subset, FS_CardinalityType
<1>4. \E path : Resolved(plain, placed, path)
  BY <1>3, ResolvedExists
<1> QED
  BY <1>1, <1>2, <1>4

LEMMA ApartPaths == ASSUME NEW n \in Nodes, Apart(n) PROVE SamePath[n] = {n}
<1>1. CASE n = Root \/ Kind[Archive(n)] = "eml"
  BY <1>1 DEF SamePath
<1>2. CASE ~ (n = Root \/ Kind[Archive(n)] = "eml")
  <2> DEFINE a == Archive(n)
             entry(i) == CHOOSE m \in Members(a) : Order[m] = i
             N == Cardinality(Members(a))
             plain == [i \in 1 .. N |-> Normal(Name[entry(i)])]
             placed == [i \in 1 .. N |-> <<ToString(i)>> \o Normal(Name[entry(i)])]
  <2>1. a \in Nodes /\ n \in Members(a) /\ KeepsOff(a)
    BY <1>2, ArchiveOf DEF Apart
  <2>2. SamePath[n] = {m \in Members(a) : Paths[a][Order[m]] = Paths[a][Order[n]]}
    BY <1>2 DEF SamePath
  <2> HIDE DEF a
  <2>3. N \in Nat
    BY <2>1, Parts, Tree, FS_Subset, FS_CardinalityType
  <2>4. \A m \in Members(a) : Order[m] \in 1 .. N /\ entry(Order[m]) = m
    BY <2>1, Numbered
  <2>5. \A i \in 1 .. N : entry(i) \in Members(a) /\ Order[entry(i)] = i
    <3> SUFFICES ASSUME NEW i \in 1 .. N PROVE \E m \in Members(a) : Order[m] = i
      OBVIOUS
    <3> QED
      BY <2>1, Numbered
  <2>6. \A i, j \in 1 .. N : i # j => placed[i] # plain[j] /\ placed[i] # placed[j]
    <3> SUFFICES ASSUME NEW i \in 1 .. N, NEW j \in 1 .. N, i # j
                 PROVE  placed[i] # plain[j] /\ placed[i] # placed[j]
      OBVIOUS
    <3>1. entry(i) \in Members(a) /\ entry(j) \in Members(a) /\ Order[entry(i)] = i /\ Order[entry(j)] = j
      BY <2>5
    <3> HIDE DEF entry
    <3>2. placed[i] = Positional(entry(i)) /\ placed[j] = Positional(entry(j)) /\ plain[j] = Normal(Name[entry(j)])
      BY <3>1 DEF Positional
    <3>3. Positional(entry(i)) \notin {Normal(Name[entry(j)]), Positional(entry(j))}
      BY <2>1, <3>1 DEF KeepsOff
    <3> QED
      BY <3>2, <3>3
  <2>7. Resolved(plain, placed, Paths[a])
    BY <2>1, PathsResolved
  <2>8. \A i, j \in 1 .. N : i # j => Paths[a][i] # Paths[a][j]
    <3>1. DOMAIN plain = 1 .. N
      OBVIOUS
    <3> HIDE DEF plain, placed, N
    <3> QED
      BY <2>3, <2>6, <2>7, <3>1, ResolvedDiffer
  <2>9. \A m \in Members(a) : Paths[a][Order[m]] = Paths[a][Order[n]] => m = n
    <3> SUFFICES ASSUME NEW m \in Members(a), m # n PROVE Paths[a][Order[m]] # Paths[a][Order[n]]
      OBVIOUS
    <3> HIDE DEF N, entry
    <3>1. Order[m] \in 1 .. N /\ Order[n] \in 1 .. N /\ Order[m] # Order[n]
      BY <2>1, <2>4
    <3> QED
      BY <2>8, <3>1
  <2> QED
    BY <2>1, <2>2, <2>9
<1> QED
  BY <1>1, <1>2

\* A candidate that is apart has journal rows and bytes of its own, and it and what it is
\* inside of are so together.
LEMMA KeyIsSelf == ASSUME NEW n \in Nodes, Apart(n) PROVE Key[n] = n /\ Reads[n] = n
  BY ApartPaths, KeyIsNode

LEMMA KeyOfApart == ASSUME NEW n \in Nodes PROVE Key[n] \in Nodes /\ (Apart(Key[n]) => Key[n] = n /\ Apart(n))
<1>1. Key[n] \in SamePath[n] /\ Key[n] \in Nodes
  BY KeyIsNode
<1>2. Inside[Key[n]] = Inside[n]
  <2>1. CASE Key[n] = n
    BY <2>1
  <2>2. CASE Key[n] # n
    <3>1. n # Root /\ Key[n] \in Members(Archive(n))
      BY <1>1, <2>2 DEF SamePath
    <3>2. Archive(n) \in Nodes /\ n \in Members(Archive(n))
      BY <3>1, ArchiveOf
    <3> QED
      BY <3>1, <3>2, MemberInside
  <2> QED
    BY <2>1, <2>2
<1>3. Apart(Key[n]) => Apart(n)
  BY <1>2 DEF Apart
<1> QED
  BY <1>1, <1>3, KeyIsSelf

LEMMA ApartInside == ASSUME NEW n \in Nodes, NEW m \in Inside[n], Apart(n) PROVE m \in Nodes /\ Apart(m)
  BY InsideTypes, InsideInside DEF Apart

LEMMA NotApart ==
  ASSUME NEW n \in Nodes, ~ Apart(n)
  PROVE  /\ Whole(n) /\ MembersWhole(n) /\ AllKnown(n) /\ MembersKnown(n)
         /\ Whole(n)' /\ MembersWhole(n)' /\ AllKnown(n)' /\ MembersKnown(n)'
<1>1. \A m \in Within(n) \cup {n} : m \in Nodes /\ ~ Apart(m)
  BY ApartInside DEF Within
<1>2. \A m \in Members(n) : m \in Within(n) /\ Within(m) \cup {m} \subseteq Within(n)
  BY MemberInside, InsideInside, Parts DEF Within
<1> QED
  BY <1>1, <1>2 DEF Whole, MembersWhole, AllKnown, MembersKnown, Here, Known

\* What is not expanded has nothing inside it.
LEMMA OnlyContainers == ASSUME NEW n \in Nodes, ~ IsContainer(n) PROVE Within(n) = {} /\ Members(n) = {}
  BY Tree DEF IsContainer, Within, Members, Depth

LEMMA WholeByMembers == ASSUME NEW n \in Nodes, MembersWhole(n), Here(n) PROVE Whole(n)
  BY ThroughMembers, Parts DEF MembersWhole, Whole

LEMMA KnownByMembers == ASSUME NEW n \in Nodes, MembersKnown(n), Known(n) PROVE AllKnown(n)
  BY ThroughMembers, Parts DEF MembersKnown, AllKnown

\* Files do not leave the library, nor questions the queue unnoticed.
Grows == /\ arrived \subseteq arrived' /\ refused \subseteq refused' /\ givenUp \subseteq givenUp'
         /\ \A m \in Nodes : Apart(m) /\ final[m].status = "alone" => final'[m].status = "alone"

LEMMA KnownStays ==
  ASSUME arrived \subseteq arrived', refused \subseteq refused', givenUp \subseteq givenUp'
  PROVE  \A n \in Nodes : (AllKnown(n) => AllKnown(n)') /\ (MembersKnown(n) => MembersKnown(n)')
<1>1. \A m \in Nodes : (Answered(m) => Answered(m)') /\ (Hopeless(m) => Hopeless(m)')
  BY DEF Answered, Hopeless
<1>2. \A m \in Nodes : Known(m) => Known(m)'
  BY <1>1 DEF Known
<1>3. \A n \in Nodes : AllKnown(n) => AllKnown(n)'
  BY <1>2, Parts DEF AllKnown
<1> QED
  BY <1>3, Parts DEF MembersKnown

LEMMA WholeStays ==
  ASSUME Grows PROVE \A n \in Nodes : (Whole(n) => Whole(n)') /\ (MembersWhole(n) => MembersWhole(n)')
<1>1. \A m \in Nodes : (Answered(m) => Answered(m)') /\ (Hopeless(m) => Hopeless(m)')
  BY DEF Answered, Hopeless, Grows
<1>2. ASSUME NEW m \in Nodes, Here(m) PROVE Here(m)'
  <2> SUFFICES ASSUME Apart(m), ~ Answered(m) PROVE Hopeless(m)' /\ \E o \in Inside[m] : final'[o].status = "alone"
    BY <1>1 DEF Here
  <2>1. PICK o \in Inside[m] : final[o].status = "alone" /\ Hopeless(m)
    BY <1>2 DEF Here
  <2>2. o \in Nodes /\ Apart(o)
    BY ApartInside
  <2> QED
    BY <1>1, <2>1, <2>2 DEF Grows
<1>3. \A n \in Nodes : Whole(n) => Whole(n)'
  BY <1>2, Parts DEF Whole
<1> QED
  BY <1>3, Parts DEF MembersWhole

\* The end of a candidate touches no other candidate's rows, but for one of the same path.
LEMMA FinishKeeps ==
  ASSUME TypeOK, NEW n \in Nodes, NEW o, Finish(n, o)
  PROVE  /\ \A m \in Nodes \ {n} : /\ pc'[m] = pc[m] /\ outcome'[m] = outcome[m]
                                   /\ Apart(m) => final'[m] = final[m] /\ expanded'[m] = expanded[m]
         /\ pc'[n] = "done" /\ outcome'[n] = o
         /\ Apart(n) => final'[n] = o /\ expanded'[n] = NoOutcome
<1>1. Key[n] \in Nodes /\ (Apart(n) => Key[n] = n) /\ \A m \in Nodes \ {n} : Apart(m) => Key[n] # m
  BY KeyOfApart, KeyIsSelf
<1> QED
  BY <1>1 DEF Finish, Close, TypeOK

\* What a step of n does to another candidate: nothing, or it sets what is in n back to idle.
LEMMA OthersKept ==
  ASSUME TypeOK, AtStage, NEW n \in Nodes, Step(n), NEW m \in Nodes \ {n}
  PROVE  /\ Apart(m) => final'[m] = final[m] /\ expanded'[m] = expanded[m]
         /\ inner'[m] = inner[m] /\ (m \in filed' => m \in filed)
         /\ \/ pc'[m] = pc[m] /\ outcome'[m] = outcome[m]
            \/ pc'[m] = "idle" /\ outcome'[m] = NoOutcome
<1> USE DEF TypeOK, library, journal
<1>1. CASE Begin(n)
  BY <1>1 DEF Begin
<1>2. CASE Expand(n)
  BY <1>2 DEF Expand
<1>3. CASE Refuse(n)
  BY <1>3, FinishKeeps DEF Refuse
<1>4. CASE CloseMembers(n)
  <2> DEFINE ended == [status |-> "container", failed |-> UNION {outcome[o].failed : o \in Members(n)}]
  <2>1. CASE Finish(n, ended) /\ UNCHANGED inner
    <3> HIDE DEF ended
    <3>1. UNCHANGED filed
      BY <1>4 DEF CloseMembers
    <3> QED
      BY <2>1, <3>1, FinishKeeps
  <2>2. CASE Close(n, ended) /\ UNCHANGED <<inner, journal>>
    BY <1>4, <2>2 DEF CloseMembers, Close
  <2>3. CASE Kind[n] # "zip"
    <3>1. Apart(m) => Key[n] # m
      BY KeyOfApart
    <3> QED
      BY <1>4, <2>3, <3>1 DEF CloseMembers
  <2> QED
    BY <1>4, <2>1, <2>2, <2>3 DEF CloseMembers
<1>5. CASE Commit(n)
  BY <1>5 DEF Commit
<1>6. CASE Settle(n)
  BY <1>6, FinishKeeps DEF Settle
<1>7. CASE EndAlone(n)
  BY <1>7, FinishKeeps DEF EndAlone
<1>8. CASE Throws(n)
  BY <1>8 DEF Throws, Close
<1> QED
  BY <1>1, <1>2, <1>3, <1>4, <1>5, <1>6, <1>7, <1>8 DEF Step

\* A step of a candidate takes no file out of the library and no end back.
LEMMA Kept ==
  ASSUME TypeOK, AtStage, NEW n \in Nodes, Step(n)
  PROVE  /\ Apart(n) /\ final[n] # NoOutcome => final'[n] = final[n]
         /\ Grows /\ UNCHANGED <<job, on>> /\ on
<1>1. Apart(n) /\ final[n] # NoOutcome => final'[n] = final[n]
  <2> SUFFICES ASSUME Apart(n), final[n] # NoOutcome PROVE final'[n] = final[n]
    OBVIOUS
  <2>1. pc[n] \in {"idle", "done"}
    BY DEF AtStage
  <2>2. Begin(n)
    BY <2>1 DEF Step, Expand, Refuse, CloseMembers, Commit, Settle, EndAlone, Throws
  <2> QED
    BY <2>2 DEF Begin, journal
<1>2. arrived \subseteq arrived' /\ refused \subseteq refused' /\ givenUp \subseteq givenUp' /\ UNCHANGED <<job, on>> /\ on
  BY DEF Step, Begin, Expand, Refuse, CloseMembers, Commit, Settle, EndAlone, Throws, library
<1>3. \A m \in Nodes : Apart(m) /\ final[m].status = "alone" => final'[m].status = "alone"
  BY <1>1, OthersKept DEF NoOutcome
<1> QED
  BY <1>1, <1>2, <1>3 DEF Grows

\* What a step of n does to n itself.
\* A message has the outcomes of its members and goes on.
GoesOn(n) ==
  /\ CloseMembers(n) /\ Kind[n] # "zip" /\ pc'[n] = "stages" /\ UNCHANGED <<outcome, final>>
  /\ inner'[n] = UNION {outcome[m].failed : m \in Members(n)}
  /\ Apart(n) => \/ expanded'[n] = expanded[n]
                 \/ /\ \A m \in Members(n) : outcome[m].status # "failed"
                    /\ expanded'[n] # NoOutcome /\ expanded'[n].failed = inner'[n]

\* What the outcome of n says when n ends.
Says(n) ==
  \/ Refuse(n) /\ outcome'[n] = [status |-> "review", failed |-> {}]
  \/ /\ CloseMembers(n) /\ Kind[n] = "zip"
     /\ outcome'[n] = [status |-> "container", failed |-> UNION {outcome[m].failed : m \in Members(n)}]
     /\ Apart(n) => \/ final'[n] = final[n] /\ expanded'[n] = expanded[n]
                    \/ \A m \in Members(n) : outcome[m].status # "failed"
  \/ Settle(n) /\ outcome'[n] = [status |-> "settled", failed |-> inner[n]]
  \/ EndAlone(n) /\ outcome'[n] = [status |-> "alone", failed |-> {}]

LEMMA OwnSteps ==
  ASSUME HonestInv, NEW n \in Nodes, Step(n)
  PROVE  \/ Begin(n) \/ Expand(n) \/ Throws(n) \/ Commit(n)
         \/ GoesOn(n)
         \/ /\ pc'[n] = "done" /\ inner'[n] = inner[n]
            /\ outcome'[n].status \in {"review", "container", "settled", "alone"}
            /\ Apart(n) => expanded'[n] \in {expanded[n], NoOutcome}
            /\ Apart(n) => \/ final'[n] = outcome'[n]
                           \/ final'[n] = final[n] /\ Kind[n] = "zip" /\ CloseMembers(n)
            /\ Says(n)
<1> USE DEF Says, GoesOn
<1> USE DEF HonestInv
<1>1. CASE Refuse(n)
  BY <1>1, FinishKeeps DEF Refuse
<1>2. CASE CloseMembers(n)
  <2> DEFINE failed == UNION {outcome[m].failed : m \in Members(n)}
             ended == [status |-> "container", failed |-> failed]
  <2>1. CASE Kind[n] = "zip" /\ Finish(n, ended) /\ UNCHANGED inner /\ \A m \in Members(n) : outcome[m].status # "failed"
    <3>1. /\ pc'[n] = "done" /\ outcome'[n] = ended
          /\ Apart(n) => final'[n] = ended /\ expanded'[n] = NoOutcome
      BY <2>1, FinishKeeps
    <3> QED
      BY <1>2, <2>1, <3>1
  <2>2. CASE Kind[n] = "zip" /\ Close(n, ended) /\ UNCHANGED <<inner, journal>>
    <3>1. pc'[n] = "done" /\ outcome'[n] = ended /\ UNCHANGED <<inner, final, expanded>>
      BY <2>2 DEF Close, journal, TypeOK
    <3> QED
      BY <1>2, <2>2, <3>1
  <2>3. CASE Kind[n] # "zip"
    <3>1. /\ inner' = [inner EXCEPT ![n] = failed] /\ pc' = [pc EXCEPT ![n] = "stages"]
          /\ \/ expanded' = expanded
             \/ /\ \A m \in Members(n) : outcome[m].status # "failed"
                /\ expanded' = [expanded EXCEPT ![Key[n]] = ended]
          /\ UNCHANGED <<outcome, final>>
      BY <1>2, <2>3 DEF CloseMembers
    <3>2. ended # NoOutcome /\ ended.failed = failed
      BY DEF NoOutcome
    <3> HIDE DEF failed, ended
    <3>3. inner'[n] = failed /\ pc'[n] = "stages"
      BY <3>1 DEF TypeOK
    <3>4. Apart(n) => \/ expanded'[n] = expanded[n]
                      \/ /\ \A m \in Members(n) : outcome[m].status # "failed"
                         /\ expanded'[n] = ended
      BY <3>1, KeyIsSelf DEF TypeOK
    <3> QED
      BY <1>2, <2>3, <3>1, <3>2, <3>3, <3>4 DEF failed
  <2> QED
    BY <1>2, <2>1, <2>2, <2>3 DEF CloseMembers
<1>3. CASE Settle(n)
  BY <1>3, FinishKeeps DEF Settle
<1>4. CASE EndAlone(n)
  BY <1>4, FinishKeeps DEF EndAlone
<1> QED
  BY <1>1, <1>2, <1>3, <1>4 DEF Step

LEMMA AtStageStep == ASSUME HonestInv, NEW n \in Nodes, Step(n) PROVE AtStage'
<1> USE DEF HonestInv
<1> DEFINE Good(m) == /\ pc[m] \in {"expand", "members"} => IsContainer(m)
                      /\ Apart(m) =>
                           /\ pc[m] \notin {"idle", "done"} => final[m] = NoOutcome
                           /\ pc[m] \in {"expand", "members"} => expanded[m] = NoOutcome
                           /\ pc[m] \in {"stages", "committed"} /\ expanded[m] # NoOutcome
                                => inner[m] = expanded[m].failed
                           /\ expanded[m] # NoOutcome => IsContainer(m)
<1>1. \A m \in Nodes : Good(m)
  BY DEF AtStage
<1>2. ASSUME NEW m \in Nodes \ {n} PROVE Good(m)'
  BY <1>1, OthersKept
<1>3. Good(n)'
  <2>1. CASE Begin(n)
    BY <1>1, <2>1, KeyIsSelf DEF Begin, Start, TypeOK, journal
  <2>2. CASE Expand(n)
    BY <1>1, <2>2 DEF Expand, TypeOK, journal
  <2>3. CASE Throws(n)
    <3>1. UNCHANGED <<final, expanded, inner>> /\ pc[n] \notin {"idle", "done"}
      BY <2>3 DEF Throws, journal
    <3>2. pc'[n] = "done" \/ pc'[n] = Start(n)
      BY <2>3 DEF Throws, Close, TypeOK
    <3>3. /\ Start(n) \notin {"members", "committed"} /\ (Start(n) = "expand" => IsContainer(n))
          /\ Start(n) = "expand" /\ Apart(n) => expanded[n] = NoOutcome
          /\ Start(n) = "stages" /\ Apart(n) /\ expanded[n] # NoOutcome => n \notin filed
      BY KeyIsSelf DEF Start
    <3>4. pc[n] = "members" \/ pc[n] = "linked" => pc[n] = "linked" /\ n \in filed
      BY <2>3 DEF Throws, Linked
    <3>5. pc[n] \in {"stages", "committed"} \/ (Start(n) = "stages" /\ Apart(n) => expanded[n] = NoOutcome)
      <4>1. pc[n] \in {"linked", "expand", "stages", "committed"}
        BY <2>3 DEF Throws
      <4> QED
        BY <1>1, <3>3, <3>4, <4>1
    <3> QED
      BY <1>1, <3>1, <3>2, <3>3, <3>5
  <2>4. CASE Commit(n)
    BY <1>1, <2>4 DEF Commit, TypeOK, journal
  <2>5. CASE CloseMembers(n) /\ pc'[n] = "stages" /\ UNCHANGED final
    <3>1. pc[n] = "members"
      BY <2>5 DEF CloseMembers
    <3>2. Apart(n) => expanded'[n] = NoOutcome \/ expanded'[n].failed = inner'[n]
      BY <1>1, <2>5, <3>1, OwnSteps DEF GoesOn, Begin, Expand, Throws, Commit
    <3> QED
      BY <1>1, <2>5, <3>1, <3>2
  <2>6. CASE pc'[n] = "done" /\ (Apart(n) => expanded'[n] \in {expanded[n], NoOutcome})
    BY <1>1, <2>6
  <2> QED
    BY <2>1, <2>2, <2>3, <2>4, <2>5, <2>6, OwnSteps DEF GoesOn
<1> QED
  BY <1>2, <1>3 DEF AtStage

LEMMA LinkedStep == ASSUME HonestInv, NEW n \in Nodes, Step(n) PROVE Linked'
<1> USE DEF HonestInv
<1>1. SUFFICES ASSUME NEW m \in Nodes, pc'[m] = "linked" PROVE m \in filed'
  BY DEF Linked
<1>2. CASE m # n
  <2>1. m \in filed
    BY <1>1, <1>2, OthersKept DEF Linked
  <2>2. filed \subseteq filed'
    BY DEF Step, Begin, Expand, Refuse, CloseMembers, Commit, Settle, EndAlone, Throws, library
  <2> QED
    BY <2>1, <2>2
<1>3. CASE m = n
  <2>1. Begin(n) \/ Throws(n)
    BY <1>1, <1>3, OwnSteps DEF GoesOn, Expand, Commit, TypeOK
  <2> QED
    BY <1>1, <1>3, <2>1 DEF Begin, Throws, Close, Start, TypeOK, library
<1> QED
  BY <1>2, <1>3

LEMMA NotedStep == ASSUME HonestInv, NEW n \in Nodes, Step(n) PROVE Noted'
<1> USE DEF HonestInv
<1>1. SUFFICES ASSUME NEW m \in Nodes, Apart(m), pc'[m] = "done", outcome'[m].status # "failed", Kind[m] # "zip"
               PROVE  final'[m] # NoOutcome
  BY DEF Noted
<1>2. CASE m # n
  BY <1>1, <1>2, OthersKept DEF Noted
<1>3. CASE m = n
  <2>1. CASE Begin(n)
    BY <1>1, <1>3, <2>1, KeyIsSelf DEF Begin, Start, TypeOK, journal
  <2>2. CASE Expand(n) \/ Throws(n) \/ Commit(n)
    BY <1>1, <1>3, <2>2 DEF Expand, Throws, Close, Start, Commit, TypeOK
  <2>3. CASE pc'[n] = "stages"
    BY <1>1, <1>3, <2>3
  <2>4. CASE /\ Apart(n) => \/ final'[n] = outcome'[n]
                            \/ final'[n] = final[n] /\ Kind[n] = "zip" /\ CloseMembers(n)
             /\ outcome'[n].status \in {"review", "container", "settled", "alone"}
    <3>1. outcome'[n] # NoOutcome
      BY <2>4 DEF NoOutcome
    <3> QED
      BY <1>1, <1>3, <2>4, <3>1
  <2> QED
    BY <2>1, <2>2, <2>3, <2>4, OwnSteps DEF GoesOn
<1> QED
  BY <1>2, <1>3

LEMMA OwnStep == ASSUME HonestInv, NEW n \in Nodes, Step(n) PROVE Own'
<1> USE DEF HonestInv
<1>1. ASSUME NEW m \in Nodes, Apart(m), final[m] # NoOutcome PROVE final'[m] # NoOutcome
  BY <1>1, Kept, OthersKept
<1>2. SUFFICES ASSUME NEW a \in Nodes, final'[a].status = "container" \/ expanded'[a] # NoOutcome,
                      NEW m \in Members(a), Apart(m), Kind[m] # "zip"
               PROVE  final'[m] # NoOutcome
  BY DEF Own
<1>3. m \in Nodes /\ Apart(a)
  BY <1>2, Parts, MemberInside, ApartInside
<1>4. CASE final[a].status = "container" \/ expanded[a] # NoOutcome
  BY <1>1, <1>2, <1>3, <1>4 DEF Own
<1>5. CASE ~ (final[a].status = "container" \/ expanded[a] # NoOutcome)
  <2>1. CloseMembers(n) /\ a = n /\ \A o \in Members(n) : outcome[o].status # "failed"
    <3>1. a = n
      BY <1>2, <1>3, <1>5, OthersKept
    <3>2. ~ (Begin(n) \/ Expand(n) \/ Throws(n) \/ Commit(n))
      BY <1>2, <1>5, <3>1 DEF Begin, Expand, Throws, Commit, journal
    <3>3. ~ Refuse(n) /\ ~ Settle(n) /\ ~ EndAlone(n)
      <4>1. ASSUME Refuse(n) \/ Settle(n) \/ EndAlone(n)
            PROVE  expanded'[n] = NoOutcome /\ final'[n].status \in {"review", "settled", "alone"}
        BY <1>3, <3>1, <4>1, FinishKeeps DEF Refuse, Settle, EndAlone
      <4> QED
        BY <1>2, <3>1, <4>1
    <3>4. CloseMembers(n)
      BY <3>2, <3>3 DEF Step
    <3>5. ~ (\A o \in Members(n) : outcome[o].status # "failed") => final'[n] = final[n] /\ expanded'[n] = expanded[n]
      <4>1. ~ (Begin(n) \/ Expand(n) \/ Throws(n) \/ Commit(n))
        BY <3>2
      <4> QED
        BY <1>3, <3>1, <3>3, <4>1, OwnSteps DEF GoesOn, Says
    <3> QED
      BY <1>2, <1>5, <3>1, <3>4, <3>5
  <2>2. pc[m] = "done" /\ outcome[m].status # "failed"
    BY <1>2, <2>1 DEF CloseMembers
  <2>3. final[m] # NoOutcome
    BY <1>2, <1>3, <2>2 DEF Noted
  <2> QED
    BY <1>1, <1>2, <1>3, <2>3
<1> QED
  BY <1>4, <1>5

LEMMA KnownsStep == ASSUME HonestInv, NEW n \in Nodes, Step(n) PROVE Knowns'
<1> USE DEF HonestInv
<1> DEFINE Good(m) == /\ final[m] # NoOutcome => AllKnown(m)
                      /\ expanded[m] # NoOutcome \/ m \in filed => MembersKnown(m)
                      /\ pc[m] \in {"linked", "stages", "committed"} => MembersKnown(m)
                      /\ pc[m] = "done" => AllKnown(m)
<1>1. \A m \in Nodes : (AllKnown(m) => AllKnown(m)') /\ (MembersKnown(m) => MembersKnown(m)')
  BY Kept, KnownStays DEF Grows
<1>2. \A m \in Nodes : Good(m)
  BY DEF Knowns
<1>3. SUFFICES ASSUME NEW m \in Nodes, Apart(m) PROVE Good(m)'
  BY NotApart DEF Knowns
<1>4. CASE m # n
  BY <1>1, <1>2, <1>3, <1>4, OthersKept
<1>5. CASE m = n
  <2> USE <1>3, <1>5
  <2>1. CASE Begin(n)
    <3>1. final' = final /\ expanded' = expanded /\ filed' = filed
      BY <2>1 DEF Begin, journal, library
    <3>2. Start(n) \in {"linked", "stages"} => MembersKnown(n)
      BY <1>2, KeyIsSelf, OnlyContainers DEF Start, MembersKnown
    <3>3. pc'[n] = Start(n) \/ (pc'[n] = "done" /\ final[n] # NoOutcome)
      BY <2>1, KeyIsSelf DEF Begin, TypeOK
    <3>4. Start(n) \notin {"committed", "done"}
      BY DEF Start
    <3> QED
      BY <1>1, <1>2, <3>1, <3>2, <3>3, <3>4
  <2>2. CASE Expand(n)
    BY <1>1, <1>2, <2>2 DEF Expand, journal, library, TypeOK
  <2>3. CASE Throws(n)
    <3>1. final' = final /\ expanded' = expanded /\ filed' = filed
      BY <2>3 DEF Throws, journal
    <3>2. Start(n) \in {"linked", "stages"} => MembersKnown(n)
      BY <1>2, KeyIsSelf, OnlyContainers DEF Start, MembersKnown
    <3>3. \/ pc'[n] = Start(n) /\ Start(n) \notin {"committed", "done"}
          \/ pc'[n] = "done" /\ n \in givenUp'
      BY <2>3 DEF Throws, Close, Start, TypeOK
    <3>4. n \in givenUp' => AllKnown(n)'
      BY DEF AllKnown, Known, Hopeless, Within
    <3> QED
      BY <1>1, <1>2, <3>1, <3>2, <3>3, <3>4
  <2>4. CASE Commit(n)
    <3>1. pc[n] = "stages" /\ pc'[n] = "committed" /\ final' = final /\ expanded' = expanded
      BY <2>4 DEF Commit, journal, TypeOK
    <3> QED
      BY <1>1, <1>2, <3>1
  <2>5. CASE CloseMembers(n)
    <3>1. \A o \in Members(n) : o \in Nodes /\ pc[o] = "done"
      BY <2>5, Parts DEF CloseMembers
    <3>2. MembersKnown(n)
      BY <1>2, <3>1 DEF MembersKnown
    <3>3. IsContainer(n) /\ filed' = filed
      BY <2>5 DEF CloseMembers, AtStage, library
    <3>4. AllKnown(n)
      BY <3>2, <3>3, KnownByMembers DEF Known, Answered
    <3> QED
      BY <1>1, <3>2, <3>4
  <2>6. CASE Refuse(n)
    <3>1. IsContainer(n) /\ n \in refused' /\ filed' = filed /\ pc'[n] = "done" /\ expanded'[n] = NoOutcome
      BY <2>6, FinishKeeps DEF Refuse, AtStage
    <3>2. AllKnown(n)'
      BY <3>1 DEF AllKnown, Known, Answered, Within
    <3> QED
      BY <1>1, <1>2, <3>1, <3>2
  <2>7. CASE Settle(n) \/ EndAlone(n)
    <3>1. /\ pc[n] \in {"linked", "stages", "committed"} /\ pc'[n] = "done"
          /\ n \in arrived' /\ filed' = filed /\ expanded'[n] = NoOutcome
      BY <2>7, KeyIsSelf, FinishKeeps DEF Settle, EndAlone
    <3>2. MembersKnown(n)'
      BY <1>1, <1>2, <3>1
    <3>3. Known(n)'
      BY <3>1 DEF Known, Answered
    <3>4. AllKnown(n)'
      <4> SUFFICES ASSUME NEW o \in Within(n) PROVE Known(o)'
        BY <3>3 DEF AllKnown
      <4>1. PICK q \in Members(n) : o = q \/ o \in Within(q)
        BY ThroughMembers
      <4> QED
        BY <3>2, <4>1 DEF MembersKnown, AllKnown
    <3> QED
      BY <3>1, <3>2, <3>4
  <2> QED
    BY <2>1, <2>2, <2>3, <2>4, <2>5, <2>6, <2>7 DEF Step
<1> QED
  BY <1>4, <1>5

LEMMA WholesStep == ASSUME HonestInv, NEW n \in Nodes, Step(n) PROVE Wholes'
<1> USE DEF HonestInv
<1> DEFINE Good(m) == /\ final[m] # NoOutcome /\ final[m].failed = {} => Whole(m)
                      /\ expanded[m] # NoOutcome /\ expanded[m].failed = {} => MembersWhole(m)
                      /\ pc[m] \in {"stages", "committed"} /\ inner[m] = {} => MembersWhole(m)
                      /\ pc[m] = "done" /\ outcome[m].failed = {} => Whole(m)
<1>1. \A m \in Nodes : (Whole(m) => Whole(m)') /\ (MembersWhole(m) => MembersWhole(m)')
  BY Kept, WholeStays
<1>2. \A m \in Nodes : Good(m)
  BY DEF Wholes
<1>3. SUFFICES ASSUME NEW m \in Nodes, Apart(m) PROVE Good(m)'
  BY NotApart DEF Wholes
<1>4. CASE m # n
  BY <1>1, <1>2, <1>3, <1>4, OthersKept
<1>5. CASE m = n
  <2> USE <1>3, <1>5
  <2>1. CASE Begin(n)
    <3>1. final' = final /\ expanded' = expanded
      BY <2>1 DEF Begin, journal
    <3>2. \/ pc'[n] = "done" /\ outcome'[n] = final[n] /\ final[n] # NoOutcome
          \/ pc'[n] = Start(n) /\ inner'[n] = expanded[n].failed
      BY <2>1, KeyIsSelf DEF Begin, TypeOK
    <3>3. Start(n) \notin {"committed", "done"} /\ (Start(n) = "stages" => expanded[n] # NoOutcome \/ MembersWhole(n))
      BY KeyIsSelf, OnlyContainers DEF Start, MembersWhole
    <3> QED
      BY <1>1, <1>2, <3>1, <3>2, <3>3
  <2>2. CASE Expand(n)
    BY <1>1, <1>2, <2>2 DEF Expand, journal, TypeOK
  <2>3. CASE Throws(n)
    <3>1. final' = final /\ expanded' = expanded /\ inner' = inner
      BY <2>3 DEF Throws, journal
    <3>2. \/ pc'[n] = "done" /\ outcome'[n].failed = {n}
          \/ pc'[n] = Start(n)
      BY <2>3 DEF Throws, Close, TypeOK
    <3>3. /\ Start(n) \notin {"committed", "done"}
          /\ Start(n) = "stages" => MembersWhole(n) \/ (expanded[n] # NoOutcome /\ IsContainer(n))
      BY KeyIsSelf, OnlyContainers DEF Start, MembersWhole
    <3>4. ASSUME Start(n) = "stages", expanded[n] # NoOutcome, inner[n] = {} PROVE MembersWhole(n)
      <4>1. CASE pc[n] \in {"stages", "committed"}
        BY <1>2, <3>4, <4>1
      <4>2. CASE pc[n] = "linked"
        BY <3>4, <4>2 DEF Start, Linked
      <4>3. CASE pc[n] = "expand"
        BY <3>4, <4>3 DEF AtStage
      <4> QED
        BY <2>3, <4>1, <4>2, <4>3 DEF Throws
    <3> QED
      BY <1>1, <1>2, <3>1, <3>2, <3>3, <3>4
  <2>4. CASE Commit(n)
    <3>1. pc[n] = "stages" /\ pc'[n] = "committed" /\ inner' = inner /\ final' = final /\ expanded' = expanded
      BY <2>4 DEF Commit, journal, TypeOK
    <3> QED
      BY <1>1, <1>2, <3>1
  <2>5. CASE CloseMembers(n)
    <3> DEFINE failed == UNION {outcome[o].failed : o \in Members(n)}
    <3>1. failed = {} => MembersWhole(n)
      <4> SUFFICES ASSUME failed = {}, NEW o \in Members(n) PROVE Whole(o)
        BY DEF MembersWhole
      <4>1. o \in Nodes /\ pc[o] = "done" /\ outcome[o].failed = {}
        BY <2>5, Parts DEF CloseMembers
      <4> QED
        BY <1>2, <4>1
    <3>2. failed = {} => Whole(n)
      <4>1. IsContainer(n)
        BY <2>5 DEF CloseMembers, AtStage
      <4> QED
        BY <3>1, <4>1, WholeByMembers DEF Here, Answered
    <3>3. \/ pc'[n] = "stages" /\ inner'[n] = failed /\ final' = final
             /\ (expanded'[n] = expanded[n] \/ expanded'[n].failed = failed)
          \/ /\ pc'[n] = "done" /\ outcome'[n] = [status |-> "container", failed |-> failed]
             /\ final'[n] = final[n] \/ final'[n] = outcome'[n]
             /\ expanded'[n] \in {expanded[n], NoOutcome}
      <4>1. ~ (Begin(n) \/ Expand(n) \/ Throws(n) \/ Commit(n) \/ Refuse(n) \/ Settle(n) \/ EndAlone(n))
        BY <2>5 DEF CloseMembers, Begin, Expand, Throws, Commit, Refuse, Settle, EndAlone
      <4> QED
        BY <4>1, OwnSteps DEF GoesOn, Says
    <3> HIDE DEF failed
    <3> QED
      BY <1>1, <1>2, <3>1, <3>2, <3>3
  <2>6. CASE Refuse(n)
    <3>1. n \in refused' /\ IsContainer(n) /\ pc'[n] = "done" /\ expanded'[n] = NoOutcome
      BY <2>6, FinishKeeps DEF Refuse, AtStage
    <3>2. Whole(n)'
      BY <3>1 DEF Whole, Here, Answered, Within
    <3> QED
      BY <3>1, <3>2
  <2>7. CASE Settle(n)
    <3>1. /\ pc[n] \in {"stages", "committed"} /\ pc'[n] = "done" /\ n \in arrived'
          /\ final'[n] = [status |-> "settled", failed |-> inner[n]]
          /\ outcome'[n] = [status |-> "settled", failed |-> inner[n]] /\ expanded'[n] = NoOutcome
      BY <2>7, KeyIsSelf, FinishKeeps DEF Settle
    <3>2. inner[n] = {} => Whole(n)'
      <4> SUFFICES ASSUME inner[n] = {}, NEW o \in Within(n) \cup {n} PROVE Here(o)'
        BY DEF Whole
      <4>1. CASE o = n
        BY <3>1, <4>1 DEF Here, Answered
      <4>2. CASE o \in Within(n)
        <5>1. PICK q \in Members(n) : o = q \/ o \in Within(q)
          BY <4>2, ThroughMembers
        <5>2. Whole(q)'
          BY <1>1, <1>2, <3>1, <5>1 DEF MembersWhole
        <5> QED
          BY <5>1, <5>2 DEF Whole
      <4> QED
        BY <4>1, <4>2
    <3> QED
      BY <3>1, <3>2
  <2>8. CASE EndAlone(n)
    <3>1. /\ pc[n] \in {"linked", "stages"} /\ pc'[n] = "done" /\ IsContainer(n)
          /\ final'[n].status = "alone" /\ expanded'[n] = NoOutcome
      BY <2>8, FinishKeeps DEF EndAlone
    <3>2. MembersKnown(n)'
      BY <3>1, Kept, KnownStays DEF Knowns, Grows
    <3>3. ASSUME NEW o \in Within(n) PROVE Here(o)'
      <4>1. PICK q \in Members(n) : o = q \/ o \in Within(q)
        BY ThroughMembers
      <4>2. Known(o)' /\ n \in Inside[o]
        BY <3>2, <4>1 DEF MembersKnown, AllKnown, Within
      <4> QED
        BY <3>1, <4>2 DEF Known, Here
    <3>4. Whole(n)'
      BY <3>1, <3>3 DEF Whole, Here, Answered
    <3> QED
      BY <3>1, <3>4
  <2> QED
    BY <2>1, <2>2, <2>3, <2>4, <2>5, <2>6, <2>7, <2>8 DEF Step
<1> QED
  BY <1>4, <1>5

\* What the rest of the run does: it begins with nothing at work, and ends by the tally.
LEMMA RunStep ==
  ASSUME HonestInv, TypeOK', ClaimRun \/ FinishRun \/ Stop \/ UNCHANGED vars PROVE HonestInv'
<1> USE DEF HonestInv
<1>0. \A m \in Nodes : (AllKnown(m) => AllKnown(m)') /\ (MembersKnown(m) => MembersKnown(m)')
  <2>1. UNCHANGED library
    BY DEF ClaimRun, FinishRun, Stop, vars
  <2> QED
    BY <2>1, KnownStays DEF library
<1>1. CASE ClaimRun
  <2> USE <1>1 DEF ClaimRun, library
  <2>1. \/ final' = final /\ expanded' = expanded
        \/ final' = [m \in Nodes |-> NoOutcome] /\ expanded' = [m \in Nodes |-> NoOutcome]
    OBVIOUS
  <2>2. AtStage' /\ Linked' /\ Noted' /\ Ended' /\ Own'
    BY <2>1, Parts DEF AtStage, Linked, Noted, Ended, Own, NoOutcome
  <2>3. Knowns'
    BY <1>0, <2>1 DEF Knowns
  <2>4. Wholes'
    <3>1. CASE final' = final /\ expanded' = expanded
      <4>1. \A m \in Nodes : (Whole(m) => Whole(m)') /\ (MembersWhole(m) => MembersWhole(m)')
        BY <3>1, WholeStays DEF Grows
      <4> QED
        BY <3>1, <4>1 DEF Wholes
    <3>2. CASE final' = [m \in Nodes |-> NoOutcome] /\ expanded' = [m \in Nodes |-> NoOutcome]
      BY <3>2 DEF Wholes
    <3> QED
      BY <2>1, <3>1, <3>2
  <2> QED
    BY <2>2, <2>3, <2>4
<1>2. CASE FinishRun \/ Stop \/ UNCHANGED vars
  <2>1. UNCHANGED <<pc, outcome, inner, final, expanded, arrived, filed, refused, givenUp>>
    BY <1>2 DEF FinishRun, Stop, vars, memory, journal, library
  <2>2. \A m \in Nodes : (Whole(m) => Whole(m)') /\ (MembersWhole(m) => MembersWhole(m)')
    BY <2>1, WholeStays DEF Grows
  <2>3. AtStage' /\ Linked' /\ Wholes' /\ Noted' /\ Own'
    BY <2>1, <2>2 DEF AtStage, Linked, Wholes, Noted, Own
  <2>4. Knowns'
    BY <1>0, <2>1 DEF Knowns
  <2>5. Ended'
    <3>1. CASE FinishRun
      BY <2>2, <3>1, Tree DEF FinishRun, Ended, Wholes
    <3>2. CASE Stop \/ UNCHANGED vars
      BY <2>2, <3>2, Tree DEF Stop, vars, Ended
    <3> QED
      BY <1>2, <3>1, <3>2
  <2> QED
    BY <2>3, <2>4, <2>5
<1> QED
  BY <1>1, <1>2

\* ingestWithRetries, expandArchive and tally of pipeline.ts: a run that ended without a failure
\* has every file of the tree in the library or a question about an archive around it, and a
\* container is not checkpointed over a file or a message of its own that is not finished,
\* wherever it stops and fails, for the files no archive around which has an entry of the name
\* that extractZip gives another.
THEOREM ArchivesAreHonestHolds == Spec => []ArchivesAreHonest
<1>1. Init => HonestInv
  <2> SUFFICES ASSUME Init PROVE HonestInv
    OBVIOUS
  <2> USE DEF Init
  <2>1. AtStage /\ Linked /\ Noted /\ Own /\ Ended
    BY Parts DEF AtStage, Linked, Noted, Own, Ended, NoOutcome
  <2>2. Wholes /\ Knowns
    BY DEF Wholes, Knowns
  <2> QED
    BY <2>1, <2>2, ArchiveTypesInit DEF HonestInv
<1>2. HonestInv /\ [Next]_vars => HonestInv'
  <2> SUFFICES ASSUME HonestInv, [Next]_vars PROVE HonestInv'
    OBVIOUS
  <2>1. TypeOK'
    BY ArchiveTypesStep DEF HonestInv
  <2>2. ASSUME NEW n \in Nodes, Step(n) PROVE HonestInv'
    <3>1. Ended'
      BY <2>2, Kept DEF HonestInv, Ended
    <3> QED
      BY <2>1, <2>2, <3>1, AtStageStep, LinkedStep, KnownsStep, NotedStep, OwnStep, WholesStep DEF HonestInv
  <2> QED
    BY <2>1, <2>2, RunStep DEF Next
<1>3. HonestInv => ArchivesAreHonest
  <2> SUFFICES ASSUME HonestInv PROVE SucceededMeansWhole /\ OwnFilesFinished
    BY DEF ArchivesAreHonest
  <2> USE DEF HonestInv
  <2>1. SucceededMeansWhole
    <3> SUFFICES ASSUME job \in {"waiting_review", "succeeded"}, NEW n \in Nodes, Apart(n)
                 PROVE  \/ n \in arrived \/ IsContainer(n) \/ Inside[n] \cap refused # {} \/ Unnamed(n)
      BY DEF SucceededMeansWhole
    <3>1. n \in Within(Root) \cup {Root}
      BY Tree DEF Within
    <3>2. Here(n)
      BY <3>1 DEF Ended, Whole
    <3>3. \A m \in Inside[n] : Key[m] = m
      BY ApartInside, KeyIsSelf
    <3> QED
      BY <3>2, <3>3 DEF Here, Answered, Hopeless, Unnamed
  <2>2. OwnFilesFinished
    <3> SUFFICES ASSUME NEW n \in Nodes, final[Key[n]].status = "container" \/ expanded[Key[n]] # NoOutcome,
                        NEW m \in Members(n), Apart(m), Kind[m] # "zip"
                 PROVE  final[Key[m]] # NoOutcome
      BY DEF OwnFilesFinished
    <3>1. m \in Nodes /\ Apart(n)
      BY Parts, MemberInside, ApartInside
    <3> QED
      BY <3>1, KeyIsSelf DEF Own
  <2> QED
    BY <2>1, <2>2
<1> QED
  BY <1>1, <1>2, <1>3, PTL DEF Spec
=============================================================================

-------------------------- MODULE DigestGateProofs --------------------------
(***************************************************************************)
(* Theorems about DigestGate, for any number of callers and keys, any      *)
(* archive structure and any depth limit.                                  *)
(***************************************************************************)
EXTENDS DigestGate, SequenceTheorems, FiniteSetTheorems, TLAPS

\* What a caller that waits knows of the others chained on its key: whoever is inside is
\* ahead of it, of two waiters one is ahead of the other, and it is not inside itself.
WaitersAreBehind ==
  \A c, d \in Callers : want[d] # NoKey =>
    /\ want[d] \notin Held(d)
    /\ (c # d /\ want[d] \in Held(c)) => c \in ahead[d]
    /\ (c # d /\ want[c] = want[d]) => (c \in ahead[d] \/ d \in ahead[c])

\* The chain knows the order of arrival: whoever waited for the digest before this caller
\* did, and still does, waits for it too and is ahead of it.
ChainKeepsOrder ==
  \A c, d \in Callers : (want[d] # NoKey /\ c \in earlier[d]) =>
    want[c] = want[d] /\ c \in ahead[d]

\* The inductive invariant: mutual exclusion and the order of arrival follow from what the
\* waiters have ahead of them, and that survives a newcomer only because the tail holds
\* everybody chained on the key.
Inv == /\ TypeOK /\ MutualExclusion /\ CountMatchesChain
       /\ WaitersAreBehind /\ ChainKeepsOrder

-----------------------------------------------------------------------------
\* Marking a member as started keeps the path's keys.
LEMMA StartedKeepsKeys ==
  ASSUME TypeOK, NEW c \in Callers, NEW k \in Keys
  PROVE  /\ Started(c, k) \in Seq(Frame)
         /\ Len(Started(c, k)) = Len(path[c])
         /\ \A i \in 1 .. Len(path[c]) : Started(c, k)[i].key = path[c][i].key
<1>1. path[c] \in Seq(Frame)
  BY DEF TypeOK
<1>2. CASE path[c] = <<>>
  BY <1>1, <1>2 DEF Started
<1>3. CASE path[c] # <<>>
  <2> DEFINE n == Len(path[c])
             old == path[c][n]
             new == [old EXCEPT !.todo = old.todo \ {k}]
  <2>1. n \in 1 .. Len(path[c])
    BY <1>1, <1>3
  <2>2. old \in Frame
    BY <1>1, <2>1
  <2>3. new \in Frame /\ new.key = old.key
    BY <2>2 DEF Frame
  <2>4. Started(c, k) = [path[c] EXCEPT ![n] = new]
    BY <1>3 DEF Started
  <2>5. [path[c] EXCEPT ![n] = new] \in Seq(Frame)
    BY <1>1, <2>1, <2>3, ExceptSeq
  <2> QED
    BY <1>1, <2>1, <2>3, <2>4, <2>5
<1> QED
  BY <1>2, <1>3

\* Going into a candidate adds its digest to the held ones.
LEMMA DescendHolds ==
  ASSUME TypeOK, NEW c \in Callers, NEW k \in Keys, path' = [path EXCEPT ![c] = Descend(c, k)]
  PROVE  /\ path' \in [Callers -> Seq(Frame)]
         /\ \A d \in Callers : Held(d)' = IF d = c THEN Held(c) \cup {k} ELSE Held(d)
<1> DEFINE s == Started(c, k)
           f == [key |-> k, todo |-> Members(c, k)]
<1>1. /\ path \in [Callers -> Seq(Frame)]
      /\ s \in Seq(Frame) /\ Len(s) = Len(path[c])
      /\ \A i \in 1 .. Len(path[c]) : s[i].key = path[c][i].key
  BY StartedKeepsKeys DEF TypeOK
<1>2. f \in Frame /\ f.key = k
  BY ContainsType DEF Frame, Members
<1>3. path'[c] = Append(s, f) /\ path' \in [Callers -> Seq(Frame)]
  BY <1>1, <1>2 DEF Descend
<1>4. ASSUME NEW d \in Callers, d # c PROVE Held(d)' = Held(d)
  BY <1>1, <1>4 DEF Held
<1>5. Held(c)' = Held(c) \cup {k}
  <2> HIDE DEF s, f
  <2>1. Len(path'[c]) = Len(path[c]) + 1 /\ Len(path[c]) \in Nat
    BY <1>1, <1>2, <1>3
  <2>2. path'[c][Len(path[c]) + 1].key = k
    BY <1>1, <1>2, <1>3
  <2>3. \A i \in 1 .. Len(path[c]) : path'[c][i].key = path[c][i].key
    BY <1>1, <1>2, <1>3
  <2> QED
    BY <2>1, <2>2, <2>3 DEF Held
<1> QED
  BY <1>3, <1>4, <1>5

\* Queueing for a digest holds nothing yet.
LEMMA JoinKeepsHeld ==
  ASSUME TypeOK, NEW c \in Callers, NEW k \in Keys, Join(c, k)
  PROVE  \A d \in Callers : Held(d)' = Held(d)
<1>1. ASSUME NEW d \in Callers, d # c PROVE Held(d)' = Held(d)
  BY <1>1 DEF Join, TypeOK, Held
<1>2. Held(c)' = Held(c)
  <2>1. path'[c] = Started(c, k)
    BY DEF Join, TypeOK
  <2> QED
    BY <2>1, StartedKeepsKeys DEF Held
<1> QED
  BY <1>1, <1>2

\* Leaving a candidate drops its digest, unless an ancestor holds it too.
LEMMA FrontReleases ==
  ASSUME TypeOK, NEW c \in Callers, path[c] # <<>>, path' = [path EXCEPT ![c] = Front(@)]
  PROVE  /\ path' \in [Callers -> Seq(Frame)]
         /\ Top(c).key \in Keys /\ Top(c).key \in Held(c)
         /\ \A d \in Callers : d # c => Held(d)' = Held(d)
         /\ Held(c)' = IF \E i \in 1 .. Len(path[c]) - 1 : path[c][i].key = Top(c).key
                         THEN Held(c) ELSE Held(c) \ {Top(c).key}
<1>1. path \in [Callers -> Seq(Frame)] /\ path[c] \in Seq(Frame) /\ Len(path[c]) \in Nat \ {0}
  BY DEF TypeOK
<1>2. /\ Front(path[c]) \in Seq(Frame)
      /\ Len(Front(path[c])) = Len(path[c]) - 1
      /\ \A i \in 1 .. Len(path[c]) - 1 : Front(path[c])[i] = path[c][i]
  <2>1. 1 \in 1 .. Len(path[c]) + 1 /\ Len(path[c]) - 1 \in (1 - 1) .. Len(path[c])
    BY <1>1
  <2>2. \A i \in 1 .. Len(path[c]) - 1 : path[c][i] \in Frame
    BY <1>1
  <2>3. PICK n : n = Len(path[c]) - 1
    OBVIOUS
  <2>4. n \in Nat /\ n \in Int /\ Front(path[c]) = SubSeq(path[c], 1, n)
    BY <1>1, <2>3 DEF Front
  <2>5. /\ SubSeq(path[c], 1, n) \in Seq(Frame)
        /\ Len(SubSeq(path[c], 1, n)) = IF 1 <= n THEN n - 1 + 1 ELSE 0
        /\ \A i \in 1 .. n - 1 + 1 : SubSeq(path[c], 1, n)[i] = path[c][1 + i - 1]
    BY <1>1, <2>1, <2>2, <2>3, <2>4, SubSeqProperties
  <2>6. \A i \in 1 .. n : 1 + i - 1 = i
    OBVIOUS
  <2> QED
    BY <2>3, <2>4, <2>5, <2>6
<1>3. path' \in [Callers -> Seq(Frame)] /\ path'[c] = Front(path[c])
  BY <1>1, <1>2
<1>4. Top(c) \in Frame /\ Top(c) = path[c][Len(path[c])]
  BY <1>1 DEF Top
<1>5. Top(c).key \in Keys /\ Top(c).key \in Held(c)
  BY <1>1, <1>4 DEF Held, Frame
<1>6. \A d \in Callers : d # c => Held(d)' = Held(d)
  BY <1>1 DEF Held
<1>7. Held(c)' = {path[c][i].key : i \in 1 .. Len(path[c]) - 1}
  BY <1>2, <1>3 DEF Held
<1>8. Held(c) = {path[c][i].key : i \in 1 .. Len(path[c]) - 1} \cup {Top(c).key}
  BY <1>1, <1>4 DEF Held
<1> QED
  BY <1>3, <1>5, <1>6, <1>7, <1>8

-----------------------------------------------------------------------------
\* Who is chained on k: the callers inside it and the callers waiting for it.
Chained(k) == {c \in Callers : want[c] = k \/ k \in Held(c)}

\* Giving up a place on k or the lease on k: c leaves the chain and nobody else does.
LEMMA ResolveLeavesChain ==
  ASSUME TypeOK, CountMatchesChain, NEW c \in Callers, NEW k \in Keys, c \in tail[k], Resolve(c, k)
  PROVE  /\ ahead' \in [Callers -> SUBSET Callers]
         /\ \A d \in Callers : ahead'[d] = IF want[d] = k THEN ahead[d] \ {c} ELSE ahead[d]
         /\ tail' = [tail EXCEPT ![k] = @ \ {c}] /\ tail' \in [Keys -> SUBSET Callers]
         /\ holders' = [holders EXCEPT ![k] = @ - 1] /\ holders' \in [Keys -> Nat]
         /\ \A q \in Keys : holders'[q] = Cardinality(tail'[q])
<1>1. IsFiniteSet(tail[k])
  BY CallersFinite, FS_Subset DEF TypeOK
<1>2. holders[k] = Cardinality(tail[k]) /\ holders[k] \in Nat
  BY DEF CountMatchesChain, TypeOK
<1>3. Cardinality(tail[k] \ {c}) = holders[k] - 1 /\ IsFiniteSet(tail[k] \ {c})
  BY <1>1, <1>2, FS_RemoveElement
<1>4. Cardinality(tail[k] \ {c}) \in Nat
  BY <1>3, FS_CardinalityType
<1>5. holders[k] - 1 <= 0 => tail[k] \ {c} = {}
  BY <1>2, <1>3, <1>4, FS_EmptySet
<1>6. tail' = [tail EXCEPT ![k] = @ \ {c}]
  BY <1>5 DEF Resolve
<1> QED
  BY <1>2, <1>3, <1>4, <1>6 DEF Resolve, TypeOK, CountMatchesChain

LEMMA InitInv == Init => Inv
<1> SUFFICES ASSUME Init PROVE Inv
  OBVIOUS
<1>1. \A c \in Callers : Held(c) = {}
  BY DEF Init, Held
<1>2. TypeOK
  BY DEF Init, TypeOK
<1>3. CountMatchesChain
  BY <1>1, NullValues, FS_EmptySet DEF Init, CountMatchesChain
<1> QED
  BY <1>1, <1>2, <1>3 DEF Inv, Init, MutualExclusion, WaitersAreBehind, ChainKeepsOrder

LEMMA JoinInv == ASSUME Inv, NEW c \in Callers, NEW k \in Keys, Join(c, k) PROVE Inv'
<1>1. /\ TypeOK /\ MutualExclusion /\ CountMatchesChain /\ WaitersAreBehind /\ ChainKeepsOrder
      /\ want[c] = NoKey /\ k \notin Held(c)
  BY DEF Inv, Join, MayStart
<1>2. path' \in [Callers -> Seq(Frame)]
  <2>1. Started(c, k) \in Seq(Frame)
    BY <1>1, StartedKeepsKeys
  <2>2. path \in [Callers -> Seq(Frame)] /\ path' = [path EXCEPT ![c] = Started(c, k)]
    BY <1>1 DEF Join, TypeOK
  <2> QED
    BY <2>1, <2>2
<1>3. \A d \in Callers : Held(d)' = Held(d)
  BY <1>1, JoinKeepsHeld
<1>4. c \notin tail[k] /\ IsFiniteSet(tail[k]) /\ holders[k] = Cardinality(tail[k])
  BY <1>1, CallersFinite, NullValues, FS_Subset DEF TypeOK, CountMatchesChain
<1>5. TypeOK'
  BY <1>1, <1>2 DEF Join, Arrives, TypeOK
<1>6. CountMatchesChain'
  <2>1. Cardinality(tail[k] \cup {c}) = holders[k] + 1
    BY <1>4, FS_AddElement
  <2> QED
    BY <1>1, <1>3, <2>1, NullValues DEF Join, TypeOK, CountMatchesChain
<1>7. MutualExclusion'
  BY <1>1, <1>3 DEF MutualExclusion
<1>8. WaitersAreBehind'
  BY <1>1, <1>3 DEF Join, TypeOK, CountMatchesChain, WaitersAreBehind
<1>9. ChainKeepsOrder'
  <2>1. earlier' = [earlier EXCEPT ![c] = {d \in Callers : want[d] = k}]
    BY DEF Join, Arrives
  <2>2. \A d \in Callers : want[d] = k => d # c /\ d \in tail[k]
    BY <1>1, NullValues DEF CountMatchesChain
  <2> QED
    BY <1>1, <2>1, <2>2 DEF Join, TypeOK, ChainKeepsOrder
<1> QED
  BY <1>5, <1>6, <1>7, <1>8, <1>9 DEF Inv

LEMMA EnterHeldInv == ASSUME Inv, NEW c \in Callers, NEW k \in Keys, EnterHeld(c, k) PROVE Inv'
<1>1. /\ TypeOK /\ k \in Held(c)
      /\ path' = [path EXCEPT ![c] = Descend(c, k)]
      /\ UNCHANGED <<want, ahead, tail, holders, earlier>>
  BY DEF Inv, EnterHeld
<1>2. /\ path' \in [Callers -> Seq(Frame)]
      /\ \A d \in Callers : Held(d)' = IF d = c THEN Held(c) \cup {k} ELSE Held(d)
  BY <1>1, DescendHolds
<1>3. Held(c) \cup {k} = Held(c)
  BY <1>1
<1>4. \A d \in Callers : Held(d)' = Held(d)
  BY <1>2, <1>3
<1> QED
  BY <1>1, <1>2, <1>4
     DEF Inv, TypeOK, MutualExclusion, CountMatchesChain, WaitersAreBehind, ChainKeepsOrder

\* Getting the lease or giving up leaves the order of those that go on waiting as it was.
LEMMA OrderOfTheRest ==
  ASSUME TypeOK, ChainKeepsOrder, NEW c \in Callers, want[c] # NoKey, WaitsNoMore(c),
         want' = [want EXCEPT ![c] = NoKey],
         \A d \in Callers : ahead[d] \ {c} \subseteq ahead'[d]
  PROVE  earlier' \in [Callers -> SUBSET Callers] /\ ChainKeepsOrder'
<1>1. earlier' \in [Callers -> SUBSET Callers]
  BY DEF TypeOK, WaitsNoMore
<1>2. ASSUME NEW e \in Callers, NEW d \in Callers, want'[d] # NoKey, e \in earlier'[d]
      PROVE  want'[e] = want'[d] /\ e \in ahead'[d]
  <2>1. d # c /\ e # c /\ e \in earlier[d] /\ want[d] # NoKey
    BY <1>2 DEF TypeOK, WaitsNoMore
  <2>2. want[e] = want[d] /\ e \in ahead[d]
    BY <2>1 DEF ChainKeepsOrder
  <2> QED
    BY <2>1, <2>2 DEF TypeOK
<1> QED
  BY <1>1, <1>2 DEF ChainKeepsOrder

LEMMA EnterInv == ASSUME Inv, NEW c \in Callers, Enter(c) PROVE Inv'
<1> DEFINE k == want[c]
<1>1. /\ TypeOK /\ MutualExclusion /\ CountMatchesChain /\ WaitersAreBehind /\ ChainKeepsOrder
      /\ k \in Keys /\ k # NoKey /\ ahead[c] = {}
      /\ path' = [path EXCEPT ![c] = Descend(c, k)]
      /\ want' = [want EXCEPT ![c] = NoKey]
      /\ WaitsNoMore(c)
      /\ UNCHANGED <<ahead, tail, holders>>
  BY DEF Inv, Enter, TypeOK
<1>2. /\ path' \in [Callers -> Seq(Frame)]
      /\ \A d \in Callers : Held(d)' = IF d = c THEN Held(c) \cup {k} ELSE Held(d)
  BY <1>1, DescendHolds
<1>3. TypeOK' /\ ChainKeepsOrder'
  <2>1. earlier' \in [Callers -> SUBSET Callers] /\ ChainKeepsOrder'
    BY <1>1, OrderOfTheRest
  <2> QED
    BY <1>1, <1>2, <2>1 DEF TypeOK
<1>4. \A d \in Callers : d # c => k \notin Held(d)
  BY <1>1 DEF WaitersAreBehind
<1>5. MutualExclusion'
  BY <1>1, <1>2, <1>4 DEF MutualExclusion
<1>6. CountMatchesChain'
  BY <1>1, <1>2, NullValues DEF TypeOK, CountMatchesChain
<1>7. WaitersAreBehind'
  BY <1>1, <1>2, NullValues DEF TypeOK, WaitersAreBehind
<1> QED
  BY <1>3, <1>5, <1>6, <1>7 DEF Inv

LEMMA TimeOutInv == ASSUME Inv, NEW c \in Callers, TimeOut(c) PROVE Inv'
<1> DEFINE k == want[c]
<1>1. /\ TypeOK /\ MutualExclusion /\ CountMatchesChain /\ WaitersAreBehind /\ ChainKeepsOrder
      /\ k \in Keys /\ k # NoKey /\ c \in tail[k]
      /\ Resolve(c, k)
      /\ want' = [want EXCEPT ![c] = NoKey]
      /\ path' = path /\ WaitsNoMore(c)
  BY DEF Inv, TimeOut, TypeOK, CountMatchesChain
<1>2. \A d \in Callers : Held(d)' = Held(d)
  BY <1>1 DEF Held
<1>3. /\ ahead' \in [Callers -> SUBSET Callers]
      /\ \A d \in Callers : ahead'[d] = IF want[d] = k THEN ahead[d] \ {c} ELSE ahead[d]
      /\ tail' = [tail EXCEPT ![k] = @ \ {c}] /\ tail' \in [Keys -> SUBSET Callers]
      /\ holders' \in [Keys -> Nat]
      /\ \A q \in Keys : holders'[q] = Cardinality(tail'[q])
  BY <1>1, ResolveLeavesChain
<1>4. TypeOK' /\ ChainKeepsOrder'
  <2>1. \A d \in Callers : ahead[d] \ {c} \subseteq ahead'[d]
    BY <1>3
  <2>2. earlier' \in [Callers -> SUBSET Callers] /\ ChainKeepsOrder'
    BY <1>1, <2>1, OrderOfTheRest
  <2> QED
    BY <1>1, <1>3, <2>2 DEF TypeOK
<1>5. MutualExclusion'
  BY <1>1, <1>2 DEF MutualExclusion
<1>6. CountMatchesChain'
  <2>1. ASSUME NEW q \in Keys, NEW d \in Callers
        PROVE  d \in tail'[q] <=> (want'[d] = q \/ q \in Held(d)')
    BY <1>1, <1>2, <1>3, NullValues DEF TypeOK, CountMatchesChain, WaitersAreBehind
  <2> QED
    BY <1>1, <1>2, <1>3, <1>4, <2>1 DEF TypeOK, CountMatchesChain
<1>7. WaitersAreBehind'
  <2>1. \A d \in Callers : want'[d] # NoKey => want[d] # NoKey /\ want'[d] = want[d] /\ d # c
    BY <1>1, <1>2, <1>3 DEF TypeOK
  <2>2. \A e, d \in Callers : e # c /\ e \in ahead[d] => e \in ahead'[d]
    BY <1>1, <1>2, <1>3
  <2>3. \A d \in Callers : want'[d] # NoKey => want'[d] \notin Held(d)'
    BY <1>1, <1>2, <1>3, <2>1 DEF WaitersAreBehind
  <2>4. \A e, d \in Callers : (want'[d] # NoKey /\ e # d /\ want'[d] \in Held(e)')
          => e \in ahead'[d]
    BY <1>1, <1>2, <1>3, <2>1, <2>2 DEF WaitersAreBehind
  <2>5. \A e, d \in Callers : (want'[d] # NoKey /\ e # d /\ want'[e] = want'[d])
          => (e \in ahead'[d] \/ d \in ahead'[e])
    BY <1>1, <1>2, <1>3, <2>1, <2>2 DEF WaitersAreBehind
  <2> QED
    BY <2>3, <2>4, <2>5 DEF WaitersAreBehind
<1> QED
  BY <1>4, <1>5, <1>6, <1>7 DEF Inv

LEMMA LeaveInv == ASSUME Inv, NEW c \in Callers, Leave(c) PROVE Inv'
<1> DEFINE Nested == \E i \in 1 .. Len(path[c]) - 1 : path[c][i].key = Top(c).key
<1>1. /\ TypeOK /\ MutualExclusion /\ CountMatchesChain /\ WaitersAreBehind /\ ChainKeepsOrder
      /\ want[c] = NoKey /\ path[c] # <<>>
      /\ path' = [path EXCEPT ![c] = Front(@)]
      /\ want' = want /\ earlier' = earlier
      /\ IF Nested THEN UNCHANGED <<ahead, tail, holders>> ELSE Resolve(c, Top(c).key)
  BY DEF Inv, Leave
<1>2. /\ path' \in [Callers -> Seq(Frame)]
      /\ Top(c).key \in Keys /\ Top(c).key \in Held(c)
      /\ \A d \in Callers : d # c => Held(d)' = Held(d)
      /\ Held(c)' = IF Nested THEN Held(c) ELSE Held(c) \ {Top(c).key}
  BY <1>1, FrontReleases
<1>3. CASE Nested
  <2>1. /\ \A d \in Callers : Held(d)' = Held(d)
        /\ UNCHANGED <<want, ahead, tail, holders>>
    BY <1>1, <1>2, <1>3
  <2>2. path' \in [Callers -> Seq(Frame)]
    BY <1>2
  <2> QED
    BY <1>1, <2>1, <2>2
       DEF Inv, TypeOK, MutualExclusion, CountMatchesChain, WaitersAreBehind, ChainKeepsOrder
<1>4. CASE ~Nested
  <2>1. PICK k \in Keys : k = Top(c).key
    BY <1>2
  <2>2. Resolve(c, k) /\ k \in Held(c) /\ Held(c)' = Held(c) \ {k}
    BY <1>1, <1>2, <1>4, <2>1
  <2>3. c \in tail[k]
    BY <1>1, <2>2 DEF CountMatchesChain
  <2>4. /\ ahead' \in [Callers -> SUBSET Callers]
        /\ \A d \in Callers : ahead'[d] = IF want[d] = k THEN ahead[d] \ {c} ELSE ahead[d]
        /\ tail' = [tail EXCEPT ![k] = @ \ {c}] /\ tail' \in [Keys -> SUBSET Callers]
        /\ holders' \in [Keys -> Nat]
        /\ \A q \in Keys : holders'[q] = Cardinality(tail'[q])
    <3>1. TypeOK /\ CountMatchesChain
      BY <1>1
    <3>2. Resolve(c, k)
      BY <2>2
    <3> QED
      BY <2>3, <3>1, <3>2, ResolveLeavesChain
  <2>5. \A d \in Callers : Held(d)' = IF d = c THEN Held(c) \ {k} ELSE Held(d)
    BY <1>2, <2>2
  <2>6. /\ TypeOK /\ MutualExclusion /\ CountMatchesChain /\ WaitersAreBehind
        /\ ChainKeepsOrder /\ earlier' = earlier
        /\ path' \in [Callers -> Seq(Frame)] /\ want' = want /\ want[c] = NoKey
    BY <1>1, <1>2
  <2>7. TypeOK'
    BY <2>4, <2>6 DEF TypeOK
  <2>8. MutualExclusion'
    BY <2>5, <2>6 DEF MutualExclusion
  <2>9. CountMatchesChain'
    <3>1. ASSUME NEW q \in Keys, NEW d \in Callers
          PROVE  d \in tail'[q] <=> (want'[d] = q \/ q \in Held(d)')
      BY <2>4, <2>5, <2>6, NullValues DEF TypeOK, CountMatchesChain, WaitersAreBehind
    <3> QED
      BY <2>4, <2>5, <2>6, <2>7, <3>1 DEF TypeOK, CountMatchesChain
  <2>10. WaitersAreBehind'
    <3>1. \A d \in Callers : want'[d] # NoKey => want[d] # NoKey /\ want'[d] = want[d] /\ d # c
      BY <2>4, <2>5, <2>6 DEF TypeOK
    <3>2. \A e, d \in Callers : e # c /\ e \in ahead[d] => e \in ahead'[d]
      BY <2>4, <2>5, <2>6
    <3>3. \A d \in Callers : want'[d] # NoKey => want'[d] \notin Held(d)'
      BY <2>4, <2>5, <2>6, <3>1 DEF WaitersAreBehind
    <3>4. \A e, d \in Callers : (want'[d] # NoKey /\ e # d /\ want'[d] \in Held(e)')
            => e \in ahead'[d]
      <4>1. \A e, d \in Callers : want[d] \in Held(e)' =>
              /\ want[d] \in Held(e)
              /\ e = c => want[d] # k
        BY <2>5
      <4>2. \A d \in Callers : want[d] # k => ahead'[d] = ahead[d]
        BY <2>4
      <4> QED
        BY <2>6, <3>1, <3>2, <4>1, <4>2 DEF WaitersAreBehind
    <3>5. \A e, d \in Callers : (want'[d] # NoKey /\ e # d /\ want'[e] = want'[d])
            => (e \in ahead'[d] \/ d \in ahead'[e])
      BY <2>4, <2>5, <2>6, <3>1, <3>2 DEF WaitersAreBehind
    <3> QED
      BY <3>3, <3>4, <3>5 DEF WaitersAreBehind
  <2>11. ChainKeepsOrder'
    <3>1. \A e, d \in Callers : (want[d] # NoKey /\ e \in earlier[d]) =>
            want[e] = want[d] /\ e \in ahead[d] /\ e # c
      BY <2>6 DEF ChainKeepsOrder
    <3>2. \A e, d \in Callers : e # c /\ e \in ahead[d] => e \in ahead'[d]
      BY <2>4
    <3> QED
      BY <2>6, <3>1, <3>2 DEF ChainKeepsOrder
  <2> QED
    BY <2>7, <2>8, <2>9, <2>10, <2>11 DEF Inv
<1> QED
  BY <1>3, <1>4

LEMMA StepInv == Inv /\ [Next]_vars => Inv'
<1> SUFFICES ASSUME Inv, [Next]_vars PROVE Inv'
  OBVIOUS
<1>1. ASSUME NEW c \in Callers, NEW k \in Keys, Join(c, k) PROVE Inv'
  BY <1>1, JoinInv
<1>2. ASSUME NEW c \in Callers, NEW k \in Keys, EnterHeld(c, k) PROVE Inv'
  BY <1>2, EnterHeldInv
<1>3. ASSUME NEW c \in Callers, Enter(c) PROVE Inv'
  BY <1>3, EnterInv
<1>4. ASSUME NEW c \in Callers, TimeOut(c) PROVE Inv'
  BY <1>4, TimeOutInv
<1>5. ASSUME NEW c \in Callers, Leave(c) PROVE Inv'
  BY <1>5, LeaveInv
<1>6. CASE UNCHANGED vars
  <2>1. \A c \in Callers : Held(c)' = Held(c)
    BY <1>6 DEF vars, Held
  <2> QED
    BY <1>6, <2>1
       DEF vars, Inv, TypeOK, MutualExclusion, CountMatchesChain, WaitersAreBehind, ChainKeepsOrder
<1> QED
  BY <1>1, <1>2, <1>3, <1>4, <1>5, <1>6 DEF Next, Step

\* Every reachable state of the gate satisfies the inductive invariant.
THEOREM InvHolds == Spec => []Inv
BY InitInv, StepInv, PTL DEF Spec

\* Two lines of descent are never inside the same bytes, for any number of them, any
\* nesting of archives and any waits that time out.
THEOREM ExclusionHolds == Spec => []MutualExclusion
<1>1. Inv => MutualExclusion
  BY DEF Inv
<1> QED
  BY <1>1, InvHolds, PTL

\* The counter beside the chain is exact, so a key is forgotten when and only when the
\* last holder or waiter has gone.
THEOREM CountHolds == Spec => []CountMatchesChain
<1>1. Inv => CountMatchesChain
  BY DEF Inv
<1> QED
  BY <1>1, InvHolds, PTL

\* The gate's variables keep their types; in particular no counter goes below zero.
THEOREM TypesHold == Spec => []TypeOK
<1>1. Inv => TypeOK
  BY DEF Inv
<1> QED
  BY <1>1, InvHolds, PTL

\* Waiters are served in the order in which they came: who gets the lease has everybody
\* that came before it and still waits ahead of it in the chain, and nobody is.
THEOREM ArrivalOrderHolds == Spec => ArrivalOrder
<1>1. ASSUME Inv, [Next]_vars, NEW c \in Callers, want[c] # NoKey, want[c] \in Held(c)'
      PROVE  earlier[c] = {}
  <2>1. TypeOK /\ want[c] \in Keys /\ want[c] \notin Held(c)
    BY <1>1 DEF Inv, TypeOK, WaitersAreBehind
  <2>2. path'[c] # path[c]
    BY <2>1, <1>1 DEF Held
  <2>3. PICK e \in Callers : Step(e)
    BY <1>1, <2>2 DEF Next, vars
  <2>4. e = c
    <3>1. path' = path \/ \E s : path' = [path EXCEPT ![e] = s]
      BY <2>3 DEF Step, Join, EnterHeld, Enter, TimeOut, Leave
    <3> QED
      BY <2>1, <2>2, <3>1 DEF TypeOK
  <2>5. Enter(c)
    BY <1>1, <2>2, <2>3, <2>4 DEF Step, Join, EnterHeld, TimeOut, Leave, MayStart
  <2>6. earlier[c] \subseteq ahead[c]
    BY <1>1 DEF Inv, TypeOK, ChainKeepsOrder
  <2> QED
    BY <2>5, <2>6 DEF Enter
<1>2. Inv /\ [Next]_vars =>
        [\A c \in Callers : (want[c] # NoKey /\ want[c] \in Held(c)') => earlier[c] = {}]_vars
  BY <1>1
<1> QED
  BY <1>2, InvHolds, PTL DEF Spec, ArrivalOrder

-----------------------------------------------------------------------------
\* What the refinement mapping says while mutual exclusion holds.
OwnersAreInside ==
  /\ owner \in [Keys -> Callers \cup {Nobody}]
  /\ \A k \in Keys, c \in Callers : owner[k] = c <=> k \in Held(c)

LEMMA OwnersInside == Inv => OwnersAreInside
<1> SUFFICES ASSUME Inv, NEW k \in Keys
             PROVE  /\ owner[k] \in Callers \cup {Nobody}
                    /\ \A c \in Callers : owner[k] = c <=> k \in Held(c)
  BY DEF OwnersAreInside, owner
<1>1. CASE \E c \in Callers : k \in Held(c)
  <2>1. owner[k] \in Callers /\ k \in Held(owner[k])
    BY <1>1 DEF owner
  <2>2. \A c \in Callers : k \in Held(c) => c = owner[k]
    BY <2>1 DEF Inv, MutualExclusion
  <2> QED
    BY <2>1, <2>2
<1>2. CASE ~ \E c \in Callers : k \in Held(c)
  BY <1>2, NullValues DEF owner
<1> QED
  BY <1>1, <1>2

\* The three things a step of the gate can do to the owners.
LEMMA OwnersKept ==
  ASSUME OwnersAreInside, OwnersAreInside', \A d \in Callers : Held(d)' = Held(d)
  PROVE  owner' = owner
<1>1. \A k \in Keys, d \in Callers : owner'[k] = d <=> owner[k] = d
  BY DEF OwnersAreInside
<1>2. \A k \in Keys : owner'[k] = owner[k]
  BY <1>1 DEF OwnersAreInside
<1> QED
  BY <1>2 DEF OwnersAreInside

LEMMA OwnerTakes ==
  ASSUME OwnersAreInside, OwnersAreInside', NEW c \in Callers, NEW k \in Keys,
         \A d \in Callers : k \notin Held(d),
         \A d \in Callers : Held(d)' = IF d = c THEN Held(c) \cup {k} ELSE Held(d)
  PROVE  Lease!Take(c, k)
<1>1. owner[k] = Nobody
  BY DEF OwnersAreInside
<1>2. \A q \in Keys, d \in Callers : owner'[q] = d <=> (owner[q] = d \/ (q = k /\ d = c))
  BY DEF OwnersAreInside
<1>3. \A q \in Keys : owner'[q] = IF q = k THEN c ELSE owner[q]
  BY <1>1, <1>2, NullValues DEF OwnersAreInside
<1> QED
  BY <1>1, <1>3 DEF OwnersAreInside, Lease!Take

LEMMA OwnerDrops ==
  ASSUME OwnersAreInside, OwnersAreInside', NEW c \in Callers, NEW k \in Keys, k \in Held(c),
         \A d \in Callers : Held(d)' = IF d = c THEN Held(c) \ {k} ELSE Held(d)
  PROVE  Lease!Drop(c, k)
<1>1. owner[k] = c
  BY DEF OwnersAreInside
<1>2. \A q \in Keys, d \in Callers : owner'[q] = d <=> (owner[q] = d /\ ~(q = k /\ d = c))
  BY DEF OwnersAreInside
<1>3. \A q \in Keys : owner'[q] = IF q = k THEN Nobody ELSE owner[q]
  BY <1>1, <1>2, NullValues DEF OwnersAreInside
<1> QED
  BY <1>1, <1>3 DEF OwnersAreInside, Lease!Drop

LEMMA StepIsLeaseStep ==
  ASSUME Inv, OwnersAreInside, OwnersAreInside', [Next]_vars
  PROVE  [Lease!Next]_owner
<1>0. TypeOK /\ WaitersAreBehind
  BY DEF Inv
<1>1. ASSUME NEW c \in Callers, NEW k \in Keys, Join(c, k) PROVE owner' = owner
  BY <1>0, <1>1, JoinKeepsHeld, OwnersKept
<1>2. ASSUME NEW c \in Callers, NEW k \in Keys, EnterHeld(c, k) PROVE owner' = owner
  <2>1. /\ k \in Held(c)
        /\ \A d \in Callers : Held(d)' = IF d = c THEN Held(c) \cup {k} ELSE Held(d)
    BY <1>0, <1>2, DescendHolds DEF EnterHeld
  <2>2. Held(c) \cup {k} = Held(c)
    BY <2>1
  <2> QED
    BY <2>1, <2>2, OwnersKept
<1>3. ASSUME NEW c \in Callers, Enter(c) PROVE \E k \in Keys : Lease!Take(c, k)
  <2>1. PICK k \in Keys : k = want[c] /\ k # NoKey /\ ahead[c] = {}
    BY <1>0, <1>3 DEF TypeOK, Enter
  <2>2. \A d \in Callers : k \notin Held(d)
    BY <1>0, <2>1 DEF WaitersAreBehind
  <2>3. \A d \in Callers : Held(d)' = IF d = c THEN Held(c) \cup {k} ELSE Held(d)
    BY <1>0, <1>3, <2>1, DescendHolds DEF Enter
  <2> QED
    BY <2>2, <2>3, OwnerTakes
<1>4. ASSUME NEW c \in Callers, TimeOut(c) PROVE owner' = owner
  <2>1. \A d \in Callers : Held(d)' = Held(d)
    BY <1>4 DEF TimeOut, Held
  <2> QED
    BY <2>1, OwnersKept
<1>5. ASSUME NEW c \in Callers, Leave(c)
      PROVE  owner' = owner \/ \E k \in Keys : Lease!Drop(c, k)
  <2>1. PICK k \in Keys :
          /\ k \in Held(c)
          /\ \/ \A d \in Callers : Held(d)' = Held(d)
             \/ \A d \in Callers : Held(d)' = IF d = c THEN Held(c) \ {k} ELSE Held(d)
    BY <1>0, <1>5, FrontReleases DEF Leave
  <2> QED
    BY <2>1, OwnersKept, OwnerDrops
<1>6. CASE UNCHANGED vars
  <2>1. \A d \in Callers : Held(d)' = Held(d)
    BY <1>6 DEF vars, Held
  <2> QED
    BY <2>1, OwnersKept
<1> QED
  BY <1>1, <1>2, <1>3, <1>4, <1>5, <1>6 DEF Next, Step, Lease!Next

\* Queue, time-outs, re-entrance and counters together implement the lease: whoever goes
\* in finds the digest without an owner, and only the owner gives it up.
THEOREM GateImplementsLease == Spec => ImplementsLease
<1>1. Init => Lease!Init
  <2> SUFFICES ASSUME Init PROVE Lease!Init
    OBVIOUS
  <2>1. \A c \in Callers : Held(c) = {}
    BY DEF Init, Held
  <2> QED
    BY <2>1 DEF owner, Lease!Init
<1>2. Inv /\ OwnersAreInside /\ OwnersAreInside' /\ [Next]_vars => [Lease!Next]_owner
  BY StepIsLeaseStep
<1> QED
  BY <1>1, <1>2, InvHolds, OwnersInside, PTL DEF Spec, ImplementsLease, Lease!Spec
=============================================================================

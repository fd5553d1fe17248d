----------------------------- MODULE DigestGate -----------------------------
(***************************************************************************)
(* The pipeline's in-process mutual exclusion keyed by digest: class       *)
(* DigestGate and its callers in packages/ingest/src/pipeline.ts.          *)
(*                                                                         *)
(* A caller is one top-level candidate together with the archive members   *)
(* it descends into: its `path` is the stack of candidates being ingested, *)
(* outermost first, and all of them share one set of held digests, so the  *)
(* gate is re-entrant along a path and nowhere else.                       *)
(*                                                                         *)
(* acquire() chains a promise per caller on the key's tail and waits for   *)
(* the tail it displaced.  A promise counts here until it is resolved:     *)
(* `ahead[c]` is what is left unresolved of the tail c displaced, `tail[k]`*)
(* what a newcomer would have to wait for.  `holders[k]` is the counter    *)
(* the code keeps beside the chain to know when to forget the key.         *)
(***************************************************************************)
EXTENDS Integers, Sequences, FiniteSets

CONSTANTS Callers,      \* the lines of descent in flight in one process
          Keys,         \* the digests
          Contains,     \* Contains[k]: the digests of the members of the archive k
          MaxDepth,     \* maxArchiveDepth
          MayTimeOut,   \* whether a wait can outlast digestLockTimeoutMs
          NoKey, Nobody

ASSUME CallersFinite == IsFiniteSet(Callers)
ASSUME NullValues == NoKey \notin Keys /\ Nobody \notin Callers
ASSUME ContainsType == Contains \in [Keys -> SUBSET Keys]
ASSUME OtherTypes == MaxDepth \in Nat /\ MayTimeOut \in BOOLEAN

VARIABLES path,     \* path[c]: the candidates c is inside of, each with its members to come
          want,     \* want[c]: the digest c is waiting for in acquire(), or NoKey
          ahead,    \* ahead[c]: callers whose promise c still waits for
          tail,     \* tail[k]: callers of k whose promise is unresolved
          holders,  \* holders[k]: the count of holders and waiters of k
          earlier   \* history: earlier[c]: who waited for the same digest when c began
                    \* to, and has neither got it nor given up since

vars == <<path, want, ahead, tail, holders, earlier>>

Frame == [key : Keys, todo : SUBSET Keys]

\* heldDigests of the line of descent
Held(c) == {path[c][i].key : i \in 1 .. Len(path[c])}

Top(c) == path[c][Len(path[c])]
Front(s) == SubSeq(s, 1, Len(s) - 1)

TypeOK == /\ path \in [Callers -> Seq(Frame)]
          /\ want \in [Callers -> Keys \cup {NoKey}]
          /\ ahead \in [Callers -> SUBSET Callers]
          /\ tail \in [Keys -> SUBSET Callers]
          /\ holders \in [Keys -> Nat]
          /\ earlier \in [Callers -> SUBSET Callers]

Init == /\ path = [c \in Callers |-> <<>>]
        /\ want = [c \in Callers |-> NoKey]
        /\ ahead = [c \in Callers |-> {}]
        /\ tail = [k \in Keys |-> {}]
        /\ holders = [k \in Keys |-> 0]
        /\ earlier = [c \in Callers |-> {}]

-----------------------------------------------------------------------------
\* What c may hash next: anything at the top level, the next member inside an archive.
MayStart(c, k) == /\ want[c] = NoKey
                  /\ path[c] # <<>> => k \in Top(c).todo

\* The members a candidate will be expanded into, none at the depth limit.
Members(c, k) == IF Len(path[c]) < MaxDepth THEN Contains[k] ELSE {}

\* path[c] with k marked as started in the archive it is a member of
Started(c, k) == IF path[c] = <<>> THEN <<>>
                 ELSE [path[c] EXCEPT ![Len(path[c])].todo = @ \ {k}]

Descend(c, k) == Append(Started(c, k), [key |-> k, todo |-> Members(c, k)])

\* The order of arrival, whatever the chain makes of it.
Arrives(c, k) == earlier' = [earlier EXCEPT ![c] = {d \in Callers : want[d] = k}]
WaitsNoMore(c) == earlier' = [d \in Callers |-> IF d = c THEN {} ELSE earlier[d] \ {c}]

\* Mutant of Join: wait for the holder alone, not for the tail.
JoinBehindHolder(c, k) == /\ MayStart(c, k)
                          /\ k \notin Held(c)
                          /\ path' = [path EXCEPT ![c] = Started(c, k)]
                          /\ want' = [want EXCEPT ![c] = k]
                          /\ ahead' = [ahead EXCEPT ![c] = {d \in tail[k] : k \in Held(d)}]
                          /\ tail' = [tail EXCEPT ![k] = @ \cup {c}]
                          /\ holders' = [holders EXCEPT ![k] = @ + 1]
                          /\ Arrives(c, k)

\* acquire(), up to its await: chain a promise on the key's tail.
Join(c, k) == /\ MayStart(c, k)
              /\ k \notin Held(c)
              /\ path' = [path EXCEPT ![c] = Started(c, k)]
              /\ want' = [want EXCEPT ![c] = k]
              /\ ahead' = [ahead EXCEPT ![c] = tail[k]]
              /\ tail' = [tail EXCEPT ![k] = @ \cup {c}]
              /\ holders' = [holders EXCEPT ![k] = @ + 1]
              /\ Arrives(c, k)

\* A member whose bytes an ancestor holds the lease on takes no lease of its own.
EnterHeld(c, k) == /\ MayStart(c, k)
                   /\ k \in Held(c)
                   /\ path' = [path EXCEPT ![c] = Descend(c, k)]
                   /\ UNCHANGED <<want, ahead, tail, holders, earlier>>

\* acquire() returns: everything chained before this caller has resolved.
Enter(c) == /\ want[c] # NoKey
            /\ ahead[c] = {}
            /\ path' = [path EXCEPT ![c] = Descend(c, want[c])]
            /\ want' = [want EXCEPT ![c] = NoKey]
            /\ WaitsNoMore(c)
            /\ UNCHANGED <<ahead, tail, holders>>

\* Mutant of Resolve: the key is forgotten while one caller is still chained on it.
ResolveForgetting(c, k) ==
  /\ ahead' = [d \in Callers |-> IF want[d] = k THEN ahead[d] \ {c} ELSE ahead[d]]
  /\ holders' = [holders EXCEPT ![k] = IF holders[k] - 1 <= 1 THEN 0 ELSE @ - 1]
  /\ tail' = [tail EXCEPT ![k] = IF holders[k] - 1 <= 1 THEN {} ELSE @ \ {c}]

\* lease.release(): resolve the promise, then forget the key if it was the last one.
Resolve(c, k) ==
  /\ ahead' = [d \in Callers |-> IF want[d] = k THEN ahead[d] \ {c} ELSE ahead[d]]
  /\ holders' = [holders EXCEPT ![k] = @ - 1]
  /\ tail' = [tail EXCEPT ![k] = IF holders[k] - 1 <= 0 THEN {} ELSE @ \ {c}]

\* Mutants of TimeOut: the timer never fires; the caller goes on without the lease.
NeverTimeOut(c) == want[c] # NoKey /\ FALSE /\ UNCHANGED vars

TimeOutAnyway(c) == /\ MayTimeOut
                    /\ want[c] # NoKey
                    /\ ahead[c] # {}
                    /\ path' = [path EXCEPT ![c] = Descend(c, want[c])]
                    /\ want' = [want EXCEPT ![c] = NoKey]
                    /\ WaitsNoMore(c)
                    /\ UNCHANGED <<ahead, tail, holders>>

\* The wait outlasts the time-out: the caller gives its place up and the attempt fails.
TimeOut(c) == /\ MayTimeOut
              /\ want[c] # NoKey
              /\ ahead[c] # {}
              /\ Resolve(c, want[c])
              /\ want' = [want EXCEPT ![c] = NoKey]
              /\ WaitsNoMore(c)
              /\ UNCHANGED path

\* The innermost candidate ends, by an outcome or by throwing; `finally` gives its lease back.
Leave(c) == /\ want[c] = NoKey
            /\ path[c] # <<>>
            /\ path' = [path EXCEPT ![c] = Front(@)]
            /\ UNCHANGED <<want, earlier>>
            /\ IF \E i \in 1 .. Len(path[c]) - 1 : path[c][i].key = Top(c).key
                 THEN UNCHANGED <<ahead, tail, holders>>
                 ELSE Resolve(c, Top(c).key)

Step(c) == \/ \E k \in Keys : Join(c, k) \/ EnterHeld(c, k)
           \/ Enter(c)
           \/ TimeOut(c)
           \/ Leave(c)

Next == \E c \in Callers : Step(c)

Spec == Init /\ [][Next]_vars

\* The event loop runs every promise that has resolved, every candidate ends
\* (its stages have their own time-outs) and every armed timer fires.
Fairness == \A c \in Callers : /\ WF_vars(Enter(c))
                               /\ WF_vars(Leave(c))
                               /\ WF_vars(TimeOut(c))

FairSpec == Spec /\ Fairness

-----------------------------------------------------------------------------
\* Two lines of descent are never both inside stages 2 to 10 of the same bytes,
\* whatever timed out before and however deep each of them is.
MutualExclusion == \A c, d \in Callers : c # d => Held(c) \cap Held(d) = {}

\* The key is forgotten exactly when no holder or waiter is left: a key dropped
\* early would let a newcomer in beside the holder, one kept would leak.
CountMatchesChain == \A k \in Keys : /\ holders[k] = Cardinality(tail[k])
                                     /\ tail[k] = {c \in Callers : want[c] = k \/ k \in Held(c)}

\* Waiters are served in the order in which they called acquire(): whoever gets the lease
\* finds nobody left that waited for these bytes before it came, however many leases were
\* given back and however many waits timed out in between.
ArrivalOrder ==
  [][\A c \in Callers :
       (want[c] # NoKey /\ want[c] \in Held(c)') => earlier[c] = {}]_vars

\* Nobody waits for ever, not even callers that wait for each other in a circle because
\* their archives contain each other: the caller gets the lease or gives up.
EveryWaitEnds == \A c \in Callers : (want[c] # NoKey) ~> (want[c] = NoKey)

\* The gate implements the lease: the owner of a digest is whoever is inside.
owner == [k \in Keys |-> IF \E c \in Callers : k \in Held(c)
                           THEN CHOOSE c \in Callers : k \in Held(c)
                           ELSE Nobody]
Lease == INSTANCE DigestLease
ImplementsLease == Lease!Spec
=============================================================================

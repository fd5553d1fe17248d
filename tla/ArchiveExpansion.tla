-------------------------- MODULE ArchiveExpansion --------------------------
(***************************************************************************)
(* Stage 3 of the pipeline: one top-level file that is an archive, its     *)
(* members, the archives among them, the output budget they share, and     *)
(* what is checkpointed so that a resumed run continues the tree.          *)
(* packages/ingest: expandArchive and ingestWithRetries in pipeline.ts,    *)
(* archive/extract.ts, archive/safe-path.ts, BudgetLedger in budgets.ts.   *)
(*                                                                         *)
(* A node is a candidate, the file `Root` or a member inside it.  Members  *)
(* are ingested one after another, in the order of the archive, so only    *)
(* one node is at work at a time.  "eml" stands for a container that goes  *)
(* on through stages 4 to 10 itself (a stored message), "zip" for one that *)
(* ends at stage 3 and, as by default, is not stored itself.  What becomes *)
(* of one plain file is the subject of IngestPipeline: here it comes to an *)
(* end (Settle) or its attempt throws.  Of a message it matters whether it *)
(* is filed.  Different candidates have different bytes.                   *)
(***************************************************************************)
EXTENDS Integers, Sequences, FiniteSets, FiniteSetsExt, TLC

CONSTANTS Nodes, Root,
          Inside,       \* Inside[n]: the archives n is inside of
          Order,        \* Order[n]: index of n among the members of its archive
          Name,         \* Name[n]: the entry name, as a sequence of segments
          Kind,         \* Kind[n]: "zip", "eml" or "file"
          Size,         \* Size[n]: bytes n has when extracted
          MaxTotal,     \* maxArchiveTotalBytes
          MaxDepth,     \* maxArchiveDepth
          MaxAttempts,  \* maxAttemptsPerCandidate
          MaxClaims     \* bound: how often the run is claimed

\* The candidates of one file are a tree: each but Root is inside its archive and inside
\* what that is inside of.  Only what is expanded has candidates inside it.
ASSUME Tree ==
  /\ IsFiniteSet(Nodes)
  /\ Root \in Nodes /\ Inside \in [Nodes -> SUBSET Nodes] /\ Inside[Root] = {}
  /\ \A n \in Nodes \ {Root} : /\ Root \in Inside[n] /\ n \notin Inside[n]
                              /\ \E p \in Inside[n] : Inside[n] = Inside[p] \cup {p}
  /\ \A n \in Nodes : \A p \in Inside[n] : Kind[p] # "file" /\ Cardinality(Inside[p]) < MaxDepth
  /\ Order \in [Nodes -> Nat] /\ Kind \in [Nodes -> {"zip", "eml", "file"}]
  /\ Size \in [Nodes -> Nat] /\ MaxTotal \in Nat /\ MaxDepth \in Nat
  /\ MaxAttempts \in Nat \ {0} /\ MaxClaims \in Nat

VARIABLES
  pc,        \* pc[n]: where in ingestCandidate n is
  attempt,   \* attempt[n]: in ingestWithRetries
  outcome,   \* outcome[n]: what the node ended with in this run, with the failed nodes inside it
  inner,     \* inner[n]: failed nodes among the member outcomes a message carries on with
  ledger,    \* ledger[n]: BudgetLedger of container n: its ceiling and what it spent
  final,     \* final[n]: payload of the commit checkpoint
  expanded,  \* expanded[n]: payload of the archive_extraction checkpoint
  arrived,   \* candidates whose bytes are in the library
  filed,     \* the messages with a live attachment
  refused,   \* archives of which it was asked what to do, as they could not be expanded
  givenUp,   \* candidates of which it was asked, as their attempts ran out
  job, claims, on

memory == <<pc, attempt, outcome, inner, ledger>>
journal == <<final, expanded>>
library == <<arrived, filed, refused, givenUp>>
vars == <<memory, journal, library, job, claims, on>>

NoOutcome == [status |-> "none", failed |-> {}]

\* "settled": a file that is finished, or a message with the outcomes of its members; "alone":
\* a message without them; "review": an archive that is not expanded.
Outcome == [status : {"none", "settled", "alone", "container", "review", "failed"}, failed : SUBSET Nodes]
NoLedger == [ceiling |-> 0, spent |-> 0]

Places == {"idle", "linked", "expand", "members", "stages", "committed", "done"}

TypeOK == /\ pc \in [Nodes -> Places]
          /\ attempt \in [Nodes -> 0 .. MaxAttempts]
          /\ outcome \in [Nodes -> Outcome]
          /\ inner \in [Nodes -> SUBSET Nodes]
          /\ ledger \in [Nodes -> [ceiling : Nat, spent : Nat]]
          /\ final \in [Nodes -> Outcome]
          /\ expanded \in [Nodes -> Outcome]
          /\ arrived \subseteq Nodes /\ filed \subseteq Nodes
          /\ refused \subseteq Nodes /\ givenUp \subseteq Nodes
          /\ job \in {"none", "running", "failed", "waiting_review", "succeeded"}
          /\ claims \in 0 .. MaxClaims
          /\ on \in BOOLEAN

Init == /\ pc = [n \in Nodes |-> "idle"]
        /\ attempt = [n \in Nodes |-> 0]
        /\ outcome = [n \in Nodes |-> NoOutcome]
        /\ inner = [n \in Nodes |-> {}]
        /\ ledger = [n \in Nodes |-> NoLedger]
        /\ final = [n \in Nodes |-> NoOutcome]
        /\ expanded = [n \in Nodes |-> NoOutcome]
        /\ arrived = {} /\ filed = {} /\ refused = {} /\ givenUp = {}
        /\ job = "none" /\ claims = 0 /\ on = FALSE

-----------------------------------------------------------------------------
(* The tree *)

Depth(n) == Cardinality(Inside[n])
Within(n) == {m \in Nodes : n \in Inside[m]}
Members(n) == {m \in Within(n) : Depth(m) = Depth(n) + 1}

\* Order is a numbering of the members.
ASSUME Numbered ==
  \A n \in Nodes : /\ {Order[m] : m \in Members(n)} = 1 .. Cardinality(Members(n))
                   /\ \A m, o \in Members(n) : Order[m] = Order[o] => m = o

Archive(n) == CHOOSE p \in Inside[n] : n \in Members(p)
Before(n) == {m \in Nodes : Inside[m] = Inside[n] /\ Order[m] < Order[n]}
Bytes(S) == MapThenSumSet(LAMBDA m : Size[m], S)

\* A candidate the pipeline expands: an archive above the depth limit.
IsContainer(n) == Kind[n] # "file" /\ Depth(n) < MaxDepth

\* resolveMemberPath drops "." and empty segments.
Normal(name) == SelectSeq(name, LAMBDA s : s # ".")

\* Mutant of Paths: no directory of its own for a name that is taken.
PathsPlain ==
  [n \in Nodes |->
    LET path[i \in 1 .. Cardinality(Members(n))] ==
          Normal(Name[CHOOSE m \in Members(n) : Order[m] = i])
    IN path]

\* extractZip: a path that is taken is replaced by one in a positional directory.
Paths ==
  [n \in Nodes |->
    LET entry(i) == CHOOSE m \in Members(n) : Order[m] = i
        path[i \in 1 .. Cardinality(Members(n))] ==
          LET plain == Normal(Name[entry(i)])
          IN IF \E j \in 1 .. i - 1 : path[j] = plain
               THEN <<ToString(i)>> \o plain
               ELSE plain
    IN path]

\* No entry of p is named as if extractZip had moved another one out of its way: "3/x" when
\* the third is a second "x".  The code does not look (it asks of a path only the first time).
Positional(m) == <<ToString(Order[m])>> \o Normal(Name[m])
KeepsOff(p) == \A m, o \in Members(p) :
                 m # o => Positional(m) \notin {Normal(Name[o]), Positional(o)}

\* Nor does an entry of any zip that n is inside of.
Apart(n) == \A p \in Inside[n] : Kind[p] = "eml" \/ KeepsOff(p)

\* Members whose path is n's.  An attachment always has a directory of its own.
SamePath == [n \in Nodes |-> IF n = Root \/ Kind[Archive(n)] = "eml" THEN {n}
                             ELSE {m \in Members(Archive(n)) :
                                     Paths[Archive(n)][Order[m]] = Paths[Archive(n)][Order[n]]}]

\* The bytes under n's path once the whole archive is extracted: the last writer's.
Reads == [n \in Nodes |-> CHOOSE m \in SamePath[n] : \A o \in SamePath[n] : Order[o] <= Order[m]]

\* The node whose journal rows n uses: candidateKey is the path.
Key == [n \in Nodes |-> CHOOSE m \in SamePath[n] : \A o \in SamePath[n] : Order[m] <= Order[o]]

\* BudgetLedger.remaining: the least of what n's ledger and those above it have left.
Remaining(n) == Min({IF ledger[m].spent <= ledger[m].ceiling
                       THEN ledger[m].ceiling - ledger[m].spent ELSE 0 : m \in Inside[n] \cup {n}})

-----------------------------------------------------------------------------
(* The run *)

\* claimRun and the start of the pool: only a run that succeeded starts over.
ClaimRun == /\ ~on /\ claims < MaxClaims
            /\ on' = TRUE /\ job' = "running" /\ claims' = claims + 1
            /\ final' = IF job = "succeeded" THEN [n \in Nodes |-> NoOutcome] ELSE final
            /\ expanded' = IF job = "succeeded" THEN [n \in Nodes |-> NoOutcome] ELSE expanded
            /\ pc' = [n \in Nodes |-> "idle"]
            /\ attempt' = [n \in Nodes |-> 0]
            /\ outcome' = [n \in Nodes |-> NoOutcome]
            /\ inner' = [n \in Nodes |-> {}]
            /\ ledger' = [n \in Nodes |-> NoLedger]
            /\ UNCHANGED library

\* tally walks the outcomes inside the outcomes.  Without a failure among them the run waits
\* if one of the questions it asked is open still: people close them when they like.
FinishRun == /\ on /\ pc[Root] = "done"
             /\ on' = FALSE
             /\ job' \in IF outcome[Root].failed # {} THEN {"failed"}
                         ELSE {"waiting_review", "succeeded"}
             /\ UNCHANGED <<memory, journal, library, claims>>

\* The process dies, or the run is cancelled between two members.
Stop == /\ on
        /\ on' = FALSE
        /\ UNCHANGED <<memory, journal, library, job, claims>>

-----------------------------------------------------------------------------
(* One candidate *)

\* Stages 1 to 3: a message that is filed is linked, and an archive is expanded unless its
\* expansion is checkpointed.
Start(n) == IF n \in filed THEN "linked"
            ELSE IF IsContainer(n) /\ expanded[Key[n]] = NoOutcome THEN "expand"
            ELSE "stages"

\* A candidate with a terminal checkpoint is not ingested again; others start attempt 1.
Begin(n) ==
  /\ on /\ pc[n] = "idle"
  /\ n # Root => pc[Archive(n)] = "members"
  /\ \A m \in Before(n) : pc[m] = "done"
  /\ IF final[Key[n]] # NoOutcome
       THEN /\ pc' = [pc EXCEPT ![n] = "done"]
            /\ outcome' = [outcome EXCEPT ![n] = final[Key[n]]]
            /\ UNCHANGED <<attempt, inner>>
       ELSE /\ pc' = [pc EXCEPT ![n] = Start(n)]
            /\ attempt' = [attempt EXCEPT ![n] = 1]
            /\ inner' = [inner EXCEPT ![n] = expanded[Key[n]].failed]
            /\ UNCHANGED outcome
  /\ UNCHANGED <<ledger, journal, library, job, claims, on>>

\* The candidate has its outcome, and nothing of it is checkpointed as finished.
Close(n, o) == /\ outcome' = [outcome EXCEPT ![n] = o]
               /\ pc' = [pc EXCEPT ![n] = "done"]

\* The candidate has its outcome and the checkpoint of it, which replaces the others.
Finish(n, o) == /\ Close(n, o)
                /\ final' = [final EXCEPT ![Key[n]] = o]
                /\ expanded' = [expanded EXCEPT ![Key[n]] = NoOutcome]

\* A fresh ledger at the top, a child of the archive's ledger below it.
Ceiling(n) == IF n = Root THEN MaxTotal ELSE Remaining(Archive(n))

\* spend() charges the ledger and all above it.
Charge(n, bytes) ==
  [m \in Nodes |-> IF m = n THEN [ceiling |-> Ceiling(n), spent |-> bytes]
                   ELSE IF m \in Inside[n] THEN [ledger[m] EXCEPT !.spent = @ + bytes]
                   ELSE IF m \in Within(n) THEN NoLedger ELSE ledger[m]]

\* Members the extraction of a zip gets through before one exceeds what is left.
Fitting(n) == {m \in Members(n) : Bytes({o \in Members(n) : Order[o] <= Order[m]}) <= Ceiling(n)}

\* Mutant of Expand: the child is a copy of the remainder, not a view of it.
ExpandOnSnapshot(n) ==
  /\ on /\ pc[n] = "expand"
  /\ Bytes(Members(n)) <= Ceiling(n)
  /\ ledger' = [ledger EXCEPT ![n] = [ceiling |-> Ceiling(n), spent |-> Bytes(Members(n))]]
  /\ pc' = [m \in Nodes |-> IF m = n THEN "members" ELSE IF m \in Within(n) THEN "idle" ELSE pc[m]]
  /\ outcome' = [m \in Nodes |-> IF m \in Within(n) THEN NoOutcome ELSE outcome[m]]
  /\ UNCHANGED <<attempt, inner, journal, library, job, claims, on>>

\* extractArchive succeeds: every member is in memory, none is ingested yet.
Expand(n) ==
  /\ on /\ pc[n] = "expand"
  /\ Bytes(Members(n)) <= Ceiling(n)
  /\ ledger' = Charge(n, Bytes(Members(n)))
  /\ pc' = [m \in Nodes |-> IF m = n THEN "members" ELSE IF m \in Within(n) THEN "idle" ELSE pc[m]]
  /\ outcome' = [m \in Nodes |-> IF m \in Within(n) THEN NoOutcome ELSE outcome[m]]
  /\ UNCHANGED <<attempt, inner, journal, library, job, claims, on>>

\* Over the budget: the archive is kept, a question is raised and the candidate is finished.
\* A declared total over the ceiling and a message are refused before anything is spent.
Refuse(n) ==
  /\ on /\ pc[n] = "expand"
  /\ Bytes(Members(n)) > Ceiling(n)
  /\ ledger' = Charge(n, IF Kind[n] = "eml" \/ Bytes(Members(n)) > MaxTotal
                           THEN 0 ELSE Bytes(Fitting(n)))
  /\ Finish(n, [status |-> "review", failed |-> {}])
  /\ arrived' = arrived \cup {n} /\ refused' = refused \cup {n}
  /\ UNCHANGED <<attempt, inner, filed, givenUp, job, claims, on>>

\* Mutant of CloseMembers: the container is checkpointed whatever its members ended with.
CloseMembersAlways(n) ==
  LET ended == [status |-> "container", failed |-> UNION {outcome[m].failed : m \in Members(n)}]
  IN /\ on /\ pc[n] = "members"
     /\ \A m \in Members(n) : pc[m] = "done"
     /\ IF Kind[n] = "zip"
          THEN Finish(n, ended) /\ UNCHANGED inner
          ELSE /\ inner' = [inner EXCEPT ![n] = ended.failed]
               /\ expanded' = [expanded EXCEPT ![Key[n]] = ended]
               /\ pc' = [pc EXCEPT ![n] = "stages"]
               /\ UNCHANGED <<outcome, final>>
     /\ UNCHANGED <<attempt, ledger, library, job, claims, on>>

\* All members have an outcome.  A zip is finished, and checkpointed unless a member of its
\* own failed; a message goes on, its expansion checkpointed under the same condition.
CloseMembers(n) ==
  LET failed == UNION {outcome[m].failed : m \in Members(n)}
      whole == \A m \in Members(n) : outcome[m].status # "failed"
      ended == [status |-> "container", failed |-> failed]
  IN /\ on /\ pc[n] = "members"
     /\ \A m \in Members(n) : pc[m] = "done"
     /\ \/ /\ Kind[n] = "zip" /\ whole
           /\ Finish(n, ended) /\ UNCHANGED inner
        \/ /\ Kind[n] = "zip" /\ ~ whole
           /\ Close(n, ended) /\ UNCHANGED <<inner, journal>>
        \/ /\ Kind[n] # "zip"
           /\ inner' = [inner EXCEPT ![n] = failed]
           /\ expanded' = IF whole THEN [expanded EXCEPT ![Key[n]] = ended] ELSE expanded
           /\ pc' = [pc EXCEPT ![n] = "stages"]
           /\ UNCHANGED <<outcome, final>>
     /\ UNCHANGED <<attempt, ledger, library, job, claims, on>>

\* commitProposal: the message itself is an item's attachment.
Commit(n) ==
  /\ on /\ pc[n] = "stages" /\ IsContainer(n)
  /\ pc' = [pc EXCEPT ![n] = "committed"]
  /\ arrived' = arrived \cup {n} /\ filed' = filed \cup {n}
  /\ UNCHANGED <<attempt, outcome, inner, ledger, journal, refused, givenUp, job, claims, on>>

\* The checkpoint of a file that came to any end, or of a message that was committed or that
\* the confidence gate queued, with the outcomes of its members.
Settle(n) ==
  /\ on /\ pc[n] \in {"stages", "committed"}
  /\ Finish(n, [status |-> "settled", failed |-> inner[n]])
  /\ arrived' = arrived \cup {Reads[n]}
  /\ UNCHANGED <<attempt, inner, ledger, filed, refused, givenUp, job, claims, on>>

\* The end of a message that is linked as a duplicate at stage 2, that a rule or a hook stops
\* or queues (finishEarly), or that another writer filed: nothing is said of its members.
EndAlone(n) ==
  /\ on /\ pc[n] \in {"linked", "stages"} /\ IsContainer(n)
  /\ Finish(n, [status |-> "alone", failed |-> {}])
  /\ arrived' = arrived \cup {n}
  /\ UNCHANGED <<attempt, inner, ledger, filed, refused, givenUp, job, claims, on>>

\* An attempt throws: again from the first stage without a checkpoint, or given up.
Throws(n) ==
  /\ on /\ pc[n] \in {"linked", "expand", "stages", "committed"}
  /\ \/ /\ attempt[n] < MaxAttempts
        /\ pc' = [pc EXCEPT ![n] = Start(n)]
        /\ attempt' = [attempt EXCEPT ![n] = @ + 1]
        /\ UNCHANGED <<outcome, givenUp>>
     \/ /\ attempt[n] = MaxAttempts
        /\ Close(n, [status |-> "failed", failed |-> {n}])
        /\ givenUp' = givenUp \cup {n}
        /\ UNCHANGED attempt
  /\ UNCHANGED <<inner, ledger, journal, arrived, filed, refused, job, claims, on>>

Step(n) == \/ Begin(n) \/ Expand(n) \/ Refuse(n) \/ CloseMembers(n)
           \/ Commit(n) \/ Settle(n) \/ EndAlone(n) \/ Throws(n)

Next == ClaimRun \/ FinishRun \/ Stop \/ \E n \in Nodes : Step(n)

Spec == Init /\ [][Next]_vars

-----------------------------------------------------------------------------
(* Properties *)

\* ADR-0022: one budget spans the whole tree.  Whatever is nested and retried, what the
\* archives expanded in it produced never adds up to more than the top one's ceiling, in a
\* state that is well typed.
OneBudget ==
  /\ TypeOK
  /\ Bytes(UNION {Members(n) :
                    n \in {m \in Nodes : ledger[m] # NoLedger /\ outcome[m].status # "review"}})
       <= MaxTotal

\* A message was finished without a word of its members, and a candidate in it or around
\* n was given up, of which a person was asked: as when a part of the message failed, the
\* message was committed, and the process died before the checkpoint that names the failure.
Unnamed(n) == /\ \E m \in Inside[n] : final[Key[m]].status = "alone"
              /\ \E m \in Inside[n] \cup {n} : m \in givenUp

\* A run that ended without a failure has every file of the tree in the library, or has
\* put the question about an archive around it to a person.  (A run can end so although a
\* part of a message failed: Unnamed.  A file is lost in an archive some entry of which
\* has the name extractZip gives another: ~ Apart.)
SucceededMeansWhole ==
  job \in {"waiting_review", "succeeded"} =>
    \A n \in Nodes : Apart(n) => \/ n \in arrived \/ IsContainer(n)
                                \/ Inside[n] \cap refused # {}
                                \/ Unnamed(n)

\* A checkpoint that stops a container from being expanded again leaves none of its own
\* messages and files behind: they are all finished.  (Not so the zips in it, of
\* which the code asks only whether they failed as a whole.)
OwnFilesFinished ==
  \A n \in Nodes : (final[Key[n]].status = "container" \/ expanded[Key[n]] # NoOutcome) =>
    \A m \in Members(n) : Apart(m) /\ Kind[m] # "zip" => final[Key[m]] # NoOutcome

\* An archive that ended well was taken in whole or asked about, and none that is
\* checkpointed leaves a file of its own behind: SucceededMeansWhole and OwnFilesFinished.
ArchivesAreHonest == SucceededMeansWhole /\ OwnFilesFinished

=============================================================================

------------------------ MODULE IngestPipelineProofs ------------------------
(***************************************************************************)
(* Theorems about IngestPipeline, for any number of runs, candidates and   *)
(* pipeline instances, any attempts, and steps that throw anywhere.        *)
(***************************************************************************)
EXTENDS IngestPipeline, TLAPS

LEMMA RaiseType ==
  ASSUME TypeOK, NEW e, NEW r \in Runs, Raise(e, r)
  PROVE  open' \in [Entries -> Runs \cup {NoRun}]
BY DEF TypeOK, Raise

LEMMA TakeType ==
  ASSUME TypeOK, NEW c \in Candidates, NEW k, Gate!Take(c, k)
  PROVE  lease' \in [Pipelines \X Digests -> Candidates \cup {Nobody}]
BY DEF TypeOK, Gate!Take

LEMMA TypeStep == TypeOK /\ [Next]_vars => TypeOK'
<1> SUFFICES ASSUME TypeOK, [Next]_vars PROVE TypeOK'
  OBVIOUS
<1> USE DEF TypeOK, library, bin, journal, runs, memory, At, Goto, Holding
<1>1. ASSUME NEW r \in Runs, ClaimRun(r) PROVE TypeOK'
  BY <1>1, Constants DEF ClaimRun, Listed, Points, Outcomes
<1>2. ASSUME NEW r \in Runs, FinishRun(r) PROVE TypeOK'
  BY <1>2 DEF FinishRun
<1>3. ASSUME NEW p \in Pipelines, Crash(p) PROVE TypeOK'
  BY <1>3, Constants DEF Crash, Points
<1>4. ASSUME NEW c \in Candidates, Start(c) \/ Hash(c) \/ TakeLease(c) PROVE TypeOK'
  <2>1. CASE Start(c)
    BY <2>1, Constants DEF Start, Points, Active
  <2>2. CASE Hash(c)
    BY <2>2, Constants DEF Hash, Points, Active
  <2>3. CASE TakeLease(c)
    BY <2>3, Constants, TakeType DEF TakeLease, Points, Active
  <2> QED
    BY <1>4, <2>1, <2>2, <2>3
<1>5. ASSUME NEW c \in Candidates, StoreBytes(c) \/ RecordArrival(c) \/ NoteStage2(c) \/ AskFiled(c)
      PROVE  TypeOK'
  <2>1. CASE StoreBytes(c)
    BY <2>1, Constants DEF StoreBytes, Points, Active
  <2>2. CASE RecordArrival(c)
    BY <2>2, Constants DEF RecordArrival, Points, Active
  <2>3. CASE NoteStage2(c)
    BY <2>3, Constants DEF NoteStage2, Points, Active
  <2>4. CASE AskFiled(c)
    BY <2>4, Constants DEF AskFiled, Points, Active, Outcomes
  <2> QED
    BY <1>5, <2>1, <2>2, <2>3, <2>4
<1>6. ASSUME NEW c \in Candidates, PassStages(c) \/ OcrFails(c) \/ StopHere(c) PROVE TypeOK'
  BY <1>6, Constants, RaiseType DEF PassStages, OcrFails, StopHere, Points, Active, Outcomes
<1>7. ASSUME NEW c \in Candidates, RouteToReview(c) \/ PassGate(c) PROVE TypeOK'
  BY <1>7, Constants, RaiseType DEF RouteToReview, PassGate, Points, Active, Outcomes
<1>8. ASSUME NEW c \in Candidates, Commit(c) PROVE TypeOK'
  <2>1. PICK i \in Items : File(Bytes[c], i) /\ (UNCHANGED open \/ Raise(<<i, "partial">>, RunOf[c]))
    BY <1>8 DEF Commit
  <2>2. open' \in [Entries -> Runs \cup {NoRun}]
    BY <2>1, Constants, RaiseType
  <2> QED
    BY <1>8, <2>1, <2>2, Constants DEF Commit, File, Points, Active, Outcomes
<1>9. ASSUME NEW c \in Candidates, CommitRefused(c) \/ Supersede(c) PROVE TypeOK'
  BY <1>9, Constants DEF CommitRefused, Supersede, Points, Active, Outcomes
<1>10. ASSUME NEW c \in Candidates, Settle(c) PROVE TypeOK'
  BY <1>10, Constants DEF Settle, Release, Points, Active, Outcomes
<1>11. ASSUME NEW c \in Candidates, Throws(c) PROVE TypeOK'
  <2>1. lease' \in [Pipelines \X Digests -> Candidates \cup {Nobody}]
    BY <1>11 DEF Throws, Release
  <2>2. attempt' \in [Candidates -> 0 .. MaxAttempts]
    BY <1>11, Constants DEF Throws
  <2>3. pc' \in [Candidates -> Points] /\ result' \in [Candidates -> Outcomes \cup {"none"}]
    <3>1. PICK p \in {"start", "giveup"} : Holding(c, p, "none")
      BY <1>11 DEF Throws
    <3>2. p \in Points
      BY <3>1 DEF Points, Active
    <3> QED
      BY <3>1, <3>2
  <2> QED
    BY <1>11, <2>1, <2>2, <2>3 DEF Throws
<1>12. ASSUME NEW c \in Candidates, GiveUp(c) PROVE TypeOK'
  <2>1. open' \in [Entries -> Runs \cup {NoRun}]
    BY <1>12, Constants, RaiseType DEF GiveUp
  <2> QED
    BY <1>12, <2>1, Constants DEF GiveUp, Points, Outcomes
<1>13. CASE PeopleStep
  <2>1. ASSUME NEW d \in Digests, Accept(d) PROVE TypeOK'
    BY <2>1 DEF Accept, File
  <2>2. ASSUME NEW d \in Digests, AttachByHand(d) PROVE TypeOK'
    BY <2>2 DEF AttachByHand, File
  <2>3. ASSUME NEW d \in Digests, TrashDocument(d) \/ RestoreDocument(d) PROVE TypeOK'
    BY <2>3 DEF TrashDocument, RestoreDocument
  <2>4. ASSUME NEW i \in Items, Detach(i) \/ Reattach(i) \/ TrashItem(i) \/ RestoreItem(i)
        PROVE  TypeOK'
    BY <2>4 DEF Detach, Reattach, TrashItem, RestoreItem
  <2>5. ASSUME NEW e \in Entries, Reject(e) PROVE TypeOK'
    BY <2>5 DEF Reject
  <2> QED
    BY <1>13, <2>1, <2>2, <2>3, <2>4, <2>5 DEF PeopleStep
<1>14. CASE UNCHANGED vars
  BY <1>14 DEF vars
<1> QED
  BY <1>1, <1>2, <1>3, <1>4, <1>5, <1>6, <1>7, <1>8, <1>9, <1>10, <1>11, <1>12, <1>13, <1>14
  DEF Next, Progress

LEMMA InitType == Init => TypeOK
BY Constants DEF Init, TypeOK, Gate!Init, Points

\* Every reachable state has the types of the database's columns and the program's variables.
THEOREM TypesHold == Spec => []TypeOK
BY InitType, TypeStep, PTL DEF Spec

-----------------------------------------------------------------------------
(* The rows of the library *)

\* Only the arrival, the commit and people write documents and attachments.
LEMMA WhoWritesTheLibrary ==
  [Next]_vars => \/ UNCHANGED <<document, filing, live, bin>>
                 \/ \E c \in Candidates : RecordArrival(c) \/ Commit(c)
                 \/ PeopleStep
<1> SUFFICES ASSUME [Next]_vars
             PROVE  \/ UNCHANGED <<document, filing, live, bin>>
                    \/ \E c \in Candidates : RecordArrival(c) \/ Commit(c)
                    \/ PeopleStep
  OBVIOUS
<1> USE DEF library
<1>1. ASSUME NEW r \in Runs, ClaimRun(r) \/ FinishRun(r) PROVE UNCHANGED <<document, filing, live, bin>>
  BY <1>1 DEF ClaimRun, FinishRun
<1>2. ASSUME NEW p \in Pipelines, Crash(p) PROVE UNCHANGED <<document, filing, live, bin>>
  BY <1>2 DEF Crash
<1>3. ASSUME NEW c \in Candidates, Progress(c), ~RecordArrival(c), ~Commit(c)
      PROVE  UNCHANGED <<document, filing, live, bin>>
  BY <1>3 DEF Progress, Start, Hash, TakeLease, StoreBytes, NoteStage2, AskFiled, PassStages,
              OcrFails, StopHere, RouteToReview, PassGate, CommitRefused, Supersede, Settle,
              Throws, GiveUp
<1>4. CASE UNCHANGED vars
  BY <1>4 DEF vars
<1> QED
  BY <1>1, <1>2, <1>3, <1>4 DEF Next

\* The attachments that live or wait for their item to come back are to documents, and the
\* document of a live one is in the trash only if restoreItem brought it back there.
LiveFilings == /\ \A i \in live \cup binned : filing[i] \in Digests
               /\ \A i \in live : document[filing[i]] = "live" \/ i \in revived

LEMMA LiveFilingsStep == TypeOK /\ LiveFilings /\ [Next]_vars => LiveFilings'
<1> SUFFICES ASSUME TypeOK, LiveFilings, [Next]_vars PROVE LiveFilings'
  OBVIOUS
<1> USE DEF LiveFilings, TypeOK, bin
<1>1. CASE UNCHANGED <<document, filing, live, bin>>
  BY <1>1
<1>2. ASSUME NEW c \in Candidates, RecordArrival(c) PROVE LiveFilings'
  BY <1>2, Constants DEF RecordArrival
<1>3. ASSUME NEW c \in Candidates, Commit(c) PROVE LiveFilings'
  <2>1. PICK i \in Items : File(Bytes[c], i)
    BY <1>3 DEF Commit
  <2>2. document[Bytes[c]] = "live" /\ UNCHANGED <<document, bin>>
    BY <1>3 DEF Commit
  <2>3. Bytes[c] \in Digests
    BY Constants
  <2> QED
    BY <2>1, <2>2, <2>3 DEF File
<1>4. CASE PeopleStep
  <2>1. ASSUME NEW d \in Digests, Accept(d) \/ AttachByHand(d) PROVE LiveFilings'
    BY <2>1 DEF Accept, AttachByHand, File
  <2>2. ASSUME NEW d \in Digests, TrashDocument(d) PROVE LiveFilings'
    BY <2>2 DEF TrashDocument, Filed
  <2>3. ASSUME NEW d \in Digests, RestoreDocument(d) PROVE LiveFilings'
    BY <2>3 DEF RestoreDocument
  <2>4. ASSUME NEW i \in Items, Detach(i) \/ Reattach(i) PROVE LiveFilings'
    BY <2>4 DEF Detach, Reattach
  <2>5. ASSUME NEW i \in Items, TrashItem(i) \/ RestoreItem(i) PROVE LiveFilings'
    BY <2>5 DEF TrashItem, RestoreItem
  <2>6. ASSUME NEW e \in Entries, Reject(e) PROVE LiveFilings'
    BY <2>6 DEF Reject
  <2> QED
    BY <1>4, <2>1, <2>2, <2>3, <2>4, <2>5, <2>6 DEF PeopleStep
<1> QED
  BY <1>1, <1>2, <1>3, <1>4, WhoWritesTheLibrary

\* With people at work, what the commit, trashDocument, restoreAttachment and the hand-made
\* attachment ask in one transaction each keeps every attachment off the documents in the
\* trash, but for those that restoreItem puts there.
THEOREM TrashedFilingsHold == Spec => []TrashedFilingsAreRevived
<1>1. Init => TypeOK /\ LiveFilings
  BY InitType DEF Init, LiveFilings
<1>2. LiveFilings => TrashedFilingsAreRevived
  BY DEF LiveFilings, TrashedFilingsAreRevived
<1> QED
  BY <1>1, <1>2, TypeStep, LiveFilingsStep, PTL DEF Spec

-----------------------------------------------------------------------------
(* Checkpoints *)

\* What a stage-2 checkpoint stands for, and the points at which the code relies on it.
Vouched(c) == Bytes[c] \in blobs /\ document[Bytes[c]] # "absent" /\ c \in arrivals
PastArrival == {"recorded", "asked", "stages", "gate", "commit", "committed", "settle"}

Vouchers ==
  \A c \in Candidates :
    /\ pc[c] = "stored" => Bytes[c] \in blobs
    /\ pc[c] \in PastArrival \/ c \in noted \/ final[c] # "none" => Vouched(c)

\* The store only grows, and no row of a document or an arrival is ever removed.
LEMMA LibraryGrows ==
  TypeOK /\ [Next]_vars => /\ blobs \subseteq blobs'
                          /\ \A c \in Candidates : Vouched(c) => Vouched(c)'
<1> SUFFICES ASSUME TypeOK, [Next]_vars
             PROVE  /\ blobs \subseteq blobs' /\ arrivals \subseteq arrivals'
                    /\ \A d \in Digests : document[d] # "absent" => document'[d] # "absent"
  BY Constants DEF Vouched
<1> USE DEF library
<1>1. ASSUME NEW r \in Runs, ClaimRun(r) \/ FinishRun(r)
      PROVE  UNCHANGED <<document, arrivals, blobs>>
  BY <1>1 DEF ClaimRun, FinishRun
<1>2. ASSUME NEW p \in Pipelines, Crash(p) PROVE UNCHANGED <<document, arrivals, blobs>>
  BY <1>2 DEF Crash
<1>3. ASSUME NEW c \in Candidates, Progress(c), ~RecordArrival(c), ~StoreBytes(c)
      PROVE  UNCHANGED <<document, arrivals, blobs>>
  BY <1>3 DEF Progress, Start, Hash, TakeLease, NoteStage2, AskFiled, PassStages, OcrFails, Commit,
              StopHere, RouteToReview, PassGate, CommitRefused, Supersede, Settle, Throws, GiveUp
<1>4. ASSUME NEW c \in Candidates, StoreBytes(c)
      PROVE  UNCHANGED <<document, arrivals>> /\ blobs \subseteq blobs'
  BY <1>4 DEF StoreBytes
<1>5. ASSUME NEW c \in Candidates, RecordArrival(c)
      PROVE  /\ arrivals \subseteq arrivals' /\ UNCHANGED blobs
             /\ \A d \in Digests : document[d] # "absent" => document'[d] # "absent"
  BY <1>5 DEF RecordArrival, TypeOK
<1>6. CASE PeopleStep
  BY <1>6 DEF PeopleStep, Accept, AttachByHand, TrashDocument, RestoreDocument, Detach, Reattach,
              TrashItem, RestoreItem, Reject, TypeOK
<1>7. CASE UNCHANGED vars
  BY <1>7 DEF vars
<1> QED
  BY <1>1, <1>2, <1>3, <1>4, <1>5, <1>6, <1>7 DEF Next

LEMMA VouchersStep == TypeOK /\ Vouchers /\ [Next]_vars => Vouchers'
<1> SUFFICES ASSUME TypeOK, Vouchers, [Next]_vars PROVE Vouchers'
  OBVIOUS
<1>1. blobs \subseteq blobs' /\ \A c \in Candidates : Vouched(c) => Vouched(c)'
  BY LibraryGrows
<1>2. ASSUME NEW r \in Runs, ClaimRun(r) \/ FinishRun(r) PROVE Vouchers'
  BY <1>1, <1>2 DEF ClaimRun, FinishRun, Listed, Vouchers, PastArrival, TypeOK, journal, memory
<1>3. ASSUME NEW p \in Pipelines, Crash(p) PROVE Vouchers'
  BY <1>1, <1>3 DEF Crash, Vouchers, PastArrival, TypeOK, journal
<1>4. ASSUME NEW c \in Candidates, Progress(c) PROVE Vouchers'
  <2> USE DEF Vouchers, PastArrival, TypeOK, journal, At, Goto, Holding
  <2>1. CASE Start(c) \/ Hash(c) \/ TakeLease(c)
    BY <1>1, <2>1 DEF Start, Hash, TakeLease
  <2>2. CASE StoreBytes(c)
    BY <1>1, <2>2, Constants DEF StoreBytes
  <2>3. CASE RecordArrival(c)
    <3>1. Vouched(c)'
      BY <2>3, Constants DEF RecordArrival, Vouched
    <3> QED
      BY <1>1, <2>3, <3>1 DEF RecordArrival
  <2>4. CASE NoteStage2(c)
    BY <1>1, <2>4 DEF NoteStage2
  <2>5. CASE AskFiled(c) \/ PassStages(c) \/ OcrFails(c) \/ StopHere(c)
    BY <1>1, <2>5 DEF AskFiled, PassStages, OcrFails, StopHere
  <2>6. CASE RouteToReview(c) \/ PassGate(c) \/ Commit(c) \/ CommitRefused(c) \/ Supersede(c)
    BY <1>1, <2>6 DEF RouteToReview, PassGate, Commit, CommitRefused, Supersede
  <2>7. CASE Settle(c)
    BY <1>1, <2>7 DEF Settle
  <2>8. CASE Throws(c)
    BY <1>1, <2>8 DEF Throws
  <2>9. CASE GiveUp(c)
    BY <1>1, <2>9 DEF GiveUp
  <2> QED
    BY <1>4, <2>1, <2>2, <2>3, <2>4, <2>5, <2>6, <2>7, <2>8, <2>9 DEF Progress
<1>5. CASE PeopleStep
  BY <1>1, <1>5 DEF PeopleStep, Accept, AttachByHand, TrashDocument, RestoreDocument, Detach,
                    Reattach, TrashItem, RestoreItem, Reject, Vouchers, journal, memory
<1>6. CASE UNCHANGED vars
  BY <1>1, <1>6 DEF vars, Vouchers, journal, memory
<1> QED
  BY <1>2, <1>3, <1>4, <1>5, <1>6 DEF Next

\* A checkpoint never says more than the library does, wherever a process died: a resumed run
\* may skip stage 2 on it.
THEOREM CheckpointsHold == Spec => []CheckpointsAreTrue
<1>1. Init => TypeOK /\ Vouchers
  BY InitType DEF Init, Vouchers, PastArrival
<1>2. Vouchers => CheckpointsAreTrue
  BY DEF Vouchers, Vouched, CheckpointsAreTrue
<1> QED
  BY <1>1, <1>2, TypeStep, VouchersStep, PTL DEF Spec

-----------------------------------------------------------------------------
(* Pipelines left alone *)

LEMMA AtMostOneStep ==
  ASSUME ~People, TypeOK, LiveFilings, AtMostOneFiling, [Next]_vars
  PROVE  AtMostOneFiling'
<1> USE DEF AtMostOneFiling
<1>1. CASE UNCHANGED <<document, filing, live, bin>>
  BY <1>1
<1>2. ASSUME NEW c \in Candidates, RecordArrival(c) PROVE AtMostOneFiling'
  BY <1>2 DEF RecordArrival
<1>3. ASSUME NEW c \in Candidates, Commit(c) PROVE AtMostOneFiling'
  <2>1. PICK i \in Items : File(Bytes[c], i)
    BY <1>3 DEF Commit
  <2>2. \A j \in live : j # i /\ filing[j] # Bytes[c]
    BY <1>3, <2>1, Constants DEF Commit, Filed, File, LiveFilings
  <2> QED
    BY <2>1, <2>2 DEF File, TypeOK
<1>4. ~PeopleStep
  BY DEF PeopleStep
<1> QED
  BY <1>1, <1>2, <1>3, <1>4, WhoWritesTheLibrary

\* Left alone, the pipelines never give one document two items, whether their gates are shared
\* or not, however often they retry and wherever they crash and resume.
THEOREM OnceHolds == ASSUME ~People PROVE Spec => []AtMostOneFiling
<1>1. Init => TypeOK /\ LiveFilings /\ AtMostOneFiling
  BY InitType DEF Init, LiveFilings, AtMostOneFiling
<1>2. TypeOK /\ LiveFilings /\ AtMostOneFiling /\ [Next]_vars => AtMostOneFiling'
  BY AtMostOneStep
<1> QED
  BY <1>1, <1>2, TypeStep, LiveFilingsStep, PTL DEF Spec

LEMMA PromiseStep ==
  ASSUME ~People, TypeOK, LiveFilings, [Next]_vars
  PROVE  [Promise!Next]_<<known, itemsOf>>
<1> USE DEF known, itemsOf
<1>1. CASE UNCHANGED <<document, filing, live, bin>>
  BY <1>1
<1>2. ASSUME NEW c \in Candidates, RecordArrival(c) PROVE Promise!Arrive(Bytes[c])
  BY <1>2, Constants DEF RecordArrival, Promise!Arrive, TypeOK
<1>3. ASSUME NEW c \in Candidates, Commit(c)
      PROVE  \E i \in Items : Promise!FileAs(Bytes[c], i)
  <2> DEFINE d == Bytes[c]
  <2>1. PICK i \in Items : File(d, i)
    BY <1>3 DEF Commit
  <2>2. d \in Digests /\ document[d] = "live" /\ document' = document /\ ~Filed(d)
    BY <1>3, Constants DEF Commit
  <2>3. i \notin live
    BY <2>1, Constants DEF File, LiveFilings
  <2>4. known' = known /\ d \in known /\ itemsOf[d] = {} /\ \A e \in Digests : i \notin itemsOf[e]
    BY <2>2, <2>3 DEF Filed
  <2>5. itemsOf'[d] = {i} /\ \A e \in Digests \ {d} : itemsOf'[e] = itemsOf[e]
    BY <2>1, <2>2, <2>3 DEF File, Filed, TypeOK
  <2>6. \A e \in Digests : itemsOf'[e] = IF e = d THEN {i} ELSE itemsOf[e]
    BY <2>5
  <2>7. itemsOf' = [itemsOf EXCEPT ![d] = {i}]
    <3> HIDE DEF d
    <3> QED
      BY <2>2, <2>6
  <2> QED
    BY <2>1, <2>2, <2>4, <2>7 DEF Promise!FileAs
<1>4. ~PeopleStep
  BY DEF PeopleStep
<1> QED
  BY <1>1, <1>2, <1>3, <1>4, WhoWritesTheLibrary, Constants DEF Promise!Next

\* Left alone, the pipelines implement FileOnce: every step records an arrival, files a known
\* document that is under no item, or is invisible.
THEOREM PipelineImplementsFileOnce == ASSUME ~People PROVE Spec => ImplementsFileOnce
<1>1. Init => TypeOK /\ LiveFilings
  BY InitType DEF Init, LiveFilings
<1>2. Init => Promise!Init
  BY DEF Init, Promise!Init, known, itemsOf
<1>3. TypeOK /\ LiveFilings /\ [Next]_vars => [Promise!Next]_<<known, itemsOf>>
  BY PromiseStep
<1> QED
  BY <1>1, <1>2, <1>3, TypeStep, LiveFilingsStep, PTL DEF Spec, ImplementsFileOnce, Promise!Spec

-----------------------------------------------------------------------------
(* The gate around a filing *)

\* Between taking the lease and settling a candidate holds it, and a candidate under way is in
\* a run some process executes.
Inside == {"check", "stored", "recorded", "asked", "stages", "gate", "commit", "committed", "settle"}
Guarded ==
  \A c \in Candidates :
    /\ pc[c] \in Inside => lease[GateKey(c)] = c
    /\ pc[c] \notin {"idle", "done"} => RunOf[c] \in session

LEMMA GuardedStep ==
  ASSUME TypeOK, Guarded, [Next]_vars
  PROVE  Guarded'
<1>0. /\ pc \in [Candidates -> Points]
      /\ lease \in [Pipelines \X Digests -> Candidates \cup {Nobody}]
  BY DEF TypeOK
<1> USE <1>0 DEF Guarded, Inside, GateKey, At, Goto, Holding, library, journal, runs, memory
<1>1. ASSUME NEW r \in Runs, ClaimRun(r) \/ FinishRun(r) PROVE Guarded'
  BY <1>1 DEF ClaimRun, FinishRun, Listed
<1>2. ASSUME NEW p \in Pipelines, Crash(p) PROVE Guarded'
  BY <1>2, Constants DEF Crash
<1>3. ASSUME NEW c \in Candidates, Progress(c) PROVE Guarded'
  <2>1. CASE Start(c) \/ Hash(c)
    BY <2>1 DEF Start, Hash
  <2>2. CASE TakeLease(c)
    <3>1. lease' = [lease EXCEPT ![GateKey(c)] = c] /\ lease[GateKey(c)] = Nobody
      BY <2>2 DEF TakeLease, Gate!Take
    <3>2. GateKey(c) \in Pipelines \X Digests
      BY Constants
    <3>3. \A e \in Candidates : pc'[e] \in Inside => lease'[GateKey(e)] = e
      <4> HIDE DEF GateKey
      <4> QED
        BY <2>2, <3>1, <3>2, Constants DEF TakeLease
    <3> QED
      BY <2>2, <3>3 DEF TakeLease
  <2>3. CASE StoreBytes(c) \/ RecordArrival(c) \/ NoteStage2(c) \/ AskFiled(c)
    BY <2>3 DEF StoreBytes, RecordArrival, NoteStage2, AskFiled
  <2>4. CASE PassStages(c) \/ OcrFails(c) \/ StopHere(c) \/ RouteToReview(c) \/ PassGate(c)
    BY <2>4 DEF PassStages, OcrFails, StopHere, RouteToReview, PassGate
  <2>5. CASE Commit(c) \/ CommitRefused(c) \/ Supersede(c)
    BY <2>5 DEF Commit, CommitRefused, Supersede
  <2>6. CASE Settle(c)
    <3>1. \A e \in Candidates : e # c /\ lease[GateKey(e)] = e => lease'[GateKey(e)] = e
      BY <2>6, Constants DEF Settle, Release
    <3> QED
      BY <2>6, <3>1 DEF Settle
  <2>7. CASE Throws(c)
    BY <2>7, Constants DEF Throws, Release, Active
  <2>8. CASE GiveUp(c)
    BY <2>8 DEF GiveUp
  <2> QED
    BY <1>3, <2>1, <2>2, <2>3, <2>4, <2>5, <2>6, <2>7, <2>8 DEF Progress
<1>4. CASE PeopleStep
  BY <1>4 DEF PeopleStep, Accept, Reject, AttachByHand, Detach, Reattach, TrashItem,
              RestoreItem, TrashDocument, RestoreDocument
<1>5. CASE UNCHANGED vars
  BY <1>5 DEF vars
<1> QED
  BY <1>1, <1>2, <1>3, <1>4, <1>5 DEF Next

\* Behind one gate no two candidates are ever both between the question whether the bytes are
\* filed and the answer's use: a filing overtakes nobody.
THEOREM FilingsApart == Spec => FilingsNeverMeet
<1>1. Init => TypeOK /\ Guarded
  BY InitType DEF Init, Guarded, Inside
<1>2. TypeOK /\ Guarded /\ [Next]_vars => Guarded'
  BY GuardedStep
<1>3. TypeOK /\ Guarded =>
        [\A c, d \in Candidates :
            /\ c # d /\ GateKey(c) = GateKey(d)
            /\ pc[c] = "commit" /\ pc'[c] = "committed"
            => pc[d] \notin {"stages", "gate", "commit"}]_vars
  <2> SUFFICES ASSUME TypeOK, Guarded, NEW c \in Candidates, NEW d \in Candidates,
                      c # d, GateKey(c) = GateKey(d), pc[c] = "commit"
               PROVE  pc[d] \notin {"stages", "gate", "commit"}
    OBVIOUS
  <2>1. lease[GateKey(c)] = c
    BY DEF Guarded, Inside
  <2> QED
    BY <2>1 DEF Guarded, Inside
<1> QED
  BY <1>1, <1>2, <1>3, TypeStep, PTL DEF Spec, FilingsNeverMeet

-----------------------------------------------------------------------------
(* Questions *)

\* Why a document that is not filed is not, and what a candidate that was given up left behind.
Accounted(c) == Filed(Bytes[c]) \/ \E e \in About(Bytes[c]) : open[e] # NoRun
Asked(c) == \/ open[<<c, "gave_up">>] # NoRun
            \/ open[<<Bytes[c], "gave_up">>] # NoRun
            \/ Filed(Bytes[c])

Answers ==
  \A c \in Candidates :
    /\ pc[c] = "committed" => result[c] = "ingested" /\ Filed(Bytes[c])
    /\ pc[c] = "settle" => result[c] # "failed" /\ (result[c] = "stopped" \/ Accounted(c))
    /\ final[c] # "none" => final[c] # "failed" /\ (final[c] = "stopped" \/ Accounted(c))
    /\ result[c] = "failed" => Asked(c)

\* Left alone, nothing is taken out of an item, and a question is closed only by filing the
\* document it is about: a failure's question about a candidate never.
LEMMA QuestionsStay ==
  ASSUME ~People, TypeOK, LiveFilings, Answers, [Next]_vars
  PROVE  \A c \in Candidates : /\ Filed(Bytes[c]) => Filed(Bytes[c])'
                               /\ Accounted(c) => Accounted(c)'
                               /\ Asked(c) => Asked(c)'
<1>1. \A d \in Digests : Filed(d) => Filed(d)'
  <2>1. CASE UNCHANGED <<document, filing, live, bin>>
    BY <2>1 DEF Filed
  <2>2. ASSUME NEW c \in Candidates, RecordArrival(c) PROVE UNCHANGED <<filing, live>>
    BY <2>2 DEF RecordArrival
  <2>3. ASSUME NEW c \in Candidates, Commit(c)
        PROVE  \A d \in Digests : Filed(d) => Filed(d)'
    <3>1. PICK i \in Items : File(Bytes[c], i)
      BY <2>3 DEF Commit
    <3> QED
      BY <3>1, Constants DEF File, Filed, LiveFilings, TypeOK
  <2>4. ~PeopleStep
    BY DEF PeopleStep
  <2> QED
    BY <2>1, <2>2, <2>3, <2>4, WhoWritesTheLibrary DEF Filed
<1>2. ASSUME NEW e \in Entries, open[e] # NoRun, open'[e] = NoRun
      PROVE  \E c \in Candidates : e \in About(Bytes[c]) /\ Filed(Bytes[c])
  <2> USE DEF library, At
  <2>1. ASSUME NEW r \in Runs, ClaimRun(r) \/ FinishRun(r) PROVE FALSE
    BY <1>2, <2>1 DEF ClaimRun, FinishRun
  <2>2. ASSUME NEW p \in Pipelines, Crash(p) PROVE FALSE
    BY <1>2, <2>2 DEF Crash
  <2>3. ASSUME NEW c \in Candidates, Progress(c)
        PROVE  e \in About(Bytes[c]) /\ Filed(Bytes[c])
    <3>1. CASE UNCHANGED open
      BY <1>2, <3>1
    <3>2. ASSUME NEW f, Raise(f, RunOf[c]) PROVE FALSE
      BY <1>2, <3>2, Constants DEF Raise, TypeOK
    <3>3. CASE Supersede(c)
      BY <1>2, <3>3 DEF Supersede, Answers, TypeOK
    <3>4. CASE OcrFails(c) \/ RouteToReview(c) \/ GiveUp(c)
      BY <3>2, <3>4 DEF OcrFails, RouteToReview, GiveUp
    <3>5. CASE Commit(c)
      BY <3>1, <3>2, <3>5 DEF Commit
    <3> QED
      BY <2>3, <3>1, <3>3, <3>4, <3>5
      DEF Progress, Start, Hash, TakeLease, StoreBytes, RecordArrival, NoteStage2, AskFiled,
          PassStages, StopHere, PassGate, CommitRefused, Settle, Throws
  <2>4. ~PeopleStep
    BY DEF PeopleStep
  <2>5. CASE UNCHANGED vars
    BY <1>2, <2>5 DEF vars
  <2> QED
    BY <2>1, <2>2, <2>3, <2>4, <2>5 DEF Next
<1>3. ASSUME NEW c \in Candidates, Accounted(c) PROVE Accounted(c)'
  <2>1. Bytes[c] \in Digests
    BY Constants
  <2>2. CASE Filed(Bytes[c])
    BY <1>1, <2>1, <2>2 DEF Accounted
  <2>3. ASSUME NEW e \in About(Bytes[c]), open[e] # NoRun PROVE Accounted(c)'
    <3>1. CASE open'[e] # NoRun
      BY <3>1, <2>3 DEF Accounted, About
    <3>2. CASE open'[e] = NoRun
      <4>1. PICK d \in Candidates : e \in About(Bytes[d]) /\ Filed(Bytes[d])
        BY <1>2, <2>3, <3>2 DEF About
      <4>2. Bytes[d] = Bytes[c]
        BY <2>3, <4>1 DEF About
      <4> QED
        BY <1>1, <2>1, <4>1, <4>2 DEF Accounted
    <3> QED
      BY <3>1, <3>2
  <2> QED
    BY <1>3, <2>2, <2>3 DEF Accounted
<1>4. ASSUME NEW c \in Candidates, Asked(c) PROVE Asked(c)'
  <2>1. Bytes[c] \in Digests /\ c \notin Digests
    BY Constants
  <2>2. <<c, "gave_up">> \in Entries /\ <<Bytes[c], "gave_up">> \in Entries
    BY <2>1 DEF Entries
  <2>3. open[<<c, "gave_up">>] # NoRun => open'[<<c, "gave_up">>] # NoRun
    BY <1>2, <2>1, <2>2, Constants DEF About
  <2>4. open[<<Bytes[c], "gave_up">>] # NoRun =>
          open'[<<Bytes[c], "gave_up">>] # NoRun \/ Filed(Bytes[c])
    BY <1>2, <2>2 DEF About
  <2> QED
    BY <1>1, <1>4, <2>1, <2>3, <2>4 DEF Asked
<1> QED
  BY <1>1, <1>3, <1>4, Constants

LEMMA AnswersStep ==
  ASSUME ~People, TypeOK, LiveFilings, Answers, [Next]_vars
  PROVE  Answers'
<1>1. \A c \in Candidates : /\ Filed(Bytes[c]) => Filed(Bytes[c])'
                            /\ Accounted(c) => Accounted(c)'
                            /\ Asked(c) => Asked(c)'
  BY QuestionsStay
<1>2. \A c \in Candidates : Filed(Bytes[c]) => Accounted(c) /\ Asked(c)
  BY DEF Accounted, Asked
<1> USE DEF Answers, TypeOK, At, Goto, Holding, journal, memory
<1>3. ASSUME NEW r \in Runs, ClaimRun(r) \/ FinishRun(r) PROVE Answers'
  BY <1>1, <1>3 DEF ClaimRun, FinishRun, Listed
<1>4. ASSUME NEW p \in Pipelines, Crash(p) PROVE Answers'
  BY <1>1, <1>4 DEF Crash
<1>5. ASSUME NEW c \in Candidates, Progress(c) PROVE Answers'
  <2>1. CASE Start(c) \/ Hash(c) \/ TakeLease(c) \/ StoreBytes(c) \/ RecordArrival(c) \/ NoteStage2(c)
    BY <1>1, <2>1 DEF Start, Hash, TakeLease, StoreBytes, RecordArrival, NoteStage2
  <2>2. CASE AskFiled(c) \/ PassStages(c) \/ OcrFails(c) \/ StopHere(c) \/ PassGate(c) \/ CommitRefused(c)
    BY <1>1, <1>2, <2>2
    DEF AskFiled, PassStages, OcrFails, StopHere, PassGate, CommitRefused
  <2>3. CASE RouteToReview(c)
    <3>1. <<Bytes[c], "unsure">> \in Entries /\ <<Bytes[c], "unsure">> \in About(Bytes[c])
      BY Constants DEF Entries, About
    <3>2. Accounted(c)'
      BY <2>3, <3>1, Constants DEF RouteToReview, Raise, Accounted, About
    <3> QED
      BY <1>1, <2>3, <3>2 DEF RouteToReview
  <2>4. CASE Commit(c)
    <3>1. Filed(Bytes[c])'
      BY <2>4 DEF Commit, File, Filed
    <3> QED
      BY <1>1, <2>4, <3>1 DEF Commit
  <2>5. CASE Supersede(c)
    BY <1>1, <1>2, <2>5 DEF Supersede
  <2>6. CASE Settle(c)
    BY <1>1, <2>6 DEF Settle
  <2>7. CASE Throws(c)
    BY <1>1, <2>7 DEF Throws
  <2>8. CASE GiveUp(c)
    <3>1. <<c, "gave_up">> \in Entries /\ <<Bytes[c], "gave_up">> \in Entries
      BY Constants DEF Entries
    <3>2. Asked(c)'
      BY <2>8, <3>1, Constants DEF GiveUp, Raise, Asked
    <3> QED
      BY <1>1, <2>8, <3>2 DEF GiveUp
  <2> QED
    BY <1>5, <2>1, <2>2, <2>3, <2>4, <2>5, <2>6, <2>7, <2>8 DEF Progress
<1>6. ~PeopleStep
  BY DEF PeopleStep
<1>7. CASE UNCHANGED vars
  BY <1>1, <1>7 DEF vars
<1> QED
  BY <1>3, <1>4, <1>5, <1>6, <1>7 DEF Next

LEMMA AloneInv ==
  ASSUME ~People
  PROVE  Spec => [](TypeOK /\ LiveFilings /\ Answers)
<1>1. Init => TypeOK /\ LiveFilings /\ Answers
  BY InitType DEF Init, LiveFilings, Answers
<1>2. TypeOK /\ LiveFilings /\ Answers /\ [Next]_vars => Answers'
  BY AnswersStep
<1> QED
  BY <1>1, <1>2, TypeStep, LiveFilingsStep, PTL DEF Spec

\* Left alone, no candidate with a terminal checkpoint is forgotten: its bytes are filed, a rule
\* stopped them, or an open question about the document says why they are not.
THEOREM AccountsHold == ASSUME ~People PROVE Spec => []EveryDocumentAccountedFor
<1>1. Answers => EveryDocumentAccountedFor
  BY DEF Answers, Accounted, EveryDocumentAccountedFor
<1> QED
  BY <1>1, AloneInv, PTL

\* Left alone, a candidate that used up its attempts has left a blocker, about its document or
\* about itself, unless the document got filed.
THEOREM FailuresHold == ASSUME ~People PROVE Spec => []FailureIsAsked
<1>1. Answers => FailureIsAsked
  BY DEF Answers, Asked, FailureIsAsked
<1> QED
  BY <1>1, AloneInv, PTL

=============================================================================

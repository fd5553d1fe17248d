--------------------------- MODULE IngestPipeline ---------------------------
(***************************************************************************)
(* The ten-stage pipeline of packages/ingest over the library's database:  *)
(* runs, candidates, checkpoints, the digest gate of each pipeline         *)
(* instance, the commit, the review queue's rows, and the people who work  *)
(* on the same library meanwhile.                                          *)
(*                                                                         *)
(* One action per database transaction or awaited section.  Two runs may   *)
(* share a pipeline instance or not: the server builds one instance per    *)
(* run (apps/server/src/ingestion/runner.ts, createPipeline), the CLI is   *)
(* another process, so two runs interleave at every transaction.           *)
(* Archives are the subject of ArchiveExpansion; candidates here are plain *)
(* files.  The text a stage extracts is left out: what later steps depend  *)
(* on is only whether a candidate passes the confidence gate.              *)
(***************************************************************************)
EXTENDS Integers, FiniteSets

CONSTANTS Pipelines,     \* pipeline instances, each with a gate of its own
          Runs, Candidates, Digests, Items,
          PipeOf,        \* PipeOf[r]: the instance that executes run r
          RunOf,         \* RunOf[c]: the run that lists candidate c
          Bytes,         \* Bytes[c]: the digest of the candidate's bytes
          MaxAttempts,   \* maxAttemptsPerCandidate
          MaxClaims,     \* bound: how often one run label is claimed
          FailPoints,    \* the program points at which a step may throw
          People,        \* whether people edit the library while runs are on
          Nobody, NoDigest, NoRun

\* Program points of a candidate inside a run.
Active == {"start", "wait", "check", "stored", "recorded", "asked", "stages",
           "gate", "commit", "committed", "settle"}
Points == Active \cup {"idle", "giveup", "done"}

Outcomes == {"ingested", "duplicate", "review", "stopped", "failed"}

ASSUME Constants ==
  /\ PipeOf \in [Runs -> Pipelines]
  /\ RunOf \in [Candidates -> Runs]
  /\ Bytes \in [Candidates -> Digests]
  /\ MaxAttempts \in Nat \ {0} /\ MaxClaims \in Nat
  /\ FailPoints \subseteq Active \ {"wait"}
  /\ People \in BOOLEAN
  /\ Nobody \notin Candidates /\ NoDigest \notin Digests /\ NoRun \notin Runs
  /\ Candidates \cap Digests = {}

\* Review-queue rows by dedupe key: subject and reason code.
Entries == (Digests \X {"unsure", "ocr_failed", "gave_up"})
             \cup (Candidates \X {"gave_up"}) \cup (Items \X {"partial"})
About(d) == {e \in Entries : e[1] = d}

VARIABLES
  \* the database
  job,        \* job[r]: state of the run's jobs row
  claims,     \* claims[r]: its attempts column
  noted,      \* candidates with a duplicate_check checkpoint
  final,      \* final[c]: outcome in the candidate's commit checkpoint, or "none"
  blobs,      \* digests in the blob store
  document,   \* document[d]: "absent", "live" or "trashed"
  arrivals,   \* candidates with a document_provenance row
  filing,     \* filing[i]: the document attached to item i, or NoDigest
  live,       \* items whose attachment is not in the trash
  binned,     \* items in the trash, their attachment with them
  open,       \* open[e]: job_id of the open row with that key, or NoRun
  \* one process's memory
  session,    \* runs some process is executing
  pc,         \* pc[c]: where the candidate is
  attempt,    \* attempt[c]: its attempt in ingestWithRetries
  result,     \* result[c]: the outcome the code has in hand, or "none"
  lease,      \* lease[<<p, d>>]: who holds digest d on the gate of instance p
  \* history
  revived     \* live items that restoreItem brought back over a document in the trash

Gate == INSTANCE DigestLease
          WITH Callers <- Candidates, Keys <- Pipelines \X Digests, owner <- lease

bin     == <<binned, revived>>
library == <<document, arrivals, filing, live, open, bin>>
journal == <<noted, final>>
runs    == <<job, claims, session>>
memory  == <<pc, attempt, result, lease>>
vars    == <<library, journal, runs, memory, blobs>>

TypeOK ==
  /\ job \in [Runs -> {"none", "running", "failed", "waiting_review", "succeeded"}]
  /\ claims \in [Runs -> 0 .. MaxClaims]
  /\ noted \subseteq Candidates
  /\ final \in [Candidates -> Outcomes \cup {"none"}]
  /\ blobs \subseteq Digests
  /\ document \in [Digests -> {"absent", "live", "trashed"}]
  /\ arrivals \subseteq Candidates
  /\ filing \in [Items -> Digests \cup {NoDigest}]
  /\ live \subseteq Items
  /\ binned \subseteq Items
  /\ revived \subseteq Items
  /\ open \in [Entries -> Runs \cup {NoRun}]
  /\ session \subseteq Runs
  /\ pc \in [Candidates -> Points]
  /\ attempt \in [Candidates -> 0 .. MaxAttempts]
  /\ result \in [Candidates -> Outcomes \cup {"none"}]
  /\ lease \in [Pipelines \X Digests -> Candidates \cup {Nobody}]

Init ==
  /\ job = [r \in Runs |-> "none"]
  /\ claims = [r \in Runs |-> 0]
  /\ noted = {}
  /\ final = [c \in Candidates |-> "none"]
  /\ blobs = {}
  /\ document = [d \in Digests |-> "absent"]
  /\ arrivals = {}
  /\ filing = [i \in Items |-> NoDigest]
  /\ live = {}
  /\ binned = {}
  /\ revived = {}
  /\ open = [e \in Entries |-> NoRun]
  /\ session = {}
  /\ pc = [c \in Candidates |-> "idle"]
  /\ attempt = [c \in Candidates |-> 0]
  /\ result = [c \in Candidates |-> "none"]
  /\ Gate!Init

-----------------------------------------------------------------------------
Listed(r) == {c \in Candidates : RunOf[c] = r}
GateKey(c) == <<PipeOf[RunOf[c]], Bytes[c]>>

\* hasLiveAttachment
Filed(d) == \E i \in live : filing[i] = d

Goto(c, p) == pc' = [pc EXCEPT ![c] = p]
Holding(c, p, o) == Goto(c, p) /\ result' = [result EXCEPT ![c] = o]

\* ReviewQueueService.raise: insert, or refresh the open row with the same key,
\* which then belongs to the run that refreshed it.
Raise(e, r) == open' = [open EXCEPT ![e] = r]

\* The `finally` around ingestHashedCandidate; nothing to do while none is held.
Release(c) == lease' = [k \in DOMAIN lease |-> IF lease[k] = c THEN Nobody ELSE lease[k]]

\* A section of the candidate's code: it runs only while its run is on.
At(c, p) == pc[c] = p /\ RunOf[c] \in session

-----------------------------------------------------------------------------
(* Runs *)

\* claimRun: a new row; or take over the old one, starting afresh if it had succeeded.
\* (claimRun also takes a row over from an execution that is alive: that is the subject of
\* SourceJobs; here a run is executed once at a time.)
ClaimRun(r) ==
  LET fresh == job[r] = "succeeded"
      forgotten == IF fresh THEN Listed(r) ELSE {}
      final2 == [c \in Candidates |-> IF c \in forgotten THEN "none" ELSE final[c]]
      done(c) == c \in Listed(r) /\ final2[c] # "none"
  IN /\ r \notin session /\ claims[r] < MaxClaims
     /\ job' = [job EXCEPT ![r] = "running"]
     /\ claims' = [claims EXCEPT ![r] = @ + 1]
     /\ session' = session \cup {r}
     /\ noted' = noted \ forgotten
     /\ final' = final2
     /\ pc' = [c \in Candidates |-> IF c \notin Listed(r) THEN pc[c]
                                    ELSE IF done(c) THEN "done" ELSE "idle"]
     /\ result' = [c \in Candidates |-> IF c \notin Listed(r) THEN result[c] ELSE final2[c]]
     /\ UNCHANGED <<library, blobs, attempt, lease>>

\* tally, verifyRun's open-entry count and finishRun
FinishRun(r) ==
  /\ r \in session
  /\ \A c \in Listed(r) : pc[c] = "done"
  /\ job' = [job EXCEPT ![r] =
               IF \E c \in Listed(r) : result[c] = "failed" THEN "failed"
               ELSE IF \E e \in Entries : open[e] = r THEN "waiting_review"
               ELSE "succeeded"]
  /\ session' = session \ {r}
  /\ UNCHANGED <<library, journal, memory, blobs, claims>>

\* The process running instance p dies.
Crash(p) ==
  LET lost == {r \in session : PipeOf[r] = p}
      gone(c) == RunOf[c] \in lost
  IN /\ lost # {}
     /\ session' = session \ lost
     /\ pc' = [c \in Candidates |-> IF gone(c) THEN "idle" ELSE pc[c]]
     /\ attempt' = [c \in Candidates |-> IF gone(c) THEN 0 ELSE attempt[c]]
     /\ result' = [c \in Candidates |-> IF gone(c) THEN "none" ELSE result[c]]
     /\ lease' = [k \in DOMAIN lease |-> IF k[1] = p THEN Nobody ELSE lease[k]]
     /\ UNCHANGED <<library, journal, blobs, job, claims>>

-----------------------------------------------------------------------------
(* One candidate *)

\* The pool picks it up: first attempt.
Start(c) == /\ At(c, "idle")
            /\ Goto(c, "start")
            /\ attempt' = [attempt EXCEPT ![c] = 1]
            /\ UNCHANGED <<library, journal, runs, blobs, result, lease>>

\* Stage 1, then the queue for the gate.
Hash(c) == /\ At(c, "start")
           /\ Goto(c, "wait")
           /\ UNCHANGED <<library, journal, runs, blobs, attempt, result, lease>>

TakeLease(c) == /\ At(c, "wait")
                /\ Gate!Take(c, GateKey(c))
                /\ Goto(c, "check")
                /\ UNCHANGED <<library, journal, runs, blobs, attempt, result>>

\* Mutant of StoreBytes: the checkpoint is written before what it vouches for.
StoreBytesNotedFirst(c) == /\ At(c, "check")
                           /\ IF c \in noted THEN Goto(c, "asked") /\ UNCHANGED blobs
                                             ELSE Goto(c, "stored") /\ blobs' = blobs \cup {Bytes[c]}
                           /\ noted' = noted \cup {c}
                           /\ UNCHANGED <<library, final, runs, attempt, result, lease>>

\* Stage 2: the bytes go to the store, unless a checkpoint says they did.
StoreBytes(c) == /\ At(c, "check")
                 /\ IF c \in noted THEN Goto(c, "asked") /\ UNCHANGED blobs
                                   ELSE Goto(c, "stored") /\ blobs' = blobs \cup {Bytes[c]}
                 /\ UNCHANGED <<library, journal, runs, attempt, result, lease>>

\* ingestBuffer's transaction: find or insert the document, insert the arrival.
RecordArrival(c) == /\ At(c, "stored")
                    /\ document' = [document EXCEPT ![Bytes[c]] = IF @ = "absent" THEN "live" ELSE @]
                    /\ arrivals' = arrivals \cup {c}
                    /\ Goto(c, "recorded")
                    /\ UNCHANGED <<filing, live, open, bin, journal, runs, blobs, attempt, result, lease>>

NoteStage2(c) == /\ At(c, "recorded")
                 /\ noted' = noted \cup {c}
                 /\ Goto(c, "asked")
                 /\ UNCHANGED <<library, final, runs, blobs, attempt, result, lease>>

\* Mutant of AskFiled: the lease covers stage 2 only.
AskFiledAndRelease(c) == /\ At(c, "asked")
                         /\ IF Filed(Bytes[c]) THEN Holding(c, "settle", "duplicate")
                                               ELSE Holding(c, "stages", "none")
                         /\ Release(c)
                         /\ UNCHANGED <<library, journal, runs, blobs, attempt>>

\* Already filed: duplicate, and stop.  Asked of the library, never of the checkpoint.
AskFiled(c) == /\ At(c, "asked")
               /\ IF Filed(Bytes[c]) THEN Holding(c, "settle", "duplicate")
                                     ELSE Holding(c, "stages", "none")
               /\ UNCHANGED <<library, journal, runs, blobs, attempt, lease>>

\* Stages 4 to 8, by the ways they can end: through, with OCR refused, or stopped.
PassStages(c) == /\ At(c, "stages")
                 /\ Goto(c, "gate")
                 /\ UNCHANGED <<library, journal, runs, blobs, attempt, result, lease>>

OcrFails(c) == /\ At(c, "stages")
               /\ Raise(<<Bytes[c], "ocr_failed">>, RunOf[c])
               /\ Goto(c, "gate")
               /\ UNCHANGED <<document, arrivals, filing, live, bin, journal, runs, blobs,
                              attempt, result, lease>>

StopHere(c) == /\ At(c, "stages")
               /\ Holding(c, "settle", "stopped")
               /\ UNCHANGED <<library, journal, runs, blobs, attempt, lease>>

\* Mutant of RouteToReview: the entry names the candidate, where nobody looks for the document.
RouteToReviewOfCandidate(c) == /\ At(c, "gate")
                               /\ Raise(<<c, "gave_up">>, RunOf[c])
                               /\ Holding(c, "settle", "review")
                               /\ UNCHANGED <<document, arrivals, filing, live, bin, journal, runs,
                                              blobs, attempt, lease>>

\* Stage 9: not sure enough, or told to ask.
RouteToReview(c) == /\ At(c, "gate")
                    /\ Raise(<<Bytes[c], "unsure">>, RunOf[c])
                    /\ Holding(c, "settle", "review")
                    /\ UNCHANGED <<document, arrivals, filing, live, bin, journal, runs, blobs,
                                   attempt, lease>>

PassGate(c) == /\ At(c, "gate")
               /\ Goto(c, "commit")
               /\ UNCHANGED <<library, journal, runs, blobs, attempt, result, lease>>

\* commitProposal: one transaction that asks again and then files.
File(d, i) == /\ filing[i] = NoDigest
              /\ filing' = [filing EXCEPT ![i] = d]
              /\ live' = live \cup {i}

\* Mutants of Commit: without refuseIfDocumentFiled; without D4's check on the way in.
CommitUnasked(c) ==
  /\ At(c, "commit")
  /\ document[Bytes[c]] = "live"
  /\ \E i \in Items : File(Bytes[c], i)
  /\ Holding(c, "committed", "ingested")
  /\ UNCHANGED <<document, arrivals, open, bin, journal, runs, blobs, attempt, lease>>

CommitOfTrashed(c) ==
  /\ At(c, "commit")
  /\ ~Filed(Bytes[c])
  /\ \E i \in Items : File(Bytes[c], i)
  /\ Holding(c, "committed", "ingested")
  /\ UNCHANGED <<document, arrivals, open, bin, journal, runs, blobs, attempt, lease>>

Commit(c) ==
  /\ At(c, "commit")
  /\ ~Filed(Bytes[c])
  /\ document[Bytes[c]] = "live"
  /\ \E i \in Items : /\ File(Bytes[c], i)
                      /\ \/ UNCHANGED open
                         \/ Raise(<<i, "partial">>, RunOf[c])
  /\ Holding(c, "committed", "ingested")
  /\ UNCHANGED <<document, arrivals, bin, journal, runs, blobs, attempt, lease>>

\* DocumentAlreadyFiledError, turned into the outcome stage 2 would have given.
CommitRefused(c) == /\ At(c, "commit")
                    /\ Filed(Bytes[c])
                    /\ Holding(c, "settle", "duplicate")
                    /\ UNCHANGED <<library, journal, runs, blobs, attempt, lease>>

\* Mutant of Supersede: by run instead of by document.
SupersedeByRun(c) == /\ At(c, "committed")
                     /\ open' = [e \in Entries |-> IF open[e] = RunOf[c] THEN NoRun ELSE open[e]]
                     /\ Goto(c, "settle")
                     /\ UNCHANGED <<document, arrivals, filing, live, bin, journal, runs, blobs,
                                    attempt, result, lease>>

\* Everything open about the document is answered by its being filed.
Supersede(c) == /\ At(c, "committed")
                /\ open' = [e \in Entries |-> IF e \in About(Bytes[c]) THEN NoRun ELSE open[e]]
                /\ Goto(c, "settle")
                /\ UNCHANGED <<document, arrivals, filing, live, bin, journal, runs, blobs,
                               attempt, result, lease>>

\* The commit checkpoint, the compaction, and the way out through `finally`.
Settle(c) == /\ At(c, "settle")
             /\ final' = [final EXCEPT ![c] = result[c]]
             /\ noted' = noted \ {c}
             /\ Goto(c, "done")
             /\ Release(c)
             /\ UNCHANGED <<library, runs, blobs, attempt, result>>

\* Mutant of Throws: attempts are not counted.
ThrowsUncounted(c) == /\ pc[c] \in FailPoints
                      /\ RunOf[c] \in session
                      /\ Holding(c, "start", "none")
                      /\ Release(c)
                      /\ UNCHANGED <<library, journal, runs, blobs, attempt>>

\* An attempt throws: the lease is released, and the candidate retried or given up.
Throws(c) == /\ \/ pc[c] \in FailPoints
                \/ pc[c] = "wait" /\ lease[GateKey(c)] # Nobody
                \/ pc[c] = "commit" /\ ~Filed(Bytes[c]) /\ document[Bytes[c]] = "trashed"
             /\ RunOf[c] \in session
             /\ IF attempt[c] < MaxAttempts
                  THEN /\ Holding(c, "start", "none")
                       /\ attempt' = [attempt EXCEPT ![c] = @ + 1]
                  ELSE Holding(c, "giveup", "none") /\ UNCHANGED attempt
             /\ Release(c)
             /\ UNCHANGED <<library, journal, runs, blobs>>

\* Mutant of GiveUp: no question when stage 2 left no document to ask about.
GiveUpSilently(c) == /\ At(c, "giveup")
                     /\ IF c \in noted THEN Raise(<<Bytes[c], "gave_up">>, RunOf[c])
                                       ELSE UNCHANGED open
                     /\ Holding(c, "done", "failed")
                     /\ UNCHANGED <<document, arrivals, filing, live, bin, journal, runs, blobs,
                                    attempt, lease>>

\* After the last attempt: a blocker about the document, or about the candidate
\* when stage 2 left no checkpoint; no commit checkpoint.
GiveUp(c) == /\ At(c, "giveup")
             /\ Raise(<<IF c \in noted THEN Bytes[c] ELSE c, "gave_up">>, RunOf[c])
             /\ Holding(c, "done", "failed")
             /\ UNCHANGED <<document, arrivals, filing, live, bin, journal, runs, blobs,
                            attempt, lease>>

Progress(c) == \/ Start(c) \/ Hash(c) \/ TakeLease(c) \/ StoreBytes(c) \/ RecordArrival(c)
               \/ NoteStage2(c) \/ AskFiled(c) \/ PassStages(c) \/ OcrFails(c) \/ StopHere(c)
               \/ RouteToReview(c) \/ PassGate(c) \/ Commit(c) \/ CommitRefused(c)
               \/ Supersede(c) \/ Settle(c) \/ Throws(c) \/ GiveUp(c)

-----------------------------------------------------------------------------
(* People, through the services the HTTP surface calls *)

\* ReviewService.accept of a create_item proposal: file and close in one transaction.
Accept(d) == /\ open[<<d, "unsure">>] # NoRun
             /\ document[d] = "live"
             /\ \E i \in Items : File(d, i)
             /\ open' = [open EXCEPT ![<<d, "unsure">>] = NoRun]
             /\ UNCHANGED <<document, arrivals, bin, journal, runs, memory, blobs>>

\* ReviewService.reject
Reject(e) == /\ open[e] # NoRun
             /\ open' = [open EXCEPT ![e] = NoRun]
             /\ UNCHANGED <<document, arrivals, filing, live, bin, journal, runs, memory, blobs>>

\* attachDocument on an item made by hand; a second item for the same file is allowed.
AttachByHand(d) == /\ document[d] = "live"
                   /\ \E i \in Items : File(d, i)
                   /\ UNCHANGED <<document, arrivals, open, bin, journal, runs, memory, blobs>>

\* detachDocument
Detach(i) == /\ i \in live
             /\ live' = live \ {i}
             /\ revived' = revived \ {i}
             /\ UNCHANGED <<document, arrivals, filing, open, binned, journal, runs, memory, blobs>>

\* restoreAttachment refuses one that went with its item, and while the document is in the
\* trash (D4).
Reattach(i) == /\ filing[i] # NoDigest /\ i \notin live \cup binned
               /\ document[filing[i]] = "live"
               /\ live' = live \cup {i}
               /\ UNCHANGED <<document, arrivals, filing, open, bin, journal, runs, memory, blobs>>

\* trashItem takes the live attachment along; restoreItem brings it back, and does not ask
\* what has become of the document meanwhile.
TrashItem(i) == /\ i \in live
                /\ live' = live \ {i}
                /\ binned' = binned \cup {i}
                /\ revived' = revived \ {i}
                /\ UNCHANGED <<document, arrivals, filing, open, journal, runs, memory, blobs>>

RestoreItem(i) ==
  /\ i \in binned
  /\ live' = live \cup {i}
  /\ binned' = binned \ {i}
  /\ revived' = IF document[filing[i]] = "live" THEN revived ELSE revived \cup {i}
  /\ UNCHANGED <<document, arrivals, filing, open, journal, runs, memory, blobs>>

\* trashDocument refuses while a live attachment points at the document (D4).
TrashDocument(d) == /\ document[d] = "live" /\ ~Filed(d)
                    /\ document' = [document EXCEPT ![d] = "trashed"]
                    /\ UNCHANGED <<arrivals, filing, live, open, bin, journal, runs, memory, blobs>>

RestoreDocument(d) == /\ document[d] = "trashed"
                      /\ document' = [document EXCEPT ![d] = "live"]
                      /\ revived' = {i \in revived : filing[i] # d}
                      /\ UNCHANGED <<arrivals, filing, live, binned, open, journal, runs, memory,
                                     blobs>>

PeopleStep == /\ People
              /\ \/ \E d \in Digests : \/ Accept(d) \/ AttachByHand(d)
                                       \/ TrashDocument(d) \/ RestoreDocument(d)
                 \/ \E i \in Items : Detach(i) \/ Reattach(i) \/ TrashItem(i) \/ RestoreItem(i)
                 \/ \E e \in Entries : Reject(e)

Next == \/ \E r \in Runs : ClaimRun(r) \/ FinishRun(r)
        \/ \E c \in Candidates : Progress(c)
        \/ \E p \in Pipelines : Crash(p)
        \/ PeopleStep

Spec == Init /\ [][Next]_vars

\* A live process keeps executing its candidates (every await it makes has a time-out of
\* its own) and finishes the run once they are done.  Nothing says a run is ever claimed.
Fairness == /\ \A c \in Candidates : WF_vars(Progress(c))
            /\ \A r \in Runs : WF_vars(FinishRun(r))

FairSpec == Spec /\ Fairness

-----------------------------------------------------------------------------
(* Properties *)

\* Left alone, the pipelines never give one document two items: not from two runs whose
\* gates cannot see each other, not by retrying, and not by resuming after a crash that
\* fell between the commit and its checkpoint.
AtMostOneFiling == \A i, j \in live : filing[i] = filing[j] => i = j

\* Behind one gate filings do not meet: when a candidate files its bytes, no other candidate
\* with the same bytes has been told "not filed" and not yet acted on it, whatever fails,
\* is retried, or is done by people meanwhile (DigestGate, pipeline.ts).
FilingsNeverMeet ==
  [][\A c, d \in Candidates :
        /\ c # d /\ GateKey(c) = GateKey(d)
        /\ pc[c] = "commit" /\ pc'[c] = "committed"
        => pc[d] \notin {"stages", "gate", "commit"}]_vars

\* No candidate with a terminal checkpoint is forgotten: the bytes it carried are filed,
\* or a rule stopped them, or an open question about the document says why they are not.
EveryDocumentAccountedFor ==
  \A c \in Candidates : final[c] # "none" =>
    \/ final[c] = "stopped"
    \/ Filed(Bytes[c])
    \/ \E e \in About(Bytes[c]) : open[e] # NoRun

\* A candidate that used up its attempts left a blocker, unless the document got filed.
FailureIsAsked ==
  \A c \in Candidates : result[c] = "failed" =>
    \/ open[<<c, "gave_up">>] # NoRun
    \/ open[<<Bytes[c], "gave_up">>] # NoRun
    \/ Filed(Bytes[c])

\* What a checkpoint claims is in the library: a resumed run may skip stage 2 on it.
CheckpointsAreTrue ==
  \A c \in Candidates : c \in noted \/ final[c] # "none" =>
    /\ Bytes[c] \in blobs
    /\ document[Bytes[c]] # "absent"
    /\ c \in arrivals

\* D4, as far as the code keeps it: a live attachment to a document in the trash is one that
\* restoreItem brought back.  No commit makes one, whatever people did with the document while
\* the candidate was in the pipeline, nor does anybody else who attaches, restores or trashes.
TrashedFilingsAreRevived == \A i \in live : document[filing[i]] = "live" \/ i \in revived

\* A claimed run comes to an end, by finishing or with its process.
EveryRunEnds == \A r \in Runs : (r \in session) ~> (r \notin session)

\* Left alone, the pipelines implement the promise of FileOnce.
known == {d \in Digests : document[d] # "absent"}
itemsOf == [d \in Digests |-> {i \in live : filing[i] = d}]
Promise == INSTANCE FileOnce
ImplementsFileOnce == Promise!Spec
=============================================================================

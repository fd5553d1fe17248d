---------------------------- MODULE StoresProofs -----------------------------
(***************************************************************************)
(* Theorems about Stores, for any number of puts, digests, shards, parts   *)
(* and attempts, any backups and restores, and any damage of the media.    *)
(***************************************************************************)
EXTENDS Stores, TLAPS

-----------------------------------------------------------------------------
(* The local store. *)

\* A put that is about to drop its own copy has seen the right bytes under their name, or has
\* seen their length, unless they were deleted or damaged since.
DropIsRight ==
  \A p \in Puts : pc[p] = "drop" => \/ file[want[p]] = "whole"
                                    \/ p \in undone \cup spoilt
                                    \/ ~thorough[p] /\ file[want[p]] = "rotten"
LocalInv == StoreTypeOK /\ DropIsRight /\ NoPartOutlivesItsPut

LEMMA LocalInitInv == StoreInit => LocalInv
BY CallSetup, StoreSetup DEF StoreInit, LocalInv, StoreTypeOK, DropIsRight, NoPartOutlivesItsPut,
                 Gone, Unlisted, Answered, Running, Ended

PartFiles == [rev : 0 .. MaxChunks + 1, old : BOOLEAN]

LEMMA PartsTyped ==
  ASSUME NEW r \in PartFiles, NEW b \in BOOLEAN
  PROVE  /\ Gone \in PartFiles /\ [rev |-> 1, old |-> FALSE] \in PartFiles
         /\ r.rev <= MaxChunks => [rev |-> r.rev + 1, old |-> FALSE] \in PartFiles
         /\ [r EXCEPT !.old = b] \in PartFiles
         /\ r.rev \in 0 .. MaxChunks + 1
BY StoreSetup DEF PartFiles, Gone

\* The step of one put: how its own rows change, and that nobody else's do.
LEMMA PutStepInv ==
  ASSUME LocalInv, NEW p \in Puts, BeginPut(p) \/ PutStep(p) \/ StreamBreaks(p) PROVE LocalInv'
<1>0. /\ part \in [Puts -> PartFiles] /\ part[p] \in PartFiles /\ pc \in [Puts -> {"idle"} \cup Running \cup Ended]
      /\ want[p] \in Digests /\ file \in [Digests -> {"none", "whole", "rotten", "short"}]
      /\ Shard(p) \in Shards /\ dirs \subseteq Shards
  BY StoreSetup DEF LocalInv, StoreTypeOK, PartFiles, Shard
<1>1. /\ UNCHANGED putRest
      /\ \A q \in Puts : q # p => pc'[q] = pc[q] /\ part'[q] = part[q]
      /\ file' = file \/ file' = [file EXCEPT ![want[p]] = "whole"]
      /\ dirs' \subseteq Shards
      /\ pc' \in [Puts -> {"idle"} \cup Running \cup Ended]
  BY <1>0 DEF PutStep, BeginPut, WriteChunk, SyncPart, LookForExisting, HashExisting, DropPart, MakeDirectory, RenamePart,
              StreamBreaks, Fail, Goto, putRest, Running, Ended, Answered
<1>2. part' \in [Puts -> PartFiles]
  BY <1>0, PartsTyped DEF PutStep, BeginPut, WriteChunk, SyncPart, LookForExisting, HashExisting, DropPart, MakeDirectory,
              RenamePart, StreamBreaks, Fail, Goto
<1>3. file' \in [Digests -> {"none", "whole", "rotten", "short"}]
  BY <1>0, <1>1
<1>4. StoreTypeOK'
  BY <1>1, <1>2, <1>3 DEF LocalInv, StoreTypeOK, PartFiles, putRest
<1>6. pc'[p] = "drop" => /\ file' = file
                         /\ \/ pc[p] = "drop" \/ file[want[p]] = "whole"
                            \/ ~thorough[p] /\ file[want[p]] = "rotten"
  BY <1>0 DEF PutStep, BeginPut, WriteChunk, SyncPart, LookForExisting, HashExisting, DropPart, MakeDirectory, RenamePart,
              StreamBreaks, Fail, Goto
<1>7. DropIsRight'
  <2> SUFFICES ASSUME NEW q \in Puts, pc'[q] = "drop"
               PROVE  \/ file'[want[q]] = "whole" \/ q \in undone \cup spoilt
                      \/ ~thorough[q] /\ file'[want[q]] = "rotten"
    BY <1>1 DEF DropIsRight, putRest
  <2>0. want[q] \in Digests
    BY DEF LocalInv, StoreTypeOK
  <2>1. CASE q = p
    BY <1>6, <2>0, <2>1 DEF LocalInv, DropIsRight
  <2>2. CASE q # p
    <3>1. \/ file[want[q]] = "whole" \/ q \in undone \cup spoilt
          \/ ~thorough[q] /\ file[want[q]] = "rotten"
      BY <1>1, <2>2 DEF LocalInv, DropIsRight
    <3> QED
      BY <1>0, <1>1, <2>0, <3>1
  <2> QED
    BY <2>1, <2>2
<1>8. pc'[p] \in {"failed"} \cup Answered => part'[p] = Gone
  BY <1>0 DEF PutStep, BeginPut, WriteChunk, SyncPart, LookForExisting, HashExisting, DropPart, MakeDirectory, RenamePart,
              StreamBreaks, Fail, Goto, Answered
<1>9. NoPartOutlivesItsPut'
  BY <1>1, <1>8 DEF LocalInv, NoPartOutlivesItsPut
<1> QED
  BY <1>4, <1>7, <1>9 DEF LocalInv

\* Deletes and decay.
LEMMA BlobInv == ASSUME LocalInv, NEW d \in Digests, UnlinkBlob(d) \/ Decay(d) PROVE LocalInv'
<1> USE DEF LocalInv, StoreTypeOK
<1>1. CASE UnlinkBlob(d)
  <2>1. StoreTypeOK' /\ NoPartOutlivesItsPut'
    BY <1>1, StoreSetup DEF UnlinkBlob, NoPartOutlivesItsPut
  <2>2. DropIsRight'
    BY <1>1 DEF UnlinkBlob, DropIsRight, Running
  <2> QED
    BY <2>1, <2>2
<1>2. CASE Decay(d)
  <2>1. StoreTypeOK' /\ NoPartOutlivesItsPut'
    BY <1>2, CallSetup DEF Decay, NoPartOutlivesItsPut
  <2>2. DropIsRight'
    BY <1>2 DEF Decay, DropIsRight
  <2> QED
    BY <2>1, <2>2
<1> QED
  BY <1>1, <1>2

\* The rest touches no blob and ends no put but by its death.
LEMMA OtherInv ==
  ASSUME LocalInv, (\E s \in Shards : RemoveDirectory(s)) \/ Sweep \/ AnHourPasses \/ CrashStore PROVE LocalInv'
<1> USE DEF LocalInv
<1>1. CASE \E s \in Shards : RemoveDirectory(s)
  BY <1>1 DEF RemoveDirectory, StoreTypeOK, DropIsRight, NoPartOutlivesItsPut
<1>2. CASE Sweep
  <2>0. part \in [Puts -> PartFiles] /\ \A p \in Puts : part[p].rev \in 0 .. MaxChunks + 1
    BY PartsTyped DEF StoreTypeOK, PartFiles
  <2>1. listed' \in [Puts -> 0 .. MaxChunks + 1] /\ condemned' \subseteq Puts
    BY <1>2, <2>0, StoreSetup DEF Sweep, ListStray, LookAgain, RemoveStray, StoreTypeOK, Unlisted
  <2>2. part' \in [Puts -> PartFiles] /\ \A p \in Puts : part'[p] = part[p] \/ part'[p] = Gone
    BY <1>2, <2>0, PartsTyped DEF Sweep, ListStray, LookAgain, RemoveStray
  <2>3. UNCHANGED <<file, dirs, want, thorough, pc, emptied, undone, spoilt, rots>>
    BY <1>2 DEF Sweep, ListStray, LookAgain, RemoveStray
  <2> QED
    BY <2>1, <2>2, <2>3 DEF StoreTypeOK, DropIsRight, NoPartOutlivesItsPut, PartFiles
<1>3. CASE AnHourPasses
  <2>1. /\ part' \in [Puts -> PartFiles]
        /\ \A p \in Puts : part[p] = Gone => part'[p] = Gone
    <3>0. part \in [Puts -> PartFiles]
      BY DEF StoreTypeOK, PartFiles
    <3>1. ASSUME NEW p \in Puts PROVE part'[p] \in PartFiles /\ (part[p] = Gone => part'[p] = Gone)
      <4> DEFINE b == part[p] # Gone
      <4>1. part'[p] = [part[p] EXCEPT !.old = b] /\ b \in BOOLEAN /\ part[p] \in PartFiles
        BY <1>3, <3>0 DEF AnHourPasses
      <4>2. part[p] = Gone => part'[p] = Gone
        <5>1. Gone \in PartFiles /\ Gone.old = FALSE
          BY StoreSetup DEF Gone, PartFiles
        <5>2. \A r \in PartFiles : r.old = FALSE => [r EXCEPT !.old = FALSE] = r
          BY DEF PartFiles
        <5> QED
          BY <4>1, <5>1, <5>2
      <4> HIDE DEF b
      <4>3. part'[p] \in PartFiles
        BY <4>1, PartsTyped
      <4> QED
        BY <4>2, <4>3
    <3>2. part' = [p \in Puts |-> part'[p]]
      BY <1>3 DEF AnHourPasses
    <3> QED
      BY <3>1, <3>2
  <2> QED
    BY <1>3, <2>1 DEF AnHourPasses, StoreTypeOK, DropIsRight, NoPartOutlivesItsPut, PartFiles
<1>4. CASE CrashStore
  <2>1. \A p \in Puts : pc'[p] = "dead" \/ pc'[p] = pc[p]
    BY <1>4 DEF CrashStore
  <2>2. pc' \in [Puts -> {"idle"} \cup Running \cup Ended]
    BY <1>4 DEF CrashStore, StoreTypeOK, Ended
  <2>3. listed' \in [Puts -> 0 .. MaxChunks + 1]
    BY <1>4, StoreSetup DEF CrashStore, Unlisted
  <2> QED
    BY <1>4, <2>1, <2>2, <2>3 DEF CrashStore, StoreTypeOK, DropIsRight, NoPartOutlivesItsPut, Answered
<1> QED
  BY <1>1, <1>2, <1>3, <1>4

LEMMA LocalStepInv == LocalInv /\ [StoreNext]_storeVars => LocalInv'
<1>1. ASSUME LocalInv, UNCHANGED storeVars PROVE LocalInv'
  BY <1>1 DEF storeVars, LocalInv, StoreTypeOK, DropIsRight, NoPartOutlivesItsPut
<1> QED
  BY <1>1, PutStepInv, BlobInv, OtherInv DEF StoreNext

\* A put that answers has its bytes under their name.
LEMMA AnswerStep ==
  ASSUME LocalInv, [StoreNext]_storeVars, NEW p \in Puts, pc[p] \in Running, pc'[p] \in Answered
  PROVE  \/ file'[want[p]] = "whole"
         \/ p \in undone' \cup spoilt'
         \/ ~thorough[p] /\ pc'[p] = "present" /\ file'[want[p]] = "rotten"
<1> USE DEF LocalInv, StoreTypeOK
<1>1. pc'[p] # pc[p] /\ pc'[p] # "dead" /\ pc'[p] # "failed"
  BY DEF Running, Answered
<1>2. DropPart(p) \/ RenamePart(p)
  <2>1. ASSUME NEW q \in Puts, BeginPut(q) \/ PutStep(q) \/ StreamBreaks(q) PROVE DropPart(p) \/ RenamePart(p)
    <3>1. q = p
      BY <1>1, <2>1 DEF PutStep, BeginPut, WriteChunk, SyncPart, LookForExisting, HashExisting, DropPart, MakeDirectory,
                        RenamePart, StreamBreaks, Fail, Goto
    <3> QED
      BY <2>1, <3>1 DEF PutStep, BeginPut, WriteChunk, SyncPart, LookForExisting, HashExisting, MakeDirectory,
                        StreamBreaks, Fail, Goto, Answered
  <2>2. ASSUME NEW d \in Digests, UnlinkBlob(d) \/ Decay(d) PROVE FALSE
    BY <1>1, <2>2 DEF UnlinkBlob, Decay
  <2>3. ASSUME (\E s \in Shards : RemoveDirectory(s)) \/ Sweep \/ AnHourPasses \/ CrashStore PROVE FALSE
    BY <1>1, <2>3 DEF RemoveDirectory, Sweep, ListStray, LookAgain, RemoveStray, AnHourPasses, CrashStore
  <2> QED
    BY <1>1, <2>1, <2>2, <2>3 DEF StoreNext, storeVars
<1>3. CASE DropPart(p)
  BY <1>3 DEF DropPart, DropIsRight, putRest
<1>4. CASE RenamePart(p)
  BY <1>1, <1>4 DEF RenamePart, Fail, putRest
<1> QED
  BY <1>2, <1>3, <1>4

\* Every step of the local store is one of a backend's, or changes no name.
LEMMA LocalRefines ==
  ASSUME LocalInv, [StoreNext]_storeVars PROVE [LocalContract!Next]_file
<1> USE DEF LocalContract!Next, LocalContract!Put, LocalContract!Delete, LocalContract!Damage
<1>1. ASSUME NEW p \in Puts, BeginPut(p) \/ PutStep(p) \/ StreamBreaks(p) PROVE [LocalContract!Next]_file
  <2>1. want[p] \in Digests
    BY DEF LocalInv, StoreTypeOK
  <2>2. file' = file \/ file' = [file EXCEPT ![want[p]] = "whole"]
    BY <1>1 DEF PutStep, BeginPut, WriteChunk, SyncPart, LookForExisting, HashExisting, DropPart, MakeDirectory, RenamePart,
                StreamBreaks, Fail, Goto
  <2> QED
    BY <2>1, <2>2
<1>2. ASSUME NEW d \in Digests, UnlinkBlob(d) \/ Decay(d) PROVE [LocalContract!Next]_file
  BY <1>2 DEF UnlinkBlob, Decay
<1>3. ASSUME (\E s \in Shards : RemoveDirectory(s)) \/ Sweep \/ AnHourPasses \/ CrashStore PROVE [LocalContract!Next]_file
  BY <1>3 DEF RemoveDirectory, Sweep, ListStray, LookAgain, RemoveStray, AnHourPasses, CrashStore
<1> QED
  BY <1>1, <1>2, <1>3 DEF StoreNext, storeVars

-----------------------------------------------------------------------------
(* The remote backends. *)

Steps == {"idle"} \cup Requests \cup RemoteEnded
Kinds == {"none", "whole", "rotten", "short"}

\* Where a put may have something at its temporary name, or its upload open; that a checked one
\* moves only what is right; and that what a put wrote under a final name rots only after that.
SpoiledSince == \A p \in Puts : at[p] = "confirmFinal" => object[sum[p]] # "rotten" \/ p \in spoiled
MovedIsWhole == \A p \in Puts : checked /\ at[p] = "move" => staged[p] \in {"none", "whole"}
StagedAt(p) == staged[p] # "none" => at[p] \in {"stage", "confirm", "move", "cleanup", "dead"} \/ p \in silent
OpenAt(p) == /\ at[p] \in {"idle", "look", "hash", "open"} => upload[p] = 0
             /\ upload[p] \in uploads[p] => at[p] \in {"parts", "complete", "abort", "dead", "abandoned"}
RemoteInv == /\ RemoteTypeOK /\ SpoiledSince /\ MovedIsWhole
             /\ \A p \in Puts : StagedAt(p) /\ OpenAt(p)

LEMMA RemoteInitInv == RemoteInit => RemoteInv
BY RemoteSetup, CallSetup DEF RemoteInit, RemoteInv, RemoteTypeOK, SpoiledSince, MovedIsWhole, StagedAt, OpenAt, Requests,
                              RemoteEnded, RemoteAnswers

\* The excuse a put has for an object that is not its own bytes.
Excused(p) == \/ object'[sum[p]] = "whole" \/ p \in overtaken'
              \/ /\ object'[sum[p]] = "rotten"
                 /\ p \in spoiled' \/ (~exact[p] /\ at'[p] = "present")

\* What a request of put p leaves: its rows typed and accounted for, and everybody else's alone.
Own(p) ==
  /\ UNCHANGED putInput /\ upload' \in [Puts -> 0 .. Attempts] /\ uploads' \in [Puts -> SUBSET (1 .. Attempts)]
  /\ staged' \in [Puts -> {"none", "whole", "short"}] /\ at' \in [Puts -> Steps] /\ tries' \in [Puts -> 0 .. Attempts - 1]
  /\ silent' \in SUBSET Puts /\ silent \subseteq silent' /\ hung' \in SUBSET Puts
  /\ at'[p] = "confirmFinal" => object'[sum[p]] # "rotten" \/ p \in spoiled
  /\ \A q \in Puts : q # p => /\ at'[q] = at[q] /\ staged'[q] = staged[q]
                              /\ upload'[q] = upload[q] /\ uploads'[q] = uploads[q]
  /\ \/ object' = object
     \/ \E got \in {"whole", "short"} : /\ object' = [object EXCEPT ![sum[p]] = got]
                                        /\ checked /\ strategy # "direct" => got = "whole"
  /\ checked /\ at'[p] = "move" => staged'[p] \in {"none", "whole"}
  /\ StagedAt(p)' /\ OpenAt(p)'
  /\ checked /\ at[p] \in Requests /\ at'[p] \in RemoteAnswers => Excused(p)

\* Every answer, and every request that gets none, leaves the put at a step of its own.
LEMMA AnswerTyped ==
  ASSUME RemoteTypeOK, NEW p \in Puts, NEW step \in Steps, Answer(p, step)
  PROVE  /\ at' \in [Puts -> Steps] /\ at'[p] = step /\ tries' \in [Puts -> 0 .. Attempts - 1] /\ silent' = silent
         /\ hung' \in SUBSET Puts
         /\ \A q \in Puts : q # p => at'[q] = at[q]
BY RemoteSetup DEF Answer, RemoteTypeOK, Steps

LEMMA NoAnswerTyped ==
  ASSUME RemoteTypeOK, NEW p \in Puts, NEW step \in Steps, NoAnswer(p, step)
  PROVE  /\ at' \in [Puts -> Steps] /\ tries' \in [Puts -> 0 .. Attempts - 1]
         /\ at'[p] = at[p] \/ (at'[p] = step /\ (at[p] \in {"stage", "cleanup"} => p \in silent'))
         /\ silent' \in SUBSET Puts /\ silent \subseteq silent' /\ hung' \in SUBSET Puts
         /\ \A q \in Puts : q # p => at'[q] = at[q]
<1>1. tries[p] \in 0 .. Attempts - 1
  BY DEF RemoteTypeOK
<1> QED
  BY <1>1, RemoteSetup DEF NoAnswer, Retried, Hangs, RemoteTypeOK, Steps

LEMMA StepsAre == /\ \A s \in Requests : s \in Steps
                  /\ {"present", "stored", "failed", "abandoned", "dead"} \subseteq Steps
                  /\ Upload \in {"stage", "open", "store"} /\ Upload \in Steps
BY DEF Steps, Requests, RemoteEnded, RemoteAnswers, Upload

\* The requests that look: the server and the upload are as they were.
LEMMA LookOwn ==
  ASSUME RemoteInv, NEW p \in Puts,
         BeginRemotePut(p) \/ HeadFinal(p) \/ GetDigest(p) \/ ConfirmTemporary(p) \/ ConfirmFinal(p) \/ UploadParts(p)
  PROVE  Own(p)
<1> USE DEF RemoteInv
<1>0. /\ UNCHANGED <<server, upload, putInput>> /\ sum[p] \in Digests /\ object[sum[p]] \in Kinds
      /\ at[p] \in {"idle", "look", "hash", "confirm", "confirmFinal", "parts"}
  BY DEF RemoteTypeOK, Kinds, BeginRemotePut, HeadFinal, GetDigest, ConfirmTemporary, ConfirmFinal, UploadParts
<1>1. PICK step \in Steps :
        /\ Answer(p, step) \/ NoAnswer(p, step)
        /\ at[p] = "idle" => step = "look"
        /\ at[p] = "look" => step \in {"failed", "stage", "open", "store", "hash", "present"}
        /\ at[p] = "hash" => step \in {"failed", "stage", "open", "store", "present"}
        /\ at[p] = "confirm" => step \in {"cleanup", "move"} /\ (step = "move" => staged[p] = "whole")
        /\ at[p] = "confirmFinal" => step \in {"stored", "failed"}
        /\ at[p] = "parts" => step \in {"complete", "abort"}
        /\ checked /\ step \in RemoteAnswers => \/ object[sum[p]] = "whole"
                                               \/ /\ object[sum[p]] = "rotten"
                                                  /\ at[p] = "confirmFinal" \/ (~exact[p] /\ step = "present")
  BY <1>0, StepsAre DEF BeginRemotePut, HeadFinal, GetDigest, ConfirmTemporary, ConfirmFinal, UploadParts, Requests,
                        RemoteAnswers, Kinds
<1>2. /\ at' \in [Puts -> Steps] /\ tries' \in [Puts -> 0 .. Attempts - 1]
      /\ at'[p] = at[p] \/ at'[p] = step
      /\ silent' \in SUBSET Puts /\ silent \subseteq silent' /\ hung' \in SUBSET Puts
      /\ \A q \in Puts : q # p => at'[q] = at[q]
  <2>1. silent \in SUBSET Puts
    BY DEF RemoteTypeOK
  <2> QED
    BY <1>1, <2>1, AnswerTyped, NoAnswerTyped
<1>3. UNCHANGED <<object, staged, uploads, upload, checked, sum, exact, spoiled, overtaken>>
  BY <1>0 DEF server, putInput
<1>4. checked /\ at[p] \in Requests /\ at'[p] \in RemoteAnswers => Excused(p)
  <2>1. at[p] \in Requests /\ at'[p] \in RemoteAnswers => at'[p] = step
    BY <1>2 DEF Requests, RemoteAnswers
  <2> QED
    BY <1>0, <1>1, <1>2, <1>3, <2>1 DEF Excused, SpoiledSince
<1>5. StagedAt(p)'
  BY <1>0, <1>1, <1>2, <1>3 DEF StagedAt
<1>6. OpenAt(p)'
  BY <1>0, <1>1, <1>2, <1>3 DEF OpenAt
<1>7. checked /\ at'[p] = "move" => staged'[p] \in {"none", "whole"}
  BY <1>0, <1>1, <1>2, <1>3
<1>8. at'[p] = "confirmFinal" => object'[sum[p]] # "rotten" \/ p \in spoiled
  BY <1>0, <1>1, <1>2, <1>3 DEF SpoiledSince
<1> QED
  BY <1>0, <1>2, <1>3, <1>4, <1>5, <1>6, <1>7, <1>8 DEF Own, RemoteTypeOK

\* An answer is told from none, and from another one, by the step it leads to.
LEMMA NoStored ==
  ASSUME RemoteTypeOK, NEW p \in Puts, at[p] = "move", Answer(p, "stored")
  PROVE  ~Answer(p, "cleanup") /\ ~NoAnswer(p, "cleanup")
BY DEF Answer, NoAnswer, Retried, Hangs, RemoteTypeOK

\* What is written to and read from the temporary name.
LEMMA TemporaryOwn ==
  ASSUME RemoteInv, NEW p \in Puts, PutTemporary(p) \/ Move(p) \/ CleanUp(p) PROVE Own(p)
<1> USE DEF RemoteInv
<1>0. /\ UNCHANGED <<uploads, upload, putInput>> /\ sum[p] \in Digests /\ staged[p] \in {"none", "whole", "short"}
      /\ at[p] \in {"stage", "move", "cleanup"}
  BY DEF RemoteTypeOK, PutTemporary, Move, CleanUp
<1>1. PICK step \in Steps :
        /\ Answer(p, step) \/ NoAnswer(p, step)
        /\ at[p] = "stage" => step \in {"confirm", "move", "failed"} /\ (checked => step # "move")
        /\ at[p] = "move" => step \in {"stored", "cleanup"}
        /\ at[p] = "cleanup" => step = "failed" /\ (NoAnswer(p, step) \/ staged'[p] = "none")
        /\ step = "failed" => at[p] = "cleanup" \/ NoAnswer(p, step)
        /\ step = "stored" => staged'[p] = "none" /\ object' = [object EXCEPT ![sum[p]] = staged[p]] /\ staged[p] # "none"
  <2>0. staged \in [Puts -> {"none", "whole", "short"}]
    BY DEF RemoteTypeOK
  <2>1. CASE PutTemporary(p)
    BY <2>1, StepsAre DEF PutTemporary, Requests
  <2>2. CASE Move(p)
    <3>1. CASE Answer(p, "stored")
      <4>1. staged'[p] = "none" /\ object' = [object EXCEPT ![sum[p]] = staged[p]] /\ staged[p] # "none"
        BY <2>0, <2>2, <3>1, NoStored DEF Move
      <4> QED
        BY <2>2, <3>1, <4>1, StepsAre DEF Move
    <3>2. CASE Answer(p, "cleanup") \/ NoAnswer(p, "cleanup")
      BY <2>2, <3>2, StepsAre DEF Move, Requests
    <3> QED
      BY <2>2, <3>1, <3>2 DEF Move
  <2>3. CASE CleanUp(p)
    BY <2>0, <2>3, StepsAre DEF CleanUp, Requests
  <2> QED
    BY <2>1, <2>2, <2>3
<1>2. /\ at' \in [Puts -> Steps] /\ tries' \in [Puts -> 0 .. Attempts - 1]
      /\ \/ at'[p] = at[p]
         \/ at'[p] = step
      /\ silent' \in SUBSET Puts /\ silent \subseteq silent' /\ hung' \in SUBSET Puts
      /\ \A q \in Puts : q # p => at'[q] = at[q]
      /\ NoAnswer(p, step) /\ at'[p] # at[p] /\ at[p] # "move" => p \in silent'
  <2>1. silent \in SUBSET Puts
    BY DEF RemoteTypeOK
  <2> QED
    BY <1>0, <1>1, <2>1, AnswerTyped, NoAnswerTyped
<1>3. /\ staged' \in [Puts -> {"none", "whole", "short"}]
      /\ \A q \in Puts : q # p => staged'[q] = staged[q]
      /\ at[p] = "move" => staged'[p] \in {staged[p], "none"}
      /\ object' = object \/ (at[p] = "move" /\ staged[p] # "none" /\ object' = [object EXCEPT ![sum[p]] = staged[p]])
  BY <1>0 DEF PutTemporary, Move, CleanUp, RemoteTypeOK
<1>4. checked /\ at[p] = "move" => staged[p] \in {"none", "whole"}
  BY DEF MovedIsWhole
<1>5. UNCHANGED <<checked, sum, strategy>>
  BY <1>0 DEF putInput
<1>6. checked /\ at[p] \in Requests /\ at'[p] \in RemoteAnswers => Excused(p)
  <2>1. at'[p] \in RemoteAnswers => step = "stored" /\ at[p] = "move"
    BY <1>0, <1>1, <1>2 DEF RemoteAnswers
  <2> QED
    BY <1>0, <1>1, <1>4, <2>1 DEF Excused, RemoteTypeOK
<1>7. StagedAt(p)'
  BY <1>0, <1>1, <1>2, <1>3 DEF StagedAt
<1>8. OpenAt(p)'
  BY <1>0, <1>1, <1>2 DEF OpenAt
<1>9. checked /\ at'[p] = "move" => staged'[p] \in {"none", "whole"}
  BY <1>0, <1>1, <1>2, <1>3, <1>4
<1>10. \/ object' = object
       \/ \E got \in {"whole", "short"} : /\ object' = [object EXCEPT ![sum[p]] = got]
                                          /\ checked /\ strategy # "direct" => got = "whole"
  BY <1>0, <1>3, <1>4
<1>11. at'[p] # "confirmFinal"
  BY <1>0, <1>1, <1>2
<1> QED
  BY <1>0, <1>2, <1>3, <1>5, <1>6, <1>7, <1>8, <1>9, <1>10, <1>11 DEF Own, RemoteTypeOK

\* One object, or one in parts.
LEMMA ObjectOwn ==
  ASSUME RemoteInv, NEW p \in Puts, PutFinal(p) \/ OpenUpload(p) \/ CompleteUpload(p) \/ AbortUpload(p) PROVE Own(p)
<1> USE DEF RemoteInv
<1>0. /\ UNCHANGED <<staged, putInput>> /\ sum[p] \in Digests
      /\ at[p] \in {"store", "open", "complete", "abort"} /\ upload[p] \in 0 .. Attempts
      /\ uploads[p] \in SUBSET (1 .. Attempts) /\ tries[p] + 1 \in 1 .. Attempts
      /\ tries[p] \in 0 .. Attempts - 1
  BY RemoteSetup DEF RemoteTypeOK, PutFinal, OpenUpload, CompleteUpload, AbortUpload
<1>1. PICK step \in Steps :
        /\ Answer(p, step) \/ NoAnswer(p, step)
        /\ at[p] = "store" => step \in {"confirmFinal", "failed"}
        /\ at[p] = "open" => step \in {"parts", "failed"}
        /\ at[p] = "complete" => step \in {"confirmFinal", "abort"}
        /\ at[p] = "abort" => step \in {"failed", "abandoned"}
        /\ at[p] = "complete" /\ step = "confirmFinal" => uploads'[p] = uploads[p] \ {upload[p]}
        /\ at[p] = "abort" /\ step = "failed" => uploads'[p] = uploads[p] \ {upload[p]}
        /\ at[p] = "open" /\ ~Answer(p, step) => upload'[p] = upload[p]
        /\ at[p] = "open" /\ step = "failed" => upload'[p] = upload[p]
  <2>1. CASE AbortUpload(p)
    <3>1. CASE Hangs(p)
      BY <1>0, <2>1, <3>1, StepsAre DEF AbortUpload, NoAnswer, Requests
    <3>2. CASE ~ Hangs(p)
      BY <1>0, <2>1, <3>2, StepsAre DEF AbortUpload, Requests, RemoteTypeOK
    <3> QED
      BY <3>1, <3>2
  <2>2. CASE PutFinal(p) \/ OpenUpload(p) \/ CompleteUpload(p)
    BY <1>0, <2>2, StepsAre DEF PutFinal, OpenUpload, CompleteUpload, Requests, RemoteTypeOK
  <2> QED
    BY <2>1, <2>2
<1>2. /\ at' \in [Puts -> Steps] /\ tries' \in [Puts -> 0 .. Attempts - 1]
      /\ at'[p] = at[p] \/ at'[p] = step
      /\ Answer(p, step) => at'[p] = step
      /\ silent' \in SUBSET Puts /\ silent \subseteq silent' /\ hung' \in SUBSET Puts
      /\ \A q \in Puts : q # p => at'[q] = at[q]
  <2>1. silent \in SUBSET Puts
    BY DEF RemoteTypeOK
  <2> QED
    BY <1>1, <2>1, AnswerTyped, NoAnswerTyped
<1>3. /\ upload' \in [Puts -> 0 .. Attempts]
      /\ uploads' \in [Puts -> SUBSET (1 .. Attempts)]
      /\ \A q \in Puts : q # p => upload'[q] = upload[q] /\ uploads'[q] = uploads[q]
      /\ at[p] # "open" => upload'[p] = upload[p] /\ uploads'[p] \subseteq uploads[p]
      /\ uploads'[p] \in SUBSET (1 .. Attempts)
  <2>1. \A id \in 1 .. Attempts : id \in 0 .. Attempts
    OBVIOUS
  <2>2. (tries[p] + 1) \in 0 .. Attempts
    BY <1>0, <2>1
  <2>3. upload \in [Puts -> 0 .. Attempts] /\ uploads \in [Puts -> SUBSET (1 .. Attempts)]
    BY DEF RemoteTypeOK
  <2>4. upload' = upload \/ upload' = [upload EXCEPT ![p] = tries[p] + 1]
    BY DEF PutFinal, OpenUpload, CompleteUpload, AbortUpload
  <2>5. \/ uploads' = uploads
        \/ at[p] = "open" /\ uploads' = [uploads EXCEPT ![p] = @ \cup {tries[p] + 1}]
        \/ uploads' = [uploads EXCEPT ![p] = @ \ {upload[p]}]
    BY DEF PutFinal, OpenUpload, CompleteUpload, AbortUpload
  <2>6. at[p] # "open" => upload' = upload
    BY DEF PutFinal, OpenUpload, CompleteUpload, AbortUpload
  <2>7. upload' \in [Puts -> 0 .. Attempts]
    BY <2>2, <2>3, <2>4
  <2>8. uploads' \in [Puts -> SUBSET (1 .. Attempts)]
    BY <1>0, <2>3, <2>5
  <2> QED
    BY <2>3, <2>4, <2>5, <2>6, <2>7, <2>8
<1>4. \/ object' = object
      \/ \E got \in {"whole", "short"} : /\ object' = [object EXCEPT ![sum[p]] = got]
                                         /\ checked /\ strategy # "direct" => got = "whole"
  BY DEF PutFinal, OpenUpload, CompleteUpload, AbortUpload
<1>9. at'[p] = "confirmFinal" => object'[sum[p]] # "rotten" \/ p \in spoiled
  <2>1. at'[p] = "confirmFinal" => PutFinal(p) \/ (CompleteUpload(p) /\ upload[p] \in uploads[p])
    <3>1. CASE OpenUpload(p) \/ AbortUpload(p)
      BY <1>0, <1>1, <1>2, <3>1 DEF OpenUpload, AbortUpload
    <3>2. CASE CompleteUpload(p) /\ upload[p] \notin uploads[p]
      <4>1. at[p] = "complete" /\ (Answer(p, "abort") \/ NoAnswer(p, "abort")) /\ "abort" \in Steps
        BY <3>2, StepsAre DEF CompleteUpload, Requests
      <4>2. at'[p] \in {"complete", "abort"}
        BY <4>1, AnswerTyped, NoAnswerTyped
      <4> QED
        BY <4>2
    <3> QED
      BY <3>1, <3>2
  <2>2. CASE PutFinal(p)
    <3>1. PICK kept \in {"whole", "short", "no"} :
            IF kept = "no" THEN NoAnswer(p, "failed") ELSE object' = [object EXCEPT ![sum[p]] = kept]
      BY <2>2 DEF PutFinal
    <3>2. kept = "no" => at'[p] # "confirmFinal"
      BY <2>2, <3>1, NoAnswerTyped, StepsAre DEF PutFinal
    <3> QED
      BY <1>0, <3>1, <3>2 DEF RemoteTypeOK
  <2>3. CASE CompleteUpload(p) /\ upload[p] \in uploads[p]
    <3>1. CASE object' = [object EXCEPT ![sum[p]] = "whole"]
      BY <1>0, <3>1 DEF RemoteTypeOK
    <3>2. CASE NoAnswer(p, "abort")
      BY <2>3, <3>2, NoAnswerTyped, StepsAre DEF CompleteUpload, Requests
    <3> QED
      BY <2>3, <3>1, <3>2 DEF CompleteUpload
  <2> QED
    BY <2>1, <2>2, <2>3
<1>5. UNCHANGED <<checked, sum, staged>>
  BY <1>0 DEF putInput
<1>6. at'[p] \notin RemoteAnswers /\ at'[p] # "move"
  BY <1>0, <1>1, <1>2 DEF RemoteAnswers
<1>7. StagedAt(p)'
  BY <1>0, <1>2, <1>5 DEF StagedAt
<1>8. OpenAt(p)'
  <2>1. OpenAt(p)
    OBVIOUS
  <2>2. CASE at[p] = "open"
    <3>1. CASE at'[p] = "parts"
      BY <3>1 DEF OpenAt
    <3>2. CASE at'[p] # "parts"
      <4>1. upload'[p] = upload[p]
        BY <1>1, <1>2, <2>2, <3>2
      <4>2. upload'[p] = 0
        BY <2>1, <2>2, <4>1 DEF OpenAt
      <4>3. upload'[p] \notin uploads'[p]
        BY <1>3, <4>2
      <4> QED
        BY <4>2, <4>3 DEF OpenAt
    <3> QED
      BY <3>1, <3>2
  <2>3. CASE at[p] # "open"
    <3>1. upload'[p] = upload[p] /\ uploads'[p] \subseteq uploads[p]
      BY <1>3, <2>3
    <3> QED
      BY <1>0, <1>1, <1>2, <2>1, <2>3, <3>1 DEF OpenAt
  <2> QED
    BY <2>2, <2>3
<1> QED
  BY <1>0, <1>2, <1>3, <1>4, <1>5, <1>6, <1>7, <1>8, <1>9 DEF Own, RemoteTypeOK

LEMMA PutOwn ==
  ASSUME RemoteInv, NEW p \in Puts, BeginRemotePut(p) \/ RemotePutStep(p) PROVE Own(p)
BY LookOwn, TemporaryOwn, ObjectOwn DEF RemotePutStep, Request

LEMMA OwnInv == ASSUME RemoteInv, NEW p \in Puts, Own(p) PROVE RemoteInv'
<1> USE DEF RemoteInv
<1>0. UNCHANGED <<strategy, checked, sum, exact, overtaken, spoiled, decayed>> /\ sum[p] \in Digests
  BY DEF Own, putInput, RemoteTypeOK
<1>1. PICK got \in {"whole", "short"} : object' = object \/ object' = [object EXCEPT ![sum[p]] = got]
  BY DEF Own
<1>2. RemoteTypeOK'
  <2>1. object' \in [Digests -> {"none", "whole", "rotten", "short"}]
    BY <1>0, <1>1 DEF RemoteTypeOK
  <2> QED
    BY <1>0, <2>1 DEF Own, RemoteTypeOK, Steps
<1>3. SpoiledSince'
  <2>1. ASSUME NEW q \in Puts, at'[q] = "confirmFinal" PROVE object'[sum[q]] # "rotten" \/ q \in spoiled
    <3>1. CASE q = p
      BY <2>1, <3>1 DEF Own
    <3>2. CASE q # p
      <4>1. at[q] = "confirmFinal" /\ sum[q] \in Digests
        BY <2>1, <3>2 DEF Own, RemoteTypeOK
      <4> QED
        BY <1>0, <1>1, <4>1 DEF SpoiledSince, RemoteTypeOK
    <3> QED
      BY <3>1, <3>2
  <2> QED
    BY <1>0, <2>1 DEF SpoiledSince
<1>4. MovedIsWhole'
  BY <1>0 DEF Own, MovedIsWhole
<1>5. ASSUME NEW q \in Puts PROVE StagedAt(q)' /\ OpenAt(q)'
  <2>1. CASE q = p
    BY <2>1 DEF Own
  <2>2. CASE q # p
    BY <2>2 DEF Own, StagedAt, OpenAt
  <2> QED
    BY <2>1, <2>2
<1> QED
  BY <1>2, <1>3, <1>4, <1>5

LEMMA RemoteRestInv ==
  ASSUME RemoteInv, CrashClient \/ \E d \in Digests : DeleteObject(d) \/ DecayObject(d) PROVE RemoteInv'
<1> USE DEF RemoteInv
<1>1. CASE CrashClient
  <2>1. UNCHANGED <<strategy, checked, object, staged, uploads, upload, sum, exact, silent, overtaken, spoiled, decayed>>
        /\ hung' = {}
    BY <1>1 DEF CrashClient, server, putInput
  <2>2. /\ at' \in [Puts -> Steps] /\ tries' \in [Puts -> 0 .. Attempts - 1]
        /\ \A p \in Puts : at'[p] = "dead" \/ (at'[p] = at[p] /\ at[p] \notin Requests)
    BY <1>1, RemoteSetup DEF CrashClient, RemoteTypeOK, Steps, RemoteEnded
  <2>3. RemoteTypeOK'
    BY <2>1, <2>2 DEF RemoteTypeOK, Steps
  <2>4. SpoiledSince' /\ MovedIsWhole'
    BY <2>1, <2>2 DEF SpoiledSince, MovedIsWhole, Requests
  <2>5. \A p \in Puts : StagedAt(p)' /\ OpenAt(p)'
    BY <2>1, <2>2 DEF StagedAt, OpenAt
  <2> QED
    BY <2>3, <2>4, <2>5
<1>2. ASSUME NEW d \in Digests, DeleteObject(d) PROVE RemoteInv'
  BY <1>2 DEF DeleteObject, RemoteTypeOK, SpoiledSince, MovedIsWhole, StagedAt, OpenAt
<1>3. ASSUME NEW d \in Digests, DecayObject(d) PROVE RemoteInv'
  <2>1. decayed' \in 0 .. MaxRots
    BY <1>3, CallSetup DEF DecayObject, RemoteTypeOK
  <2> QED
    BY <1>3, <2>1 DEF DecayObject, RemoteTypeOK, SpoiledSince, MovedIsWhole, StagedAt, OpenAt
<1> QED
  BY <1>1, <1>2, <1>3

LEMMA RemoteStepInv == RemoteInv /\ [RemoteNext]_remoteVars => RemoteInv'
<1>1. ASSUME RemoteInv, UNCHANGED remoteVars PROVE RemoteInv'
  BY <1>1 DEF remoteVars, RemoteInv, RemoteTypeOK, SpoiledSince, MovedIsWhole, StagedAt, OpenAt
<1> QED
  BY <1>1, PutOwn, OwnInv, RemoteRestInv DEF RemoteNext

\* The final names obey the contract.
LEMMA RemoteRefines ==
  ASSUME RemoteInv, [RemoteNext]_remoteVars, strategy # "direct", checked PROVE [RemoteContract!Next]_object
<1> USE DEF RemoteContract!Next, RemoteContract!Put, RemoteContract!Delete, RemoteContract!Damage
<1>1. ASSUME NEW p \in Puts, BeginRemotePut(p) \/ RemotePutStep(p) PROVE [RemoteContract!Next]_object
  <2>1. sum[p] \in Digests
    BY DEF RemoteInv, RemoteTypeOK
  <2>2. Own(p)
    BY <1>1, PutOwn
  <2>3. object' = object \/ object' = [object EXCEPT ![sum[p]] = "whole"]
    BY <2>2 DEF Own
  <2> QED
    BY <2>1, <2>3
<1>2. ASSUME NEW d \in Digests, DeleteObject(d) \/ DecayObject(d) PROVE [RemoteContract!Next]_object
  BY <1>2 DEF DeleteObject, DecayObject
<1>3. ASSUME CrashClient \/ UNCHANGED remoteVars PROVE [RemoteContract!Next]_object
  BY <1>3 DEF CrashClient, server, remoteVars
<1> QED
  BY <1>1, <1>2, <1>3 DEF RemoteNext

LEMMA RemoteAnswerStep ==
  ASSUME RemoteInv, [RemoteNext]_remoteVars, NEW p \in Puts, checked, at[p] \in Requests, at'[p] \in RemoteAnswers
  PROVE  Excused(p)
<1>0. at'[p] # at[p] /\ at'[p] # "dead"
  BY DEF Requests, RemoteAnswers
<1>1. ASSUME NEW q \in Puts, BeginRemotePut(q) \/ RemotePutStep(q) PROVE Excused(p)
  <2>1. Own(q)
    BY <1>1, PutOwn
  <2>2. q = p
    BY <1>0, <2>1 DEF Own
  <2> QED
    BY <2>1, <2>2 DEF Own
<1>2. ASSUME NEW d \in Digests, DeleteObject(d) \/ DecayObject(d) PROVE FALSE
  BY <1>0, <1>2 DEF DeleteObject, DecayObject
<1>3. ASSUME CrashClient \/ UNCHANGED remoteVars PROVE FALSE
  BY <1>0, <1>3 DEF CrashClient, remoteVars
<1> QED
  BY <1>1, <1>2, <1>3 DEF RemoteNext

-----------------------------------------------------------------------------
(* Snapshots and their restoration. *)

\* What a finished or an unfinished backup owes the rows of its database: each has its blob,
\* claimed, reported as corrupt or still to do, since no row ever loses its blob again.
RowsStay == /\ rows \cap Probed = {} /\ \A d \in rows : blobs[d] # "none"
            /\ snap.db.rows \subseteq rows
Covered == /\ backup.at = "blobs" => snap.db.rows \subseteq backup.claims \cup backup.corrupt \cup backup.todo
           /\ backup.at = "manifest" => snap.db.rows \subseteq backup.claims \cup backup.corrupt
ManifestCovers == snap.manifest.there /\ snap.manifest.included =>
                    snap.manifest.rows \subseteq snap.manifest.claims \cup omitted

\* What a restore has copied so far, when nothing was wrong, and when its database is there.
CopiedIsRight == restore.at = "copy" =>
  /\ restore.todo \subseteq Files(restore.of)
  /\ restore.of.included \/ restore.of.claims = {}
  /\ ~restore.failed =>
       /\ "db" \in restore.todo \/ target.db = [there |-> TRUE, rows |-> restore.of.rows]
       /\ \A d \in restore.of.claims : d \in restore.todo \/ target.blobs[d] = "whole"
  /\ "db" \in restore.written \/ ~target.db.there

BackupInv == /\ BackupTypeOK /\ RowsStay /\ Covered /\ ManifestCovers
             /\ CopiedIsRight /\ RestoredIsWhole /\ RefusedLeavesNoLibrary

Snapshots == [db : Database, blobs : [Digests -> Contents], manifest : Manifests]
Backups == [at : {"idle", "database", "list", "blobs", "manifest"},
            included : BOOLEAN, skip : BOOLEAN, todo : SUBSET Digests,
            claims : SUBSET Digests, corrupt : SUBSET Digests]
Targets == [db : Database, blobs : [Digests -> Contents]]
Restores == [at : {"idle", "copy", "restored", "refused", "cut"}, of : Manifests,
             todo : SUBSET (Digests \cup {"db"}), failed : BOOLEAN, written : SUBSET (Digests \cup {"db"})]

LEMMA Empties ==
  /\ NoRows \in Database /\ NoManifest \in Manifests /\ NoBlobs \in [Digests -> Contents]
  /\ EmptyDirectory \in Snapshots /\ NoBackup \in Backups /\ NoRestore \in Restores
  /\ NoRows.rows = {} /\ ~NoRows.there /\ ~NoManifest.there
  /\ EmptyDirectory.db = NoRows /\ EmptyDirectory.manifest = NoManifest
  /\ NoBackup.at = "idle" /\ NoRestore.at = "idle" /\ ~NoRestore.failed /\ NoRestore.written = {}
<1>1. NoRows \in Database /\ NoManifest \in Manifests /\ NoBlobs \in [Digests -> Contents]
  BY DEF NoRows, Database, NoManifest, Manifests, NoBlobs, Contents
<1>2. EmptyDirectory \in Snapshots /\ EmptyDirectory.db = NoRows /\ EmptyDirectory.manifest = NoManifest
  BY <1>1 DEF EmptyDirectory, Snapshots
<1>3. NoBackup \in Backups /\ NoBackup.at = "idle"
  BY DEF NoBackup, Backups
<1>4. NoRestore \in Restores /\ NoRestore.at = "idle" /\ ~NoRestore.failed /\ NoRestore.written = {}
  BY <1>1 DEF NoRestore, Restores
<1> QED
  BY <1>1, <1>2, <1>3, <1>4 DEF NoRows, NoManifest

LEMMA BackupInitInv == BackupInit => BackupInv
<1> SUFFICES ASSUME BackupInit PROVE BackupInv
  OBVIOUS
<1>1. blobs = NoBlobs /\ blobs \in [Digests -> Contents]
  BY Empties DEF BackupInit, Store!Init, NoBlobs
<1>2. target = [db |-> NoRows, blobs |-> NoBlobs] /\ target \in Targets
  BY Empties DEF BackupInit, Targets
<1>3. BackupTypeOK
  BY <1>1, <1>2, Empties, BackupSetup DEF BackupInit, BackupTypeOK, Snapshots, Backups, Targets, Restores
<1>4. RowsStay /\ Covered /\ ManifestCovers
  BY Empties DEF BackupInit, RowsStay, Covered, ManifestCovers
<1>5. CopiedIsRight /\ RestoredIsWhole /\ RefusedLeavesNoLibrary
  BY Empties DEF BackupInit, CopiedIsRight, RestoredIsWhole, RefusedLeavesNoLibrary
<1> QED
  BY <1>3, <1>4, <1>5 DEF BackupInv

\* The library in use: no document's row loses its blob.
LEMMA LiveInv ==
  ASSUME BackupInv, NEW d \in Digests, PutBlob(d) \/ DeleteProbe(d) \/ DecayBlob(d) \/ CommitRow(d) PROVE BackupInv'
<1> USE DEF BackupInv
<1>1. /\ UNCHANGED <<snap, backup, omitted, target, restore, backups, restores>>
      /\ blobs' \in [Digests -> Contents] /\ decays' \in 0 .. MaxDecays
      /\ rows \subseteq rows' /\ rows' \subseteq Digests /\ rows' \cap Probed = {}
      /\ \A e \in rows' : blobs'[e] # "none"
  BY BackupSetup DEF PutBlob, DeleteProbe, DecayBlob, CommitRow, beside, Store!Put, Store!Delete, Store!Damage, BackupTypeOK,
                     RowsStay, Contents
<1>2. BackupTypeOK' /\ RowsStay'
  BY <1>1 DEF BackupTypeOK, RowsStay
<1>3. Covered' /\ ManifestCovers' /\ CopiedIsRight' /\ RestoredIsWhole' /\ RefusedLeavesNoLibrary'
  BY <1>1 DEF Covered, ManifestCovers, CopiedIsRight, RestoredIsWhole, RefusedLeavesNoLibrary
<1> QED
  BY <1>2, <1>3

\* Changes of a snapshot, one part at a time.
LEMMA SnapshotParts ==
  ASSUME NEW s \in Snapshots
  PROVE  /\ s.db \in Database /\ s.blobs \in [Digests -> Contents] /\ s.manifest \in Manifests
         /\ s.db.rows \subseteq Digests /\ s.manifest.rows \subseteq Digests /\ s.manifest.claims \subseteq Digests
         /\ \A x \in Database : LET t == [s EXCEPT !.db = x]
                                IN t \in Snapshots /\ t.db = x /\ t.blobs = s.blobs /\ t.manifest = s.manifest
         /\ \A x \in [Digests -> Contents] : LET t == [s EXCEPT !.blobs = x]
                                IN t \in Snapshots /\ t.db = s.db /\ t.blobs = x /\ t.manifest = s.manifest
         /\ \A x \in Manifests : LET t == [s EXCEPT !.manifest = x]
                                IN t \in Snapshots /\ t.db = s.db /\ t.blobs = s.blobs /\ t.manifest = x
<1>1. s.db \in Database /\ s.blobs \in [Digests -> Contents] /\ s.manifest \in Manifests
  BY DEF Snapshots
<1>2. s.db.rows \subseteq Digests /\ s.manifest.rows \subseteq Digests /\ s.manifest.claims \subseteq Digests
  BY <1>1 DEF Database, Manifests
<1> QED
  BY <1>1, <1>2 DEF Snapshots

\* A step of the backup: what it owes the rest of the invariant.
LEMMA BackupOwes ==
  ASSUME BackupInv, UNCHANGED <<blobs, rows, target, restore, restores>>,
         decays' \in 0 .. MaxDecays, backups' \in 0 .. MaxBackups,
         snap' \in Snapshots, backup' \in Backups, omitted' \subseteq Digests,
         snap'.db.rows \subseteq rows, Covered', ManifestCovers'
  PROVE  BackupInv'
BY DEF BackupInv, BackupTypeOK, Snapshots, Backups, RowsStay, CopiedIsRight, RestoredIsWhole, RefusedLeavesNoLibrary

LEMMA BackupStepInv ==
  ASSUME BackupInv, \/ \E included, skip \in BOOLEAN : PrepareTarget(included, skip)
                    \/ SnapshotDatabase \/ ListBlobs \/ PruneStale \/ WriteManifest \/ CutBackup
                    \/ \E d \in Digests : CopyBlob(d) \/ DecaySnapshot(d)
  PROVE  BackupInv'
<1>0. /\ snap \in Snapshots /\ backup \in Backups /\ omitted \subseteq Digests /\ rows \subseteq Digests
      /\ decays \in 0 .. MaxDecays /\ backups \in 0 .. MaxBackups /\ blobs \in [Digests -> Contents]
      /\ snap.db.rows \subseteq rows /\ \A d \in rows : blobs[d] # "none"
      /\ Covered /\ ManifestCovers
  BY DEF BackupInv, BackupTypeOK, Snapshots, Backups, RowsStay
<1>00. /\ snap.db \in Database /\ snap.blobs \in [Digests -> Contents] /\ snap.manifest \in Manifests
       /\ snap.db.rows \subseteq Digests
  BY <1>0, SnapshotParts
<1>1. ASSUME NEW included \in BOOLEAN, NEW skip \in BOOLEAN, PrepareTarget(included, skip) PROVE BackupInv'
  <2>1. snap' \in Snapshots /\ snap'.db = NoRows /\ snap'.manifest = snap.manifest
    <3>1. snap' = [snap EXCEPT !.db = NoRows] /\ NoRows \in Database
      BY <1>1, Empties DEF PrepareTarget
    <3> QED
      BY <1>0, <3>1, SnapshotParts
  <2>2. backup' \in Backups /\ backup'.at = "database"
    BY <1>1, Empties DEF PrepareTarget, Backups
  <2>3. backups' \in 0 .. MaxBackups /\ UNCHANGED <<blobs, rows, target, restore, restores, decays, omitted>>
    <3>1. backups < MaxBackups /\ backups' = backups + 1
      BY <1>1 DEF PrepareTarget
    <3>2. UNCHANGED <<blobs, rows, target, restore, restores, decays, omitted>>
      BY <1>1 DEF PrepareTarget, backupOnly
    <3> QED
      BY <1>0, <3>1, <3>2, BackupSetup
  <2>4. Covered' /\ ManifestCovers'
    BY <1>0, <2>1, <2>2, <2>3 DEF Covered, ManifestCovers
  <2> QED
    BY <1>0, <2>1, <2>2, <2>3, <2>4, Empties, BackupOwes
<1>2. CASE SnapshotDatabase
  <2> DEFINE new == [there |-> TRUE, rows |-> rows]
  <2>1. new \in Database /\ new.rows = rows /\ snap' = [snap EXCEPT !.db = new]
    BY <1>0, <1>2 DEF Database, SnapshotDatabase
  <2> HIDE DEF new
  <2>2. snap' \in Snapshots /\ snap'.db = new /\ snap'.manifest = snap.manifest
    BY <1>0, <2>1, SnapshotParts
  <2>3. backup' \in Backups /\ backup'.at = "list"
    BY <1>0, <1>2 DEF SnapshotDatabase, Backups
  <2>4. UNCHANGED <<blobs, rows, target, restore, restores, decays, omitted, backups>>
    BY <1>2 DEF SnapshotDatabase, backupOnly
  <2>5. Covered' /\ ManifestCovers'
    BY <1>0, <2>1, <2>2, <2>3, <2>4 DEF Covered, ManifestCovers
  <2> QED
    BY <1>0, <2>1, <2>2, <2>3, <2>4, <2>5, BackupOwes
<1>3. CASE ListBlobs
  <2>1. backup' \in Backups /\ backup'.at = "blobs" /\ backup'.todo = {d \in Digests : blobs[d] # "none"}
    BY <1>0, <1>3 DEF ListBlobs, Backups
  <2>2. UNCHANGED <<blobs, rows, target, restore, restores, decays, omitted, backups, snap>>
    BY <1>3 DEF ListBlobs, backupOnly
  <2>3. Covered' /\ ManifestCovers'
    BY <1>0, <2>1, <2>2 DEF Covered, ManifestCovers
  <2> QED
    BY <1>0, <2>1, <2>2, <2>3, BackupOwes
<1>4. CASE PruneStale
  <2> DEFINE kept == [d \in Digests |-> IF backup.included /\ d \in backup.claims THEN snap.blobs[d] ELSE "none"]
  <2>1. kept \in [Digests -> Contents]
    BY <1>00 DEF Contents
  <2>2. snap' = [snap EXCEPT !.blobs = kept]
    BY <1>4 DEF PruneStale
  <2> HIDE DEF kept
  <2>3. snap' \in Snapshots /\ snap'.db = snap.db /\ snap'.manifest = snap.manifest
    BY <1>0, <2>1, <2>2, SnapshotParts
  <2>4. /\ backup' \in Backups /\ backup'.at = "manifest" /\ backup'.claims = backup.claims
        /\ backup'.corrupt = backup.corrupt
    BY <1>0, <1>4 DEF PruneStale, Backups
  <2>5. UNCHANGED <<blobs, rows, target, restore, restores, decays, omitted, backups>>
    BY <1>4 DEF PruneStale, backupOnly
  <2>6. Covered' /\ ManifestCovers'
    BY <1>0, <1>4, <2>3, <2>4, <2>5 DEF Covered, ManifestCovers, PruneStale
  <2> QED
    BY <1>0, <2>3, <2>4, <2>5, <2>6, BackupOwes
<1>5. CASE WriteManifest
  <2> DEFINE new == [there |-> TRUE, rows |-> snap.db.rows, included |-> backup.included, claims |-> backup.claims]
  <2>1. new \in Manifests /\ new.rows = snap.db.rows /\ new.claims = backup.claims
    BY <1>0, <1>00 DEF Manifests, Backups
  <2>2. snap' = [snap EXCEPT !.manifest = new]
    BY <1>5 DEF WriteManifest
  <2> HIDE DEF new
  <2>3. snap' \in Snapshots /\ snap'.db = snap.db /\ snap'.manifest = new
    BY <1>0, <2>1, <2>2, SnapshotParts
  <2>4. backup' = NoBackup /\ omitted' = backup.corrupt /\ backup.corrupt \subseteq Digests /\ backup.at = "manifest"
    BY <1>0, <1>5 DEF WriteManifest, Backups
  <2>5. UNCHANGED <<blobs, rows, target, restore, restores, decays, backups>>
    BY <1>5 DEF WriteManifest, backupOnly
  <2>6. Covered' /\ ManifestCovers'
    BY <1>0, <2>1, <2>3, <2>4, Empties DEF Covered, ManifestCovers
  <2> QED
    BY <1>0, <2>3, <2>4, <2>5, <2>6, Empties, BackupOwes
<1>6. CASE CutBackup
  <2>1. backup' = NoBackup /\ UNCHANGED <<blobs, rows, target, restore, restores, decays, backups, snap, omitted>>
    BY <1>6 DEF CutBackup, GiveUp, backupOnly
  <2>2. Covered' /\ ManifestCovers'
    BY <1>0, <2>1, Empties DEF Covered, ManifestCovers
  <2> QED
    BY <1>0, <2>1, <2>2, Empties, BackupOwes
<1>7. ASSUME NEW d \in Digests, CopyBlob(d) PROVE BackupInv'
  <2>1. \A x \in Contents : [snap EXCEPT !.blobs[d] = x] \in Snapshots
                            /\ [snap EXCEPT !.blobs[d] = x].db = snap.db
                            /\ [snap EXCEPT !.blobs[d] = x].manifest = snap.manifest
    <3> TAKE x \in Contents
    <3>1. [snap.blobs EXCEPT ![d] = x] \in [Digests -> Contents]
      BY <1>00
    <3> QED
      BY <1>0, <3>1, SnapshotParts
  <2>2. snap' \in Snapshots /\ snap'.db = snap.db /\ snap'.manifest = snap.manifest
    BY <1>0, <1>7, <2>1 DEF CopyBlob, Contents
  <2>3. /\ backup.at = "blobs" /\ d \in backup.todo
        /\ UNCHANGED <<blobs, rows, target, restore, restores, decays, omitted, backups>>
    BY <1>7 DEF CopyBlob, backupOnly
  <2>4. \/ backup' = NoBackup
        \/ /\ backup' \in Backups /\ backup'.at = "blobs" /\ backup'.todo = backup.todo \ {d}
           /\ \/ backup'.claims = backup.claims \cup {d} /\ backup'.corrupt = backup.corrupt
              \/ backup'.claims = backup.claims /\ backup'.corrupt = backup.corrupt \cup {d}
    <3> DEFINE done == [backup EXCEPT !.todo = backup.todo \ {d}]
    <3>1. /\ done \in Backups /\ done.at = "blobs" /\ done.todo = backup.todo \ {d}
          /\ done.claims = backup.claims /\ done.corrupt = backup.corrupt
      BY <1>0, <2>3 DEF Backups
    <3>2. \/ backup' = NoBackup
          \/ backup' = [done EXCEPT !.claims = done.claims \cup {d}]
          \/ backup' = [done EXCEPT !.corrupt = done.corrupt \cup {d}]
      BY <1>7 DEF CopyBlob, GiveUp
    <3> HIDE DEF done
    <3> QED
      BY <3>1, <3>2 DEF Backups
  <2>5. Covered' /\ ManifestCovers'
    BY <1>0, <2>2, <2>3, <2>4, Empties DEF Covered, ManifestCovers
  <2> QED
    BY <1>0, <2>2, <2>3, <2>4, <2>5, Empties, BackupOwes
<1>8. ASSUME NEW d \in Digests, DecaySnapshot(d) PROVE BackupInv'
  <2>1. [snap.blobs EXCEPT ![d] = "rotten"] \in [Digests -> Contents]
    BY <1>00 DEF Contents
  <2>2. snap' \in Snapshots /\ snap'.db = snap.db /\ snap'.manifest = snap.manifest
    BY <1>0, <1>8, <2>1, SnapshotParts DEF DecaySnapshot
  <2>3. /\ UNCHANGED <<blobs, rows, backup, omitted, target, restore, backups, restores>>
        /\ decays' \in 0 .. MaxDecays
    BY <1>0, <1>8, BackupSetup DEF DecaySnapshot
  <2>4. Covered' /\ ManifestCovers'
    BY <1>0, <2>2, <2>3 DEF Covered, ManifestCovers
  <2> QED
    BY <1>0, <2>2, <2>3, <2>4, BackupOwes
<1> QED
  BY <1>1, <1>2, <1>3, <1>4, <1>5, <1>6, <1>7, <1>8

\* A step of a restore.
LEMMA RestoreOwes ==
  ASSUME BackupInv, UNCHANGED <<blobs, rows, snap, backup, omitted, backups, decays>>, restores' \in 0 .. MaxRestores,
         target' \in Targets, restore' \in Restores, CopiedIsRight', RestoredIsWhole', RefusedLeavesNoLibrary'
  PROVE  BackupInv'
BY DEF BackupInv, BackupTypeOK, Targets, Restores, RowsStay, Covered, ManifestCovers

LEMMA RestoreStepInv ==
  ASSUME BackupInv, BeginRestore \/ EndRestore \/ CutRestore \/ \E f \in Digests \cup {"db"} : RestoreFile(f)
  PROVE  BackupInv'
<1>0. /\ snap \in Snapshots /\ target \in Targets /\ restore \in Restores /\ restores \in 0 .. MaxRestores
      /\ CopiedIsRight /\ RestoredIsWhole /\ RefusedLeavesNoLibrary
  BY DEF BackupInv, BackupTypeOK, Snapshots, Targets, Restores
<1>00. /\ snap.db \in Database /\ snap.blobs \in [Digests -> Contents] /\ snap.manifest \in Manifests
       /\ snap.manifest.claims \subseteq Digests
  BY <1>0, SnapshotParts
<1>1. CASE BeginRestore
  <2>1. target' \in Targets /\ target'.db = NoRows
    BY <1>0, <1>1, Empties DEF BeginRestore, Targets
  <2>2. Files(snap.manifest) \subseteq Digests \cup {"db"} /\ "db" \in Files(snap.manifest)
        /\ (snap.manifest.included \/ snap.manifest.claims = {})
        /\ snap.manifest.claims \subseteq Files(snap.manifest)
    BY <1>00, <1>1 DEF BeginRestore, Files
  <2>3. /\ restore' \in Restores /\ restore'.at = "copy" /\ restore'.of = snap.manifest
        /\ restore'.todo = Files(snap.manifest) /\ ~restore'.failed /\ restore'.written = {}
    BY <1>00, <1>1, <2>2, Empties DEF BeginRestore, Restores
  <2>4. CopiedIsRight'
    BY <2>1, <2>2, <2>3, Empties DEF CopiedIsRight
  <2>5. RestoredIsWhole' /\ RefusedLeavesNoLibrary'
    BY <2>3 DEF RestoredIsWhole, RefusedLeavesNoLibrary
  <2>6. restores' \in 0 .. MaxRestores /\ UNCHANGED <<blobs, rows, snap, backup, omitted, backups, decays>>
    BY <1>0, <1>1, BackupSetup DEF BeginRestore, restoreOnly
  <2> QED
    BY <2>1, <2>3, <2>4, <2>5, <2>6, RestoreOwes
<1>2. ASSUME NEW f \in Digests \cup {"db"}, RestoreFile(f) PROVE BackupInv'
  <2> DEFINE there == IF f = "db" THEN snap.db.there ELSE snap.blobs[f] # "none"
             wrong == ~Right(f, restore.of)
             out == IF there THEN restore.written \cup {f} ELSE restore.written
  <2>1. /\ restore.at = "copy" /\ f \in restore.todo
        /\ restore' = [restore EXCEPT !.todo = restore.todo \ {f}, !.failed = restore.failed \/ wrong, !.written = out]
        /\ target' = IF ~ there THEN target
                     ELSE IF f = "db" THEN [target EXCEPT !.db = snap.db]
                     ELSE [target EXCEPT !.blobs[f] = snap.blobs[f]]
        /\ UNCHANGED <<blobs, rows, snap, backup, omitted, backups, decays, restores>>
    BY <1>2 DEF RestoreFile, restoreOnly
  <2>2. /\ out \subseteq Digests \cup {"db"} /\ restore.written \subseteq out /\ (restore.failed \/ wrong) \in BOOLEAN
        /\ restore.todo \ {f} \subseteq Digests \cup {"db"}
    BY <1>0 DEF Restores
  <2>3. ~wrong => there /\ (f = "db" => snap.db = [there |-> TRUE, rows |-> restore.of.rows])
                        /\ (f # "db" => snap.blobs[f] = "whole")
    BY DEF Right
  <2>4. f = "db" /\ there => f \in out
    OBVIOUS
  <2>5. ~there /\ f = "db" => ~snap.db.there
    OBVIOUS
  <2> HIDE DEF there, wrong, out
  <2>6. /\ restore' \in Restores /\ restore'.at = "copy" /\ restore'.of = restore.of
        /\ restore'.todo = restore.todo \ {f} /\ restore'.written = out
        /\ restore'.failed = (restore.failed \/ wrong)
    BY <1>0, <2>1, <2>2 DEF Restores
  <2>7. /\ target' \in Targets
        /\ f = "db" => target'.blobs = target.blobs /\ target'.db = IF there THEN snap.db ELSE target.db
        /\ f # "db" => /\ target'.db = target.db
                       /\ \A d \in Digests : target'.blobs[d] = IF d = f /\ there THEN snap.blobs[d] ELSE target.blobs[d]
    <3>1. CASE f = "db"
      BY <1>0, <1>00, <2>1, <3>1 DEF Targets
    <3>2. CASE f # "db"
      <4>1. f \in Digests /\ [target.blobs EXCEPT ![f] = snap.blobs[f]] \in [Digests -> Contents]
        BY <1>0, <1>00, <3>2 DEF Targets
      <4> QED
        BY <1>0, <1>00, <2>1, <3>2, <4>1 DEF Targets
    <3> QED
      BY <3>1, <3>2
  <2>8. restore.of.claims \subseteq Digests
    BY <1>0 DEF Restores, Manifests
  <2>9. CopiedIsRight'
    <3>1. restore'.todo \subseteq Files(restore'.of) /\ (restore'.of.included \/ restore'.of.claims = {})
      BY <1>0, <2>1, <2>6 DEF CopiedIsRight, Files
    <3>2. ~restore'.failed => "db" \in restore'.todo \/ target'.db = [there |-> TRUE, rows |-> restore.of.rows]
      BY <1>0, <2>1, <2>3, <2>6, <2>7 DEF CopiedIsRight
    <3>3. ASSUME ~restore'.failed, NEW d \in restore.of.claims, d \notin restore'.todo PROVE target'.blobs[d] = "whole"
      <4>1. d \in Digests /\ d # "db" /\ ~restore.failed /\ ~wrong
        BY <2>6, <2>8, <3>3, BackupSetup
      <4>2. CASE d = f
        BY <2>3, <2>7, <4>1, <4>2
      <4>3. CASE d # f
        <5>1. target.blobs[d] = "whole"
          BY <1>0, <2>1, <2>6, <3>3, <4>1, <4>3 DEF CopiedIsRight
        <5> QED
          BY <2>7, <4>1, <4>3, <5>1
      <4> QED
        BY <4>2, <4>3
    <3>4. "db" \in restore'.written \/ ~target'.db.there
      BY <1>0, <2>1, <2>2, <2>4, <2>6, <2>7 DEF CopiedIsRight
    <3> QED
      BY <2>6, <3>1, <3>2, <3>3, <3>4 DEF CopiedIsRight
  <2>10. RestoredIsWhole' /\ RefusedLeavesNoLibrary'
    BY <2>6 DEF RestoredIsWhole, RefusedLeavesNoLibrary
  <2> QED
    BY <1>0, <2>1, <2>6, <2>7, <2>9, <2>10, RestoreOwes
<1>3. CASE EndRestore
  <2>1. restore.at = "copy" /\ restore.todo = {} /\ UNCHANGED <<blobs, rows, snap, backup, omitted, backups, decays, restores>>
    BY <1>3 DEF EndRestore, restoreOnly
  <2>2. CASE restore.failed
    <3> DEFINE left == IF "db" \in restore.written THEN NoRows ELSE target.db
               rest == [d \in Digests |-> IF d \in restore.written THEN "none" ELSE target.blobs[d]]
    <3>1. left \in Database /\ rest \in [Digests -> Contents] /\ ~left.there
      BY <1>0, <2>1, Empties DEF Targets, Contents, CopiedIsRight
    <3>2. target' = [db |-> left, blobs |-> rest] /\ restore' = [restore EXCEPT !.at = "refused"]
      BY <1>3, <2>2 DEF EndRestore
    <3> HIDE DEF left, rest
    <3>3. target' \in Targets /\ ~target'.db.there
      BY <3>1, <3>2 DEF Targets
    <3>4. restore' \in Restores /\ restore'.at = "refused"
      BY <1>0, <3>2 DEF Restores
    <3>5. CopiedIsRight' /\ RestoredIsWhole' /\ RefusedLeavesNoLibrary'
      BY <3>3, <3>4 DEF CopiedIsRight, RestoredIsWhole, RefusedLeavesNoLibrary
    <3> QED
      BY <1>0, <2>1, <3>3, <3>4, <3>5, RestoreOwes
  <2>3. CASE ~restore.failed
    <3>1. restore' = [restore EXCEPT !.at = "restored"] /\ target' = target
      BY <1>3, <2>3 DEF EndRestore
    <3>2. restore' \in Restores /\ restore'.at = "restored" /\ restore'.of = restore.of
      BY <1>0, <3>1 DEF Restores
    <3>3. RestoredIsWhole'
      BY <1>0, <2>1, <2>3, <3>1, <3>2 DEF RestoredIsWhole, CopiedIsRight
    <3>4. CopiedIsRight' /\ RefusedLeavesNoLibrary'
      BY <3>2 DEF CopiedIsRight, RefusedLeavesNoLibrary
    <3> QED
      BY <1>0, <2>1, <3>1, <3>2, <3>3, <3>4, RestoreOwes
  <2> QED
    BY <2>2, <2>3
<1>4. CASE CutRestore
  <2>1. restore' \in Restores /\ restore'.at = "cut" /\ target' = target
    BY <1>0, <1>4 DEF CutRestore, Restores
  <2>2. UNCHANGED <<blobs, rows, snap, backup, omitted, backups, decays, restores>>
    BY <1>4 DEF CutRestore, restoreOnly
  <2>3. CopiedIsRight' /\ RestoredIsWhole' /\ RefusedLeavesNoLibrary'
    BY <2>1 DEF CopiedIsRight, RestoredIsWhole, RefusedLeavesNoLibrary
  <2> QED
    BY <1>0, <2>1, <2>2, <2>3, RestoreOwes
<1> QED
  BY <1>1, <1>2, <1>3, <1>4

LEMMA BackupNextInv == BackupInv /\ [BackupNext]_backupVars => BackupInv'
<1>1. ASSUME BackupInv, UNCHANGED backupVars PROVE BackupInv'
  <2>1. UNCHANGED <<blobs, rows, snap, backup, omitted, target, restore, backups, restores, decays>>
    BY <1>1 DEF backupVars
  <2>2. BackupTypeOK' /\ RowsStay'
    BY <1>1, <2>1 DEF BackupInv, BackupTypeOK, RowsStay
  <2>3. Covered' /\ ManifestCovers' /\ CopiedIsRight' /\ RestoredIsWhole' /\ RefusedLeavesNoLibrary'
    BY <1>1, <2>1 DEF BackupInv, Covered, ManifestCovers, CopiedIsRight, RestoredIsWhole, RefusedLeavesNoLibrary
  <2> QED
    BY <2>2, <2>3 DEF BackupInv
<1> QED
  BY <1>1, LiveInv, BackupStepInv, RestoreStepInv DEF BackupNext

\* What verifies is whole: what the manifest covers, and every file of it is right.
LEMMA CoveredIsWhole == BackupInv => SnapshotsHold /\ RestoredOrNothing
<1> SUFFICES ASSUME BackupInv PROVE SnapshotsHold /\ RestoredOrNothing
  OBVIOUS
<1>1. ASSUME Verified, snap.manifest.included, NEW d \in snap.db.rows PROVE snap.blobs[d] = "whole" \/ d \in omitted
  <2>1. snap.db = [there |-> TRUE, rows |-> snap.manifest.rows]
    BY <1>1 DEF Verified, Files, Right
  <2>2. d \in snap.manifest.claims \/ d \in omitted
    BY <1>1, <2>1 DEF BackupInv, ManifestCovers, Verified
  <2>3. d # "db"
    BY BackupSetup DEF BackupInv, RowsStay, BackupTypeOK
  <2> QED
    BY <1>1, <2>2, <2>3 DEF Verified, Files, Right
<1> QED
  BY <1>1 DEF BackupInv, SnapshotsHold, VerifiedIsWhole, RestoredOrNothing

-----------------------------------------------------------------------------
(* The stores. *)

\* The inductive invariant: one part for each of the three views.
StoresInv == view \in {"local", "remote", "snapshots"} /\ LocalInv /\ RemoteInv /\ BackupInv

\* A step of the stores is a step of each of them, or leaves it alone.
LEMMA ViewsStep ==
  ASSUME [Next]_vars PROVE [StoreNext]_storeVars /\ [RemoteNext]_remoteVars /\ [BackupNext]_backupVars /\ UNCHANGED view
BY DEF Next, vars

LEMMA StoresInitInv == Init => StoresInv
BY LocalInitInv, RemoteInitInv, BackupInitInv DEF Init, StoresInv

LEMMA StoresStepInv == StoresInv /\ [Next]_vars => StoresInv'
BY ViewsStep, LocalStepInv, RemoteStepInv, BackupNextInv DEF StoresInv

\* Every reachable state of the stores satisfies the inductive invariant of each of them.
THEOREM StoresInvHolds == Spec => []StoresInv
BY StoresInitInv, StoresStepInv, PTL DEF Spec

\* A put that ended leaves nothing behind but what its result accounts for: no temporary file on
\* the local disk, and on a server only what a lost answer or a reported abort excuses.
THEOREM NoLeftoversHolds == Spec => []NoLeftovers
<1>1. StoresInv => NoLeftovers
  <2>1. ASSUME NEW p \in Puts, RemoteInv, at[p] \in RemoteEnded \ {"dead"}
        PROVE  (staged[p] # "none" => p \in silent) /\ (upload[p] \in uploads[p] => at[p] = "abandoned")
    BY <2>1 DEF RemoteInv, StagedAt, OpenAt, RemoteEnded, RemoteAnswers
  <2> QED
    BY <2>1 DEF StoresInv, LocalInv, RemoteInv, BackupInv, NoLeftovers, TypeOK, LeftoversExcused
<1> QED
  BY <1>1, StoresInvHolds, PTL

\* A snapshot that verifies holds the bytes of every row of its database, at any interleaving of
\* backups, cut or finished, with the library in use.
THEOREM SnapshotsHoldHolds == Spec => []SnapshotsHold
<1>1. StoresInv => SnapshotsHold
  BY CoveredIsWhole DEF StoresInv
<1> QED
  BY <1>1, StoresInvHolds, PTL

\* A restore gives a whole library or none, also over a snapshot that is being replaced.
THEOREM RestoredOrNothingHolds == Spec => []RestoredOrNothing
<1>1. StoresInv => RestoredOrNothing
  BY CoveredIsWhole DEF StoresInv
<1> QED
  BY <1>1, StoresInvHolds, PTL

\* The backends implement the contract of a blob store: no put, failed, interrupted, repeated or
\* racing, leaves other bytes under a digest or touches a blob that is whole.
THEOREM ContractKeptHolds == Spec => ContractKept
<1>1. Init => LocalContract!Init
  BY DEF Init, StoreInit, LocalContract!Init
<1>2. StoresInv /\ [Next]_vars => [LocalContract!Next]_file
  BY ViewsStep, LocalRefines DEF StoresInv
<1>3. StoresInv /\ [Next]_vars => [strategy # "direct" /\ checked => RemoteContract!Next]_object
  <2> SUFFICES ASSUME StoresInv, [Next]_vars, strategy # "direct", checked PROVE [RemoteContract!Next]_object
    OBVIOUS
  <2> QED
    BY ViewsStep, RemoteRefines DEF StoresInv
<1>4. Spec => ImplementsContract
  BY <1>1, <1>2, StoresInvHolds, PTL DEF Spec, ImplementsContract, LocalContract!Spec
<1>5. Spec => NamesAreHonest
  BY <1>3, StoresInvHolds, PTL DEF Spec, NamesAreHonest
<1> QED
  BY <1>4, <1>5 DEF ContractKept

\* A put that answers has its bytes in the store, whatever raced with it or was lost on the way;
\* unless they were deleted or damaged under it, or it compares lengths and they rotted.
THEOREM AnswersAreTrueHolds == Spec => AnswersAreTrue
<1>1. StoresInv /\ [Next]_vars =>
        [\A p \in Puts : pc[p] \in Running /\ pc'[p] \in Answered =>
           \/ file'[want[p]] = "whole"
           \/ p \in undone' \cup spoilt'
           \/ ~thorough[p] /\ pc'[p] = "present" /\ file'[want[p]] = "rotten"]_storeVars
  BY ViewsStep, AnswerStep DEF StoresInv
<1>2. StoresInv /\ [Next]_vars =>
        [\A p \in Puts :
           /\ checked
           /\ at[p] \in Requests /\ at'[p] \in RemoteAnswers
           => \/ object'[sum[p]] = "whole"
              \/ p \in overtaken'
              \/ /\ object'[sum[p]] = "rotten"
                 /\ p \in spoiled' \/ (~exact[p] /\ at'[p] = "present")]_remoteVars
  BY ViewsStep, RemoteAnswerStep DEF StoresInv, Excused
<1>3. Spec => AnsweredIsStored
  BY <1>1, StoresInvHolds, PTL DEF Spec, AnsweredIsStored
<1>4. Spec => RemoteAnswerIsTrue
  BY <1>2, StoresInvHolds, PTL DEF Spec, RemoteAnswerIsTrue
<1> QED
  BY <1>3, <1>4 DEF AnswersAreTrue
=============================================================================

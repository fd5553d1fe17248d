---------------------------- MODULE RemoteStore -----------------------------
(***************************************************************************)
(* The content-addressed store on a WebDAV server or an S3 bucket:         *)
(* packages/storage-backends/src/webdav and s3.                            *)
(*                                                                         *)
(* A put spools its bytes, asks whether the digest is there, and uploads:  *)
(* to a temporary name that is checked and moved, straight to the final    *)
(* name, as one object, or in parts.  Every request may be lost before it  *)
(* takes effect, or after, when only its answer is lost; it is repeated up *)
(* to Attempts times.  Server and client may each fail between requests.   *)
(***************************************************************************)
EXTENDS StoreCalls

CONSTANTS Sums,        \* what the puts are given: the digest of each
          Strategies,  \* ways of writing in use: "move", "direct", "object", "parts"
          Attempts,    \* requests made before giving up
          MaxHung      \* bound: puts that hang at one time

ASSUME RemoteSetup == /\ Sums \subseteq [Puts -> Digests]
                      /\ Strategies \subseteq {"move", "direct", "object", "parts"}
                      /\ Attempts \in Nat \ {0} /\ MaxHung \in Nat

VARIABLES
  strategy,  \* how this backend writes
  checked,   \* verifyOnWrite is not "none"
  object,    \* object[d]: what the final name of d holds
  staged,    \* staged[p]: what the temporary name of put p holds
  uploads,   \* uploads[p]: multipart uploads opened for p and neither completed nor aborted
  upload,    \* upload[p]: the upload whose id p was told; 0 for none
  sum,       \* sum[p]: the digest of p's bytes
  exact,     \* exact[p]: p verifies an existing object by digest
  at,        \* at[p]: where put p is, or how it ended
  tries,     \* tries[p]: requests of this step that got no answer
  silent,    \* history: puts whose temporary upload, or its cleanup, never got an answer
  overtaken, \* history: puts whose digest was deleted after they had begun
  spoiled,   \* history: puts whose digest was damaged after it was uploaded
  hung,      \* puts with a request that is never answered, nor its connection closed
  decayed

remoteVars == <<strategy, checked, object, staged, uploads, upload, sum, exact, at, tries,
                silent, overtaken, spoiled, hung, decayed>>

Requests == {"look", "hash", "stage", "confirm", "move", "cleanup", "store", "open", "parts",
             "complete", "confirmFinal", "abort"}
RemoteAnswers == {"present", "stored"}
RemoteEnded == RemoteAnswers \cup {"failed", "abandoned", "dead"}

RemoteTypeOK ==
  /\ strategy \in Strategies /\ checked \in BOOLEAN
  /\ object \in [Digests -> {"none", "whole", "rotten", "short"}]
  /\ staged \in [Puts -> {"none", "whole", "short"}]
  /\ uploads \in [Puts -> SUBSET (1 .. Attempts)]
  /\ upload \in [Puts -> 0 .. Attempts]
  /\ sum \in [Puts -> Digests]
  /\ exact \in [Puts -> BOOLEAN]
  /\ at \in [Puts -> {"idle"} \cup Requests \cup RemoteEnded]
  /\ tries \in [Puts -> 0 .. Attempts - 1]
  /\ silent \subseteq Puts
  /\ overtaken \subseteq Puts
  /\ spoiled \subseteq Puts
  /\ hung \subseteq Puts
  /\ decayed \in 0 .. MaxRots

RemoteInit ==
  /\ strategy \in Strategies /\ checked \in BOOLEAN
  /\ object = [d \in Digests |-> "none"]
  /\ staged = [p \in Puts |-> "none"]
  /\ uploads = [p \in Puts |-> {}]
  /\ upload = [p \in Puts |-> 0]
  /\ sum \in Sums
  /\ \E thoroughly \in BOOLEAN : exact = [p \in Puts |-> thoroughly]
  /\ at = [p \in Puts |-> "idle"]
  /\ tries = [p \in Puts |-> 0]
  /\ silent = {}
  /\ overtaken = {}
  /\ spoiled = {}
  /\ hung = {}
  /\ decayed = 0

-----------------------------------------------------------------------------
(* Requests *)

putInput == <<strategy, checked, sum, exact, overtaken, spoiled, decayed>>
server == <<object, staged, uploads>>

Answer(p, step) == /\ at' = [at EXCEPT ![p] = step]
                   /\ tries' = [tries EXCEPT ![p] = 0]
                   /\ UNCHANGED <<silent, hung>>

\* Neither client sets a time-out: such a request is waited for as long as the process lives.
Hangs(p) == /\ Cardinality(hung) < MaxHung
            /\ hung' = hung \cup {p}
            /\ UNCHANGED <<at, tries, silent>>

\* withRetry: another attempt, or the error that leads to the step given.
Retried(p, after) ==
  /\ IF tries[p] + 1 < Attempts
     THEN tries' = [tries EXCEPT ![p] = tries[p] + 1] /\ UNCHANGED <<at, silent>>
     ELSE /\ at' = [at EXCEPT ![p] = after]
          /\ tries' = [tries EXCEPT ![p] = 0]
          /\ silent' = IF at[p] \in {"stage", "cleanup"} THEN silent \cup {p} ELSE silent
  /\ UNCHANGED hung

NoAnswer(p, after) == Retried(p, after) \/ Hangs(p)

Upload == CASE strategy = "move" -> "stage" [] strategy = "parts" -> "open" [] OTHER -> "store"

BeginRemotePut(p) ==
  /\ at[p] = "idle"
  /\ Answer(p, "look")
  /\ UNCHANGED <<server, upload, putInput>>

\* Mutant: an object of the right length is taken for the bytes, whoever asks.
HeadTrusting(p) ==
  /\ at[p] = "look"
  /\ \/ NoAnswer(p, "failed")
     \/ Answer(p, IF object[sum[p]] \in {"none", "short"} THEN Upload ELSE "present")
  /\ UNCHANGED <<server, upload, putInput>>

HeadFinal(p) ==
  /\ at[p] = "look"
  /\ \/ NoAnswer(p, "failed")
     \/ Answer(p, CASE object[sum[p]] \in {"none", "short"} -> Upload
                    [] OTHER -> IF exact[p] THEN "hash" ELSE "present")
  /\ UNCHANGED <<server, upload, putInput>>

GetDigest(p) ==
  /\ at[p] = "hash"
  /\ \/ NoAnswer(p, "failed")
     \/ Answer(p, IF object[sum[p]] = "whole" THEN "present" ELSE Upload)
  /\ UNCHANGED <<server, upload, putInput>>

-----------------------------------------------------------------------------
(* WebDAV: PUT to a temporary name, check it there, MOVE it *)

\* The PUT is outside the try whose failure cleans up.
PutTemporary(p) ==
  /\ at[p] = "stage"
  /\ \/ /\ \E got \in {"whole", "short"} : staged' = [staged EXCEPT ![p] = got]
        /\ \/ Answer(p, IF checked THEN "confirm" ELSE "move")
           \/ NoAnswer(p, "failed")
     \/ UNCHANGED staged /\ NoAnswer(p, "failed")
  /\ UNCHANGED <<object, uploads, upload, putInput>>

\* Mutant: a wrong upload is left where it is.
ConfirmLeaving(p) ==
  /\ at[p] = "confirm"
  /\ \/ NoAnswer(p, "cleanup")
     \/ Answer(p, IF staged[p] = "whole" THEN "move" ELSE "failed")
  /\ UNCHANGED <<server, upload, putInput>>

ConfirmTemporary(p) ==
  /\ at[p] = "confirm"
  /\ \/ NoAnswer(p, "cleanup")
     \/ Answer(p, IF staged[p] = "whole" THEN "move" ELSE "cleanup")
  /\ UNCHANGED <<server, upload, putInput>>

\* Repeated after an answer was lost, the MOVE finds no source: an error.
Move(p) ==
  /\ at[p] = "move"
  /\ \/ /\ staged[p] # "none"
        /\ object' = [object EXCEPT ![sum[p]] = staged[p]]
        /\ staged' = [staged EXCEPT ![p] = "none"]
        /\ Answer(p, "stored") \/ NoAnswer(p, "cleanup")
     \/ /\ staged[p] = "none" /\ Answer(p, "cleanup")
        /\ UNCHANGED <<object, staged>>
     \/ /\ NoAnswer(p, "cleanup")
        /\ UNCHANGED <<object, staged>>
  /\ UNCHANGED <<uploads, upload, putInput>>

CleanUp(p) ==
  /\ at[p] = "cleanup"
  /\ \/ /\ staged' = [staged EXCEPT ![p] = "none"]
        /\ Answer(p, "failed") \/ NoAnswer(p, "failed")
     \/ UNCHANGED staged /\ NoAnswer(p, "failed")
  /\ UNCHANGED <<object, uploads, upload, putInput>>

-----------------------------------------------------------------------------
(* One request to the final name: direct-put, or an S3 object *)

\* A plain PUT may be cut off and leave what had arrived; an S3 object is stored
\* whole, its checksum verified by the server, or not at all.
PutFinal(p) ==
  LET arrives == IF strategy = "direct" THEN {"whole", "short"} ELSE {"whole"}
  IN /\ at[p] = "store"
     /\ \/ /\ \E got \in arrives : object' = [object EXCEPT ![sum[p]] = got]
           /\ Answer(p, "confirmFinal") \/ NoAnswer(p, "failed")
        \/ UNCHANGED object /\ NoAnswer(p, "failed")
     /\ UNCHANGED <<staged, uploads, upload, putInput>>

\* By length, or by digest, which also tells rot of the same length.
ConfirmFinal(p) ==
  /\ at[p] = "confirmFinal"
  /\ \/ ~ checked /\ Answer(p, "stored")
     \/ checked /\ NoAnswer(p, "failed")
     \/ checked /\ object[sum[p]] \in {"whole", "rotten"} /\ Answer(p, "stored")
     \/ checked /\ object[sum[p]] # "whole" /\ Answer(p, "failed")
  /\ UNCHANGED <<server, upload, putInput>>

-----------------------------------------------------------------------------
(* An S3 object in parts *)

\* When the answer is lost the upload stays open under an id nobody was told.
OpenUpload(p) ==
  /\ at[p] = "open"
  /\ \/ LET id == tries[p] + 1
        IN /\ uploads' = [uploads EXCEPT ![p] = @ \cup {id}]
           /\ \/ Answer(p, "parts") /\ upload' = [upload EXCEPT ![p] = id]
              \/ NoAnswer(p, "failed") /\ UNCHANGED upload
     \/ NoAnswer(p, "failed") /\ UNCHANGED <<uploads, upload>>
  /\ UNCHANGED <<object, staged, putInput>>

\* Mutant: a part that failed starts the upload over.
UploadPartsOver(p) ==
  /\ at[p] = "parts"
  /\ Answer(p, "complete") \/ NoAnswer(p, "open")
  /\ UNCHANGED <<server, upload, putInput>>

UploadParts(p) ==
  /\ at[p] = "parts"
  /\ Answer(p, "complete") \/ NoAnswer(p, "abort")
  /\ UNCHANGED <<server, upload, putInput>>

CompleteUpload(p) ==
  /\ at[p] = "complete"
  /\ \/ /\ upload[p] \in uploads[p]
        /\ object' = [object EXCEPT ![sum[p]] = "whole"]
        /\ uploads' = [uploads EXCEPT ![p] = @ \ {upload[p]}]
        /\ Answer(p, "confirmFinal") \/ NoAnswer(p, "abort")
     \/ /\ upload[p] \notin uploads[p] /\ Answer(p, "abort")
        /\ UNCHANGED <<object, uploads>>
     \/ /\ NoAnswer(p, "abort")
        /\ UNCHANGED <<object, uploads>>
  /\ UNCHANGED <<staged, upload, putInput>>

\* Sent once, without the retry loop.  An upload that is no longer there, or an
\* answer that is lost, is reported as abandoned.
AbortUpload(p) ==
  /\ at[p] = "abort"
  /\ \/ /\ upload[p] \in uploads[p]
        /\ uploads' = [uploads EXCEPT ![p] = @ \ {upload[p]}]
        /\ Answer(p, "failed") \/ Answer(p, "abandoned") \/ Hangs(p)
     \/ UNCHANGED uploads /\ (Answer(p, "abandoned") \/ Hangs(p))
  /\ UNCHANGED <<object, staged, upload, putInput>>

-----------------------------------------------------------------------------
(* Everything else *)

Request(p) ==
  \/ HeadFinal(p) \/ GetDigest(p)
  \/ PutTemporary(p) \/ ConfirmTemporary(p) \/ Move(p) \/ CleanUp(p)
  \/ PutFinal(p) \/ ConfirmFinal(p)
  \/ OpenUpload(p) \/ UploadParts(p) \/ CompleteUpload(p) \/ AbortUpload(p)

RemotePutStep(p) == p \notin hung /\ Request(p)

\* Shard collections are left in place.
DeleteObject(d) ==
  /\ d \in Probed /\ object[d] # "none"
  /\ object' = [object EXCEPT ![d] = "none"]
  /\ overtaken' = overtaken \cup {p \in Puts : sum[p] = d /\ at[p] \in Requests}
  /\ UNCHANGED <<strategy, checked, staged, uploads, upload, sum, exact, at, tries, silent, spoiled, hung, decayed>>

CrashClient ==
  /\ \E p \in Puts : at[p] \in Requests
  /\ at' = [p \in Puts |-> IF at[p] \in Requests THEN "dead" ELSE at[p]]
  /\ tries' = [p \in Puts |-> 0]
  /\ hung' = {}
  /\ UNCHANGED <<server, upload, silent, putInput>>

DecayObject(d) ==
  /\ object[d] = "whole" /\ decayed < MaxRots
  /\ \E harm \in {"rotten", "short"} : object' = [object EXCEPT ![d] = harm]
  /\ decayed' = decayed + 1
  /\ spoiled' = spoiled \cup {p \in Puts : sum[p] = d /\ at[p] = "confirmFinal"}
  /\ UNCHANGED <<strategy, checked, staged, uploads, upload, sum, exact, at, tries, silent, overtaken, hung>>

RemoteNext ==
  \/ \E p \in Puts : BeginRemotePut(p) \/ RemotePutStep(p)
  \/ \E d \in Digests : DeleteObject(d) \/ DecayObject(d)
  \/ CrashClient

\* A put goes on when its request is answered or its connection fails; one that hangs does not.
RemoteFairness == \A p \in Puts : WF_remoteVars(RemotePutStep(p))

RemoteSpec == RemoteInit /\ [][RemoteNext]_remoteVars /\ RemoteFairness

-----------------------------------------------------------------------------
(* Properties *)

RemoteContract == INSTANCE BlobStore WITH file <- object

\* Whatever is lost, repeated or cut off, the final names obey the contract: a
\* checked backend that does not write to them directly never shows a part of a
\* blob under a digest (webdav/backend.ts upload, s3/backend.ts upload).
NamesAreHonest == [][strategy # "direct" /\ checked => RemoteContract!Next]_object

\* A put that answers has its bytes on the server, also when the answers before
\* the last were lost, unless a delete of the digest overlapped it.  Damage that
\* keeps the length is answered over only by a put that compares lengths, or when
\* it came after the upload.
RemoteAnswerIsTrue ==
  [][\A p \in Puts :
        /\ checked
        /\ at[p] \in Requests /\ at'[p] \in RemoteAnswers
        => \/ object'[sum[p]] = "whole"
           \/ p \in overtaken'
           \/ /\ object'[sum[p]] = "rotten"
              /\ p \in spoiled' \/ (~exact[p] /\ at'[p] = "present")]_remoteVars

\* What a put leaves on the server beside the blob is accounted for: the
\* temporary file of a put that ended stays only when the upload or its cleanup
\* got no answer, and an upload whose id is known stays open only when the put
\* reported it abandoned.  (A crash excuses both.)
LeftoversExcused ==
  \A p \in Puts : at[p] \in RemoteEnded \ {"dead"} =>
     /\ staged[p] # "none" => p \in silent
     /\ upload[p] \in uploads[p] => at[p] = "abandoned"

\* The attempts are bounded, so a put whose requests are answered, or fail, comes to an
\* end: whatever was lost, repeated, damaged or deleted, it does not send them in a circle.
\* Against a server that accepts a request and then says nothing it waits for ever.
EveryPutEnds == \A p \in Puts : at[p] # "idle" ~> at[p] \in RemoteEnded \/ p \in hung
=============================================================================

----------------------------- MODULE LocalStore -----------------------------
(***************************************************************************)
(* The content-addressed store on the local filesystem:                    *)
(* packages/core/src/storage/local-fs.ts.                                  *)
(*                                                                         *)
(* A put streams into a temporary file, looks whether its digest is there, *)
(* and either drops the temporary file or renames it into a shard          *)
(* directory.  Puts, deletes, a sweep of old temporary files, crashes and  *)
(* decay of the medium interleave between any two system calls.  A blob is *)
(* named by its digest; of the bytes under the name the model keeps        *)
(* whether they are the right ones.                                        *)
(***************************************************************************)
EXTENDS StoreCalls

CONSTANTS Wants,       \* what the puts are given: the digest of each
          Shards,
          ShardOf(_),  \* the directory <aa>/<bb> of a digest
          MaxChunks    \* bound: chunks a put writes after its first

ASSUME StoreSetup == /\ Wants \subseteq [Puts -> Digests]
                     /\ \A d \in Digests : ShardOf(d) \in Shards
                     /\ MaxChunks \in Nat

VARIABLES
  file,      \* file[d]: what the path of digest d holds
  dirs,      \* shard directories that exist
  part,      \* part[p]: the .part file of put p: its revision, and whether an hour has passed since
  want,      \* want[p]: the digest of the bytes put p is given
  thorough,  \* thorough[p]: p verifies an existing blob by digest and not by length
  pc,        \* pc[p]: where put p is, or how it ended
  emptied,   \* shards where a delete has unlinked and not yet tried rmdir
  listed,    \* listed[p]: the revision at which the sweep listed p's part; or Unlisted
  condemned, \* parts the sweep has looked at again and is about to remove
  undone,    \* history: puts whose digest was deleted after they had begun
  spoilt,    \* history: puts whose digest was damaged after they had found it sound
  rots

storeVars == <<file, dirs, part, want, thorough, pc, emptied, listed, condemned, undone,
               spoilt, rots>>

Gone == [rev |-> 0, old |-> FALSE]
Unlisted == 0
Running == {"stream", "look", "hash", "drop", "place", "replace", "rename", "renameOver"}
Answered == {"present", "created", "repaired"}
Ended == Answered \cup {"failed", "dead"}

StoreTypeOK ==
  /\ file \in [Digests -> {"none", "whole", "rotten", "short"}]
  /\ dirs \subseteq Shards
  /\ part \in [Puts -> [rev : 0 .. MaxChunks + 1, old : BOOLEAN]]
  /\ want \in [Puts -> Digests]
  /\ thorough \in [Puts -> BOOLEAN]
  /\ pc \in [Puts -> {"idle"} \cup Running \cup Ended]
  /\ emptied \subseteq Shards
  /\ listed \in [Puts -> 0 .. MaxChunks + 1]
  /\ condemned \subseteq Puts
  /\ undone \subseteq Puts
  /\ spoilt \subseteq Puts
  /\ rots \in 0 .. MaxRots

StoreInit ==
  /\ file = [d \in Digests |-> "none"]
  /\ dirs = {}
  /\ part = [p \in Puts |-> Gone]
  /\ want \in Wants
  /\ thorough \in [Puts -> BOOLEAN]
  /\ pc = [p \in Puts |-> "idle"]
  /\ emptied = {}
  /\ listed = [p \in Puts |-> Unlisted]
  /\ condemned = {}
  /\ undone = {}
  /\ spoilt = {}
  /\ rots = 0

Shard(p) == ShardOf(want[p])

-----------------------------------------------------------------------------
(* put() *)

\* Every error path removes the temporary file.
Fail(p) == /\ pc' = [pc EXCEPT ![p] = "failed"]
           /\ part' = [part EXCEPT ![p] = Gone]
           /\ UNCHANGED <<file, dirs>>

putRest == <<want, thorough, emptied, listed, condemned, undone, spoilt, rots>>

Goto(p, step) == /\ pc' = [pc EXCEPT ![p] = step]
                 /\ UNCHANGED <<file, dirs, part>>

BeginPut(p) == /\ pc[p] = "idle"
               /\ pc' = [pc EXCEPT ![p] = "stream"]
               /\ part' = [part EXCEPT ![p] = [rev |-> 1, old |-> FALSE]]
               /\ UNCHANGED <<file, dirs, putRest>>

\* A chunk written to a file that was unlinked goes nowhere.
WriteChunk(p) ==
  /\ pc[p] = "stream" /\ part[p] # Gone /\ part[p].rev <= MaxChunks
  /\ part' = [part EXCEPT ![p] = [rev |-> part[p].rev + 1, old |-> FALSE]]
  /\ UNCHANGED <<file, dirs, pc, putRest>>

StreamBreaks(p) == pc[p] = "stream" /\ Fail(p) /\ UNCHANGED putRest

\* The file is opened again for fsync: when the sweep has removed it, the put fails.
SyncPart(p) == /\ pc[p] = "stream"
               /\ IF part[p] = Gone THEN Fail(p) ELSE Goto(p, "look")
               /\ UNCHANGED putRest

\* Mutant: what has the name is taken for the bytes.
LookForName(p) ==
  /\ pc[p] = "look"
  /\ Goto(p, IF file[want[p]] = "none" THEN "place" ELSE "drop")
  /\ UNCHANGED putRest

\* Lengths are compared, and for a thorough put digests.
LookForExisting(p) ==
  /\ pc[p] = "look"
  /\ Goto(p, CASE file[want[p]] = "none"  -> "place"
               [] file[want[p]] = "short" -> "replace"
               [] OTHER -> IF thorough[p] THEN "hash" ELSE "drop")
  /\ UNCHANGED putRest

HashExisting(p) ==
  /\ pc[p] = "hash"
  /\ CASE file[want[p]] = "none"  -> Fail(p)
       [] file[want[p]] = "whole" -> Goto(p, "drop")
       [] OTHER                   -> Goto(p, "replace")
  /\ UNCHANGED putRest

DropPart(p) == /\ pc[p] = "drop"
               /\ part' = [part EXCEPT ![p] = Gone]
               /\ pc' = [pc EXCEPT ![p] = "present"]
               /\ UNCHANGED <<file, dirs, putRest>>

MakeDirectory(p) ==
  /\ pc[p] \in {"place", "replace"}
  /\ dirs' = dirs \cup {Shard(p)}
  /\ pc' = [pc EXCEPT ![p] = IF pc[p] = "place" THEN "rename" ELSE "renameOver"]
  /\ UNCHANGED <<file, part, putRest>>

\* Mutant: a rename that finds nothing to rename is taken for done.
RenamePartTrusting(p) ==
  /\ pc[p] \in {"rename", "renameOver"}
  /\ IF Shard(p) \notin dirs \/ part[p] = Gone
     THEN UNCHANGED file
     ELSE file' = [file EXCEPT ![want[p]] = "whole"]
  /\ part' = [part EXCEPT ![p] = Gone]
  /\ pc' = [pc EXCEPT ![p] = IF pc[p] = "rename" THEN "created" ELSE "repaired"]
  /\ UNCHANGED <<dirs, putRest>>

\* The rename fails when a delete took the directory or the sweep took the file.
RenamePart(p) ==
  /\ pc[p] \in {"rename", "renameOver"}
  /\ IF Shard(p) \notin dirs \/ part[p] = Gone
     THEN Fail(p)
     ELSE /\ file' = [file EXCEPT ![want[p]] = "whole"]
          /\ part' = [part EXCEPT ![p] = Gone]
          /\ pc' = [pc EXCEPT ![p] = IF pc[p] = "rename" THEN "created" ELSE "repaired"]
          /\ UNCHANGED dirs
  /\ UNCHANGED putRest

PutStep(p) == \/ WriteChunk(p) \/ SyncPart(p) \/ LookForExisting(p) \/ HashExisting(p)
              \/ DropPart(p) \/ MakeDirectory(p) \/ RenamePart(p)

-----------------------------------------------------------------------------
(* delete(), sweepTempFiles(), and what happens to a store *)

UnlinkBlob(d) ==
  /\ d \in Probed /\ file[d] # "none"
  /\ file' = [file EXCEPT ![d] = "none"]
  /\ emptied' = emptied \cup {ShardOf(d)}
  /\ undone' = undone \cup {p \in Puts : want[p] = d /\ pc[p] \in Running}
  /\ UNCHANGED <<dirs, part, want, thorough, pc, listed, condemned, spoilt, rots>>

\* Mutant: the directory goes with what is in it.
RemoveTree(s) ==
  /\ s \in emptied
  /\ emptied' = emptied \ {s}
  /\ dirs' = dirs \ {s}
  /\ file' = [d \in Digests |-> IF ShardOf(d) = s THEN "none" ELSE file[d]]
  /\ UNCHANGED <<part, want, thorough, pc, listed, condemned, undone, spoilt, rots>>

\* rmdir succeeds on an empty directory only, and its failure is ignored.
RemoveDirectory(s) ==
  /\ s \in emptied
  /\ emptied' = emptied \ {s}
  /\ dirs' = IF \A d \in Digests : ShardOf(d) = s => file[d] = "none" THEN dirs \ {s} ELSE dirs
  /\ UNCHANGED <<file, part, want, thorough, pc, listed, condemned, undone, spoilt, rots>>

OldParts == {p \in Puts : part[p] # Gone /\ part[p].old}

ListStray ==
  /\ \A p \in Puts : listed[p] = Unlisted
  /\ OldParts # {}
  /\ listed' = [p \in Puts |-> IF p \in OldParts THEN part[p].rev ELSE Unlisted]
  /\ UNCHANGED <<file, dirs, part, want, thorough, pc, emptied, condemned, undone, spoilt, rots>>

LookAgain(p) ==
  /\ listed[p] # Unlisted
  /\ listed' = [listed EXCEPT ![p] = Unlisted]
  /\ condemned' = IF p \in OldParts /\ part[p].rev = listed[p] THEN condemned \cup {p} ELSE condemned
  /\ UNCHANGED <<file, dirs, part, want, thorough, pc, emptied, undone, spoilt, rots>>

RemoveStray(p) ==
  /\ p \in condemned
  /\ condemned' = condemned \ {p}
  /\ part' = [part EXCEPT ![p] = Gone]
  /\ UNCHANGED <<file, dirs, want, thorough, pc, emptied, listed, undone, spoilt, rots>>

Sweep == ListStray \/ \E p \in Puts : LookAgain(p) \/ RemoveStray(p)

\* Nothing was written for an hour: a put whose source stalled, or one that died.
AnHourPasses ==
  /\ part' = [p \in Puts |-> [part[p] EXCEPT !.old = part[p] # Gone]]
  /\ part' # part
  /\ UNCHANGED <<file, dirs, want, thorough, pc, emptied, listed, condemned, undone, spoilt, rots>>

\* The process dies: what its calls had written stays, and nobody finishes them.
CrashStore ==
  /\ \E p \in Puts : pc[p] \in Running
  /\ pc' = [p \in Puts |-> IF pc[p] \in Running THEN "dead" ELSE pc[p]]
  /\ emptied' = {}
  /\ listed' = [p \in Puts |-> Unlisted]
  /\ condemned' = {}
  /\ UNCHANGED <<file, dirs, part, want, thorough, undone, spoilt, rots>>

Decay(d) ==
  /\ file[d] = "whole" /\ rots < MaxRots
  /\ \E damage \in {"rotten", "short"} : file' = [file EXCEPT ![d] = damage]
  /\ spoilt' = spoilt \cup {p \in Puts : want[p] = d /\ pc[p] = "drop"}
  /\ rots' = rots + 1
  /\ UNCHANGED <<dirs, part, want, thorough, pc, emptied, listed, condemned, undone>>

StoreNext ==
  \/ \E p \in Puts : BeginPut(p) \/ PutStep(p) \/ StreamBreaks(p)
  \/ \E d \in Digests : UnlinkBlob(d) \/ Decay(d)
  \/ \E s \in Shards : RemoveDirectory(s)
  \/ Sweep \/ AnHourPasses \/ CrashStore

LocalSpec == StoreInit /\ [][StoreNext]_storeVars

-----------------------------------------------------------------------------
(* Properties *)

\* A put that answers leaves its bytes under their name, whatever other puts,
\* deletes, sweeps and damage went on, unless a delete of the same digest
\* overlapped it, or the blob was damaged between the look that found it sound
\* and the answer; only a put that compares lengths may answer over damage that
\* keeps the length (local-fs.ts put, ADR-0004).
AnsweredIsStored ==
  [][\A p \in Puts :
        pc[p] \in Running /\ pc'[p] \in Answered =>
           \/ file'[want[p]] = "whole"
           \/ p \in undone' \cup spoilt'
           \/ ~thorough[p] /\ pc'[p] = "present" /\ file'[want[p]] = "rotten"]_storeVars

\* The names obey the contract of a backend: no put, failed, interrupted or
\* racing, leaves other bytes under a digest or touches a blob that is whole.
LocalContract == INSTANCE BlobStore
ImplementsContract == LocalContract!Spec

\* A put that ended otherwise than by dying left no temporary file behind.
NoPartOutlivesItsPut == \A p \in Puts : pc[p] \in {"failed"} \cup Answered => part[p] = Gone
=============================================================================

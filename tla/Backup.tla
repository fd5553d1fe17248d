------------------------------- MODULE Backup -------------------------------
(***************************************************************************)
(* A library on the local store, its snapshots and their restoration:      *)
(* packages/core/src/backup/create.ts and restore.ts over BlobStore, whose *)
(* steps a backend's calls amount to.                                      *)
(*                                                                         *)
(* A document's row is committed after its bytes are put.  A backup copies *)
(* the database first and the blobs after it, replaces an older snapshot   *)
(* in place, and writes its manifest last; a restore copies what the       *)
(* manifest names.  All three run while the library is in use, and each    *)
(* may be cut short.                                                       *)
(***************************************************************************)
EXTENDS StoreCalls

CONSTANTS MaxBackups,  \* bound: backups begun
          MaxRestores, \* bound: restores begun
          MaxDecays    \* bound: blobs and copies the media damage

ASSUME BackupSetup == MaxBackups \in Nat /\ MaxRestores \in Nat /\ MaxDecays \in Nat /\ "db" \notin Digests

VARIABLES
  blobs,     \* blobs[d]: what the live store holds under the name d
  rows,      \* digests the documents table refers to
  snap,      \* the snapshot directory: db, blobs, manifest
  backup,    \* the backup under way: its step, options, blobs to do, blobs claimed
  omitted,   \* blobs the last finished backup left out, as its result lists them
  target,    \* the directory a restore writes: db and blobs
  restore,   \* the restore under way
  backups, restores, decays

Store == INSTANCE BlobStore WITH file <- blobs

backupVars == <<blobs, rows, snap, backup, omitted, target, restore, backups, restores, decays>>

Contents == {"none", "whole", "rotten", "short"}
NoRows == [there |-> FALSE, rows |-> {}]
Database == [there : BOOLEAN, rows : SUBSET Digests]
NoManifest == [there |-> FALSE, rows |-> {}, included |-> FALSE, claims |-> {}]
Manifests == [there : BOOLEAN, rows : SUBSET Digests, included : BOOLEAN, claims : SUBSET Digests]
NoBlobs == [d \in Digests |-> "none"]
EmptyDirectory == [db |-> NoRows, blobs |-> NoBlobs, manifest |-> NoManifest]
NoBackup == [at |-> "idle", included |-> FALSE, skip |-> FALSE, todo |-> {}, claims |-> {}, corrupt |-> {}]
NoRestore == [at |-> "idle", of |-> NoManifest, todo |-> {}, failed |-> FALSE, written |-> {}]

BackupTypeOK ==
  /\ blobs \in [Digests -> Contents]
  /\ rows \subseteq Digests
  /\ snap \in [db : Database, blobs : [Digests -> Contents], manifest : Manifests]
  /\ backup \in [at : {"idle", "database", "list", "blobs", "manifest"},
                 included : BOOLEAN, skip : BOOLEAN, todo : SUBSET Digests,
                 claims : SUBSET Digests, corrupt : SUBSET Digests]
  /\ omitted \subseteq Digests
  /\ target \in [db : Database, blobs : [Digests -> Contents]]
  /\ restore \in [at : {"idle", "copy", "restored", "refused", "cut"}, of : Manifests,
                  todo : SUBSET (Digests \cup {"db"}), failed : BOOLEAN,
                  written : SUBSET (Digests \cup {"db"})]
  /\ backups \in 0 .. MaxBackups /\ restores \in 0 .. MaxRestores /\ decays \in 0 .. MaxDecays

BackupInit ==
  /\ Store!Init
  /\ rows = {}
  /\ snap = EmptyDirectory
  /\ backup = NoBackup
  /\ omitted = {}
  /\ target = [db |-> NoRows, blobs |-> NoBlobs]
  /\ restore = NoRestore
  /\ backups = 0 /\ restores = 0 /\ decays = 0

-----------------------------------------------------------------------------
(* The library in use *)

beside == <<rows, snap, backup, omitted, target, restore, backups, restores>>

PutBlob(d) == blobs[d] # "whole" /\ Store!Put(d) /\ UNCHANGED <<beside, decays>>

DeleteProbe(d) == blobs[d] # "none" /\ Store!Delete(d) /\ UNCHANGED <<beside, decays>>

DecayBlob(d) == /\ decays < MaxDecays /\ decays' = decays + 1
                /\ Store!Damage(d)
                /\ UNCHANGED beside

\* The row is written when the put has answered (documents.ingestBuffer).
CommitRow(d) ==
  /\ d \notin Probed \cup rows /\ blobs[d] # "none"
  /\ rows' = rows \cup {d}
  /\ UNCHANGED <<blobs, snap, backup, omitted, target, restore, backups, restores, decays>>

-----------------------------------------------------------------------------
(* createBackup *)

backupOnly == <<blobs, rows, target, restore, restores, decays>>

\* prepareTarget: empty, or a snapshot and force.  A directory left without a
\* manifest by a backup that was cut short is refused.
PrepareTarget(included, skip) ==
  /\ backup.at = "idle" /\ backups < MaxBackups
  /\ snap = EmptyDirectory \/ snap.manifest.there
  /\ backups' = backups + 1
  /\ backup' = [NoBackup EXCEPT !.at = "database", !.included = included, !.skip = skip]
  /\ snap' = [snap EXCEPT !.db = NoRows]
  /\ UNCHANGED <<backupOnly, omitted>>

SnapshotDatabase ==
  /\ backup.at = "database"
  /\ snap' = [snap EXCEPT !.db = [there |-> TRUE, rows |-> rows]]
  /\ backup' = [backup EXCEPT !.at = "list"]
  /\ UNCHANGED <<backupOnly, omitted, backups>>

ListBlobs ==
  /\ backup.at = "list"
  /\ backup' = [backup EXCEPT !.at = "blobs", !.todo = {d \in Digests : blobs[d] # "none"}]
  /\ UNCHANGED <<backupOnly, snap, omitted, backups>>

GiveUp == backup' = NoBackup

\* The live blob is hashed on every run; the copy is made unless a right one is
\* there.  A blob deleted since the listing makes the read throw.
CopyBlob(d) ==
  LET done == [backup EXCEPT !.todo = @ \ {d}]
      claimed == [done EXCEPT !.claims = @ \cup {d}]
  IN /\ backup.at = "blobs" /\ d \in backup.todo
     /\ \/ /\ blobs[d] = "none"
           /\ GiveUp /\ UNCHANGED snap
        \/ /\ blobs[d] = "whole"
           /\ backup' = claimed
           /\ snap' = IF backup.included THEN [snap EXCEPT !.blobs[d] = "whole"] ELSE snap
        \/ /\ blobs[d] \in {"rotten", "short"}
           /\ snap' = IF backup.included THEN [snap EXCEPT !.blobs[d] = "none"] ELSE snap
           /\ IF backup.skip THEN backup' = [done EXCEPT !.corrupt = @ \cup {d}] ELSE GiveUp
     /\ UNCHANGED <<backupOnly, omitted, backups>>

\* Only what the new manifest claims is kept.
PruneStale ==
  /\ backup.at = "blobs" /\ backup.todo = {}
  /\ snap' = [snap EXCEPT !.blobs = [d \in Digests |->
                IF backup.included /\ d \in backup.claims THEN snap.blobs[d] ELSE "none"]]
  /\ backup' = [backup EXCEPT !.at = "manifest"]
  /\ UNCHANGED <<backupOnly, omitted, backups>>

\* Mutant: the database is copied after the blobs.
WriteManifestLate ==
  /\ backup.at = "manifest"
  /\ snap' = [snap EXCEPT !.db.rows = rows,
                          !.manifest = [there |-> TRUE, rows |-> rows,
                                        included |-> backup.included, claims |-> backup.claims]]
  /\ omitted' = backup.corrupt
  /\ backup' = NoBackup
  /\ UNCHANGED <<backupOnly, backups>>

WriteManifest ==
  /\ backup.at = "manifest"
  /\ snap' = [snap EXCEPT !.manifest = [there |-> TRUE, rows |-> snap.db.rows,
                                        included |-> backup.included, claims |-> backup.claims]]
  /\ omitted' = backup.corrupt
  /\ backup' = NoBackup
  /\ UNCHANGED <<backupOnly, backups>>

CutBackup == /\ backup.at # "idle"
             /\ GiveUp
             /\ UNCHANGED <<backupOnly, snap, omitted, backups>>

\* The medium of the snapshot decays.
DecaySnapshot(d) ==
  /\ snap.blobs[d] = "whole" /\ decays < MaxDecays
  /\ decays' = decays + 1
  /\ snap' = [snap EXCEPT !.blobs[d] = "rotten"]
  /\ UNCHANGED <<blobs, rows, backup, omitted, target, restore, backups, restores>>

-----------------------------------------------------------------------------
(* verifyBackup and restoreBackup *)

Files(manifest) == {"db"} \cup (IF manifest.included THEN manifest.claims ELSE {})

\* Mutant: it is enough that a blob is there.
RightName(f, manifest) == IF f = "db" THEN snap.db = [there |-> TRUE, rows |-> manifest.rows]
                          ELSE snap.blobs[f] # "none"

\* What verifyBackup finds when it hashes a file the manifest names.
Right(f, manifest) == IF f = "db" THEN snap.db = [there |-> TRUE, rows |-> manifest.rows]
                      ELSE snap.blobs[f] = "whole"

Verified == snap.manifest.there /\ \A f \in Files(snap.manifest) : Right(f, snap.manifest)

restoreOnly == <<blobs, rows, snap, backup, omitted, backups, decays>>

\* With force the target may hold a library; its database goes first.
BeginRestore ==
  /\ restore.at # "copy" /\ restores < MaxRestores
  /\ snap.manifest.there
  /\ snap.manifest.included \/ snap.manifest.claims = {}
  /\ restores' = restores + 1
  /\ target' = [target EXCEPT !.db = NoRows]
  /\ restore' = [NoRestore EXCEPT !.at = "copy", !.of = snap.manifest, !.todo = Files(snap.manifest)]
  /\ UNCHANGED restoreOnly

\* Each file is hashed as it is copied; what is missing or wrong is noted.
RestoreFile(f) ==
  LET there == IF f = "db" THEN snap.db.there ELSE snap.blobs[f] # "none"
  IN /\ restore.at = "copy" /\ f \in restore.todo
     /\ restore' = [restore EXCEPT !.todo = @ \ {f},
                                   !.failed = @ \/ ~ Right(f, restore.of),
                                   !.written = IF there THEN @ \cup {f} ELSE @]
     /\ target' = IF ~ there THEN target
                  ELSE IF f = "db" THEN [target EXCEPT !.db = snap.db]
                  ELSE [target EXCEPT !.blobs[f] = snap.blobs[f]]
     /\ UNCHANGED <<restoreOnly, restores>>

EndRestore ==
  /\ restore.at = "copy" /\ restore.todo = {}
  /\ IF restore.failed
     THEN /\ target' = [db |-> IF "db" \in restore.written THEN NoRows ELSE target.db,
                        blobs |-> [d \in Digests |-> IF d \in restore.written THEN "none"
                                                     ELSE target.blobs[d]]]
          /\ restore' = [restore EXCEPT !.at = "refused"]
     ELSE /\ restore' = [restore EXCEPT !.at = "restored"]
          /\ UNCHANGED target
  /\ UNCHANGED <<restoreOnly, restores>>

CutRestore == /\ restore.at = "copy"
              /\ restore' = [restore EXCEPT !.at = "cut"]
              /\ UNCHANGED <<restoreOnly, target, restores>>

-----------------------------------------------------------------------------
BackupNext ==
  \/ \E d \in Digests : PutBlob(d) \/ DeleteProbe(d) \/ DecayBlob(d) \/ CommitRow(d)
  \/ \E included, skip \in BOOLEAN : PrepareTarget(included, skip)
  \/ SnapshotDatabase \/ ListBlobs \/ PruneStale \/ WriteManifest \/ CutBackup
  \/ \E d \in Digests : CopyBlob(d) \/ DecaySnapshot(d)
  \/ BeginRestore \/ EndRestore \/ CutRestore
  \/ \E f \in Digests \cup {"db"} : RestoreFile(f)

-----------------------------------------------------------------------------
(* Properties *)

\* A snapshot that verifies is whole: every document of its database has its
\* bytes in it, save those the finished backup reported as corrupt.  It holds
\* through backups cut short over an older snapshot, puts and deletes during the
\* backup, and decay on either side (create.ts: the database before the store).
VerifiedIsWhole ==
  Verified /\ snap.manifest.included =>
     \A d \in snap.db.rows : snap.blobs[d] = "whole" \/ d \in omitted

\* The state is well typed, and what verifies is whole.
SnapshotsHold == BackupTypeOK /\ VerifiedIsWhole

\* A restore that succeeds leaves one snapshot's library, whole, also when the
\* snapshot was being replaced while it ran.
RestoredIsWhole ==
  restore.at = "restored" =>
     /\ target.db = [there |-> TRUE, rows |-> restore.of.rows]
     /\ \A d \in restore.of.claims : target.blobs[d] = "whole"

\* One that refuses leaves nothing that looks like a library (restore.ts:
\* nothing half-restored is left behind).
RefusedLeavesNoLibrary == restore.at = "refused" => ~ target.db.there

\* A restore gives a whole library or none (RestoredIsWhole, RefusedLeavesNoLibrary).
RestoredOrNothing == RestoredIsWhole /\ RefusedLeavesNoLibrary

=============================================================================

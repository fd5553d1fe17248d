------------------------ MODULE RemoteSourcesProofs -------------------------
(***************************************************************************)
(* Proofs about RemoteSources: for any number of messages, paths, writes,  *)
(* UIDVALIDITYs and mishaps, whatever the servers can do.                  *)
(***************************************************************************)
EXTENDS RemoteSources, FiniteSetTheorems, TLAPS

-----------------------------------------------------------------------------
(* The inductive invariant of a mailbox *)

\* Messages have the numbers below uidNext, and one number each.
BoxHolds ==
  /\ uidNext <= sent + 1
  /\ \A u \in Uids : /\ box[u].mail <= sent
                     /\ box[u].mail = Nothing => box[u] = Empty
                     /\ box[u].mail # Nothing => u < uidNext
  /\ \A u, v \in Uids : box[u].mail = box[v].mail /\ box[u].mail # Nothing => u = v

\* Under this UIDVALIDITY the reference r names the message m, if it is there, and
\* nothing else names it.
Names(r, m) == r[1] = epoch /\ m # Nothing =>
                 /\ r[2] < uidNext
                 /\ box[r[2]].mail \in {m, Nothing}
                 /\ \A v \in Uids : box[v].mail = m => v = r[2]

RowsHold ==
  \A r \in Refs : row[r].ack # "none" =>
     /\ r[1] <= epoch /\ row[r].mail <= sent /\ Names(r, row[r].mail)
     /\ row[r].failed => row[r].ack \in {"pending", "left"}
     /\ ~ row[r].failed => row[r].mail # Nothing

BatchHolds ==
  \A r \in Refs :
     /\ batch[r].at # "no" =>
          r[1] <= epoch /\ batch[r].mail <= sent /\ Names(r, batch[r].mail)
     /\ batch[r].at = "filed" => batch[r].mail # Nothing
     /\ batch[r].at = "reading" => r[1] = epoch
     /\ batch[r].at \in {"offered", "reading"} => step = "run"

\* An acknowledgement is about a row; past the evidence, about bytes in the store;
\* past identify, while the connection holds, about the message the row names: which
\* is copied before it is doomed to leave, and flagged before it is expunged, or that
\* was refused.
AckHolds ==
  /\ \A r \in todo : row[r].ack = "pending"
  /\ step \in AckSteps => ref \in Refs /\ row[ref].ack = "pending"
  /\ step \in AckSteps \ {"evidence"} => ~ row[ref].failed /\ row[ref].mail \in held
  /\ step \in {"flag", "act", "doom", "expunge"} /\ up => ref[1] = epoch
  /\ step \in {"doom", "expunge"} /\ up /\ config.policy = "move" =>
       box[ref[2]].mail \in archive \cup {Nothing}
  /\ step = "expunge" /\ up =>
       box[ref[2]].mail = Nothing \/ box[ref[2]].deleted \/ <<ref, "deleted">> \in denied

MailInv == MailTypeOK /\ BoxHolds /\ RowsHold /\ BatchHolds /\ AckHolds /\ GoneIsGone

-----------------------------------------------------------------------------
(* The inductive invariant of a share *)

\* A file has bytes, and no time that is still to come.
FilesHold == \A p \in Paths : /\ files[p].bytes = NoBytes => files[p] = Absent
                              /\ files[p].changed <= writes

\* A consumption is of a path; past the evidence its row's bytes are in the store;
\* and what was read again is too, and is the file for as long as it has its time.
ConsumeHolds ==
  /\ phase \in Consuming => path \in Paths
  /\ phase \in Consuming \ {"evidence"} => entry[path].digest \in stored
  /\ phase = "destroy" =>
       /\ reread.bytes \in stored /\ reread.changed <= writes
       /\ files[path] # Absent /\ files[path].changed = reread.changed =>
            files[path].bytes = reread.bytes

ShareInv == ShareTypeOK /\ FilesHold /\ ConsumeHolds

RemoteInv == source \in {"mail", "share"} /\ MailInv /\ ShareInv

-----------------------------------------------------------------------------
(* Shares *)

LEMMA ShareInvInit == ShareInit => ShareInv
<1> SUFFICES ASSUME ShareInit PROVE ShareInv
  OBVIOUS
<1> USE ShareSetup DEF ShareInit, Absent, NoEntry, Idle
<1>1. /\ files \in [Paths -> FileStates] /\ reread \in FileStates
      /\ answered \in [Paths -> Works] /\ work \in [Paths -> Works]
  BY DEF FileStates, Works
<1>2. entry \in [Paths -> [rev : 0 .. MaxWrites, digest : Contents \cup {NoBytes}, failed : BOOLEAN,
                          ack : Closings \cup {"none", "pending"}]]
  OBVIOUS
<1>3. ShareTypeOK
  BY <1>1, <1>2 DEF ShareTypeOK
<1>4. FilesHold /\ ConsumeHolds
  BY DEF FilesHold, ConsumeHolds, Consuming
<1>5. QED
  BY <1>3, <1>4 DEF ShareInv

\* The revision of a file is a time.
LEMMA RevisionType ==
  ASSUME NEW file \in FileStates
  PROVE  Revision(file) \in 0 .. MaxWrites
  BY DEF Revision, FileStates

\* A step of people.
LEMMA WriteKeeps ==
  ASSUME ShareInv, NEW p \in Paths, NEW state \in FileStates, Write(p, state),
         state.bytes = NoBytes => state = Absent, state.changed \in {0, writes + 1},
         state # Absent => state.changed = writes + 1
  PROVE  ShareInv'
<1>1. writes' = writes + 1 /\ writes' \in 0 .. MaxWrites /\ writes \in 0 .. MaxWrites
  BY ShareSetup DEF ShareInv, ShareTypeOK, Write
<1>2. files' = [files EXCEPT ![p] = state]
      /\ UNCHANGED <<conf, stored, entry, answered, sighted, phase, replays, path, reread, work, troubled>>
  BY DEF Write, library
<1>3. ShareTypeOK'
  BY <1>1, <1>2 DEF ShareInv, ShareTypeOK
<1>4. FilesHold'
  <2>1. \A q \in Paths : files[q].changed \in Nat
    BY DEF ShareInv, ShareTypeOK, FileStates
  <2>2. QED
    BY <1>1, <1>2, <2>1 DEF ShareInv, FilesHold, ShareTypeOK
<1>5. ConsumeHolds'
  <2>1. phase = "destroy" => path \in Paths /\ reread.changed <= writes
    BY DEF ShareInv, ConsumeHolds, Consuming
  <2>2. reread.changed \in 0 .. MaxWrites
    BY DEF ShareInv, ShareTypeOK, FileStates
  <2>3. phase' = "destroy" =>
          /\ reread'.bytes \in stored' /\ reread'.changed <= writes'
          /\ files'[path'] # Absent /\ files'[path'].changed = reread'.changed =>
               files'[path'].bytes = reread'.bytes
    <3>1. CASE path = p
      BY <1>1, <1>2, <2>1, <2>2, <3>1 DEF ShareInv, ConsumeHolds, ShareTypeOK
    <3>2. CASE path # p
      BY <1>1, <1>2, <2>1, <2>2, <3>2 DEF ShareInv, ConsumeHolds, ShareTypeOK
    <3>3. QED
      BY <3>1, <3>2
  <2>4. QED
    BY <1>2, <2>3 DEF ShareInv, ConsumeHolds
<1>6. QED
  BY <1>3, <1>4, <1>5 DEF ShareInv

LEMMA PeopleKeep ==
  ASSUME ShareInv, NEW p \in Paths,
         Remove(p) \/ \E b \in Contents : Put(p, b) \/ Disguise(p, b)
  PROVE  ShareInv'
<1>0. writes \in Nat /\ MaxWrites \in Nat /\ NoBytes \notin Contents
  BY ShareSetup DEF ShareInv, ShareTypeOK
<1>1. CASE Remove(p)
  <2>1. Absent \in FileStates /\ Absent.changed = 0
    BY <1>0 DEF Absent, FileStates
  <2>2. QED
    BY <1>1, <2>1, WriteKeeps DEF Remove
<1>2. ASSUME NEW b \in Contents, Put(p, b)
      PROVE  ShareInv'
  <2> DEFINE state == [bytes |-> b, changed |-> writes + 1, dated |-> writes + 1]
  <2>1. writes < MaxWrites /\ Write(p, state)
    BY <1>2 DEF Put, Write
  <2>2. state \in FileStates /\ state.bytes # NoBytes /\ state.changed = writes + 1
    BY <1>0, <2>1 DEF FileStates
  <2> HIDE DEF state
  <2>3. QED
    BY <2>1, <2>2, WriteKeeps
<1>3. ASSUME NEW b \in Contents, Disguise(p, b)
      PROVE  ShareInv'
  <2> DEFINE state == [files[p] EXCEPT !.bytes = b, !.changed = writes + 1]
  <2>1. writes < MaxWrites /\ Write(p, state)
    BY <1>3 DEF Disguise, Write
  <2>2. files[p] \in FileStates
    BY DEF ShareInv, ShareTypeOK
  <2>3. state \in FileStates /\ state.bytes # NoBytes /\ state.changed = writes + 1
    <3>1. b # NoBytes /\ writes + 1 \in 0 .. MaxWrites
      BY <1>0, <2>1
    <3>2. state \in FileStates
      BY <2>2, <3>1 DEF FileStates
    <3>3. state.bytes = b /\ state.changed = writes + 1
      BY <2>2 DEF FileStates
    <3>4. QED
      BY <3>1, <3>2, <3>3
  <2> HIDE DEF state
  <2>4. QED
    BY <2>1, <2>3, WriteKeeps
<1>4. QED
  BY <1>1, <1>2, <1>3

LEMMA ShareCrashKeeps ==
  ASSUME ShareInv, ShareCrash
  PROVE  ShareInv'
<1> USE ShareSetup DEF ShareCrash, ShareInv, library
<1>1. Absent \in FileStates /\ Idle \in Works
  BY DEF Absent, Idle, FileStates, Works
<1>2. ShareTypeOK'
  BY <1>1 DEF ShareTypeOK, Trouble
<1>3. FilesHold' /\ ConsumeHolds'
  BY DEF FilesHold, ConsumeHolds, Consuming
<1>4. QED
  BY <1>2, <1>3

\* A step of a run before it records.
LEMMA ShareRunKeeps ==
  ASSUME ShareInv, BeginRun \/ PollShare \/ PollShareFails \/ FinishShareRun \/ EndShareRun
  PROVE  ShareInv'
<1> USE ShareSetup DEF ShareInv, library
<1>1. CASE BeginRun
  BY <1>1 DEF BeginRun, ShareTypeOK, FilesHold, ConsumeHolds, Consuming
<1>2. CASE PollShare
  <2>1. sighted' \in [Paths -> 0 .. MaxWrites]
    BY <1>2, RevisionType DEF PollShare, ShareTypeOK
  <2>2. work' \in [Paths -> Works]
    <3>1. Idle \in Works
      BY DEF Idle, Works
    <3>2. ASSUME NEW p \in Paths
          PROVE  [Idle EXCEPT !.at = "offered", !.rev = Revision(files[p])] \in Works
      BY RevisionType DEF Idle, Works, ShareTypeOK
    <3>3. QED
      BY <1>2, <3>1, <3>2 DEF PollShare, ShareTypeOK
  <2>3. phase' \in {"start", "run"}
        /\ UNCHANGED <<conf, files, stored, entry, answered, replays, path, reread, writes, troubled>>
    BY <1>2 DEF PollShare
  <2>4. ShareTypeOK'
    BY <2>1, <2>2, <2>3 DEF ShareTypeOK
  <2>5. FilesHold' /\ ConsumeHolds'
    BY <2>3 DEF FilesHold, ConsumeHolds, Consuming
  <2>6. QED
    BY <2>4, <2>5
<1>3. CASE PollShareFails
  BY <1>3 DEF PollShareFails, Trouble, ShareTypeOK, FilesHold, ConsumeHolds, Consuming
<1>4. CASE FinishShareRun
  <2>1. Idle \in Works
    BY DEF Idle, Works
  <2>2. QED
    BY <1>4, <2>1 DEF FinishShareRun, ShareTypeOK, FilesHold, ConsumeHolds, Consuming
<1>5. CASE EndShareRun
  BY <1>5 DEF EndShareRun, ShareTypeOK, FilesHold, ConsumeHolds, Consuming
<1>6. QED
  BY <1>1, <1>2, <1>3, <1>4, <1>5

\* The pipeline's answer about a file.
LEMMA IngestFileKeeps ==
  ASSUME ShareInv, NEW p \in Paths, IngestFile(p)
  PROVE  ShareInv'
<1> USE ShareSetup DEF ShareInv, library
<1>1. CASE ReadFile(p)
  <2>1. files[p].bytes \in Contents
    BY <1>1 DEF ReadFile, FilesHold, ShareTypeOK, FileStates
  <2>2. [work[p] EXCEPT !.at = "filed", !.digest = files[p].bytes] \in Works
    <3>1. work[p] \in Works
      BY DEF ShareTypeOK
    <3>2. QED
      BY <2>1, <3>1 DEF Works
  <2>3. work' \in [Paths -> Works]
    BY <1>1, <2>2 DEF ReadFile, ShareTypeOK
  <2>4. answered' \in [Paths -> Works]
    BY <1>1, <2>3 DEF ReadFile, ShareTypeOK
  <2>5. stored' \subseteq Contents /\ stored \subseteq stored' /\ troubled' \in 0 .. MaxTroubles
    BY <1>1, <2>1 DEF ReadFile, ShareTypeOK, Trouble
  <2>6. UNCHANGED <<conf, files, entry, sighted, phase, replays, path, reread, writes>>
    BY <1>1 DEF ReadFile
  <2>7. ShareTypeOK'
    BY <2>3, <2>4, <2>5, <2>6 DEF ShareTypeOK
  <2>8. FilesHold' /\ ConsumeHolds'
    BY <2>5, <2>6 DEF FilesHold, ConsumeHolds
  <2>9. QED
    BY <2>7, <2>8
<1>2. CASE ReadFileFails(p)
  <2>1. [work[p] EXCEPT !.at = "failed"] \in Works
    BY DEF ShareTypeOK, Works
  <2>2. work' \in [Paths -> Works]
    BY <1>2, <2>1 DEF ReadFileFails, ShareTypeOK
  <2>3. troubled' \in 0 .. MaxTroubles
        /\ UNCHANGED <<conf, files, stored, entry, answered, sighted, phase, replays, path, reread, writes>>
    BY <1>2 DEF ReadFileFails, ShareTypeOK, Trouble
  <2>4. ShareTypeOK'
    BY <2>2, <2>3 DEF ShareTypeOK
  <2>5. FilesHold' /\ ConsumeHolds'
    BY <2>3 DEF FilesHold, ConsumeHolds
  <2>6. QED
    BY <2>4, <2>5
<1>3. QED
  BY <1>1, <1>2 DEF IngestFile

LEMMA ChooseRowKeeps ==
  ASSUME ShareInv, NEW p \in Paths, ReplayAck(p) \/ RecordOutcome(p)
  PROVE  ShareInv'
<1> USE ShareSetup DEF ShareInv, library
<1>1. CASE ReplayAck(p)
  BY <1>1 DEF ReplayAck, ShareTypeOK, FilesHold, ConsumeHolds, Consuming
<1>2. CASE RecordOutcome(p)
  <2> DEFINE new == [rev |-> work[p].rev, digest |-> work[p].digest,
                     failed |-> work[p].at = "failed", ack |-> "pending"]
  <2>1. new \in [rev : 0 .. MaxWrites, digest : Contents \cup {NoBytes}, failed : BOOLEAN,
                 ack : Closings \cup {"none", "pending"}]
    BY DEF ShareTypeOK, Works
  <2>2. entry' = [entry EXCEPT ![p] = new]
    BY <1>2 DEF RecordOutcome
  <2> HIDE DEF new
  <2>3. entry' \in [Paths -> [rev : 0 .. MaxWrites, digest : Contents \cup {NoBytes}, failed : BOOLEAN,
                             ack : Closings \cup {"none", "pending"}]]
    BY <2>1, <2>2 DEF ShareTypeOK
  <2>4. Idle \in Works
    BY DEF Idle, Works
  <2>5. work' \in [Paths -> Works]
    BY <1>2, <2>4 DEF RecordOutcome, ShareTypeOK
  <2>6. /\ phase' = "evidence" /\ path' = p
        /\ UNCHANGED <<conf, files, stored, answered, sighted, replays, reread, writes, troubled>>
    BY <1>2 DEF RecordOutcome
  <2>7. ShareTypeOK'
    BY <2>3, <2>5, <2>6 DEF ShareTypeOK, Consuming
  <2>8. FilesHold' /\ ConsumeHolds'
    BY <2>6 DEF FilesHold, ConsumeHolds, Consuming
  <2>9. QED
    BY <2>7, <2>8
<1>3. QED
  BY <1>1, <1>2

\* The row of the path is closed, or left pending, and the runner goes on.
LEMMA NextRowKeeps ==
  ASSUME ShareInv, phase \in Consuming, phase' \in {"recover", "record"}, replays' = replays \ {path}, path' = NoPath,
         \/ UNCHANGED entry
         \/ \E ack \in Closings : entry' = [entry EXCEPT ![path].ack = ack],
         UNCHANGED <<conf, stored, answered, sighted, work, writes>>,
         reread' \in FileStates, troubled' \in 0 .. MaxTroubles,
         files' = files \/ files' = [files EXCEPT ![path] = Absent]
  PROVE  ShareInv'
<1> USE ShareSetup DEF ShareInv
<1>1. path \in Paths
  BY DEF ConsumeHolds
<1>2. entry' \in [Paths -> [rev : 0 .. MaxWrites, digest : Contents \cup {NoBytes}, failed : BOOLEAN,
                           ack : Closings \cup {"none", "pending"}]]
  <2>1. CASE UNCHANGED entry
    BY <2>1 DEF ShareTypeOK
  <2>2. ASSUME NEW ack \in Closings, entry' = [entry EXCEPT ![path].ack = ack]
        PROVE  entry' \in [Paths -> [rev : 0 .. MaxWrites, digest : Contents \cup {NoBytes}, failed : BOOLEAN,
                                   ack : Closings \cup {"none", "pending"}]]
    <3>1. entry[path] \in [rev : 0 .. MaxWrites, digest : Contents \cup {NoBytes}, failed : BOOLEAN,
                          ack : Closings \cup {"none", "pending"}]
      BY <1>1 DEF ShareTypeOK
    <3>2. [entry[path] EXCEPT !.ack = ack] \in [rev : 0 .. MaxWrites, digest : Contents \cup {NoBytes},
                                                failed : BOOLEAN, ack : Closings \cup {"none", "pending"}]
      BY <2>2, <3>1
    <3>3. QED
      BY <2>2, <3>2 DEF ShareTypeOK
  <2>3. QED
    BY <2>1, <2>2
<1>3. Absent \in FileStates /\ Absent.changed = 0
  BY DEF Absent, FileStates
<1>4. files' \in [Paths -> FileStates]
  BY <1>3 DEF ShareTypeOK
<1>5. ShareTypeOK'
  BY <1>2, <1>4 DEF ShareTypeOK
<1>6. FilesHold'
  BY <1>1, <1>3 DEF FilesHold, ShareTypeOK
<1>7. ConsumeHolds'
  BY DEF ConsumeHolds, Consuming
<1>8. QED
  BY <1>5, <1>6, <1>7

LEMMA AcknowledgeShareKeeps ==
  ASSUME ShareInv, AcknowledgeShare
  PROVE  ShareInv'
<1> USE ShareSetup
<1>0. /\ UNCHANGED <<conf, stored, answered, sighted, work, writes>>
      /\ phase \in Consuming
  BY DEF AcknowledgeShare, DecideShare, CheckMetadata, CheckDigest, Destroy, DestroyRefused, RequestFails, Consuming
<1>1. path \in Paths
  BY <1>0 DEF ShareInv, ConsumeHolds
<1>2. /\ reread \in FileStates /\ files[path] \in FileStates /\ Absent \in FileStates
      /\ troubled \in 0 .. MaxTroubles
  BY <1>1 DEF ShareInv, ShareTypeOK, Absent, FileStates
<1>3. reread' \in FileStates /\ troubled' \in 0 .. MaxTroubles
  <2>1. reread' \in FileStates
    BY <1>2 DEF AcknowledgeShare, DecideShare, CheckMetadata, CheckDigest, Destroy, DestroyRefused, RequestFails
  <2>2. troubled' = troubled \/ Trouble
    BY DEF AcknowledgeShare, DecideShare, CheckMetadata, CheckDigest, Destroy, DestroyRefused, RequestFails
  <2>3. QED
    BY <1>2, <2>1, <2>2 DEF Trouble
<1>4. files' = files \/ files' = [files EXCEPT ![path] = Absent]
  BY DEF AcknowledgeShare, DecideShare, CheckMetadata, CheckDigest, Destroy, DestroyRefused, RequestFails
<1>5. ASSUME NEW ack \in Closings, CloseEntry(ack)
      PROVE  ShareInv'
  BY <1>0, <1>3, <1>4, <1>5, NextRowKeeps DEF CloseEntry, NextRow
<1>6. CASE LeavePending
  BY <1>0, <1>3, <1>4, <1>6, NextRowKeeps DEF LeavePending, NextRow
<1>7. \/ \E ack \in Closings : CloseEntry(ack)
      \/ LeavePending
      \/ /\ phase = "evidence" /\ entry[path].digest \in stored /\ Proceed("head")
         /\ UNCHANGED <<files, reread>>
      \/ phase = "head" /\ Proceed("digest") /\ UNCHANGED <<files, reread>>
      \/ /\ phase = "digest" /\ files[path] # Absent /\ files[path].bytes = entry[path].digest
         /\ Proceed("destroy") /\ reread' = files[path] /\ UNCHANGED files
  <2>1. CASE DecideShare
    BY <2>1 DEF DecideShare, Closings
  <2>2. CASE CheckMetadata
    BY <2>2 DEF CheckMetadata, Closings
  <2>3. CASE CheckDigest
    BY <2>3 DEF CheckDigest, Closings
  <2>4. CASE Destroy
    BY <2>4 DEF Destroy, Closings
  <2>5. CASE DestroyRefused
    BY <2>5 DEF DestroyRefused, Closings
  <2>6. CASE RequestFails
    BY <2>6 DEF RequestFails, Closings
  <2>7. QED
    BY <2>1, <2>2, <2>3, <2>4, <2>5, <2>6 DEF AcknowledgeShare
<1>8. ASSUME NEW to \in {"head", "digest", "destroy"}, Proceed(to), UNCHANGED files,
             entry[path].digest \in stored,
             to = "destroy" => reread' = files[path] /\ files[path].bytes \in stored
      PROVE  ShareInv'
  <2>1. phase' = to /\ UNCHANGED <<entry, replays, path>>
    BY <1>8 DEF Proceed
  <2>2. ShareTypeOK'
    BY <1>0, <1>3, <1>8, <2>1 DEF ShareInv, ShareTypeOK, Consuming
  <2>3. FilesHold'
    BY <1>0, <1>8 DEF ShareInv, FilesHold
  <2>4. ConsumeHolds'
    BY <1>0, <1>1, <1>8, <2>1 DEF ShareInv, ConsumeHolds, FilesHold, Consuming
  <2>5. QED
    BY <2>2, <2>3, <2>4 DEF ShareInv
<1>9. phase \in {"head", "digest"} => entry[path].digest \in stored
  BY DEF ShareInv, ConsumeHolds, Consuming
<1>10. QED
  BY <1>5, <1>6, <1>7, <1>8, <1>9

LEMMA ShareInvStep ==
  ASSUME ShareInv, ShareNext \/ UNCHANGED shareVars
  PROVE  ShareInv'
<1>1. CASE UNCHANGED shareVars
  BY <1>1 DEF shareVars, library, ShareInv, ShareTypeOK, FilesHold, ConsumeHolds
<1>2. CASE ShareNext
  BY <1>2, PeopleKeep, ShareCrashKeeps, ShareRunKeeps, IngestFileKeeps, ChooseRowKeeps, AcknowledgeShareKeeps
     DEF ShareNext, ShareRunner, ShareOutside
<1>3. QED
  BY <1>1, <1>2

\* What leaves the share was in the store, unless the share let a rewrite pass.
LEMMA LostStep ==
  ASSUME ShareInv, ShareNext, NEW p \in Paths, phase = "destroy", files[p] # Absent,
         files'[p] = Absent, writes' = writes
  PROVE  \/ files[p].bytes \in stored
         \/ /\ files[p].changed # reread.changed
            /\ ~ (conf.conditional /\ conf.tags = "strong")
<1>1. files' # files
  BY DEF ShareInv, ShareTypeOK
<1>2. ASSUME NEW q \in Paths, Remove(q) \/ \E b \in Contents : Put(q, b) \/ Disguise(q, b)
      PROVE  FALSE
  <2>1. writes' = writes + 1 /\ writes \in Nat
    <3>1. writes' = writes + 1
      BY <1>2 DEF Remove, Put, Disguise, Write
    <3>2. writes \in Nat
      BY ShareSetup DEF ShareInv, ShareTypeOK
    <3>3. QED
      BY <3>1, <3>2
  <2>2. QED
    BY <2>1
<1>3. Destroy
  BY <1>1, <1>2 DEF ShareNext, ShareRunner, ShareOutside, AcknowledgeShare, IngestFile, BeginRun, PollShare,
     PollShareFails, FinishShareRun, EndShareRun, DecideShare, CheckMetadata, CheckDigest, DestroyRefused,
     RequestFails, ReplayAck, RecordOutcome, ReadFile, ReadFileFails, ShareCrash
<1>4. p = path /\ ~ Stale
  BY <1>3 DEF Destroy, ShareInv, ShareTypeOK
<1>5. CASE files[p].changed = reread.changed
  BY <1>4, <1>5 DEF ShareInv, ConsumeHolds
<1>6. CASE files[p].changed # reread.changed
  <2>1. ~ (conf.conditional /\ conf.tags = "strong")
    BY <1>4, <1>6 DEF Stale, Revision
  <2>2. QED
    BY <1>6, <2>1
<1>7. QED
  BY <1>5, <1>6

-----------------------------------------------------------------------------
(* Mailboxes: types *)

BoxRecs == [mail : Mails \cup {Nothing}, seen : BOOLEAN, deleted : BOOLEAN]
RowRecs == [mail : Mails \cup {Nothing}, failed : BOOLEAN, ack : Acks]
BatchRecs == [at : {"no", "offered", "reading", "filed", "failed"}, mail : Mails \cup {Nothing}]

LEMMA EmptyRecs == Empty \in BoxRecs /\ NoRow \in RowRecs /\ NotOffered \in BatchRecs /\ Offered \in BatchRecs
  BY DEF Empty, NoRow, NotOffered, Offered, BoxRecs, RowRecs, BatchRecs, Acks

\* The numbers that are in use are below the next one.
LEMMA PresentCount ==
  ASSUME MailTypeOK, BoxHolds
  PROVE  Cardinality(Present) \in Nat /\ Cardinality(Present) < uidNext
<1>1. uidNext \in Nat \ {0}
  BY MailSetup DEF MailTypeOK
<1>2. Present \subseteq 1 .. (uidNext - 1)
  BY <1>1 DEF Present, BoxHolds, Uids
<1>3. IsFiniteSet(1 .. (uidNext - 1)) /\ Cardinality(1 .. (uidNext - 1)) = uidNext - 1
  BY <1>1, FS_Interval
<1>4. IsFiniteSet(Present) /\ Cardinality(Present) <= uidNext - 1
  BY <1>2, <1>3, FS_Subset
<1>5. Cardinality(Present) \in Nat
  BY <1>4, FS_CardinalityType
<1>6. QED
  BY <1>1, <1>4, <1>5

LEMMA MailInvInit == MailInit => MailInv
<1> SUFFICES ASSUME MailInit PROVE MailInv
  OBVIOUS
<1> USE MailSetup, EmptyRecs DEF MailInit
<1>1. box \in [Uids -> BoxRecs] /\ row \in [Refs -> RowRecs] /\ batch \in [Refs -> BatchRecs]
  OBVIOUS
<1>2. MailTypeOK
  <2>1. /\ config \in Configs /\ epoch \in 1 .. MaxEpoch /\ sent \in 0 .. Arrivals
        /\ uidNext \in 1 .. Arrivals + 1 /\ mishaps \in 0 .. MaxMishaps
    OBVIOUS
  <2>2. /\ archive \subseteq Mails /\ denied \subseteq Refs \X {"seen", "deleted"} /\ held \subseteq Mails /\ up \in BOOLEAN /\ todo \subseteq Refs
        /\ step \in {"off", "start", "recover", "run", "record"} \cup AckSteps /\ ref \in Refs \cup {NoRef}
    OBVIOUS
  <2>3. QED
    BY <1>1, <2>1, <2>2 DEF MailTypeOK, BoxRecs, RowRecs, BatchRecs
<1>3. BoxHolds
  BY DEF BoxHolds, Empty, Nothing
<1>4. RowsHold /\ GoneIsGone
  BY DEF RowsHold, GoneIsGone, NoRow
<1>5. BatchHolds
  BY DEF BatchHolds, NotOffered
<1>6. AckHolds
  BY DEF AckHolds, AckSteps
<1>7. QED
  BY <1>2, <1>3, <1>4, <1>5, <1>6 DEF MailInv

-----------------------------------------------------------------------------
(* Mailboxes: what becomes of the messages *)

\* Messages that are flagged or taken away keep their numbers; and what a flag was refused
\* for in a row that is closed stays so.
Thinned == /\ UNCHANGED <<epoch, sent, uidNext>>
           /\ box' \in [Uids -> BoxRecs]
           /\ \A u \in Uids : /\ box'[u].mail \in {box[u].mail, Nothing}
                              /\ box'[u].mail = Nothing => box'[u] = Empty
           /\ denied' \subseteq Refs \X {"seen", "deleted"}
           /\ \A r \in Refs : row[r].ack # "pending" /\ <<r, "deleted">> \in denied =>
                              <<r, "deleted">> \in denied'

LEMMA ThinnedKeeps ==
  ASSUME MailInv, Thinned
  PROVE  /\ BoxHolds'
         /\ \A r \in Refs : \A m : Names(r, m) => Names(r, m)'
         /\ \A m : m # Nothing /\ ~ InBox(m) => ~ InBox(m)'
<1>1. Nothing <= sent
  BY MailSetup DEF MailInv, MailTypeOK, Nothing
<1>2. BoxHolds'
  BY <1>1 DEF MailInv, BoxHolds, Thinned
<1>3. ASSUME NEW r \in Refs, NEW m, Names(r, m)
      PROVE  Names(r, m)'
  <2>1. r[2] \in Uids
    BY DEF Refs
  <2>2. QED
    BY <1>3, <2>1 DEF Names, Thinned
<1>4. ASSUME NEW m, m # Nothing, ~ InBox(m)
      PROVE  ~ InBox(m)'
  BY <1>4 DEF InBox, Thinned
<1>5. QED
  BY <1>2, <1>3, <1>4

\* A row that closed because its message went is about a message.
LEMMA GoneHasMail ==
  ASSUME MailInv, NEW r \in Refs, row[r].ack \in {"moved", "deleted", "vanished"}
  PROVE  row[r].mail # Nothing
  BY DEF MailInv, RowsHold

LEMMA ArriveKeeps ==
  ASSUME MailInv, Arrive
  PROVE  MailInv'
<1> USE MailSetup
<1>1. /\ sent \in Nat /\ sent < Arrivals /\ sent' = sent + 1 /\ uidNext \in Nat \ {0} /\ uidNext <= sent + 1
      /\ uidNext' = uidNext + 1 /\ uidNext \in Uids /\ sent + 1 \in Mails
  BY DEF Arrive, MailInv, MailTypeOK, BoxHolds, Uids, Mails
<1>2. UNCHANGED <<config, epoch, archive, denied, up, row, step, todo, ref, batch, held, mishaps>>
  BY DEF Arrive
<1> DEFINE new == [Empty EXCEPT !.mail = sent + 1]
<1>3. new \in BoxRecs /\ new.mail = sent + 1
  BY <1>1 DEF Empty, BoxRecs
<1>4. box' = [box EXCEPT ![uidNext] = new]
  BY <1>1 DEF Arrive
<1> HIDE DEF new
<1>5. /\ box \in [Uids -> BoxRecs]
      /\ \A u \in Uids : box[u].mail \in Nat /\ box[u].mail <= sent
      /\ box[uidNext].mail = Nothing
  <2>1. box \in [Uids -> BoxRecs]
    BY DEF MailInv, MailTypeOK, BoxRecs
  <2>2. \A u \in Uids : box[u].mail \in Nat /\ box[u].mail <= sent
    BY <2>1 DEF MailInv, BoxHolds, BoxRecs, Mails, Nothing
  <2>3. box[uidNext].mail = Nothing
    BY <1>1 DEF MailInv, BoxHolds
  <2>4. QED
    BY <2>1, <2>2, <2>3
<1>6. box' \in [Uids -> BoxRecs]
  BY <1>3, <1>4, <1>5
<1>7. MailTypeOK'
  BY <1>1, <1>2, <1>6 DEF MailInv, MailTypeOK, BoxRecs
<1>8. BoxHolds'
  <2>1. \A u \in Uids : /\ box'[u].mail <= sent'
                        /\ box'[u].mail = Nothing => box'[u] = Empty
                        /\ box'[u].mail # Nothing => u < uidNext'
    BY <1>1, <1>3, <1>4, <1>5 DEF MailInv, BoxHolds, Nothing, Uids
  <2>2. \A u, v \in Uids : box'[u].mail = box'[v].mail /\ box'[u].mail # Nothing => u = v
    BY <1>1, <1>3, <1>4, <1>5 DEF MailInv, BoxHolds
  <2>3. uidNext' <= sent' + 1
    BY <1>1
  <2>4. QED
    BY <2>1, <2>2, <2>3 DEF BoxHolds
<1>9. ASSUME NEW r \in Refs, NEW m \in Nat, m <= sent, Names(r, m)
      PROVE  Names(r, m)'
  <2>1. r[2] \in Uids /\ r[2] \in Nat
    BY DEF Refs, Uids
  <2>2. SUFFICES ASSUME r[1] = epoch, m # Nothing
                 PROVE  /\ r[2] < uidNext'
                        /\ box'[r[2]].mail \in {m, Nothing}
                        /\ \A v \in Uids : box'[v].mail = m => v = r[2]
    BY <1>2 DEF Names
  <2>3. r[2] < uidNext /\ box[r[2]].mail \in {m, Nothing} /\ \A v \in Uids : box[v].mail = m => v = r[2]
    BY <1>9, <2>2 DEF Names
  <2>4. QED
    BY <1>1, <1>3, <1>4, <1>5, <1>9, <2>1, <2>3
<1>10. \A r \in Refs : row[r].mail \in Nat /\ batch[r].mail \in Nat
  BY DEF MailInv, MailTypeOK, Mails, Nothing
<1>11. RowsHold'
  <2>1. ASSUME NEW r \in Refs, row[r].ack # "none"
        PROVE  row[r].mail <= sent + 1 /\ Names(r, row[r].mail)'
    BY <1>1, <1>2, <1>9, <1>10, <2>1 DEF MailInv, RowsHold, Names
  <2>2. QED
    BY <1>1, <1>2, <2>1 DEF MailInv, RowsHold
<1>12. BatchHolds'
  <2>1. ASSUME NEW r \in Refs, batch[r].at # "no"
        PROVE  batch[r].mail <= sent + 1 /\ Names(r, batch[r].mail)'
    BY <1>1, <1>2, <1>9, <1>10, <2>1 DEF MailInv, BatchHolds, Names
  <2>2. QED
    BY <1>1, <1>2, <2>1 DEF MailInv, BatchHolds
<1>13. AckHolds'
  <2>1. ASSUME step \in {"doom", "expunge"}, up
        PROVE  box'[ref[2]] = box[ref[2]]
    <3>1. ref \in Refs /\ ref[1] = epoch /\ row[ref].ack # "none" /\ ~ row[ref].failed
      BY <2>1 DEF MailInv, AckHolds, AckSteps
    <3>2. ref[2] \in Uids /\ ref[2] < uidNext
      BY <3>1 DEF MailInv, RowsHold, Names, Refs
    <3>3. QED
      BY <1>1, <1>4, <1>5, <3>2 DEF Uids
  <2>2. QED
    BY <1>2, <2>1 DEF MailInv, AckHolds, AckSteps
<1>14. GoneIsGone'
  <2>1. ASSUME NEW r \in Refs, row[r].ack \in {"moved", "deleted", "vanished"}, ~ ClosedAnyway(r), NEW u \in Uids,
               box'[u].mail = row[r].mail
        PROVE  FALSE
    <3>1. row[r].mail <= sent /\ ~ InBox(row[r].mail)
      BY <2>1 DEF MailInv, RowsHold, GoneIsGone
    <3>2. QED
      BY <1>1, <1>3, <1>4, <1>5, <1>10, <2>1, <3>1 DEF InBox
  <2>2. QED
    BY <1>2, <2>1 DEF GoneIsGone, ClosedAnyway, InBox
<1>15. QED
  BY <1>7, <1>8, <1>11, <1>12, <1>13, <1>14 DEF MailInv

\* A step that does not disturb the mailbox under the rows, the batch or an acknowledgement.
LEMMA ThinnedQuiet ==
  ASSUME MailInv, MailTypeOK', Thinned, UNCHANGED <<row, ref, batch>>, AckHolds', BatchHolds'
  PROVE  MailInv'
<1>1. BoxHolds'
  BY ThinnedKeeps
<1>2. RowsHold'
  <2>1. ASSUME NEW r \in Refs, row[r].ack # "none"
        PROVE  Names(r, row[r].mail)'
    BY <2>1, ThinnedKeeps DEF MailInv, RowsHold, Names
  <2>2. QED
    BY <2>1 DEF MailInv, RowsHold, Thinned
<1>3. GoneIsGone'
  <2>1. ASSUME NEW r \in Refs, row[r].ack \in {"moved", "deleted", "vanished"}, ~ ClosedAnyway(r)'
        PROVE  ~ InBox(row[r].mail)'
    <3>1. ~ ClosedAnyway(r)
      BY <2>1 DEF ClosedAnyway, Thinned
    <3>2. row[r].mail # Nothing /\ ~ InBox(row[r].mail)
      BY <2>1, <3>1, GoneHasMail DEF MailInv, GoneIsGone
    <3>3. QED
      BY <3>2, ThinnedKeeps DEF InBox
  <2>2. QED
    BY <2>1 DEF GoneIsGone, ClosedAnyway, InBox
<1>4. QED
  BY <1>1, <1>2, <1>3 DEF MailInv

\* What the batch says is kept by whatever takes messages away.
LEMMA BatchThinned ==
  ASSUME MailInv, Thinned, UNCHANGED batch, \A r \in Refs : batch[r].at \in {"offered", "reading"} => step' = "run"
  PROVE  BatchHolds'
<1>1. ASSUME NEW r \in Refs, batch[r].at # "no"
      PROVE  Names(r, batch[r].mail)'
  BY <1>1, ThinnedKeeps DEF MailInv, BatchHolds, Names
<1>2. QED
  BY <1>1 DEF MailInv, BatchHolds, Thinned

LEMMA OwnerKeeps ==
  ASSUME MailInv, NEW u \in Uids, Read(u) \/ TakeAway(u)
  PROVE  MailInv'
<1> USE MailSetup
<1>1. u \in Present /\ box[u] \in BoxRecs /\ mishaps' \in 0 .. MaxMishaps
      /\ UNCHANGED <<config, epoch, sent, uidNext, archive, denied, up, row, step, todo, ref, batch, held>>
  BY DEF Read, TakeAway, MailInv, MailTypeOK, BoxRecs, Mishap
<1> DEFINE read == [box[u] EXCEPT !.seen = ~ @]
<1>2. read \in BoxRecs /\ read.mail = box[u].mail /\ read.deleted = box[u].deleted
  BY <1>1 DEF BoxRecs
<1>3. box' = [box EXCEPT ![u] = read] \/ box' = [box EXCEPT ![u] = Empty]
  BY DEF Read, TakeAway
<1>4. box[u].mail # Nothing
  BY <1>1 DEF Present
<1> HIDE DEF read
<1>5. Empty \in BoxRecs /\ Empty.mail = Nothing
  BY EmptyRecs DEF Empty
<1>6. box \in [Uids -> BoxRecs]
  BY DEF MailInv, MailTypeOK, BoxRecs
<1>7. Thinned
  <2>1. box' \in [Uids -> BoxRecs]
    BY <1>2, <1>3, <1>5, <1>6
  <2>2. ASSUME NEW v \in Uids
        PROVE  /\ box'[v].mail \in {box[v].mail, Nothing}
               /\ box'[v].mail = Nothing => box'[v] = Empty
    <3>1. box[v].mail = Nothing => box[v] = Empty
      BY DEF MailInv, BoxHolds
    <3>2. QED
      BY <1>2, <1>3, <1>4, <1>5, <1>6, <3>1
  <2>3. denied \subseteq Refs \X {"seen", "deleted"}
    BY DEF MailInv, MailTypeOK
  <2>4. QED
    BY <1>1, <2>1, <2>2, <2>3 DEF Thinned
<1>8. \A v \in Uids : box'[v].mail = Nothing \/ (box'[v].mail = box[v].mail /\ box'[v].deleted = box[v].deleted)
  BY <1>1, <1>2, <1>3, <1>5, <1>6
<1>9. MailTypeOK'
  BY <1>1, <1>7 DEF MailInv, MailTypeOK, Thinned, BoxRecs
<1>10. BatchHolds'
  BY <1>1, <1>7, BatchThinned DEF MailInv, BatchHolds
<1>11. AckHolds'
  <2>1. step \in {"doom", "expunge"} => ref[2] \in Uids
    BY DEF MailInv, AckHolds, AckSteps, Refs
  <2>2. QED
    BY <1>1, <1>8, <2>1 DEF MailInv, AckHolds
<1>12. QED
  BY <1>1, <1>7, <1>9, <1>10, <1>11, ThinnedQuiet

LEMMA RenumberKeeps ==
  ASSUME MailInv, Renumber
  PROVE  MailInv'
<1> USE MailSetup
<1> DEFINE k == Cardinality(Present)
<1>1. PICK number \in [Present -> 1 .. k] :
        /\ \A u, v \in Present : u # v => number[u] # number[v]
        /\ box' = [n \in Uids |-> IF \E u \in Present : number[u] = n
                                    THEN box[CHOOSE u \in Present : number[u] = n] ELSE Empty]
  BY DEF Renumber
<1>2. k \in Nat /\ k < uidNext /\ uidNext' = k + 1
  BY PresentCount DEF MailInv, Renumber
<1> HIDE DEF k
<1>3. /\ epoch \in Nat /\ epoch' = epoch + 1 /\ epoch' \in 1 .. MaxEpoch /\ up' = FALSE /\ batch' = Interrupted
      /\ UNCHANGED <<config, sent, archive, denied, row, step, todo, ref, held, mishaps>>
      /\ sent \in Nat /\ uidNext \in Nat /\ uidNext <= sent + 1 /\ uidNext <= Arrivals + 1
  BY DEF Renumber, MailInv, MailTypeOK, BoxHolds
<1>4. ASSUME NEW n \in Uids
      PROVE  \/ box'[n] = Empty
             \/ \E u \in Present : number[u] = n /\ box'[n] = box[u]
  <2>1. CASE \E u \in Present : number[u] = n
    BY <1>1, <2>1
  <2>2. CASE ~ \E u \in Present : number[u] = n
    BY <1>1, <2>2
  <2>3. QED
    BY <2>1, <2>2
<1>5. /\ box \in [Uids -> BoxRecs] /\ Present \subseteq Uids /\ Empty \in BoxRecs /\ Empty.mail = Nothing
      /\ \A u \in Present : box[u].mail # Nothing
      /\ Nothing <= sent
  BY <1>3, EmptyRecs DEF MailInv, MailTypeOK, BoxRecs, Present, Empty, Nothing
<1>6. \A n \in Uids : box'[n] \in BoxRecs
  BY <1>4, <1>5
<1>7. box' \in [Uids -> BoxRecs]
  BY <1>1, <1>6
<1>8. Interrupted \in [Refs -> BatchRecs]
  BY EmptyRecs DEF Interrupted, MailInv, MailTypeOK, BatchRecs
<1>9. MailTypeOK'
  <2>1. uidNext' \in 1 .. Arrivals + 1
    BY <1>2, <1>3
  <2>2. batch' \in [Refs -> BatchRecs] /\ up' \in BOOLEAN
    BY <1>3, <1>8
  <2>3. MailTypeOK
    BY DEF MailInv
  <2>4. QED
    BY <1>3, <1>7, <2>1, <2>2, <2>3 DEF MailTypeOK, BoxRecs, BatchRecs
<1>10. BoxHolds'
  <2>1. \A n \in Uids : /\ box'[n].mail <= sent
                        /\ box'[n].mail = Nothing => box'[n] = Empty
                        /\ box'[n].mail # Nothing => n < k + 1
    <3>1. ASSUME NEW n \in Uids, NEW u \in Present, number[u] = n, box'[n] = box[u]
          PROVE  box'[n].mail <= sent /\ box'[n].mail # Nothing /\ n < k + 1
      BY <1>2, <1>5, <3>1 DEF MailInv, BoxHolds
    <3>2. QED
      BY <1>4, <1>5, <3>1
  <2>2. \A n, m \in Uids : box'[n].mail = box'[m].mail /\ box'[n].mail # Nothing => n = m
    BY <1>4, <1>5 DEF MailInv, BoxHolds
  <2>3. QED
    BY <1>2, <1>3, <2>1, <2>2 DEF BoxHolds
<1>11. RowsHold'
  <2>1. ASSUME NEW r \in Refs, row[r].ack # "none"
        PROVE  r[1] <= epoch' /\ Names(r, row[r].mail)'
    <3>1. r[1] <= epoch /\ r[1] \in Nat
      BY <2>1 DEF MailInv, RowsHold, Refs
    <3>2. QED
      BY <1>3, <3>1 DEF Names
  <2>2. QED
    BY <1>3, <2>1 DEF MailInv, RowsHold
<1>12. BatchHolds'
  <2>1. ASSUME NEW r \in Refs, batch'[r].at # "no"
        PROVE  /\ r[1] <= epoch' /\ batch'[r].mail <= sent' /\ Names(r, batch[r].mail)'
               /\ r[1] # epoch'
    <3>1. batch[r].at # "no" /\ (batch'[r] = batch[r] \/ batch'[r].mail = Nothing)
      BY <1>3, <2>1 DEF Interrupted, Offered
    <3>2. r[1] <= epoch /\ r[1] \in Nat
      BY <3>1 DEF MailInv, BatchHolds, Refs
    <3>3. batch'[r].mail <= sent'
      BY <1>3, <1>5, <3>1 DEF MailInv, BatchHolds
    <3>4. QED
      BY <1>3, <3>2, <3>3 DEF Names
  <2>2. ASSUME NEW r \in Refs
        PROVE  /\ batch'[r].at = "filed" => batch'[r].mail # Nothing
               /\ batch'[r].at # "reading"
               /\ batch'[r].at = "offered" => step' = "run"
    BY <1>3 DEF Interrupted, Offered, MailInv, BatchHolds
  <2>3. QED
    BY <2>1, <2>2 DEF BatchHolds, Names
<1>13. AckHolds'
  BY <1>3 DEF MailInv, AckHolds
<1>14. GoneIsGone'
  <2>1. ASSUME NEW r \in Refs, row[r].ack \in {"moved", "deleted", "vanished"}, ~ ClosedAnyway(r), NEW n \in Uids,
               box'[n].mail = row[r].mail
        PROVE  FALSE
    <3>1. row[r].mail # Nothing /\ ~ InBox(row[r].mail)
      BY <2>1, GoneHasMail DEF MailInv, GoneIsGone
    <3>2. QED
      BY <1>4, <1>5, <2>1, <3>1 DEF InBox
  <2>2. QED
    BY <1>3, <2>1 DEF GoneIsGone, ClosedAnyway, InBox
<1>15. QED
  BY <1>9, <1>10, <1>11, <1>12, <1>13, <1>14 DEF MailInv

\* A step that leaves the mailbox and the rows alone.
LEMMA ServerQuiet ==
  ASSUME MailInv, MailTypeOK', UNCHANGED <<epoch, box, sent, uidNext, denied, row>>, BatchHolds', AckHolds'
  PROVE  MailInv'
  BY DEF MailInv, BoxHolds, RowsHold, Names, GoneIsGone, ClosedAnyway, InBox

LEMMA InterruptedKeeps ==
  ASSUME MailInv
  PROVE  Interrupted \in [Refs -> BatchRecs]
  BY EmptyRecs DEF Interrupted, MailInv, MailTypeOK, BatchRecs

LEMMA TroubleKeeps ==
  ASSUME MailInv, Drop \/ Crash
  PROVE  MailInv'
<1> USE MailSetup
<1>1. CASE Drop
  <2>1. /\ up' = FALSE /\ batch' = Interrupted /\ mishaps' \in 0 .. MaxMishaps
        /\ UNCHANGED <<config, epoch, box, sent, uidNext, archive, denied, row, step, todo, ref, held>>
    BY <1>1 DEF Drop, server, Mishap, MailInv, MailTypeOK
  <2>2. batch' \in [Refs -> BatchRecs]
    BY <2>1, InterruptedKeeps
  <2>3. MailTypeOK'
    BY <2>1, <2>2 DEF MailInv, MailTypeOK, BatchRecs
  <2>4. BatchHolds'
    <3>1. ASSUME NEW r \in Refs
          PROVE  batch'[r] = batch[r] \/ (batch[r].at = "reading" /\ batch'[r] = Offered)
      BY <2>1 DEF Interrupted
    <3>2. Offered.at = "offered" /\ Offered.mail = Nothing
      BY DEF Offered
    <3>3. Nothing <= sent
      BY DEF MailInv, MailTypeOK, Nothing
    <3>4. ASSUME NEW r \in Refs, batch'[r].at # "no"
          PROVE  r[1] <= epoch' /\ batch'[r].mail <= sent' /\ Names(r, batch[r].mail)'
      BY <2>1, <3>1, <3>2, <3>3, <3>4 DEF MailInv, BatchHolds, Names
    <3>5. QED
      BY <2>1, <3>1, <3>2, <3>4 DEF MailInv, BatchHolds
  <2>5. AckHolds'
    BY <2>1 DEF MailInv, AckHolds
  <2>6. QED
    BY <2>1, <2>3, <2>4, <2>5, ServerQuiet
<1>2. CASE Crash
  <2>1. /\ step' = "off" /\ todo' = {} /\ ref' = NoRef /\ up' = FALSE /\ mishaps' \in 0 .. MaxMishaps
        /\ batch' = [r \in Refs |-> NotOffered]
        /\ UNCHANGED <<config, epoch, box, sent, uidNext, archive, denied, row, held>>
    BY <1>2 DEF Crash, server, Mishap, MailInv, MailTypeOK
  <2>2. batch' \in [Refs -> BatchRecs]
    BY <2>1, EmptyRecs
  <2>3. MailTypeOK'
    BY <2>1, <2>2 DEF MailInv, MailTypeOK, BatchRecs
  <2>4. BatchHolds'
    BY <2>1 DEF BatchHolds, NotOffered
  <2>5. AckHolds'
    BY <2>1 DEF AckHolds, AckSteps
  <2>6. QED
    BY <2>1, <2>3, <2>4, <2>5, ServerQuiet
<1>3. QED
  BY <1>1, <1>2

-----------------------------------------------------------------------------
(* Mailboxes: a run *)

LEMMA MailRunKeeps ==
  ASSUME MailInv, Begin \/ Poll \/ PollFails \/ FinishRun \/ EndRun
  PROVE  MailInv'
<1> USE MailSetup
<1>1. UNCHANGED <<config, epoch, box, sent, uidNext, archive, denied, row, ref, held>>
  BY DEF Begin, Poll, PollFails, FinishRun, EndRun, server
<1>2. /\ step' \in {"start", "recover", "run", "record"} /\ up' \in BOOLEAN /\ mishaps' \in 0 .. MaxMishaps
      /\ todo' \subseteq Refs /\ \A r \in todo' : row[r].ack = "pending"
  <2>1. step' \in {"start", "recover", "run", "record"}
    BY DEF Begin, Poll, PollFails, FinishRun, EndRun
  <2>2. up' \in BOOLEAN /\ mishaps' \in 0 .. MaxMishaps
    <3>1. (up' = TRUE \/ up' = FALSE \/ up' = up) /\ (mishaps' = mishaps \/ Mishap)
      BY DEF Begin, Poll, PollFails, FinishRun, EndRun
    <3>2. up \in BOOLEAN /\ mishaps \in 0 .. MaxMishaps
      BY DEF MailInv, MailTypeOK
    <3>3. mishaps' \in 0 .. MaxMishaps
      BY <3>1, <3>2 DEF Mishap
    <3>4. up' \in BOOLEAN
      BY <3>1, <3>2
    <3>5. QED
      BY <3>3, <3>4
  <2>3. todo' \subseteq Refs /\ \A r \in todo' : row[r].ack = "pending"
    BY DEF Begin, Poll, PollFails, FinishRun, EndRun, MailInv, MailTypeOK, AckHolds
  <2>4. QED
    BY <2>1, <2>2, <2>3
<1>3. \/ UNCHANGED batch
      \/ /\ step' = IF Page = {} THEN "start" ELSE "run"
         /\ batch' = [r \in Refs |-> IF r[1] = epoch /\ r[2] \in Page THEN Offered ELSE NotOffered]
  BY DEF Begin, Poll, PollFails, FinishRun, EndRun
<1>4. batch' \in [Refs -> BatchRecs]
  BY <1>3, EmptyRecs DEF MailInv, MailTypeOK, BatchRecs
<1>5. MailTypeOK'
  BY <1>1, <1>2, <1>4 DEF MailInv, MailTypeOK, BatchRecs
<1>6. BatchHolds'
  <2>1. CASE UNCHANGED batch
    <3>1. \A r \in Refs : batch[r].at \notin {"offered", "reading"}
      BY <2>1 DEF Begin, Poll, PollFails, FinishRun, EndRun, NotOffered, MailInv, BatchHolds
    <3>2. QED
      BY <1>1, <2>1, <3>1 DEF MailInv, BatchHolds, Names
  <2>2. CASE /\ step' = IF Page = {} THEN "start" ELSE "run"
             /\ batch' = [r \in Refs |-> IF r[1] = epoch /\ r[2] \in Page THEN Offered ELSE NotOffered]
    <3>1. ASSUME NEW r \in Refs
          PROVE  \/ batch'[r] = NotOffered
                 \/ batch'[r] = Offered /\ r[1] = epoch /\ step' = "run"
      BY <2>2
    <3>2. epoch \in Nat /\ Nothing <= sent
      BY DEF MailInv, MailTypeOK, Nothing
    <3>3. QED
      BY <1>1, <3>1, <3>2 DEF BatchHolds, Names, Offered, NotOffered
  <2>3. QED
    BY <1>3, <2>1, <2>2
<1>7. AckHolds'
  BY <1>1, <1>2 DEF AckHolds, AckSteps
<1>8. QED
  BY <1>1, <1>5, <1>6, <1>7, ServerQuiet

LEMMA FetchKeeps ==
  ASSUME MailInv, NEW r \in Refs, Ingest(r)
  PROVE  MailInv'
<1> USE MailSetup
<1>1. UNCHANGED <<config, epoch, box, sent, uidNext, archive, denied, row, step, todo, ref>>
  BY DEF Ingest, FetchStarts, FetchRefused, FetchEnds, PipelineFails, server
<1>2. batch \in [Refs -> BatchRecs] /\ batch[r].at \in {"offered", "reading"}
  BY DEF Ingest, FetchStarts, FetchRefused, FetchEnds, PipelineFails, MailInv, MailTypeOK, BatchRecs
<1>3. step = "run" /\ r[1] <= epoch /\ batch[r].mail <= sent /\ Names(r, batch[r].mail)
  BY <1>2 DEF MailInv, BatchHolds
<1>4. /\ up' \in BOOLEAN /\ mishaps' \in 0 .. MaxMishaps /\ held' \subseteq Mails /\ held \subseteq held'
  <2>1. up' \in BOOLEAN /\ mishaps' \in 0 .. MaxMishaps
    <3>1. (up' = TRUE \/ up' = FALSE \/ up' = up) /\ (mishaps' = mishaps \/ Mishap)
      BY DEF Ingest, FetchStarts, FetchRefused, FetchEnds, PipelineFails
    <3>2. up \in BOOLEAN /\ mishaps \in 0 .. MaxMishaps
      BY DEF MailInv, MailTypeOK
    <3>3. mishaps' \in 0 .. MaxMishaps
      BY <3>1, <3>2 DEF Mishap
    <3>4. up' \in BOOLEAN
      BY <3>1, <3>2
    <3>5. QED
      BY <3>3, <3>4
  <2>2. box[r[2]].mail \in Mails \cup {Nothing}
    BY DEF MailInv, MailTypeOK, Refs
  <2>3. held' \subseteq Mails /\ held \subseteq held'
    BY <2>2 DEF Ingest, FetchStarts, FetchRefused, FetchEnds, PipelineFails, MailInv, MailTypeOK
  <2>4. QED
    BY <2>1, <2>3
<1>5. PICK new \in BatchRecs :
         /\ batch' = [batch EXCEPT ![r] = new]
         /\ \/ new.at = "reading" /\ new.mail = batch[r].mail /\ r[1] = epoch
            \/ new.at = "failed" /\ new.mail = batch[r].mail
            \/ /\ batch[r].at = "reading" /\ new.mail = box[r[2]].mail
               /\ new.at = IF box[r[2]].mail = Nothing THEN "failed" ELSE "filed"
  <2>1. ASSUME NEW to \in {"reading", "failed"}, Move(r, to), to = "reading" => r[1] = epoch
        PROVE  \E new \in BatchRecs :
                 /\ batch' = [batch EXCEPT ![r] = new]
                 /\ \/ new.at = "reading" /\ new.mail = batch[r].mail /\ r[1] = epoch
                    \/ new.at = "failed" /\ new.mail = batch[r].mail
    <3> DEFINE new == [batch[r] EXCEPT !.at = to]
    <3>1. batch[r] \in BatchRecs
      BY <1>2
    <3>2. new \in BatchRecs /\ new.at = to /\ new.mail = batch[r].mail
      BY <3>1, <2>1 DEF BatchRecs
    <3>3. batch' = [batch EXCEPT ![r] = new]
      BY <2>1 DEF Move
    <3> HIDE DEF new
    <3>4. QED
      BY <2>1, <3>2, <3>3
  <2>2. CASE FetchEnds(r)
    <3> DEFINE new == [at |-> IF box[r[2]].mail = Nothing THEN "failed" ELSE "filed", mail |-> box[r[2]].mail]
    <3>1. box[r[2]].mail \in Mails \cup {Nothing}
      BY DEF MailInv, MailTypeOK, Refs
    <3>2. new \in BatchRecs
      BY <3>1 DEF BatchRecs
    <3>3. batch' = [batch EXCEPT ![r] = new] /\ batch[r].at = "reading"
      BY <2>2 DEF FetchEnds
    <3>4. QED
      BY <3>2, <3>3
  <2>3. CASE FetchStarts(r)
    BY <2>1, <2>3 DEF FetchStarts
  <2>4. CASE FetchRefused(r) \/ PipelineFails(r)
    BY <2>1, <2>4 DEF FetchRefused, PipelineFails
  <2>5. QED
    BY <2>2, <2>3, <2>4 DEF Ingest
<1>6. batch' \in [Refs -> BatchRecs]
  BY <1>2, <1>5
<1>7. MailTypeOK'
  BY <1>1, <1>4, <1>6 DEF MailInv, MailTypeOK, BatchRecs
<1>8. new.mail <= sent /\ Names(r, new.mail)
  <2>1. CASE new.mail = batch[r].mail
    BY <1>3, <2>1
  <2>2. CASE new.mail = box[r[2]].mail
    <3>1. r[2] \in Uids
      BY DEF Refs
    <3>2. QED
      BY <2>2, <3>1 DEF MailInv, BoxHolds, Names
  <2>3. QED
    BY <1>5, <2>1, <2>2
<1>9. BatchHolds'
  <2>1. /\ \A x \in Refs \ {r} : batch'[x] = batch[x]
        /\ batch'[r] = new
    BY <1>2, <1>5
  <2>2. ASSUME NEW x \in Refs, batch'[x].at # "no"
        PROVE  x[1] <= epoch /\ batch'[x].mail <= sent /\ Names(x, batch[x].mail)'
    <3>1. CASE x = r
      BY <1>1, <1>3, <1>8, <2>1, <3>1 DEF Names
    <3>2. CASE x # r
      BY <1>1, <2>1, <2>2, <3>2 DEF MailInv, BatchHolds, Names
    <3>3. QED
      BY <3>1, <3>2
  <2>3. ASSUME NEW x \in Refs
        PROVE  /\ batch'[x].at = "filed" => batch'[x].mail # Nothing
               /\ batch'[x].at = "reading" => x[1] = epoch
               /\ batch'[x].at \in {"offered", "reading"} => step = "run"
    <3>1. CASE x = r
      <4>1. r[1] = epoch \/ new.at # "reading"
        BY <1>5
      <4>2. new.at = "filed" => new.mail # Nothing
        BY <1>5
      <4>3. QED
        BY <1>3, <2>1, <3>1, <4>1, <4>2
    <3>2. CASE x # r
      BY <2>1, <3>2 DEF MailInv, BatchHolds
    <3>3. QED
      BY <3>1, <3>2
  <2>4. QED
    BY <1>1, <2>2, <2>3 DEF BatchHolds
<1>10. AckHolds'
  BY <1>1, <1>3, <1>4 DEF MailInv, AckHolds, AckSteps
<1>11. QED
  BY <1>1, <1>7, <1>9, <1>10, ServerQuiet

-----------------------------------------------------------------------------
(* Mailboxes: an acknowledgement *)

LEMMA RowChosenKeeps ==
  ASSUME MailInv, NEW r \in Refs, Replay(r) \/ Record(r)
  PROVE  MailInv'
<1> USE MailSetup
<1>1. CASE Replay(r)
  <2>1. /\ step' = "evidence" /\ ref' = r /\ row[r].ack = "pending" /\ step = "recover"
        /\ UNCHANGED <<config, epoch, box, sent, uidNext, archive, denied, up, row, todo, batch, held, mishaps>>
    BY <1>1 DEF Replay, server, MailInv, AckHolds
  <2>2. MailTypeOK'
    BY <2>1 DEF MailInv, MailTypeOK, AckSteps
  <2>3. BatchHolds'
    BY <2>1 DEF MailInv, BatchHolds, Names
  <2>4. AckHolds'
    BY <2>1 DEF MailInv, AckHolds, AckSteps
  <2>5. QED
    BY <2>1, <2>2, <2>3, <2>4, ServerQuiet
<1>2. CASE Record(r)
  <2> DEFINE new == [mail |-> batch[r].mail, failed |-> batch[r].at = "failed", ack |-> "pending"]
  <2>1. /\ step = "record" /\ step' = "evidence" /\ ref' = r /\ batch[r].at \in {"filed", "failed"}
        /\ row' = [row EXCEPT ![r] = new] /\ batch' = [batch EXCEPT ![r] = NotOffered]
        /\ UNCHANGED <<config, epoch, box, sent, uidNext, archive, denied, up, todo, held, mishaps>>
    BY <1>2 DEF Record, server
  <2>2. row \in [Refs -> RowRecs] /\ batch \in [Refs -> BatchRecs]
    BY DEF MailInv, MailTypeOK, RowRecs, BatchRecs
  <2>3. new \in RowRecs /\ new.ack = "pending" /\ new.mail = batch[r].mail /\ (~ new.failed => new.mail # Nothing)
    BY <2>1, <2>2 DEF RowRecs, BatchRecs, Acks, MailInv, BatchHolds
  <2> HIDE DEF new
  <2>4. /\ row' \in [Refs -> RowRecs] /\ row'[r] = new /\ \A x \in Refs \ {r} : row'[x] = row[x]
        /\ batch' \in [Refs -> BatchRecs] /\ batch'[r] = NotOffered /\ \A x \in Refs \ {r} : batch'[x] = batch[x]
    BY <2>1, <2>2, <2>3, EmptyRecs
  <2>5. MailTypeOK'
    BY <2>1, <2>4 DEF MailInv, MailTypeOK, AckSteps, RowRecs, BatchRecs
  <2>6. BoxHolds'
    BY <2>1 DEF MailInv, BoxHolds
  <2>7. r[1] <= epoch /\ batch[r].mail <= sent /\ Names(r, batch[r].mail)
    BY <2>1 DEF MailInv, BatchHolds
  <2>8. RowsHold'
    <3>1. ASSUME NEW x \in Refs, row'[x].ack # "none"
          PROVE  /\ x[1] <= epoch /\ row'[x].mail <= sent /\ Names(x, row'[x].mail)
                 /\ row'[x].failed => row'[x].ack \in {"pending", "left"}
                 /\ ~ row'[x].failed => row'[x].mail # Nothing
      <4>1. CASE x = r
        BY <2>3, <2>4, <2>7, <4>1
      <4>2. CASE x # r
        BY <2>4, <3>1, <4>2 DEF MailInv, RowsHold
      <4>3. QED
        BY <4>1, <4>2
    <3>2. QED
      BY <2>1, <3>1 DEF RowsHold, Names
  <2>9. BatchHolds'
    <3>1. NotOffered.at = "no"
      BY DEF NotOffered
    <3>2. \A x \in Refs : batch[x].at \notin {"offered", "reading"}
      BY <2>1 DEF MailInv, BatchHolds
    <3>3. ASSUME NEW x \in Refs, batch'[x].at # "no"
          PROVE  x # r /\ batch'[x] = batch[x]
      BY <2>4, <3>1, <3>3
    <3>4. QED
      BY <2>1, <3>1, <3>2, <3>3 DEF MailInv, BatchHolds, Names
  <2>10. AckHolds'
    BY <2>1, <2>3, <2>4 DEF MailInv, AckHolds, AckSteps
  <2>11. GoneIsGone'
    BY <2>1, <2>3, <2>4 DEF MailInv, GoneIsGone, ClosedAnyway, InBox
  <2>12. QED
    BY <2>5, <2>6, <2>8, <2>9, <2>10, <2>11 DEF MailInv
<1>3. QED
  BY <1>1, <1>2

\* The message that an acknowledgement is about, while its connection holds.
LEMMA AckNames ==
  ASSUME MailInv, step \in {"flag", "act", "doom", "expunge"}, up
  PROVE  /\ ref \in Refs /\ ref[2] \in Uids /\ ref[2] < uidNext
         /\ row[ref].ack = "pending" /\ ~ row[ref].failed
         /\ row[ref].mail # Nothing /\ row[ref].mail \in held
         /\ box[ref[2]].mail \in {row[ref].mail, Nothing}
         /\ \A v \in Uids : box[v].mail = row[ref].mail => v = ref[2]
<1>1. /\ ref \in Refs /\ row[ref].ack = "pending" /\ ~ row[ref].failed
      /\ row[ref].mail \in held /\ ref[1] = epoch
  BY DEF MailInv, AckHolds, AckSteps
<1>2. row[ref].mail # Nothing /\ Names(ref, row[ref].mail)
  BY <1>1 DEF MailInv, RowsHold
<1>3. QED
  BY <1>1, <1>2 DEF Names, Refs

\* The message being acknowledged is out of the mailbox, or the row may say so anyway.
Went(ack) == \/ \A u \in Uids : box'[u].mail # row[ref].mail
             \/ ack \in {"moved", "deleted"} /\ <<ref, "deleted">> \in denied'

\* The end of an acknowledgement: the row is closed, or stays pending, and what was to
\* go went.
LEMMA ReturnKeeps ==
  ASSUME MailInv, step \in AckSteps, Return, Thinned,
         UNCHANGED <<config, batch, held>>, archive' \subseteq Mails, up' \in BOOLEAN, mishaps' \in 0 .. MaxMishaps,
         \/ UNCHANGED row
         \/ \E ack \in Acks \ {"none"} :
              /\ row' = [row EXCEPT ![ref].ack = ack]
              /\ row[ref].failed => ack = "left"
              /\ ack \in {"moved", "deleted", "vanished"} => Went(ack)
  PROVE  MailInv'
<1> USE MailSetup
<1>1. ref \in Refs /\ row[ref].ack = "pending" /\ row \in [Refs -> RowRecs]
  BY DEF MailInv, MailTypeOK, AckHolds, RowRecs
<1>2. PICK ack \in Acks \ {"none"} :
         /\ row'[ref].mail = row[ref].mail /\ row'[ref].failed = row[ref].failed /\ row'[ref].ack = ack
         /\ row' \in [Refs -> RowRecs] /\ \A r \in Refs \ {ref} : row'[r] = row[r]
         /\ \/ UNCHANGED row
            \/ /\ row[ref].failed => ack = "left"
               /\ ack \in {"moved", "deleted", "vanished"} => Went(ack)
  <2>1. CASE UNCHANGED row
    BY <1>1, <2>1 DEF RowRecs
  <2>2. ASSUME NEW ack \in Acks \ {"none"},
               /\ row' = [row EXCEPT ![ref].ack = ack]
               /\ row[ref].failed => ack = "left"
               /\ ack \in {"moved", "deleted", "vanished"} => Went(ack)
        PROVE  /\ row'[ref].mail = row[ref].mail /\ row'[ref].failed = row[ref].failed /\ row'[ref].ack = ack
               /\ row' \in [Refs -> RowRecs] /\ \A r \in Refs \ {ref} : row'[r] = row[r]
    <3> DEFINE new == [row[ref] EXCEPT !.ack = ack]
    <3>1. row[ref] \in RowRecs
      BY <1>1
    <3>2. new \in RowRecs /\ new.mail = row[ref].mail /\ new.failed = row[ref].failed /\ new.ack = ack
      BY <3>1, <2>2 DEF RowRecs
    <3>3. row' = [row EXCEPT ![ref] = new]
      BY <2>2
    <3> HIDE DEF new
    <3>4. QED
      BY <1>1, <3>2, <3>3
  <2>3. QED
    BY <2>1, <2>2
<1>3. step' \in {"recover", "record"} /\ todo' = todo \ {ref} /\ ref' = NoRef
  BY DEF Return
<1>4. MailTypeOK'
  <2>1. MailTypeOK
    BY DEF MailInv
  <2>2. UNCHANGED <<epoch, sent, uidNext>> /\ box' \in [Uids -> BoxRecs]
        /\ denied' \subseteq Refs \X {"seen", "deleted"}
    BY DEF Thinned
  <2>3. row' \in [Refs -> RowRecs]
    BY <1>2
  <2>4. QED
    BY <1>3, <2>1, <2>2, <2>3 DEF MailTypeOK, BoxRecs, RowRecs
<1>5. BoxHolds'
  BY ThinnedKeeps
<1>6. RowsHold'
  <2>1. ASSUME NEW r \in Refs, row[r].ack # "none"
        PROVE  /\ r[1] <= epoch' /\ row'[r].mail <= sent' /\ Names(r, row[r].mail)' /\ row'[r].mail = row[r].mail
               /\ row'[r].failed => row'[r].ack \in {"pending", "left"}
               /\ ~ row'[r].failed => row'[r].mail # Nothing
    <3>1. Names(r, row[r].mail)'
      <4>1. row'[r].mail = row[r].mail
        BY <1>2
      <4>2. ASSUME NEW m, m = row[r].mail
            PROVE  Names(r, m)'
        BY <2>1, <4>2, ThinnedKeeps DEF MailInv, RowsHold
      <4>3. \A m : m = row[r].mail =>
              (r[1] = epoch' /\ m # Nothing =>
                 /\ r[2] < uidNext'
                 /\ box'[r[2]].mail \in {m, Nothing}
                 /\ \A v \in Uids : box'[v].mail = m => v = r[2])
        BY <4>2 DEF Names
      <4>4. QED
        BY <4>1, <4>3 DEF Names
    <3>2. row'[r].mail = row[r].mail /\ r[1] <= epoch' /\ row'[r].mail <= sent'
      BY <1>2, <2>1 DEF MailInv, RowsHold, Thinned
    <3>3. /\ row'[r].failed => row'[r].ack \in {"pending", "left"}
          /\ ~ row'[r].failed => row'[r].mail # Nothing
      BY <1>2, <2>1 DEF MailInv, RowsHold
    <3>4. QED
      BY <3>1, <3>2, <3>3
  <2>2. \A r \in Refs : row'[r].ack # "none" => row[r].ack # "none"
    BY <1>1, <1>2
  <2>3. QED
    BY <2>1, <2>2 DEF RowsHold, Names
<1>7. BatchHolds'
  <2>1. \A r \in Refs : batch[r].at \notin {"offered", "reading"}
    BY DEF MailInv, BatchHolds, AckSteps
  <2>2. QED
    BY <2>1, BatchThinned
<1>8. AckHolds'
  BY <1>2, <1>3 DEF MailInv, MailTypeOK, AckHolds, AckSteps
<1>9. GoneIsGone'
  <2>1. ASSUME NEW r \in Refs, row'[r].ack \in {"moved", "deleted", "vanished"}, ~ ClosedAnyway(r)'
        PROVE  (\A u \in Uids : box'[u].mail # row[r].mail) /\ row'[r].mail = row[r].mail
    <3>1. CASE row'[r] = row[r]
      <4>1. row[r].ack # "pending" /\ ~ ClosedAnyway(r)
        BY <2>1, <3>1 DEF ClosedAnyway, Thinned
      <4>2. row[r].mail # Nothing /\ ~ InBox(row[r].mail)
        BY <2>1, <3>1, <4>1, GoneHasMail DEF MailInv, GoneIsGone
      <4>3. QED
        BY <3>1, <4>2, ThinnedKeeps DEF InBox
    <3>2. CASE row'[r] # row[r]
      <4>1. r = ref /\ row'[ref].ack \in {"moved", "deleted", "vanished"} /\ row'[ref].ack = ack /\ Went(ack)
        BY <1>2, <2>1, <3>2
      <4>2. ~ (ack \in {"moved", "deleted"} /\ <<ref, "deleted">> \in denied')
        BY <2>1, <4>1 DEF ClosedAnyway
      <4>3. QED
        BY <1>2, <4>1, <4>2 DEF Went
    <3>3. QED
      BY <3>1, <3>2
  <2>2. QED
    BY <2>1 DEF GoneIsGone, ClosedAnyway, InBox
<1>10. QED
  BY <1>4, <1>5, <1>6, <1>7, <1>8, <1>9 DEF MailInv

\* A step on to the next command.
LEMMA GoKeeps ==
  ASSUME MailInv, step \in AckSteps, NEW to \in AckSteps, Go(to), Thinned,
         UNCHANGED <<config, batch, held>>, archive' \subseteq Mails, up' \in BOOLEAN,
         mishaps' \in 0 .. MaxMishaps, AckHolds'
  PROVE  MailInv'
<1>1. step' = to /\ UNCHANGED <<row, todo, ref>>
  BY DEF Go
<1>2. MailTypeOK'
  <2>1. MailTypeOK
    BY DEF MailInv
  <2>2. UNCHANGED <<epoch, sent, uidNext>> /\ box' \in [Uids -> BoxRecs]
        /\ denied' \subseteq Refs \X {"seen", "deleted"}
    BY DEF Thinned
  <2>3. QED
    BY <1>1, <2>1, <2>2 DEF MailTypeOK, BoxRecs
<1>3. BatchHolds'
  <2>1. \A r \in Refs : batch[r].at \notin {"offered", "reading"}
    BY DEF MailInv, BatchHolds, AckSteps
  <2>2. QED
    BY <2>1, BatchThinned
<1>4. QED
  BY <1>1, <1>2, <1>3, ThinnedQuiet

LEMMA SameThins ==
  ASSUME MailInv, UNCHANGED <<epoch, box, sent, uidNext, denied>>
  PROVE  Thinned
  BY DEF Thinned, MailInv, MailTypeOK, BoxHolds, BoxRecs

LEMMA FlaggedThins ==
  ASSUME MailInv, step \in {"flag", "act", "doom", "expunge"}, up,
         NEW flag \in {"seen", "deleted"}, NEW to \in AckSteps, AddFlag(flag, to)
  PROVE  /\ Thinned
         /\ \A u \in Uids : box'[u].mail = box[u].mail
         /\ flag = "deleted" => \/ box[ref[2]].mail = Nothing \/ box'[ref[2]].deleted
                                \/ <<ref, "deleted">> \in denied'
<1>1. ref[2] \in Uids /\ ref \in Refs /\ row[ref].ack = "pending" /\ UNCHANGED <<epoch, sent, uidNext>>
  BY AckNames DEF AddFlag
<1>2. box \in [Uids -> BoxRecs] /\ box[ref[2]] \in BoxRecs
  BY <1>1 DEF MailInv, MailTypeOK, BoxRecs
<1>3. /\ denied' \subseteq Refs \X {"seen", "deleted"}
      /\ \A r \in Refs : row[r].ack # "pending" /\ <<r, "deleted">> \in denied => <<r, "deleted">> \in denied'
  <2>1. denied \subseteq Refs \X {"seen", "deleted"}
    BY DEF MailInv, MailTypeOK
  <2>2. <<ref, flag>> \in Refs \X {"seen", "deleted"}
    BY <1>1
  <2>3. denied' = denied \ {<<ref, flag>>} \/ denied' = denied \cup {<<ref, flag>>}
    BY DEF AddFlag
  <2>4. \A r \in Refs : row[r].ack # "pending" => <<r, "deleted">> # <<ref, flag>>
    BY <1>1
  <2>5. QED
    BY <2>1, <2>2, <2>3, <2>4
<1>4. CASE box' = box
  <2>1. Thinned /\ \A u \in Uids : box'[u].mail = box[u].mail
    BY <1>1, <1>3, <1>4 DEF Thinned, MailInv, MailTypeOK, BoxHolds, BoxRecs
  <2>2. box' = Flagged(flag) /\ ~ Gone => box[ref[2]].deleted \/ flag = "seen"
    BY <1>1, <1>2, <1>4 DEF Flagged, Gone, Uid, BoxRecs
  <2>3. QED
    BY <1>4, <2>1, <2>2 DEF AddFlag, Gone, Uid
<1>5. CASE box' = Flagged(flag) /\ ~ Gone
  <2> DEFINE new == IF flag = "seen" THEN [box[ref[2]] EXCEPT !.seen = TRUE]
                                     ELSE [box[ref[2]] EXCEPT !.deleted = TRUE]
  <2>1. box' = [box EXCEPT ![ref[2]] = new]
    BY <1>5 DEF Flagged, Uid
  <2>2. new \in BoxRecs /\ new.mail = box[ref[2]].mail /\ (flag = "deleted" => new.deleted)
    BY <1>2 DEF BoxRecs
  <2> HIDE DEF new
  <2>3. /\ box' \in [Uids -> BoxRecs] /\ box'[ref[2]] = new
        /\ \A u \in Uids \ {ref[2]} : box'[u] = box[u]
    BY <1>1, <1>2, <2>1, <2>2
  <2>4. box[ref[2]].mail # Nothing
    BY <1>5 DEF Gone, Uid
  <2>5. \A u \in Uids : box'[u].mail = box[u].mail
    BY <2>2, <2>3
  <2>6. Thinned
    BY <1>1, <1>3, <2>2, <2>3, <2>4, <2>5 DEF Thinned, MailInv, BoxHolds
  <2>7. QED
    BY <2>2, <2>3, <2>5, <2>6
<1>6. QED
  BY <1>4, <1>5 DEF AddFlag, Flagged

LEMMA EmptiedThins ==
  ASSUME MailInv, NEW u \in Uids, box' = [box EXCEPT ![u] = Empty], UNCHANGED <<epoch, sent, uidNext, denied>>
  PROVE  Thinned /\ box'[u] = Empty /\ \A v \in Uids \ {u} : box'[v] = box[v]
<1>1. box \in [Uids -> BoxRecs] /\ Empty \in BoxRecs /\ Empty.mail = Nothing
  BY EmptyRecs DEF MailInv, MailTypeOK, BoxRecs, Empty
<1>2. /\ box' \in [Uids -> BoxRecs] /\ box'[u] = Empty
      /\ \A v \in Uids \ {u} : box'[v] = box[v]
  BY <1>1
<1>3. QED
  BY <1>1, <1>2 DEF Thinned, MailInv, MailTypeOK, BoxHolds

\* The commands: what they do to the mailbox, and how each of them ends.
LEMMA CommandsThin ==
  ASSUME MailInv, FlagSeen \/ MoveAway \/ CopyAway \/ FlagDeleted \/ Expunge
  PROVE  /\ step \in {"flag", "act", "doom", "expunge"} /\ up
         /\ Thinned /\ UNCHANGED <<config, batch, held>> /\ archive \subseteq archive' /\ archive' \subseteq Mails
         /\ MoveAway \/ CopyAway => archive' = Copied
         /\ MoveAway => \A u \in Uids : box'[u].mail # row[ref].mail
         /\ Expunge => \A ack \in {"moved", "deleted"} : Went(ack)
         /\ FlagSeen \/ CopyAway \/ FlagDeleted => \A u \in Uids : box'[u].mail = box[u].mail
         /\ FlagDeleted => \/ box[ref[2]].mail = Nothing \/ box'[ref[2]].deleted
                           \/ <<ref, "deleted">> \in denied'
<1>1. step \in {"flag", "act", "doom", "expunge"} /\ up /\ UNCHANGED <<config, epoch, sent, uidNext, batch, held>>
  BY DEF FlagSeen, MoveAway, CopyAway, FlagDeleted, Expunge, AddFlag
<1>2. /\ ref \in Refs /\ ref[2] \in Uids /\ row[ref].mail # Nothing
      /\ \A v \in Uids : box[v].mail = row[ref].mail => v = ref[2]
  BY <1>1, AckNames
<1>3. archive \subseteq archive' /\ archive' \subseteq Mails
  <2>1. box[ref[2]].mail \in Mails \cup {Nothing} /\ archive \subseteq Mails
    BY <1>2 DEF MailInv, MailTypeOK
  <2>2. archive' = archive \/ archive' = Copied
    BY DEF FlagSeen, MoveAway, CopyAway, FlagDeleted, Expunge, AddFlag
  <2>3. QED
    BY <2>1, <2>2 DEF Copied, Uid
<1>4. MoveAway \/ CopyAway => archive' = Copied
  BY DEF MoveAway, CopyAway
<1>5. CASE FlagSeen \/ FlagDeleted
  <2>1. PICK flag \in {"seen", "deleted"}, to \in AckSteps : AddFlag(flag, to) /\ (FlagDeleted => flag = "deleted")
    BY <1>5 DEF FlagSeen, FlagDeleted, AckSteps
  <2>2. ~ MoveAway /\ ~ Expunge /\ ~ CopyAway
    BY <1>5 DEF FlagSeen, FlagDeleted, MoveAway, Expunge, CopyAway
  <2>3. QED
    BY <1>1, <1>3, <1>4, <2>1, <2>2, FlaggedThins
<1>6. CASE CopyAway
  <2>1. UNCHANGED <<box, denied>> /\ ~ MoveAway /\ ~ Expunge /\ ~ FlagDeleted
    BY <1>6 DEF CopyAway, MoveAway, Expunge, FlagDeleted
  <2>2. QED
    BY <1>1, <1>3, <1>4, <2>1, SameThins
<1>7. CASE MoveAway
  <2>1. /\ box' = [box EXCEPT ![ref[2]] = Empty] /\ UNCHANGED denied
        /\ ~ FlagSeen /\ ~ CopyAway /\ ~ FlagDeleted /\ ~ Expunge
    BY <1>7 DEF MoveAway, FlagSeen, CopyAway, FlagDeleted, Expunge, Uid
  <2>2. Thinned /\ box'[ref[2]] = Empty /\ \A v \in Uids \ {ref[2]} : box'[v] = box[v]
    BY <1>1, <1>2, <2>1, EmptiedThins
  <2>3. \A u \in Uids : box'[u].mail # row[ref].mail
    BY <1>2, <2>2 DEF Empty
  <2>4. QED
    BY <1>1, <1>3, <1>4, <2>1, <2>2, <2>3
<1>8. CASE Expunge
  <2>1. /\ box' = [box EXCEPT ![ref[2]] = IF box[ref[2]].deleted THEN Empty ELSE box[ref[2]]] /\ UNCHANGED denied
        /\ step = "expunge" /\ ~ FlagSeen /\ ~ CopyAway /\ ~ FlagDeleted /\ ~ MoveAway
    BY <1>8 DEF Expunge, FlagSeen, CopyAway, FlagDeleted, MoveAway, Uid
  <2>2. box[ref[2]].mail = Nothing => box[ref[2]] = Empty
    BY <1>2 DEF MailInv, BoxHolds
  <2>3. CASE box[ref[2]].mail = Nothing \/ box[ref[2]].deleted
    <3>1. box' = [box EXCEPT ![ref[2]] = Empty]
      BY <2>1, <2>2, <2>3
    <3>2. Thinned /\ box'[ref[2]] = Empty /\ \A v \in Uids \ {ref[2]} : box'[v] = box[v]
      BY <1>1, <1>2, <2>1, <3>1, EmptiedThins
    <3>3. \A u \in Uids : box'[u].mail # row[ref].mail
      BY <1>2, <3>2 DEF Empty
    <3>4. QED
      BY <1>1, <1>3, <1>4, <2>1, <3>2, <3>3 DEF Went
  <2>4. CASE ~ box[ref[2]].deleted
    <3>1. box' = box
      BY <1>2, <2>1, <2>4 DEF MailInv, MailTypeOK
    <3>2. Thinned
      BY <1>1, <2>1, <3>1, SameThins
    <3>3. \A ack \in {"moved", "deleted"} : Went(ack)
      <4>1. CASE box[ref[2]].mail = Nothing
        BY <1>2, <3>1, <4>1 DEF Went
      <4>2. CASE <<ref, "deleted">> \in denied
        BY <2>1, <4>2 DEF Went
      <4>3. QED
        BY <1>1, <2>1, <2>4, <4>1, <4>2 DEF MailInv, AckHolds
    <3>4. QED
      BY <1>1, <1>3, <1>4, <2>1, <3>2, <3>3
  <2>5. QED
    BY <2>3, <2>4
<1>9. QED
  BY <1>5, <1>6, <1>7, <1>8

LEMMA CommandsKeep ==
  ASSUME MailInv, FlagSeen \/ MoveAway \/ CopyAway \/ FlagDeleted \/ Expunge
  PROVE  MailInv'
<1> USE MailSetup
<1>1. /\ step \in {"flag", "act", "doom", "expunge"} /\ step \in AckSteps /\ up
      /\ Thinned /\ UNCHANGED <<config, batch, held>> /\ archive \subseteq archive' /\ archive' \subseteq Mails
  BY CommandsThin DEF AckSteps
<1>2. /\ ref \in Refs /\ ref[2] \in Uids /\ row[ref].ack = "pending" /\ ~ row[ref].failed
      /\ row[ref].mail \in held /\ ref[1] = epoch /\ UNCHANGED epoch
      /\ box[ref[2]].mail \in {row[ref].mail, Nothing}
  BY <1>1, AckNames DEF MailInv, AckHolds, Thinned
<1>3. up \in BOOLEAN /\ mishaps \in 0 .. MaxMishaps
  BY DEF MailInv, MailTypeOK
<1>4. CASE Unanswered
  <2>1. /\ up' = FALSE /\ UNCHANGED row /\ Return /\ mishaps' \in 0 .. MaxMishaps
    BY <1>3, <1>4 DEF Unanswered, Throw, Mishap
  <2>2. QED
    BY <1>1, <2>1, ReturnKeeps
<1>5. CASE Answered /\ \/ MoveAway /\ \E ack \in {"moved", "vanished"} : Close(ack)
                       \/ Expunge /\ \E ack \in {"moved", "deleted"} : Close(ack)
  <2>1. PICK ack \in {"moved", "deleted", "vanished"} :
           Close(ack) /\ (MoveAway \/ (Expunge /\ ack \in {"moved", "deleted"}))
    <3>1. CASE MoveAway /\ \E ack \in {"moved", "vanished"} : Close(ack)
      BY <3>1
    <3>2. CASE Expunge /\ \E ack \in {"moved", "deleted"} : Close(ack)
      BY <3>2
    <3>3. QED
      BY <1>5, <3>1, <3>2
  <2>2. Went(ack)
    BY <2>1, CommandsThin DEF Went
  <2>3. row' = [row EXCEPT ![ref].ack = ack] /\ Return /\ UNCHANGED <<up, mishaps>>
    BY <1>5, <2>1 DEF Close, Answered
  <2>4. ack \in Acks \ {"none"}
    BY DEF Acks
  <2>5. QED
    BY <1>1, <1>2, <1>3, <2>2, <2>3, <2>4, ReturnKeeps
<1>6. CASE Answered /\ CopyAway /\ Gone /\ Close("vanished")
  <2>1. \A u \in Uids : box'[u].mail # row[ref].mail
    <3>1. \A u \in Uids : box'[u].mail = box[u].mail
      BY <1>6, CommandsThin
    <3>2. box[ref[2]].mail = Nothing /\ row[ref].mail # Nothing
          /\ \A v \in Uids : box[v].mail = row[ref].mail => v = ref[2]
      BY <1>1, <1>6, AckNames DEF Gone, Uid
    <3>3. QED
      BY <3>1, <3>2
  <2>2. row' = [row EXCEPT ![ref].ack = "vanished"] /\ Return /\ UNCHANGED <<up, mishaps>>
    BY <1>6 DEF Close, Answered
  <2>3. "vanished" \in Acks \ {"none"} /\ Went("vanished")
    BY <2>1 DEF Acks, Went
  <2>4. QED
    BY <1>1, <1>2, <1>3, <2>1, <2>2, <2>3, ReturnKeeps
<1>7. ASSUME UNCHANGED up, mishaps' \in 0 .. MaxMishaps, NEW to \in {"act", "doom", "expunge"}, Go(to),
             \/ to = "act" /\ FlagSeen
             \/ to = "doom" /\ CopyAway
             \/ to = "expunge" /\ FlagDeleted
      PROVE  MailInv'
  <2>1. step' = to /\ UNCHANGED <<row, todo, ref, up, config, held>>
    BY <1>1, <1>7 DEF Go
  <2>2. \A u \in Uids : box'[u].mail = box[u].mail
    BY <1>7, CommandsThin
  <2>3. to \in {"doom", "expunge"} /\ config.policy = "move" => box'[ref[2]].mail \in archive' \cup {Nothing}
    <3>1. CASE to = "doom"
      <4>1. archive' = Copied
        BY <1>7, <3>1, CommandsThin
      <4>2. QED
        BY <1>2, <2>2, <4>1 DEF Copied, Uid
    <3>2. CASE to = "expunge"
      <4>1. step = "doom"
        BY <1>7, <3>2 DEF FlagDeleted
      <4>2. QED
        BY <1>1, <1>2, <2>2, <4>1 DEF MailInv, AckHolds
    <3>3. QED
      BY <3>1, <3>2
  <2>4. to = "expunge" => \/ box'[ref[2]].mail = Nothing \/ box'[ref[2]].deleted
                          \/ <<ref, "deleted">> \in denied'
    BY <1>2, <1>7, <2>2, CommandsThin
  <2>5. AckHolds'
    BY <1>2, <2>1, <2>3, <2>4 DEF MailInv, AckHolds, AckSteps
  <2>6. to \in AckSteps
    BY DEF AckSteps
  <2>7. QED
    BY <1>1, <1>3, <1>7, <2>1, <2>5, <2>6, GoKeeps
<1>8. UNCHANGED mishaps \/ Mishap => mishaps' \in 0 .. MaxMishaps
  BY <1>3 DEF Mishap
<1>9. QED
  <2>1. CASE FlagSeen
    BY <1>4, <1>7, <1>8, <2>1 DEF FlagSeen, AddFlag, Answered
  <2>2. CASE MoveAway
    BY <1>4, <1>5, <2>2 DEF MoveAway
  <2>3. CASE CopyAway
    BY <1>4, <1>6, <1>7, <1>8, <2>3 DEF CopyAway, Answered
  <2>4. CASE FlagDeleted
    BY <1>4, <1>7, <1>8, <2>4 DEF FlagDeleted, AddFlag, Answered
  <2>5. CASE Expunge
    BY <1>4, <1>5, <2>5 DEF Expunge
  <2>6. QED
    BY <2>1, <2>2, <2>3, <2>4, <2>5

\* What touches no message.
LEMMA DecisionsKeep ==
  ASSUME MailInv,
         Evidence \/ Identify \/ EnsureFails \/ Leave \/ CannotMove \/ CannotDelete \/ StartDelete \/ SaidNo
         \/ NotConnected
  PROVE  MailInv'
<1> USE MailSetup
<1>1. /\ UNCHANGED <<config, epoch, box, sent, uidNext, archive, denied, batch, held>> /\ step \in AckSteps
  BY DEF Evidence, Identify, EnsureFails, Leave, CannotMove, CannotDelete, StartDelete, SaidNo, NotConnected, server, AckSteps
<1>2. Thinned /\ archive' \subseteq Mails
  BY <1>1, SameThins DEF MailInv, MailTypeOK
<1>3. up' \in BOOLEAN /\ mishaps' \in 0 .. MaxMishaps
  <2>1. (up' = TRUE \/ up' = FALSE \/ up' = up) /\ (mishaps' = mishaps \/ Mishap)
    BY DEF Evidence, Identify, EnsureFails, Leave, CannotMove, CannotDelete, StartDelete, SaidNo, NotConnected
  <2>2. up \in BOOLEAN /\ mishaps \in 0 .. MaxMishaps
    BY DEF MailInv, MailTypeOK
  <2>3. up' \in BOOLEAN
    BY <2>1, <2>2
  <2>4. mishaps' \in 0 .. MaxMishaps
    BY <2>1, <2>2 DEF Mishap
  <2>5. QED
    BY <2>3, <2>4
<1>4. CASE Throw
  BY <1>1, <1>2, <1>3, <1>4, ReturnKeeps DEF Throw
<1>5. ASSUME NEW ack \in {"left", "marked", "refused"}, Close(ack), row[ref].failed => ack = "left"
      PROVE  MailInv'
  <2>1. row' = [row EXCEPT ![ref].ack = ack] /\ Return /\ ack \in Acks \ {"none"}
        /\ ack \notin {"moved", "deleted", "vanished"}
    BY <1>5 DEF Close, Acks
  <2>2. QED
    BY <1>1, <1>2, <1>3, <1>5, <2>1, ReturnKeeps
<1>6. ASSUME NEW to \in AckSteps, Go(to), AckHolds'
      PROVE  MailInv'
  BY <1>1, <1>2, <1>3, <1>6, GoKeeps
<1>7. step # "evidence" => ~ row[ref].failed
  BY <1>1 DEF MailInv, AckHolds
<1>8. CASE Evidence
  <2>1. CASE row[ref].failed
    BY <1>5, <1>8, <2>1 DEF Evidence
  <2>2. CASE ~ row[ref].failed /\ row[ref].mail \notin held
    BY <1>5, <1>8, <2>2 DEF Evidence
  <2>3. CASE ~ row[ref].failed /\ row[ref].mail \in held
    <3>1. Go("identify") /\ UNCHANGED <<up, mishaps>>
      BY <1>8, <2>3 DEF Evidence
    <3>2. AckHolds'
      BY <1>1, <2>3, <3>1 DEF Go, MailInv, AckHolds, AckSteps
    <3>3. QED
      BY <1>6, <3>1, <3>2 DEF AckSteps
  <2>4. QED
    BY <2>1, <2>2, <2>3
<1>9. CASE Identify
  <2>1. CASE ref[1] # epoch
    BY <1>5, <1>7, <1>9, <2>1 DEF Identify
  <2>2. CASE ref[1] = epoch
    <3>1. PICK to \in {"flag", "act"} : Go(to) /\ step = "identify"
      BY <1>9, <2>2 DEF Identify
    <3>2. AckHolds'
      BY <1>1, <2>2, <3>1 DEF Go, MailInv, AckHolds, AckSteps
    <3>3. QED
      BY <1>6, <3>1, <3>2 DEF AckSteps
  <2>3. QED
    BY <2>1, <2>2
<1>10. CASE EnsureFails \/ CannotMove \/ SaidNo \/ NotConnected
  BY <1>4, <1>10 DEF EnsureFails, CannotMove, SaidNo, NotConnected
<1>11. CASE Leave \/ CannotDelete
  BY <1>5, <1>7, <1>11 DEF Leave, CannotDelete
<1>12. CASE StartDelete
  <2>1. Go("doom") /\ UNCHANGED <<up, mishaps>> /\ step = "act" /\ config.policy = "delete"
    BY <1>12 DEF StartDelete
  <2>2. AckHolds'
    BY <1>1, <2>1 DEF Go, MailInv, AckHolds, AckSteps
  <2>3. QED
    BY <1>6, <2>1, <2>2 DEF AckSteps
<1>13. QED
  BY <1>8, <1>9, <1>10, <1>11, <1>12

LEMMA MailInvStep ==
  ASSUME MailInv, MailNext \/ UNCHANGED mailVars
  PROVE  MailInv'
<1>1. CASE UNCHANGED mailVars
  BY <1>1 DEF mailVars, server, MailInv, MailTypeOK, BoxHolds, RowsHold, BatchHolds, Names, AckHolds, GoneIsGone, ClosedAnyway, InBox
<1>2. CASE MailNext
  BY <1>2, MailRunKeeps, RowChosenKeeps, CommandsKeep, DecisionsKeep, FetchKeeps, ArriveKeeps, OwnerKeeps,
     RenumberKeeps, TroubleKeeps
     DEF MailNext, MailRunner, MailOutside, Acknowledge
<1>3. QED
  BY <1>1, <1>2

\* What a step of an acknowledgement changes in the mailbox is a message that is filed;
\* what it moves away has been copied.
LEMMA TouchedStep ==
  ASSUME MailInv, MailNext, NEW u \in Uids, step \in AckSteps, step' # step, box[u] # box'[u]
  PROVE  /\ box[u].mail \in held
         /\ config.policy = "move" /\ box'[u] = Empty => box[u].mail \in archive'
<1>1. FlagSeen \/ MoveAway \/ CopyAway \/ FlagDeleted \/ Expunge
  BY DEF MailNext, MailRunner, Acknowledge, MailOutside, Ingest, Begin, Poll, PollFails, FinishRun, EndRun, Evidence,
     Identify, EnsureFails, Leave, CannotMove, CannotDelete, StartDelete, SaidNo, NotConnected, Replay, Record, FetchStarts,
     FetchRefused, FetchEnds, PipelineFails, Arrive, Read, TakeAway, Renumber, Drop, Crash, server
<1>2. /\ step \in {"flag", "act", "doom", "expunge"} /\ up
  BY <1>1, CommandsThin
<1>3. /\ ref[2] \in Uids /\ row[ref].mail \in held /\ box[ref[2]].mail \in {row[ref].mail, Nothing}
      /\ box[ref[2]].mail = Nothing => box[ref[2]] = Empty
  BY <1>2, AckNames DEF MailInv, BoxHolds
<1>4. /\ box[ref[2]].mail # Nothing /\ u = ref[2]
  BY <1>1, <1>3 DEF FlagSeen, MoveAway, CopyAway, FlagDeleted, AddFlag, Expunge, Flagged, Gone, Uid, MailInv, MailTypeOK
<1>5. ASSUME config.policy = "move", box'[u] = Empty
      PROVE  box[u].mail \in archive'
  <2>1. CASE MoveAway
    BY <1>4, <2>1 DEF MoveAway, Copied, Uid
  <2>2. CASE Expunge
    BY <1>2, <1>4, <1>5, <2>2 DEF Expunge, MailInv, AckHolds
  <2>3. CASE FlagSeen \/ CopyAway \/ FlagDeleted
    <3>1. box'[u].mail = box[u].mail /\ Empty.mail = Nothing
      BY <2>3, CommandsThin DEF Empty
    <3>2. QED
      BY <1>4, <1>5, <3>1
  <2>4. QED
    BY <1>1, <2>1, <2>2, <2>3
<1>6. QED
  BY <1>3, <1>4, <1>5

-----------------------------------------------------------------------------
(* Theorems *)

\* RemoteInv is inductive: the runner, the ingestion, the people and the servers keep
\* the source they are about, and the other stays as it was made.
THEOREM RemoteInvHolds == Spec => []RemoteInv
<1>1. Init => RemoteInv
  BY MailInvInit, ShareInvInit DEF Init, RemoteInv
<1>2. RemoteInv /\ [Next]_vars => RemoteInv'
  <2>1. ASSUME [Next]_vars
        PROVE  (MailNext \/ UNCHANGED mailVars) /\ (ShareNext \/ UNCHANGED shareVars) /\ UNCHANGED source
    BY <2>1 DEF Next, vars
  <2>2. QED
    BY <2>1, MailInvStep, ShareInvStep DEF RemoteInv
<1>3. QED
  BY <1>1, <1>2, PTL DEF Spec

\* The state is well typed, and a message whose row says it was moved, deleted or gone
\* is not in the mailbox, unless the server refused to flag it \Deleted: through
\* renumbering, refused commands, lost answers, crashes and replays.
THEOREM RowsAreTrueHolds == Spec => []RowsAreTrue
<1>1. RemoteInv => RowsAreTrue
  BY DEF RemoteInv, MailInv, ShareInv, RowsAreTrue, TypeOK
<1>2. QED
  BY <1>1, RemoteInvHolds, PTL

\* What an acknowledgement flags, moves or expunges has its bytes in the store, and what
\* it deletes from a share too, unless the share could not tell that it was rewritten.
THEOREM FiledBeforeItGoesHolds == Spec => FiledBeforeItGoes
<1>1. RemoteInv /\ [Next]_vars =>
        [\A u \in Uids : step \in AckSteps /\ step' # step /\ box[u] # box'[u] =>
           /\ box[u].mail \in held
           /\ config.policy = "move" /\ box'[u] = Empty => box[u].mail \in archive']_mailVars
  <2>1. [Next]_vars => MailNext \/ UNCHANGED mailVars
    BY DEF Next, vars
  <2>2. QED
    BY <2>1, TouchedStep DEF RemoteInv
<1>2. RemoteInv /\ [Next]_vars =>
        [\A p \in Paths : phase = "destroy" /\ files[p] # Absent /\ files'[p] = Absent
                          /\ writes' = writes =>
           \/ files[p].bytes \in stored
           \/ /\ files[p].changed # reread.changed
               /\ ~(conf.conditional /\ conf.tags = "strong")]_shareVars
  <2>1. [Next]_vars => ShareNext \/ UNCHANGED shareVars
    BY DEF Next, vars
  <2>2. QED
    BY <2>1, LostStep DEF RemoteInv
<1>3. Spec => TouchedOnlyWhenFiled
  BY <1>1, RemoteInvHolds, PTL DEF Spec, TouchedOnlyWhenFiled
<1>4. Spec => LostOnlyUnguarded
  BY <1>2, RemoteInvHolds, PTL DEF Spec, LostOnlyUnguarded
<1> QED
  BY <1>3, <1>4 DEF FiledBeforeItGoes
=============================================================================

---------------------------- MODULE ShareSource ----------------------------
(***************************************************************************)
(* A WebDAV share polled for files.  packages/ingest-sources:              *)
(* webdav/source.ts over webdav/client.ts, run by runner.ts.               *)
(*                                                                         *)
(* What has been seen is a path and a revision: the ETag, or the time and  *)
(* size on a share that sends none.  Before a file is moved or deleted its *)
(* metadata are asked for again, its bytes are read and hashed again, and  *)
(* the request carries the ETag they came with.  Not every share looks at  *)
(* it, and not every ETag changes with the bytes.  One request is one step *)
(* of the share.                                                           *)
(***************************************************************************)
EXTENDS Integers, FiniteSets

CONSTANTS Paths,
          Contents,    \* bytes people put into files; also their digests
          NoBytes,
          Shares,      \* [policy, tags, conditional, head, twice] in use: the consume policy;
                       \* "strong", "meta" or "none"; whether If-Match is honoured and HEAD
                       \* answered; requireSecondSighting
          PageLimit,
          MaxWrites,   \* bound: changes people make
          MaxTroubles  \* bound: failures of requests, of the pipeline and the store; crashes

ASSUME ShareSetup ==
  /\ Paths \subseteq Nat /\ NoBytes \notin Contents
  /\ Shares \subseteq [policy : {"leave", "move", "delete"}, tags : {"strong", "meta", "none"},
                       conditional : BOOLEAN, head : BOOLEAN, twice : BOOLEAN]
  /\ PageLimit \in Nat \ {0} /\ MaxWrites \in Nat /\ MaxTroubles \in Nat

VARIABLES
  conf,
  files,     \* files[p]: its bytes, when they and when its time or size last changed; or Absent
  stored,    \* digests in the content store with their documents rows
  entry,     \* entry[p]: ingest_source_state
  answered,  \* answered[p]: what the journal of the open run has of the pipeline's answers
  sighted,   \* sighted[p]: the revision of the last poll, in memory
  phase,     \* of the runner
  replays,   \* pending rows this run has yet to replay
  path,      \* the file being acknowledged
  reread,    \* and what the GET before its consumption brought
  work,      \* work[p]: the candidate in the pipeline
  writes, troubled

library == <<stored, entry, answered>>
shareVars == <<conf, files, library, sighted, phase, replays, path, reread, work,
               writes, troubled>>

Absent == [bytes |-> NoBytes, changed |-> 0, dated |-> 0]
NoEntry == [rev |-> 0, digest |-> NoBytes, failed |-> FALSE, ack |-> "none"]
Idle == [at |-> "no", rev |-> 0, digest |-> NoBytes]
NoPath == 0 - 1

Closings == {"left", "moved", "deleted", "refused", "vanished"}
Consuming == {"evidence", "head", "digest", "destroy"}
Works == [at : {"no", "offered", "filed", "failed"}, rev : 0 .. MaxWrites, digest : Contents \cup {NoBytes}]
FileStates == [bytes : Contents \cup {NoBytes}, changed : 0 .. MaxWrites, dated : 0 .. MaxWrites]

ShareTypeOK ==
  /\ conf \in Shares
  /\ files \in [Paths -> FileStates]
  /\ stored \subseteq Contents
  /\ entry \in [Paths -> [rev : 0 .. MaxWrites, digest : Contents \cup {NoBytes}, failed : BOOLEAN,
                          ack : Closings \cup {"none", "pending"}]]
  /\ answered \in [Paths -> Works]
  /\ sighted \in [Paths -> 0 .. MaxWrites]
  /\ phase \in {"off", "start", "recover", "run", "record"} \cup Consuming
  /\ replays \subseteq Paths
  /\ path \in Paths \cup {NoPath}
  /\ reread \in FileStates
  /\ work \in [Paths -> Works]
  /\ writes \in 0 .. MaxWrites /\ troubled \in 0 .. MaxTroubles

ShareInit ==
  /\ conf \in Shares
  /\ files = [p \in Paths |-> Absent]
  /\ stored = {}
  /\ entry = [p \in Paths |-> NoEntry]
  /\ answered = [p \in Paths |-> Idle]
  /\ sighted = [p \in Paths |-> 0]
  /\ phase = "start" /\ replays = {} /\ path = NoPath /\ reread = Absent
  /\ work = [p \in Paths |-> Idle]
  /\ writes = 0 /\ troubled = 0

Trouble == troubled < MaxTroubles /\ troubled' = troubled + 1

-----------------------------------------------------------------------------
(* People *)

Write(p, state) == /\ writes < MaxWrites /\ writes' = writes + 1
                   /\ files' = [files EXCEPT ![p] = state]
                   /\ UNCHANGED <<conf, library, sighted, phase, replays, path, reread,
                                  work, troubled>>

Put(p, b) == Write(p, [bytes |-> b, changed |-> writes + 1, dated |-> writes + 1])

\* Other bytes of the same length, within the second or with the time put back.
Disguise(p, b) == files[p] # Absent /\ Write(p, [files[p] EXCEPT !.bytes = b, !.changed = writes + 1])

Remove(p) == files[p] # Absent /\ Write(p, Absent)

ShareCrash == /\ phase # "off" /\ Trouble
              /\ phase' = "off" /\ replays' = {} /\ path' = NoPath /\ reread' = Absent
              /\ sighted' = [p \in Paths |-> 0]
              /\ work' = [p \in Paths |-> Idle]
              /\ UNCHANGED <<conf, files, library, writes>>

-----------------------------------------------------------------------------
(* A run: replay, poll, pipeline *)

\* revisionOf
Revision(file) == IF conf.tags = "strong" THEN file.changed ELSE file.dated

BeginRun == /\ phase \in {"off", "start"}
            /\ phase' = "recover"
            /\ replays' = {p \in Paths : entry[p].ack = "pending"}
            /\ UNCHANGED <<conf, files, library, sighted, path, reread, work, writes, troubled>>

ReplayAck(p) == /\ phase = "recover" /\ p \in replays
                /\ phase' = "evidence" /\ path' = p
                /\ UNCHANGED <<conf, files, library, sighted, replays, reread, work,
                               writes, troubled>>

\* isHandled
Settled(p) == /\ entry[p].ack \notin {"none", "pending", "refused"}
              /\ entry[p].rev = Revision(files[p])

Fresh == {p \in Paths : files[p] # Absent /\ ~Settled(p)}
Ready == {p \in Fresh : conf.twice => sighted[p] = Revision(files[p])}
Offers == {p \in Ready : Cardinality({q \in Ready : q < p}) < PageLimit}

\* The page goes to the pipeline under the label of the open run, if there is one: what that
\* run filed at this revision is not read again.
PollShare ==
  /\ phase = "recover" /\ replays = {}
  /\ sighted' = [p \in Paths |-> IF conf.twice /\ p \in Fresh THEN Revision(files[p]) ELSE sighted[p]]
  /\ phase' = IF Offers = {} THEN "start" ELSE "run"
  /\ work' = [p \in Paths |->
       IF p \notin Offers THEN Idle
       ELSE IF answered[p].rev = Revision(files[p]) THEN answered[p]
       ELSE [Idle EXCEPT !.at = "offered", !.rev = Revision(files[p])]]
  /\ UNCHANGED <<conf, files, library, replays, path, reread, writes, troubled>>

PollShareFails == /\ phase = "recover" /\ replays = {} /\ Trouble
                  /\ phase' = "start"
                  /\ UNCHANGED <<conf, files, library, sighted, replays, path, reread,
                                 work, writes>>

\* fetch: with an ETag the bytes are those that were offered; without one, those that are there.
\* The pipeline files them, and answers.
ReadFile(p) ==
  /\ work[p].at = "offered" /\ files[p] # Absent
  /\ conf.tags # "none" => work[p].rev = Revision(files[p])
  /\ work' = [work EXCEPT ![p] = [@ EXCEPT !.at = "filed", !.digest = files[p].bytes]]
  /\ answered' = [answered EXCEPT ![p] = work'[p]]
  /\ \/ stored' = stored \cup {files[p].bytes} /\ UNCHANGED troubled
     \/ UNCHANGED stored /\ Trouble
  /\ UNCHANGED <<conf, files, entry, sighted, phase, replays, path, reread, writes>>

\* Gone, or changed since it was offered; or all attempts fail.
ReadFileFails(p) ==
  /\ work[p].at = "offered"
  /\ \/ files[p] = Absent /\ UNCHANGED troubled
     \/ conf.tags # "none" /\ work[p].rev # Revision(files[p]) /\ UNCHANGED troubled
     \/ Trouble
  /\ work' = [work EXCEPT ![p].at = "failed"]
  /\ UNCHANGED <<conf, files, library, sighted, phase, replays, path, reread, writes>>

FinishShareRun == /\ phase = "run" /\ \A p \in Paths : work[p].at # "offered"
                  /\ phase' = "record"
                  /\ answered' = [p \in Paths |-> Idle]
                  /\ UNCHANGED <<conf, files, stored, entry, sighted, replays, path, reread,
                                 work, writes, troubled>>

RecordOutcome(p) ==
  /\ phase = "record" /\ work[p].at \in {"filed", "failed"}
  /\ entry' = [entry EXCEPT ![p] = [rev |-> work[p].rev, digest |-> work[p].digest,
                                    failed |-> work[p].at = "failed", ack |-> "pending"]]
  /\ work' = [work EXCEPT ![p] = Idle]
  /\ phase' = "evidence" /\ path' = p
  /\ UNCHANGED <<conf, files, stored, answered, sighted, replays, reread, writes, troubled>>

EndShareRun == /\ phase = "record" /\ \A p \in Paths : work[p] = Idle
               /\ phase' = "start"
               /\ UNCHANGED <<conf, files, library, sighted, replays, path, reread, work,
                              writes, troubled>>

-----------------------------------------------------------------------------
(* Acknowledgement *)

Proceed(to) == phase' = to /\ UNCHANGED <<entry, replays, path>>

NextRow == /\ phase' = IF path \in replays THEN "recover" ELSE "record"
           /\ replays' = replays \ {path}
           /\ path' = NoPath

CloseEntry(ack) == entry' = [entry EXCEPT ![path].ack = ack] /\ NextRow

\* acknowledge throws: the row stays pending.
LeavePending == UNCHANGED entry /\ NextRow

\* decideConsume
DecideShare ==
  /\ phase = "evidence"
  /\ IF conf.policy = "leave" \/ entry[path].failed THEN CloseEntry("left")
     ELSE IF entry[path].digest \notin stored THEN CloseEntry("refused")
     ELSE Proceed("head")
  /\ UNCHANGED <<conf, files, stored, answered, sighted, reread, work, writes, troubled>>

\* HEAD, and revisionDrift.
CheckMetadata ==
  /\ phase = "head"
  /\ IF ~conf.head THEN CloseEntry("refused")
     ELSE IF files[path] = Absent THEN CloseEntry("vanished")
     ELSE IF Revision(files[path]) # entry[path].rev THEN CloseEntry("refused")
     ELSE Proceed("digest")
  /\ UNCHANGED <<conf, files, stored, answered, sighted, reread, work, writes, troubled>>

\* stillTheObjectThatWasRead: GET, hashed.
CheckDigest ==
  /\ phase = "digest"
  /\ IF files[path] = Absent THEN CloseEntry("vanished") /\ UNCHANGED reread
     ELSE IF files[path].bytes # entry[path].digest THEN CloseEntry("refused") /\ UNCHANGED reread
     ELSE Proceed("destroy") /\ reread' = files[path]
  /\ UNCHANGED <<conf, files, stored, answered, sighted, work, writes, troubled>>

\* If-Match, on a share that sends ETags and looks at them.
Stale == conf.conditional /\ conf.tags # "none" /\ Revision(files[path]) # Revision(reread)

\* DELETE, or MOVE to a collection that is not polled.  When its answer is lost the row stays
\* pending.
Destroy ==
  /\ phase = "destroy" /\ files[path] # Absent /\ ~Stale
  /\ files' = [files EXCEPT ![path] = Absent]
  /\ \/ CloseEntry(IF conf.policy = "move" THEN "moved" ELSE "deleted") /\ UNCHANGED troubled
     \/ LeavePending /\ Trouble
  /\ reread' = Absent
  /\ UNCHANGED <<conf, stored, answered, sighted, work, writes>>

DestroyRefused ==
  /\ phase = "destroy"
  /\ \/ files[path] = Absent /\ CloseEntry("vanished") /\ UNCHANGED troubled
     \/ files[path] # Absent /\ Stale /\ CloseEntry("refused") /\ UNCHANGED troubled
     \* something arrived under the name the move was given
     \/ /\ conf.policy = "move" /\ Trouble
        /\ IF conf.tags = "none" THEN LeavePending ELSE CloseEntry("refused")
  /\ reread' = Absent
  /\ UNCHANGED <<conf, files, stored, answered, sighted, work, writes>>

\* A request fails: the re-reading refuses, the others throw.
RequestFails ==
  /\ phase \in {"head", "digest", "destroy"} /\ Trouble
  /\ IF phase = "digest" THEN CloseEntry("refused") ELSE LeavePending
  /\ reread' = Absent
  /\ UNCHANGED <<conf, files, stored, answered, sighted, work, writes>>

AcknowledgeShare == \/ DecideShare \/ CheckMetadata \/ CheckDigest
                    \/ Destroy \/ DestroyRefused \/ RequestFails

ShareRunner == \/ BeginRun \/ PollShare \/ PollShareFails \/ FinishShareRun \/ EndShareRun
               \/ AcknowledgeShare
               \/ \E p \in Paths : ReplayAck(p) \/ RecordOutcome(p)

IngestFile(p) == ReadFile(p) \/ ReadFileFails(p)

ShareOutside == \/ \E p \in Paths : Remove(p) \/ \E b \in Contents : Put(p, b) \/ Disguise(p, b)
                \/ ShareCrash

ShareNext == ShareRunner \/ (\E p \in Paths : IngestFile(p)) \/ ShareOutside

-----------------------------------------------------------------------------
(* Properties *)

\* What is deleted or moved is in the store: or the file was rewritten after it was hashed, on a
\* share that does not look at If-Match or whose ETag did not tell.
LostOnlyUnguarded ==
  [][\A p \in Paths : phase = "destroy" /\ files[p] # Absent /\ files'[p] = Absent
                      /\ writes' = writes =>
       \/ files[p].bytes \in stored
       \/ /\ files[p].changed # reread.changed
           /\ ~(conf.conditional /\ conf.tags = "strong")]_shareVars

\* Once people leave the share alone, every file on it is consumed or handled for what it is:
\* what was refused is offered again and filed, unless the share does not answer HEAD.
EveryFileConcluded ==
  <>[](\A p \in Paths :
         files[p] # Absent =>
           \/ Settled(p) /\ (entry[p].failed \/ files[p].bytes = entry[p].digest
                              \/ files[p].changed # files[p].dated)
           \/ ~conf.head /\ conf.policy # "leave")
=============================================================================

---------------------------- MODULE FolderSource ----------------------------
(***************************************************************************)
(* Watched folders: their runners, their state rows, and what becomes of   *)
(* the files people put into them.  packages/ingest-sources: runner.ts,    *)
(* state.ts, consume.ts, folder/source.ts.                                 *)
(*                                                                         *)
(* A runner acknowledges what a crash interrupted, polls the folder, hands *)
(* the page to the pipeline, records each outcome and acknowledges it; a   *)
(* move or a delete ends in a few system calls between which anybody may   *)
(* write.  Two sources may move into one processed directory.  The         *)
(* pipeline appears by its answer: the digest it filed, or a failure.      *)
(***************************************************************************)
EXTENDS Integers, FiniteSets

CONSTANTS Sources, Paths,
          Contents,     \* bytes people put into files; also their digests
          Torn,         \* bytes of a read or copy made while the file was being written
          Policies,     \* consume policies in use; "copy" is a move to another mount
          Limit,        \* files offered per poll
          Names,        \* bound: names tried in the processed directory
          MaxWrites,    \* bound: changes people make
          MaxFailures,  \* bound: reads, pipeline runs and consumes that fail
          MaxCrashes    \* bound

ASSUME Setup == /\ Paths \subseteq Nat /\ Torn \notin Contents
                /\ Policies \subseteq {"leave", "move", "copy", "delete"}
                /\ Limit \in Nat \ {0} /\ Names \in Nat \ {0}
                /\ MaxWrites \in Nat /\ MaxFailures \in Nat /\ MaxCrashes \in Nat

Files == Sources \X Paths
Digests == Contents \cup {Torn}

VARIABLES
  policy,    \* policy[s]: set when the source is configured
  disk,      \* disk[f]: the bytes, the revision (mtime, size, inode) and the ctime; or Absent
  archived,  \* archived[p][i]: what the i-th name for path p holds in the processed directory
  stored,    \* digests in the content store with their documents rows
  row,       \* row[f]: ingest_source_state
  journal,   \* journal[f]: answers of the open run that a resumed run takes over
  pc, cur, seen, dest, verdict,  \* a runner: its step, and of the file it acknowledges the
                                 \* ctime, the claimed name and the result
  work,      \* work[f]: the candidate in the pipeline
  writes, failures, crashes

library == <<stored, row, journal>>
ack == <<cur, seen, dest, verdict>>
bounds == <<writes, failures, crashes>>
vars == <<policy, disk, archived, library, pc, ack, work, bounds>>

Absent == [bytes |-> Torn, rev |-> 0, ctime |-> 0]
NoRow == [rev |-> 0, digest |-> Torn, failed |-> FALSE, ack |-> "none"]
NoAnswer == [at |-> "none", rev |-> 0, ctime |-> 0, digest |-> Torn, failed |-> FALSE]
Free == [held |-> "free", bytes |-> Torn]
None == <<>>

Acks == {"none", "pending", "left", "moved", "deleted", "refused", "vanished"}
Steps == {"off", "idle", "run", "next", "decide", "open", "hash", "claim", "look", "destroy",
          "copied", "unlink", "release", "close"}
Answers == [at : {"none", "offered", "reading", "answered"}, rev : 0 .. MaxWrites,
            ctime : 0 .. MaxWrites, digest : Digests, failed : BOOLEAN]

TypeOK ==
  /\ policy \in [Sources -> Policies]
  /\ disk \in [Files -> [bytes : Digests, rev : 0 .. MaxWrites, ctime : 0 .. MaxWrites]]
  /\ archived \in [Paths -> [1 .. Names -> [held : {"free", "claim", "copy", "kept"}, bytes : Digests]]]
  /\ stored \subseteq Digests
  /\ row \in [Files -> [rev : 0 .. MaxWrites, digest : Digests, failed : BOOLEAN, ack : Acks]]
  /\ journal \in [Files -> Answers]
  /\ pc \in [Sources -> Steps]
  /\ cur \in [Sources -> Files \cup {None}]
  /\ seen \in [Sources -> 0 .. MaxWrites]
  /\ dest \in [Sources -> 0 .. Names]
  /\ verdict \in [Sources -> Acks]
  /\ work \in [Files -> Answers]
  /\ writes \in 0 .. MaxWrites /\ failures \in 0 .. MaxFailures /\ crashes \in 0 .. MaxCrashes

Init == /\ policy \in [Sources -> Policies]
        /\ disk = [f \in Files |-> Absent]
        /\ archived = [p \in Paths |-> [i \in 1 .. Names |-> Free]]
        /\ stored = {}
        /\ row = [f \in Files |-> NoRow]
        /\ journal = [f \in Files |-> NoAnswer]
        /\ pc = [s \in Sources |-> "idle"]
        /\ cur = [s \in Sources |-> None]
        /\ seen = [s \in Sources |-> 0]
        /\ dest = [s \in Sources |-> 0]
        /\ verdict = [s \in Sources |-> "none"]
        /\ work = [f \in Files |-> NoAnswer]
        /\ writes = 0 /\ failures = 0 /\ crashes = 0

-----------------------------------------------------------------------------
(* People and the operating system *)

Now == writes + 1

\* A file appears, is rewritten or replaced.
Put(f, b) == /\ writes < MaxWrites
             /\ disk' = [disk EXCEPT ![f] = [bytes |-> b, rev |-> Now, ctime |-> Now]]
             /\ writes' = Now
             /\ UNCHANGED <<policy, archived, library, pc, ack, work, failures, crashes>>

\* A rewrite of the same length with the mtime put back: only the ctime tells.
Disguise(f, b) == /\ writes < MaxWrites /\ disk[f] # Absent
                  /\ disk' = [disk EXCEPT ![f].bytes = b, ![f].ctime = Now]
                  /\ writes' = Now
                  /\ UNCHANGED <<policy, archived, library, pc, ack, work, failures, crashes>>

Remove(f) == /\ writes < MaxWrites /\ disk[f] # Absent
             /\ disk' = [disk EXCEPT ![f] = Absent]
             /\ writes' = Now
             /\ UNCHANGED <<policy, archived, library, pc, ack, work, failures, crashes>>

Crash(s) == /\ pc[s] # "off" /\ crashes < MaxCrashes
            /\ crashes' = crashes + 1
            /\ pc' = [pc EXCEPT ![s] = "off"]
            /\ cur' = [cur EXCEPT ![s] = None]
            /\ seen' = [seen EXCEPT ![s] = 0]
            /\ dest' = [dest EXCEPT ![s] = 0]
            /\ verdict' = [verdict EXCEPT ![s] = "none"]
            /\ work' = [f \in Files |-> IF f[1] = s THEN NoAnswer ELSE work[f]]
            /\ UNCHANGED <<policy, disk, archived, library, writes, failures>>

Start(s) == /\ pc[s] = "off"
            /\ pc' = [pc EXCEPT ![s] = "idle"]
            /\ UNCHANGED <<policy, disk, archived, library, ack, work, bounds>>

-----------------------------------------------------------------------------
(* Poll and pipeline *)

\* Mutant of Handled: any revision will do.
HandledOnce(f) == row[f].ack \notin {"none", "pending", "refused"}

\* isHandled
Handled(f) == /\ row[f].ack \notin {"none", "pending", "refused"}
              /\ row[f].rev = disk[f].rev

Fresh(s) == {f \in Files : f[1] = s /\ disk[f] # Absent /\ ~Handled(f)}
Page(s) == {f \in Fresh(s) : Cardinality({g \in Fresh(s) : g[2] < f[2]}) < Limit}
Batch(s) == {f \in Files : f[1] = s /\ work[f].at # "none"}
Interrupted(s) == {f \in Files : f[1] = s /\ row[f].ack = "pending"}

\* candidate()
Offer(f) == [at |-> "offered", rev |-> disk[f].rev, ctime |-> 0, digest |-> Torn, failed |-> FALSE]

\* What runOnce does first: the acknowledgements a crash interrupted.
Recover(s, f) == /\ pc[s] = "idle" /\ f \in Interrupted(s)
                 /\ pc' = [pc EXCEPT ![s] = "decide"]
                 /\ cur' = [cur EXCEPT ![s] = f]
                 /\ UNCHANGED <<policy, disk, archived, library, seen, dest, verdict, work, bounds>>

\* The page goes to the pipeline under the label of the open run, if there is one: what that
\* run has answered is not read again.
Poll(s) == /\ pc[s] = "idle" /\ Interrupted(s) = {} /\ Page(s) # {}
           /\ pc' = [pc EXCEPT ![s] = "run"]
           /\ work' = [f \in Files |->
                IF f \notin Page(s) THEN work[f]
                ELSE IF journal[f].rev = disk[f].rev THEN journal[f]
                ELSE Offer(f)]
           /\ UNCHANGED <<policy, disk, archived, library, ack, bounds>>

Answer(f, a) == /\ work' = [work EXCEPT ![f] = a]
                /\ journal' = [journal EXCEPT ![f] = IF a.failed THEN @ ELSE a]

\* fetch: the file is still at the revision that was offered.
ReadFirst(f) == /\ work[f].at = "offered" /\ disk[f].rev = work[f].rev
                /\ work' = [work EXCEPT ![f] = [@ EXCEPT !.at = "reading", !.ctime = disk[f].ctime,
                                                        !.digest = disk[f].bytes]]
                /\ UNCHANGED <<policy, disk, archived, library, pc, ack, bounds>>

\* And still after the read.  A disguised rewrite in between is not noticed here: the bytes are
\* the old ones, the new ones or a mixture.  The pipeline files them, and answers.
ReadLast(f) ==
  /\ work[f].at = "reading" /\ disk[f].rev = work[f].rev
  /\ \E digest \in IF disk[f].ctime = work[f].ctime THEN {disk[f].bytes}
                    ELSE {work[f].digest, disk[f].bytes, Torn} :
       /\ Answer(f, [work[f] EXCEPT !.at = "answered", !.digest = digest])
       /\ \/ stored' = stored \cup {digest} /\ UNCHANGED failures
          \* what verifyOutcome is there for: the store does not hold what it took
          \/ UNCHANGED stored /\ failures < MaxFailures /\ failures' = failures + 1
  /\ UNCHANGED <<policy, disk, archived, row, pc, ack, writes, crashes>>

\* The file is gone or at another revision, and so it stays for every attempt.
ReadRefused(f) == /\ work[f].at \in {"offered", "reading"} /\ disk[f].rev # work[f].rev
                  /\ Answer(f, [work[f] EXCEPT !.at = "answered", !.failed = TRUE])
                  /\ UNCHANGED <<policy, disk, archived, stored, row, pc, ack, bounds>>

\* All attempts of the pipeline throw for a reason of their own, before or after storing.
PipelineFails(f) == /\ work[f].at \in {"offered", "reading"} /\ failures < MaxFailures
                    /\ failures' = failures + 1
                    /\ Answer(f, [work[f] EXCEPT !.at = "answered", !.failed = TRUE])
                    /\ stored' = stored \cup IF work[f].at = "reading" THEN {work[f].digest} ELSE {}
                    /\ UNCHANGED <<policy, disk, archived, row, pc, ack, writes, crashes>>

\* The run is over: setOpenRun(null).
FinishRun(s) == /\ pc[s] = "run" /\ \A f \in Batch(s) : work[f].at = "answered"
                /\ journal' = [f \in Files |-> IF f[1] = s THEN NoAnswer ELSE journal[f]]
                /\ pc' = [pc EXCEPT ![s] = "next"]
                /\ UNCHANGED <<policy, disk, archived, stored, row, ack, work, bounds>>

\* recordOutcome, before the far side is touched.
Record(s, f) == /\ pc[s] = "next" /\ f \in Batch(s)
                /\ row' = [row EXCEPT ![f] = [rev |-> work[f].rev, digest |-> work[f].digest,
                                              failed |-> work[f].failed, ack |-> "pending"]]
                /\ work' = [work EXCEPT ![f] = NoAnswer]
                /\ pc' = [pc EXCEPT ![s] = "decide"]
                /\ cur' = [cur EXCEPT ![s] = f]
                /\ UNCHANGED <<policy, disk, archived, stored, journal, seen, dest, verdict, bounds>>

-----------------------------------------------------------------------------
(* Acknowledgement *)

Go(s, at) == /\ pc' = [pc EXCEPT ![s] = at] /\ UNCHANGED verdict
Close(s, result) == /\ pc' = [pc EXCEPT ![s] = "close"]
                    /\ verdict' = [verdict EXCEPT ![s] = result]

\* Mutant of Decide: the store is taken at its word.
DecideTrusting(s) ==
  LET f == cur[s]
  IN /\ pc[s] = "decide"
     /\ IF policy[s] = "leave" \/ row[f].failed THEN Close(s, "left")
        ELSE IF disk[f] = Absent THEN Close(s, "vanished")
        ELSE IF disk[f].rev # row[f].rev THEN Close(s, "refused")
        ELSE Go(s, "open")
     /\ UNCHANGED <<policy, disk, archived, library, cur, seen, dest, work, bounds>>

\* decideConsume re-reads the store; then the path must have the revision that was offered.
Decide(s) ==
  LET f == cur[s]
  IN /\ pc[s] = "decide"
     /\ IF policy[s] = "leave" \/ row[f].failed THEN Close(s, "left")
        ELSE IF row[f].digest \notin stored THEN Close(s, "refused")
        ELSE IF disk[f] = Absent THEN Close(s, "vanished")
        ELSE IF disk[f].rev # row[f].rev THEN Close(s, "refused")
        ELSE Go(s, "open")
     /\ UNCHANGED <<policy, disk, archived, library, cur, seen, dest, work, bounds>>

\* hashFile: the identity of the descriptor before the first byte.
Open(s) == /\ pc[s] = "open"
           /\ IF disk[cur[s]] = Absent THEN Close(s, "refused") /\ UNCHANGED seen
              ELSE Go(s, "hash") /\ seen' = [seen EXCEPT ![s] = disk[cur[s]].ctime]
           /\ UNCHANGED <<policy, disk, archived, library, cur, dest, work, bounds>>

\* stillTheFileThatWasRead: one inode, unwritten to while its bytes hash to what was filed.
Rehash(s) ==
  /\ pc[s] = "hash"
  /\ IF disk[cur[s]].ctime = seen[s] /\ disk[cur[s]].bytes = row[cur[s]].digest
       THEN Go(s, IF policy[s] = "delete" THEN "look" ELSE "claim")
       ELSE Close(s, "refused")
  /\ UNCHANGED <<policy, disk, archived, library, cur, seen, dest, work, bounds>>

Taken(s) == {i \in 1 .. Names : archived[cur[s][2]][i] # Free}
Place(s, what) == archived' = [archived EXCEPT ![cur[s][2]][dest[s]] = what]

\* Mutant of Claim: a free name is looked up, not held.
ClaimLook(s) == /\ pc[s] = "claim"
                /\ \E i \in 1 .. Names \ Taken(s) :
                     /\ \A j \in 1 .. i - 1 : j \in Taken(s)
                     /\ dest' = [dest EXCEPT ![s] = i]
                /\ Go(s, "look")
                /\ UNCHANGED <<policy, disk, archived, library, cur, seen, work, bounds>>

\* claimMoveTarget: the first free name, held with O_EXCL.
Claim(s) == /\ pc[s] = "claim"
            /\ \E i \in 1 .. Names \ Taken(s) :
                 /\ \A j \in 1 .. i - 1 : j \in Taken(s)
                 /\ dest' = [dest EXCEPT ![s] = i]
                 /\ archived' = [archived EXCEPT ![cur[s][2]][i] = [Free EXCEPT !.held = "claim"]]
            /\ Go(s, "look")
            /\ UNCHANGED <<policy, disk, library, cur, seen, work, bounds>>

\* Every name is taken.
ClaimFails(s) == /\ pc[s] = "claim" /\ Cardinality(Taken(s)) = Names
                 /\ Close(s, "refused")
                 /\ UNCHANGED <<policy, disk, archived, library, cur, seen, dest, work, bounds>>

\* The last look before the destructive call.
Look(s) ==
  LET f == cur[s]
  IN /\ pc[s] = "look"
     /\ IF disk[f] # Absent /\ disk[f].ctime = seen[s]
          THEN Go(s, "destroy")
          ELSE IF dest[s] # 0
            THEN /\ pc' = [pc EXCEPT ![s] = "release"]
                 /\ verdict' = [verdict EXCEPT ![s] = IF disk[f] = Absent THEN "vanished" ELSE "refused"]
            ELSE Close(s, IF disk[f] = Absent THEN "vanished" ELSE "refused")
     /\ UNCHANGED <<policy, disk, archived, library, cur, seen, dest, work, bounds>>

\* releaseClaim
Release(s) == /\ pc[s] = "release"
              /\ Place(s, Free)
              /\ pc' = [pc EXCEPT ![s] = "close"]
              /\ UNCHANGED <<policy, disk, library, ack, work, bounds>>

\* rm with force
Delete(s) == /\ pc[s] = "destroy" /\ policy[s] = "delete"
             /\ disk' = [disk EXCEPT ![cur[s]] = Absent]
             /\ Close(s, "deleted")
             /\ UNCHANGED <<policy, archived, library, cur, seen, dest, work, bounds>>

\* rename onto the claimed name
Rename(s) == /\ pc[s] = "destroy" /\ policy[s] = "move"
             /\ disk[cur[s]] # Absent
             /\ Place(s, [held |-> "kept", bytes |-> disk[cur[s]].bytes])
             /\ disk' = [disk EXCEPT ![cur[s]] = Absent]
             /\ Close(s, "moved")
             /\ UNCHANGED <<policy, library, cur, seen, dest, work, bounds>>

\* rename answers EXDEV: copyFile, which may meet a writer.
Copy(s) == /\ pc[s] = "destroy" /\ policy[s] = "copy"
           /\ disk[cur[s]] # Absent
           /\ Place(s, [held |-> "copy", bytes |-> disk[cur[s]].bytes])
           /\ Go(s, "copied")
           /\ UNCHANGED <<policy, disk, library, cur, seen, dest, work, bounds>>

\* The copy is hashed and the original looked at once more.  A copy that differs is removed,
\* and so it is again by the handler of the error: Release.
CheckCopy(s) ==
  LET f == cur[s] copy == archived[f[2]][dest[s]]
  IN /\ pc[s] = "copied"
     /\ IF copy.bytes # row[f].digest
          THEN /\ Place(s, Free)
               /\ pc' = [pc EXCEPT ![s] = "release"]
               /\ verdict' = [verdict EXCEPT ![s] = "refused"]
          ELSE /\ Place(s, [copy EXCEPT !.held = "kept"])
               /\ IF disk[f].ctime = seen[s] THEN Go(s, "unlink") ELSE Close(s, "moved")
     /\ UNCHANGED <<policy, disk, library, cur, seen, dest, work, bounds>>

Unlink(s) == /\ pc[s] = "unlink"
             /\ disk' = [disk EXCEPT ![cur[s]] = Absent]
             /\ Close(s, "moved")
             /\ UNCHANGED <<policy, archived, library, cur, seen, dest, work, bounds>>

\* A call of the consume fails: the claim is given back and the row closes as refused.
ConsumeFails(s) ==
  /\ pc[s] \in {"destroy", "copied"}
  /\ \/ pc[s] = "destroy" /\ disk[cur[s]] = Absent /\ policy[s] # "delete" /\ UNCHANGED failures
     \/ failures < MaxFailures /\ failures' = failures + 1
  /\ pc' = [pc EXCEPT ![s] = IF dest[s] = 0 THEN "close" ELSE "release"]
  /\ verdict' = [verdict EXCEPT ![s] = "refused"]
  /\ UNCHANGED <<policy, disk, archived, library, cur, seen, dest, work, writes, crashes>>

\* The copy is kept and the original cannot be removed.
UnlinkFails(s) == /\ pc[s] = "unlink" /\ failures < MaxFailures
                  /\ failures' = failures + 1
                  /\ Close(s, "moved")
                  /\ UNCHANGED <<policy, disk, archived, library, cur, seen, dest, work, writes, crashes>>

\* Mutant of CloseRow: the acknowledgement is not recorded.
CloseRowForgetting(s) == /\ pc[s] = "close"
                         /\ pc' = [pc EXCEPT ![s] = IF Batch(s) = {} THEN "idle" ELSE "next"]
                         /\ cur' = [cur EXCEPT ![s] = None]
                         /\ seen' = [seen EXCEPT ![s] = 0]
                         /\ dest' = [dest EXCEPT ![s] = 0]
                         /\ verdict' = [verdict EXCEPT ![s] = "none"]
                         /\ UNCHANGED <<policy, disk, archived, library, work, bounds>>

\* recordAcknowledgement, and on to the next outcome, interrupted row or poll.
CloseRow(s) == /\ pc[s] = "close"
               /\ row' = [row EXCEPT ![cur[s]].ack = verdict[s]]
               /\ pc' = [pc EXCEPT ![s] = IF Batch(s) = {} THEN "idle" ELSE "next"]
               /\ cur' = [cur EXCEPT ![s] = None]
               /\ seen' = [seen EXCEPT ![s] = 0]
               /\ dest' = [dest EXCEPT ![s] = 0]
               /\ verdict' = [verdict EXCEPT ![s] = "none"]
               /\ UNCHANGED <<policy, disk, archived, stored, journal, work, bounds>>

Acknowledge(s) == \/ Decide(s) \/ Open(s) \/ Rehash(s) \/ Claim(s) \/ ClaimFails(s) \/ Look(s)
                  \/ Release(s) \/ Delete(s) \/ Rename(s) \/ Copy(s) \/ CheckCopy(s)
                  \/ Unlink(s) \/ UnlinkFails(s) \/ ConsumeFails(s) \/ CloseRow(s)

RunnerStep(s) == \/ Start(s) \/ Poll(s) \/ FinishRun(s) \/ Acknowledge(s)
                 \/ \E p \in Paths : Recover(s, <<s, p>>) \/ Record(s, <<s, p>>)

Reading(f) == ReadFirst(f) \/ ReadLast(f) \/ ReadRefused(f) \/ PipelineFails(f)

Outside == \/ \E f \in Files : Remove(f) \/ \E b \in Contents : Put(f, b) \/ Disguise(f, b)
           \/ \E s \in Sources : Crash(s)

Next == \/ \E s \in Sources : RunnerStep(s)
        \/ \E f \in Files : Reading(f)
        \/ Outside

Spec == Init /\ [][Next]_vars

\* The event loop goes on; the timer of watch() polls again.
FairSpec == /\ Spec
            /\ \A s \in Sources : WF_vars(RunnerStep(s))
            /\ \A f \in Files : WF_vars(Reading(f))

-----------------------------------------------------------------------------
(* Properties *)

Consumed(f) == /\ disk[f] # Absent /\ disk'[f] = Absent
               /\ pc[f[1]] \in {"destroy", "unlink"} /\ pc'[f[1]] = "close"

\* What a source takes out of its folder is in the store, or was put there after the last look,
\* in the gap of two system calls that folder/source.ts says it cannot close.
LostOnlyInTheGap == [][\A f \in Files : Consumed(f) =>
                         \/ disk[f].bytes \in stored
                         \/ disk[f].ctime # seen[f[1]]]_vars

\* An original in the processed directory is never overwritten or removed, by whichever source.
ArchivedStays == [][\A p \in Paths : \A i \in 1 .. Names :
                      archived[p][i].held = "kept" => archived'[p][i] = archived[p][i]]_vars

\* A file that is not offered any more is the one its row says was filed, unless its rewrite
\* was disguised or the pipeline failed.
HandledIsWhatWasFiled ==
  \A f \in Files : disk[f] # Absent /\ Handled(f) =>
    \/ disk[f].bytes = row[f].digest \/ disk[f].ctime # disk[f].rev \/ row[f].failed

\* Once people leave the folders alone, every file in them ends up consumed or handled.
EveryFileSettles == <>[](\A f \in Files : disk[f] = Absent \/ Handled(f))
=============================================================================

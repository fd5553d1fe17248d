------------------------- MODULE FolderSourceProofs -------------------------
(***************************************************************************)
(* Theorems about FolderSource, for any number of sources, files, names    *)
(* and writes.                                                             *)
(***************************************************************************)
EXTENDS FolderSource, TLAPS

LEMMA InitType == Init => TypeOK
BY Setup DEF Init, TypeOK, Absent, NoRow, NoAnswer, Free, None, Answers, Acks, Steps, Digests

Writes == 0 .. MaxWrites
Copies == [bytes : Digests, rev : Writes, ctime : Writes]

LEMMA PeopleType ==
  ASSUME TypeOK, NEW f \in Files, NEW b \in Contents, Put(f, b) \/ Disguise(f, b) \/ Remove(f)
  PROVE  TypeOK'
<1>1. Now \in Writes /\ writes' = Now /\ Absent \in Copies
  BY Setup DEF Put, Disguise, Remove, Now, TypeOK, Writes, Absent, Copies, Digests
<1>2. disk' \in [Files -> Copies]
  <2>1. CASE Put(f, b)
    BY <1>1, <2>1 DEF Put, TypeOK, Writes, Copies, Digests
  <2>2. CASE Disguise(f, b)
    <3>1. [disk[f] EXCEPT !.bytes = b, !.ctime = Now] \in Copies
      BY <1>1 DEF TypeOK, Writes, Copies, Digests
    <3>2. disk' = [disk EXCEPT ![f] = [disk[f] EXCEPT !.bytes = b, !.ctime = Now]]
      BY <2>2 DEF Disguise
    <3> QED
      BY <3>1, <3>2 DEF TypeOK, Writes, Copies
  <2>3. CASE Remove(f)
    BY <1>1, <2>3 DEF Remove, TypeOK, Writes, Copies
  <2> QED
    BY <2>1, <2>2, <2>3
<1> QED
  BY <1>1, <1>2 DEF Put, Disguise, Remove, TypeOK, Writes, Copies, library, ack

LEMMA ProcessType ==
  ASSUME TypeOK, NEW s \in Sources, Crash(s) \/ Start(s)
  PROVE  TypeOK'
<1>1. CASE Crash(s)
  BY <1>1, Setup DEF Crash, TypeOK, library, NoAnswer, Answers, Steps, Acks, Digests
<1>2. CASE Start(s)
  BY <1>2 DEF Start, TypeOK, library, ack, bounds, Steps
<1> QED
  BY <1>1, <1>2

LEMMA RunType ==
  ASSUME TypeOK, NEW s \in Sources, NEW f \in Files,
         Recover(s, f) \/ Poll(s) \/ FinishRun(s) \/ Record(s, f)
  PROVE  TypeOK'
<1> USE DEF TypeOK, library, ack, bounds
<1>1. NoAnswer \in Answers
  BY Setup DEF NoAnswer, Answers, Digests
<1>2. CASE Recover(s, f)
  BY <1>2 DEF Recover, Steps
<1>3. CASE Poll(s)
  <2> HIDE DEF TypeOK
  <2>1. \A g \in Files : Offer(g) \in Answers
    BY Setup DEF TypeOK, Offer, Answers, Digests
  <2>2. work' \in [Files -> Answers]
    <3>1. \A g \in Files : work[g] \in Answers /\ journal[g] \in Answers
      BY DEF TypeOK
    <3> HIDE DEF Page, Answers, NoAnswer
    <3> DEFINE new(g) == IF g \notin Page(s) THEN work[g]
                         ELSE IF journal[g].rev = disk[g].rev THEN journal[g]
                         ELSE Offer(g)
    <3>2. \A g \in Files : new(g) \in Answers
      BY <2>1, <3>1
    <3>3. work' = [g \in Files |-> new(g)]
      BY <1>3 DEF Poll
    <3> HIDE DEF new
    <3> QED
      BY <3>2, <3>3
  <2> QED
    BY <1>3, <2>2 DEF Poll, Steps, TypeOK
<1>4. CASE FinishRun(s)
  BY <1>1, <1>4 DEF FinishRun, Steps
<1>5. CASE Record(s, f)
  <2>1. row' \in [Files -> [rev : 0 .. MaxWrites, digest : Digests, failed : BOOLEAN, ack : Acks]]
    BY <1>5 DEF Record, Answers, Acks
  <2> QED
    BY <1>1, <1>5, <2>1 DEF Record, Steps
<1> QED
  BY <1>2, <1>3, <1>4, <1>5

LEMMA ReadingType == ASSUME TypeOK, NEW f \in Files, Reading(f) PROVE TypeOK'
<1> USE DEF TypeOK, library, ack, bounds
<1>1. ASSUME NEW a \in Answers, Answer(f, a)
      PROVE  work' \in [Files -> Answers] /\ journal' \in [Files -> Answers]
  BY <1>1 DEF Answer
<1>2. CASE ReadFirst(f)
  <2>1. work' \in [Files -> Answers]
    <3>1. [work[f] EXCEPT !.at = "reading", !.ctime = disk[f].ctime, !.digest = disk[f].bytes] \in Answers
      BY DEF Answers
    <3> QED
      BY <1>2, <3>1 DEF ReadFirst
  <2> QED
    BY <1>2, <2>1 DEF ReadFirst
<1>3. CASE ReadLast(f)
  <2>1. PICK digest \in Digests :
          /\ Answer(f, [work[f] EXCEPT !.at = "answered", !.digest = digest])
          /\ \/ stored' = stored \cup {digest} /\ UNCHANGED failures
             \/ UNCHANGED stored /\ failures < MaxFailures /\ failures' = failures + 1
    BY <1>3 DEF ReadLast, Answers, Digests
  <2>2. [work[f] EXCEPT !.at = "answered", !.digest = digest] \in Answers
    BY DEF Answers
  <2>3. work' \in [Files -> Answers] /\ journal' \in [Files -> Answers]
    BY <1>1, <2>1, <2>2
  <2>4. stored' \subseteq Digests /\ failures' \in 0 .. MaxFailures
    BY <2>1, Setup
  <2>5. UNCHANGED <<policy, disk, archived, row, pc, ack, writes, crashes>>
    BY <1>3 DEF ReadLast
  <2> QED
    BY <2>3, <2>4, <2>5
<1>4. CASE ReadRefused(f)
  <2>1. [work[f] EXCEPT !.at = "answered", !.failed = TRUE] \in Answers
    BY DEF Answers
  <2> QED
    BY <1>1, <1>4, <2>1 DEF ReadRefused
<1>5. CASE PipelineFails(f)
  <2>1. [work[f] EXCEPT !.at = "answered", !.failed = TRUE] \in Answers
    BY DEF Answers
  <2>2. work[f].digest \in Digests
    BY DEF Answers
  <2> QED
    <3>1. work' \in [Files -> Answers] /\ journal' \in [Files -> Answers]
      BY <1>1, <1>5, <2>1 DEF PipelineFails
    <3>2. stored' \subseteq Digests /\ failures' \in 0 .. MaxFailures
      BY <1>5, <2>2, Setup DEF PipelineFails
    <3> QED
      BY <1>5, <3>1, <3>2 DEF PipelineFails
<1> QED
  BY <1>2, <1>3, <1>4, <1>5 DEF Reading

-----------------------------------------------------------------------------
(* A runner's variables while it acknowledges *)

Acknowledging == {"decide", "open", "hash", "claim", "look", "destroy", "copied", "unlink",
                  "release", "close"}

\* The file is one of the source's own.
Cursor == \A s \in Sources : pc[s] \in Acknowledging => cur[s] \in Files /\ cur[s][1] = s

\* A name is chosen by Claim only, and a move or a copy has one from then on.
Chosen ==
  \A s \in Sources :
    /\ pc[s] \in {"release", "copied", "unlink"} => dest[s] # 0
    /\ pc[s] \in {"look", "destroy"} => (dest[s] = 0 <=> policy[s] = "delete")
    /\ pc[s] \notin {"look", "destroy", "copied", "unlink", "release", "close"} => dest[s] = 0
    /\ pc[s] \in {"open", "hash", "claim", "look", "destroy", "release"} => policy[s] # "leave"
    /\ pc[s] \in {"claim", "copied", "unlink", "release"} => policy[s] # "delete"
    /\ pc[s] \in {"copied", "unlink"} => policy[s] = "copy"

Rows == [rev : Writes, digest : Digests, failed : BOOLEAN, ack : Acks]
Place4 == [held : {"free", "claim", "copy", "kept"}, bytes : Digests]

LEMMA PlaceType ==
  ASSUME TypeOK, NEW s \in Sources, NEW what \in Place4, Place(s, what)
  PROVE  archived' \in [Paths -> [1 .. Names -> Place4]]
BY DEF TypeOK, Place, Place4

LEMMA AckType ==
  ASSUME TypeOK, Cursor, Chosen, NEW s \in Sources, Acknowledge(s)
  PROVE  TypeOK'
<1> DEFINE f == cur[s]
<1>1. f \in Files /\ s = f[1]
  BY DEF Acknowledge, Acknowledging, Cursor, Decide, Open, Rehash, Claim, ClaimFails, Look,
         Release, Delete, Rename, Copy, CheckCopy, Unlink, UnlinkFails, ConsumeFails, CloseRow
<1>2. f[2] \in Paths /\ disk[f] \in Copies /\ row[f] \in Rows /\ row[f].digest \in Digests
  BY <1>1 DEF TypeOK, Copies, Rows, Writes, Files
<1>3. Free \in Place4 /\ Absent \in Copies /\ [Free EXCEPT !.held = "claim"] \in Place4
  BY Setup DEF Free, Absent, Place4, Copies, Writes, Digests
<1> USE DEF TypeOK, library, ack, bounds, Go, Close, Steps, Acks
<1>4. CASE Decide(s) \/ Rehash(s)
  BY <1>4 DEF Decide, Rehash
<1>5. CASE Open(s)
  BY <1>2, <1>5 DEF Open, Copies, Writes
<1>6. CASE Claim(s)
  <2>1. PICK i \in 1 .. Names : /\ dest' = [dest EXCEPT ![s] = i]
                               /\ archived' = [archived EXCEPT ![f[2]][i] = [Free EXCEPT !.held = "claim"]]
    BY <1>6 DEF Claim
  <2>2. archived' \in [Paths -> [1 .. Names -> Place4]]
    BY <1>3, <2>1 DEF Place4
  <2>3. dest' \in [Sources -> 0 .. Names] /\ pc' \in [Sources -> Steps]
    BY <1>6, <2>1 DEF Claim
  <2> QED
    BY <1>6, <2>2, <2>3 DEF Claim, Place4
<1>7. CASE ClaimFails(s)
  BY <1>7 DEF ClaimFails
<1>8. CASE Look(s)
  BY <1>8 DEF Look
<1>9. CASE Release(s)
  BY <1>3, <1>9, PlaceType DEF Release, Place4
<1>10. CASE Delete(s) \/ Unlink(s)
  <2>1. disk' \in [Files -> Copies]
    BY <1>3, <1>10 DEF Delete, Unlink, Copies, Writes
  <2> QED
    BY <1>10, <2>1 DEF Delete, Unlink, Copies, Writes
<1>11. CASE Rename(s)
  <2>1. [held |-> "kept", bytes |-> disk[f].bytes] \in Place4
    BY <1>2 DEF Place4, Copies
  <2>2. disk' \in [Files -> Copies]
    BY <1>3, <1>11 DEF Rename, Copies, Writes
  <2> QED
    BY <1>11, <2>1, <2>2, PlaceType DEF Rename, Copies, Writes, Place4
<1>12. CASE Copy(s)
  <2>1. [held |-> "copy", bytes |-> disk[f].bytes] \in Place4
    BY <1>2 DEF Place4, Copies
  <2> QED
    BY <1>12, <2>1, PlaceType DEF Copy, Place4
<1>13. CASE CheckCopy(s)
  <2> DEFINE copy == archived[f[2]][dest[s]]
  <2>1. dest[s] \in 1 .. Names
    BY <1>13, Setup DEF CheckCopy, Chosen
  <2>2. copy \in Place4 /\ [copy EXCEPT !.held = "kept"] \in Place4
    <3>1. \A p \in Paths : \A i \in 1 .. Names : archived[p][i] \in Place4
      <4>1. archived \in [Paths -> [1 .. Names -> Place4]]
        BY DEF Place4
      <4> HIDE DEF TypeOK, Place4
      <4> QED
        BY <4>1
    <3>2. \A x \in Place4 : [x EXCEPT !.held = "kept"] \in Place4
      BY DEF Place4
    <3> HIDE DEF Place4
    <3> QED
      BY <1>2, <2>1, <3>1, <3>2
  <2>3. archived' \in [Paths -> [1 .. Names -> Place4]]
    <3>1. Place(s, Free) \/ Place(s, [copy EXCEPT !.held = "kept"])
      BY <1>13 DEF CheckCopy
    <3> HIDE DEF copy
    <3> QED
      BY <1>3, <2>2, <3>1, PlaceType
  <2> QED
    BY <1>13, <2>3 DEF CheckCopy, Place4
<1>14. CASE UnlinkFails(s) \/ ConsumeFails(s)
  <2>1. failures' \in 0 .. MaxFailures
    BY <1>14, Setup DEF UnlinkFails, ConsumeFails
  <2>2. pc' \in [Sources -> Steps] /\ verdict' \in [Sources -> Acks]
    BY <1>14 DEF UnlinkFails, ConsumeFails
  <2> QED
    BY <1>14, <2>1, <2>2 DEF UnlinkFails, ConsumeFails
<1>15. CASE CloseRow(s)
  <2>1. [row[f] EXCEPT !.ack = verdict[s]] \in Rows
    BY <1>2 DEF Rows
  <2>2. row' \in [Files -> Rows]
    BY <1>15, <2>1 DEF CloseRow, Rows, Writes
  <2> QED
    <3>1. pc' \in [Sources -> Steps] /\ cur' \in [Sources -> Files \cup {None}]
          /\ seen' \in [Sources -> 0 .. MaxWrites] /\ dest' \in [Sources -> 0 .. Names]
          /\ verdict' \in [Sources -> Acks]
      BY <1>15, Setup DEF CloseRow
    <3> QED
      BY <1>15, <2>2, <3>1 DEF CloseRow, Rows, Writes
<1> QED
  BY <1>4, <1>5, <1>6, <1>7, <1>8, <1>9, <1>10, <1>11, <1>12, <1>13, <1>14, <1>15 DEF Acknowledge

LEMMA TypeStep == TypeOK /\ Cursor /\ Chosen /\ [Next]_vars => TypeOK'
<1> SUFFICES ASSUME TypeOK, Cursor, Chosen, [Next]_vars PROVE TypeOK'
  OBVIOUS
<1>1. ASSUME NEW s \in Sources, RunnerStep(s) PROVE TypeOK'
  <2>1. \A p \in Paths : <<s, p>> \in Files
    BY DEF Files
  <2>2. CASE Poll(s) \/ FinishRun(s)
    <3>1. CASE Paths = {}
      BY <2>2, <3>1 DEF Poll, FinishRun, Page, Fresh, Files, TypeOK, library, ack, bounds, Steps
    <3>2. ASSUME NEW p \in Paths PROVE TypeOK'
      BY <2>1, <2>2, RunType
    <3> QED
      BY <3>1, <3>2
  <2> QED
    BY <1>1, <2>1, <2>2, ProcessType, RunType, AckType DEF RunnerStep
<1>2. ASSUME NEW f \in Files, Reading(f) PROVE TypeOK'
  BY <1>2, ReadingType
<1>3. CASE Outside
  <2>1. ASSUME NEW f \in Files, Remove(f) PROVE TypeOK'
    BY <2>1, Setup DEF Remove, TypeOK, Now, Absent, library, ack, Digests
  <2>2. ASSUME NEW f \in Files, NEW b \in Contents, Put(f, b) \/ Disguise(f, b) PROVE TypeOK'
    BY <2>2, PeopleType
  <2> QED
    BY <1>3, <2>1, <2>2, ProcessType DEF Outside
<1>4. CASE UNCHANGED vars
  BY <1>4 DEF vars, library, ack, bounds, TypeOK
<1> QED
  BY <1>1, <1>2, <1>3, <1>4 DEF Next

LEMMA CursorStep == TypeOK /\ Cursor /\ [Next]_vars => Cursor'
<1> SUFFICES ASSUME TypeOK, Cursor, [Next]_vars PROVE Cursor'
  OBVIOUS
<1> USE DEF Cursor, Acknowledging, TypeOK, ack, Go, Close
<1>1. ASSUME NEW s \in Sources, Start(s) \/ Poll(s) \/ FinishRun(s) PROVE Cursor'
  BY <1>1 DEF Start, Poll, FinishRun
<1>2. ASSUME NEW s \in Sources, NEW p \in Paths, Recover(s, <<s, p>>) \/ Record(s, <<s, p>>)
      PROVE  Cursor'
  <2>1. cur' = [cur EXCEPT ![s] = <<s, p>>] /\ pc' = [pc EXCEPT ![s] = "decide"]
    BY <1>2 DEF Recover, Record
  <2>2. <<s, p>> \in Files /\ <<s, p>>[1] = s
    BY DEF Files
  <2>3. \A t \in Sources : t # s => cur'[t] = cur[t] /\ pc'[t] = pc[t]
    BY <2>1
  <2>4. cur'[s] = <<s, p>>
    BY <2>1
  <2> QED
    BY <2>2, <2>3, <2>4
<1>3. ASSUME NEW s \in Sources, Acknowledge(s), ~CloseRow(s) PROVE Cursor'
  <2>1. cur' = cur /\ pc[s] \in Acknowledging /\ \A t \in Sources : t # s => pc'[t] = pc[t]
    BY <1>3 DEF Acknowledge, Decide, Open, Rehash, Claim, ClaimFails, Look, Release, Delete, Rename,
                Copy, CheckCopy, Unlink, UnlinkFails, ConsumeFails
  <2> QED
    BY <2>1
<1>4. ASSUME NEW s \in Sources, CloseRow(s) PROVE Cursor'
  BY <1>4 DEF CloseRow
<1>5. ASSUME NEW f \in Files, Reading(f) PROVE Cursor'
  BY <1>5 DEF Reading, ReadFirst, ReadLast, ReadRefused, PipelineFails
<1>6. CASE Outside
  <2>1. ASSUME NEW s \in Sources, Crash(s) PROVE Cursor'
    BY <2>1 DEF Crash
  <2>2. ASSUME NEW f, NEW b, Remove(f) \/ Put(f, b) \/ Disguise(f, b) PROVE Cursor'
    BY <2>2 DEF Remove, Put, Disguise
  <2> QED
    BY <1>6, <2>1, <2>2 DEF Outside
<1>7. CASE UNCHANGED vars
  BY <1>7 DEF vars
<1> QED
  BY <1>1, <1>2, <1>3, <1>4, <1>5, <1>6, <1>7 DEF Next, RunnerStep

LEMMA ChosenStep == TypeOK /\ Chosen /\ [Next]_vars => Chosen'
<1> SUFFICES ASSUME TypeOK, Chosen, [Next]_vars PROVE Chosen'
  OBVIOUS
<1> USE DEF Chosen, TypeOK, ack, Go, Close
<1>1. ASSUME NEW s \in Sources, Start(s) \/ Poll(s) \/ FinishRun(s) PROVE Chosen'
  BY <1>1 DEF Start, Poll, FinishRun
<1>2. ASSUME NEW s \in Sources, NEW f, Recover(s, f) \/ Record(s, f) PROVE Chosen'
  BY <1>2 DEF Recover, Record
<1>3. ASSUME NEW s \in Sources, Decide(s) \/ Open(s) \/ Rehash(s) \/ ClaimFails(s) PROVE Chosen'
  <2>1. dest' = dest /\ pc[s] \in {"decide", "open", "hash", "claim"}
    BY <1>3 DEF Decide, Open, Rehash, ClaimFails
  <2>2. \A t \in Sources : t # s => pc'[t] = pc[t]
    BY <1>3 DEF Decide, Open, Rehash, ClaimFails
  <2>3. CASE Rehash(s)
    BY <2>1, <2>2, <2>3 DEF Rehash
  <2>4. CASE Decide(s)
    BY <2>1, <2>2, <2>4 DEF Decide
  <2>5. CASE Open(s)
    BY <2>1, <2>2, <2>5 DEF Open
  <2>6. CASE ClaimFails(s)
    BY <2>1, <2>2, <2>6 DEF ClaimFails
  <2> QED
    BY <1>3, <2>3, <2>4, <2>5, <2>6
<1>4. ASSUME NEW s \in Sources, Claim(s) PROVE Chosen'
  <2>1. PICK i \in 1 .. Names : dest' = [dest EXCEPT ![s] = i]
    BY <1>4 DEF Claim
  <2> QED
    BY <1>4, <2>1, Setup DEF Claim
<1>5. ASSUME NEW s \in Sources, Look(s) \/ Release(s) \/ Delete(s) \/ Rename(s) PROVE Chosen'
  BY <1>5 DEF Look, Release, Delete, Rename
<1>6. ASSUME NEW s \in Sources, Copy(s) \/ CheckCopy(s) PROVE Chosen'
  BY <1>6 DEF Copy, CheckCopy
<1>7. ASSUME NEW s \in Sources, Unlink(s) \/ UnlinkFails(s) \/ ConsumeFails(s) PROVE Chosen'
  BY <1>7 DEF Unlink, UnlinkFails, ConsumeFails
<1>8. ASSUME NEW s \in Sources, CloseRow(s) PROVE Chosen'
  BY <1>8 DEF CloseRow
<1>9. ASSUME NEW f \in Files, Reading(f) PROVE Chosen'
  BY <1>9 DEF Reading, ReadFirst, ReadLast, ReadRefused, PipelineFails
<1>10. CASE Outside
  <2>1. ASSUME NEW s \in Sources, Crash(s) PROVE Chosen'
    BY <2>1 DEF Crash
  <2>2. ASSUME NEW f, NEW b, Remove(f) \/ Put(f, b) \/ Disguise(f, b) PROVE Chosen'
    BY <2>2 DEF Remove, Put, Disguise
  <2> QED
    BY <1>10, <2>1, <2>2 DEF Outside
<1>11. CASE UNCHANGED vars
  BY <1>11 DEF vars
<1> QED
  BY <1>1, <1>2, <1>3, <1>4, <1>5, <1>6, <1>7, <1>8, <1>9, <1>10, <1>11
  DEF Next, RunnerStep, Acknowledge

Inv == TypeOK /\ Cursor /\ Chosen

LEMMA InitInv == Init => Inv
BY InitType DEF Init, Inv, Cursor, Chosen, Acknowledging

\* Every reachable state satisfies the invariant, and with it the type invariant.
THEOREM TypesHold == Spec => []TypeOK
<1>1. Inv /\ [Next]_vars => Inv'
  BY TypeStep, CursorStep, ChosenStep DEF Inv
<1>2. Inv => TypeOK
  BY DEF Inv
<1> QED
  BY InitInv, <1>1, <1>2, PTL DEF Spec

-----------------------------------------------------------------------------
(* What a source takes out of its folder *)

\* ctimes come from the clock, and a ctime that was seen is a past one.
Times == /\ \A f \in Files : disk[f].ctime <= writes
         /\ \A s \in Sources : seen[s] <= writes

\* From the decision on the store holds what the row says; from the rehash on the file is that,
\* as long as it has the ctime that was seen.
Stored == \A s \in Sources :
            pc[s] \in {"open", "hash", "claim", "look", "destroy", "copied", "unlink"} =>
              row[cur[s]].digest \in stored
Looked == \A s \in Sources :
            pc[s] \in {"claim", "look", "destroy", "copied", "unlink"} /\ disk[cur[s]] # Absent
              /\ disk[cur[s]].ctime = seen[s] => disk[cur[s]].bytes = row[cur[s]].digest

LEMMA TimesStep == Inv /\ Times /\ [Next]_vars => Times'
<1> SUFFICES ASSUME Inv, Times, [Next]_vars PROVE Times'
  OBVIOUS
<1>0. /\ disk \in [Files -> Copies] /\ seen \in [Sources -> Writes]
      /\ writes \in Nat /\ \A s \in Sources : pc[s] \in Acknowledging => cur[s] \in Files
  BY Setup DEF Inv, TypeOK, Copies, Writes, Cursor
<1> USE DEF Times, library, ack, bounds, Go, Close
<1>1. ASSUME NEW s \in Sources, Open(s) PROVE Times'
  BY <1>0, <1>1 DEF Open, Acknowledging
<1>2. ASSUME NEW s \in Sources, Delete(s) \/ Rename(s) \/ Unlink(s) PROVE Times'
  <2>1. disk' = [disk EXCEPT ![cur[s]] = Absent] /\ seen' = seen /\ writes' = writes
    BY <1>2 DEF Delete, Rename, Unlink
  <2> QED
    BY <1>0, <2>1 DEF Absent
<1>3. ASSUME NEW s \in Sources, Crash(s) \/ CloseRow(s) PROVE Times'
  <2>1. seen' = [seen EXCEPT ![s] = 0] /\ disk' = disk /\ writes' = writes
    BY <1>3 DEF Crash, CloseRow
  <2> QED
    BY <1>0, <2>1
<1>4. ASSUME NEW f \in Files, NEW b, Put(f, b) \/ Disguise(f, b) \/ Remove(f) PROVE Times'
  <2>1. writes' = writes + 1 /\ seen' = seen
    BY <1>4 DEF Put, Disguise, Remove, Now
  <2>2. disk'[f].ctime <= writes + 1
    BY <1>0, <1>4 DEF Put, Disguise, Remove, Now, Absent, Copies, Writes
  <2>3. \A g \in Files : g # f => disk'[g] = disk[g]
    BY <1>0, <1>4 DEF Put, Disguise, Remove
  <2>4. \A g \in Files : disk'[g].ctime <= writes + 1
    <3> SUFFICES ASSUME NEW g \in Files PROVE disk'[g].ctime <= writes + 1
      OBVIOUS
    <3>1. disk[g].ctime \in Nat /\ disk[g].ctime <= writes
      BY <1>0, Setup DEF Copies, Writes
    <3> QED
      BY <1>0, <2>2, <2>3, <3>1
  <2> QED
    BY <1>0, <2>1, <2>4, Setup DEF Writes
<1>5. CASE UNCHANGED <<disk, seen, writes>>
  BY <1>5
<1>6. ASSUME NEW s \in Sources, Start(s) \/ Poll(s) \/ FinishRun(s) PROVE Times'
  BY <1>5, <1>6 DEF Start, Poll, FinishRun
<1>7. ASSUME NEW s \in Sources, NEW f, Recover(s, f) \/ Record(s, f) PROVE Times'
  BY <1>5, <1>7 DEF Recover, Record
<1>8. ASSUME NEW s \in Sources, Decide(s) \/ Rehash(s) \/ Claim(s) \/ ClaimFails(s) \/ Look(s) \/ Release(s)
      PROVE  Times'
  BY <1>5, <1>8 DEF Decide, Rehash, Claim, ClaimFails, Look, Release
<1>9. ASSUME NEW s \in Sources, Copy(s) \/ CheckCopy(s) \/ UnlinkFails(s) \/ ConsumeFails(s) PROVE Times'
  BY <1>5, <1>9 DEF Copy, CheckCopy, UnlinkFails, ConsumeFails
<1>10. ASSUME NEW f \in Files, Reading(f) PROVE Times'
  BY <1>5, <1>10 DEF Reading, ReadFirst, ReadLast, ReadRefused, PipelineFails
<1>11. CASE UNCHANGED vars
  BY <1>5, <1>11 DEF vars
<1> QED
  BY <1>1, <1>2, <1>3, <1>4, <1>6, <1>7, <1>8, <1>9, <1>10, <1>11
  DEF Next, RunnerStep, Acknowledge, Outside

LEMMA StoredStep == Inv /\ Stored /\ [Next]_vars => Stored'
<1> SUFFICES ASSUME Inv, Stored, [Next]_vars PROVE Stored'
  OBVIOUS
<1>0. /\ pc \in [Sources -> Steps] /\ row \in [Files -> Rows] /\ cur \in [Sources -> Files \cup {None}]
      /\ \A s \in Sources : pc[s] \in Acknowledging => cur[s] \in Files /\ cur[s][1] = s
  BY DEF Inv, TypeOK, Cursor, Rows, Writes
<1> USE DEF Stored, library, ack, bounds, Go, Close
<1>1. ASSUME NEW s \in Sources, Decide(s) PROVE Stored'
  BY <1>0, <1>1 DEF Decide
<1>2. ASSUME NEW s \in Sources, Open(s) \/ Rehash(s) \/ Claim(s) \/ ClaimFails(s) PROVE Stored'
  <2>1. row' = row /\ stored' = stored /\ cur' = cur /\ pc[s] \in {"open", "hash", "claim"}
        /\ \A t \in Sources : t # s => pc'[t] = pc[t]
    <3>1. CASE Open(s) \/ Claim(s) \/ ClaimFails(s)
      BY <1>0, <3>1 DEF Open, Claim, ClaimFails
    <3>2. CASE Rehash(s)
      BY <1>0, <3>2 DEF Rehash
    <3> QED
      BY <1>2, <3>1, <3>2
  <2> QED
    BY <1>0, <2>1
<1>3. ASSUME NEW s \in Sources, Look(s) \/ Delete(s) \/ Rename(s) \/ Copy(s) \/ CheckCopy(s) PROVE Stored'
  <2>1. row' = row /\ stored' = stored /\ cur' = cur /\ pc[s] \in {"look", "destroy", "copied"}
        /\ \A t \in Sources : t # s => pc'[t] = pc[t]
    BY <1>0, <1>3 DEF Look, Delete, Rename, Copy, CheckCopy
  <2> QED
    BY <1>0, <2>1
<1>4. ASSUME NEW s \in Sources, Release(s) \/ Unlink(s) \/ UnlinkFails(s) \/ ConsumeFails(s) PROVE Stored'
  <2>1. row' = row /\ stored' = stored /\ cur' = cur /\ pc'[s] \in {"close", "release"}
        /\ \A t \in Sources : t # s => pc'[t] = pc[t]
    BY <1>0, <1>4 DEF Release, Unlink, UnlinkFails, ConsumeFails
  <2> QED
    BY <1>0, <2>1
<1>5. ASSUME NEW s \in Sources, CloseRow(s) PROVE Stored'
  <2>1. pc'[s] \in {"idle", "next"} /\ \A t \in Sources : t # s => pc'[t] = pc[t] /\ cur'[t] = cur[t]
    BY <1>0, <1>5 DEF CloseRow
  <2>2. stored' = stored /\ pc[s] = "close"
    BY <1>5 DEF CloseRow
  <2>3. \A t \in Sources : t # s /\ cur[t] \in Files /\ cur[t][1] = t => row'[cur[t]] = row[cur[t]]
    BY <1>0, <1>5 DEF CloseRow, Acknowledging
  <2> QED
    BY <1>0, <2>1, <2>2, <2>3 DEF Acknowledging
<1>6. ASSUME NEW s \in Sources, NEW p \in Paths, Record(s, <<s, p>>) PROVE Stored'
  <2>1. pc'[s] = "decide" /\ \A t \in Sources : t # s => pc'[t] = pc[t] /\ cur'[t] = cur[t]
    BY <1>0, <1>6 DEF Record
  <2>2. stored' = stored /\ \A g \in Files : g # <<s, p>> => row'[g] = row[g]
    BY <1>0, <1>6 DEF Record
  <2> QED
    BY <1>0, <2>1, <2>2 DEF Acknowledging
<1>7. ASSUME NEW s \in Sources, NEW p \in Paths, Recover(s, <<s, p>>) PROVE Stored'
  BY <1>0, <1>7 DEF Recover
<1>8. ASSUME NEW s \in Sources, Start(s) \/ Poll(s) \/ FinishRun(s) \/ Crash(s) PROVE Stored'
  <2>1. pc'[s] \in {"idle", "run", "next", "off"}
        /\ \A t \in Sources : t # s => pc'[t] = pc[t] /\ cur'[t] = cur[t]
    BY <1>0, <1>8 DEF Start, Poll, FinishRun, Crash
  <2>2. row' = row /\ stored' = stored
    BY <1>8 DEF Start, Poll, FinishRun, Crash
  <2> QED
    BY <1>0, <2>1, <2>2
<1>9. ASSUME NEW f \in Files, Reading(f) PROVE Stored'
  <2>1. row' = row /\ cur' = cur /\ pc' = pc /\ stored \subseteq stored'
    BY <1>9 DEF Reading, ReadFirst, ReadLast, ReadRefused, PipelineFails
  <2> QED
    BY <1>0, <2>1
<1>10. ASSUME NEW f, NEW b, Put(f, b) \/ Disguise(f, b) \/ Remove(f) PROVE Stored'
  BY <1>10 DEF Put, Disguise, Remove
<1>11. CASE UNCHANGED vars
  BY <1>11 DEF vars
<1> QED
  BY <1>1, <1>2, <1>3, <1>4, <1>5, <1>6, <1>7, <1>8, <1>9, <1>10, <1>11
  DEF Next, RunnerStep, Acknowledge, Outside

LEMMA LookedStep == Inv /\ Times /\ Looked /\ [Next]_vars => Looked'
<1> SUFFICES ASSUME Inv, Times, Looked, [Next]_vars PROVE Looked'
  OBVIOUS
<1>0. /\ pc \in [Sources -> Steps] /\ row \in [Files -> Rows] /\ cur \in [Sources -> Files \cup {None}]
      /\ disk \in [Files -> Copies] /\ seen \in [Sources -> Writes]
      /\ \A s \in Sources : pc[s] \in Acknowledging => cur[s] \in Files /\ cur[s][1] = s
  BY DEF Inv, TypeOK, Cursor, Rows, Writes, Copies
<1> USE DEF Looked, library, ack, bounds, Go, Close
<1>1. ASSUME NEW s \in Sources, Decide(s) \/ Open(s) PROVE Looked'
  <2>1. row' = row /\ disk' = disk /\ cur' = cur /\ pc'[s] \in {"open", "hash", "close"}
    BY <1>0, <1>1 DEF Decide, Open
  <2>2. \A t \in Sources : t # s => pc'[t] = pc[t] /\ seen'[t] = seen[t]
    BY <1>0, <1>1 DEF Decide, Open
  <2> QED
    BY <1>0, <2>1, <2>2
<1>2. ASSUME NEW s \in Sources, Rehash(s) PROVE Looked'
  <2>1. row' = row /\ disk' = disk /\ cur' = cur /\ seen' = seen
        /\ \A t \in Sources : t # s => pc'[t] = pc[t]
    BY <1>0, <1>2 DEF Rehash
  <2>2. pc'[s] = "close" \/ disk[cur[s]].bytes = row[cur[s]].digest
    BY <1>0, <1>2 DEF Rehash
  <2> QED
    BY <1>0, <2>1, <2>2
<1>3. ASSUME NEW s \in Sources, Claim(s) \/ ClaimFails(s) \/ Look(s) \/ Copy(s) \/ CheckCopy(s)
      PROVE  Looked'
  <2>1. row' = row /\ disk' = disk /\ cur' = cur /\ seen' = seen
        /\ pc[s] \in {"claim", "look", "destroy", "copied"}
        /\ \A t \in Sources : t # s => pc'[t] = pc[t]
    BY <1>0, <1>3 DEF Claim, ClaimFails, Look, Copy, CheckCopy
  <2> QED
    BY <1>0, <2>1
<1>4. ASSUME NEW s \in Sources, Release(s) \/ UnlinkFails(s) \/ ConsumeFails(s) PROVE Looked'
  <2>1. row' = row /\ disk' = disk /\ cur' = cur /\ seen' = seen /\ pc'[s] \in {"close", "release"}
        /\ \A t \in Sources : t # s => pc'[t] = pc[t]
    BY <1>0, <1>4 DEF Release, UnlinkFails, ConsumeFails
  <2> QED
    BY <1>0, <2>1
<1>5. ASSUME NEW s \in Sources, Delete(s) \/ Rename(s) \/ Unlink(s) PROVE Looked'
  <2>1. /\ row' = row /\ cur' = cur /\ seen' = seen /\ pc'[s] = "close"
        /\ \A t \in Sources : t # s => pc'[t] = pc[t]
        /\ \A g \in Files : g # cur[s] => disk'[g] = disk[g]
        /\ pc[s] \in Acknowledging
    BY <1>0, <1>5 DEF Delete, Rename, Unlink, Acknowledging
  <2>2. \A t \in Sources : t # s /\ pc[t] \in Acknowledging => cur[t] \in Files /\ cur[t] # cur[s]
    BY <1>0, <2>1
  <2> QED
    BY <1>0, <2>1, <2>2 DEF Acknowledging
<1>6. ASSUME NEW s \in Sources, CloseRow(s) PROVE Looked'
  <2>1. /\ pc'[s] \in {"idle", "next"} /\ disk' = disk /\ pc[s] = "close"
        /\ \A t \in Sources : t # s => pc'[t] = pc[t] /\ cur'[t] = cur[t] /\ seen'[t] = seen[t]
    BY <1>0, <1>6 DEF CloseRow
  <2>2. \A t \in Sources : t # s /\ cur[t] \in Files /\ cur[t][1] = t => row'[cur[t]] = row[cur[t]]
    BY <1>0, <1>6, <2>1 DEF CloseRow, Acknowledging
  <2> QED
    BY <1>0, <2>1, <2>2 DEF Acknowledging
<1>7. ASSUME NEW s \in Sources, NEW p \in Paths, Recover(s, <<s, p>>) \/ Record(s, <<s, p>>) PROVE Looked'
  <2>1. /\ pc'[s] = "decide" /\ disk' = disk /\ seen' = seen
        /\ \A t \in Sources : t # s => pc'[t] = pc[t] /\ cur'[t] = cur[t]
    BY <1>0, <1>7 DEF Recover, Record
  <2>2. \A g \in Files : g # <<s, p>> => row'[g] = row[g]
    BY <1>0, <1>7 DEF Recover, Record
  <2> QED
    BY <1>0, <2>1, <2>2 DEF Acknowledging
<1>8. ASSUME NEW s \in Sources, Start(s) \/ Poll(s) \/ FinishRun(s) \/ Crash(s) PROVE Looked'
  <2>1. /\ pc'[s] \in {"idle", "run", "next", "off"} /\ row' = row /\ disk' = disk
        /\ \A t \in Sources : t # s => pc'[t] = pc[t] /\ cur'[t] = cur[t] /\ seen'[t] = seen[t]
    BY <1>0, <1>8 DEF Start, Poll, FinishRun, Crash
  <2> QED
    BY <1>0, <2>1
<1>9. ASSUME NEW f \in Files, Reading(f) PROVE Looked'
  BY <1>9 DEF Reading, ReadFirst, ReadLast, ReadRefused, PipelineFails
<1>10. ASSUME NEW f \in Files, NEW b, Put(f, b) \/ Disguise(f, b) \/ Remove(f) PROVE Looked'
  <2>1. /\ row' = row /\ pc' = pc /\ cur' = cur /\ seen' = seen
        /\ \A g \in Files : g # f => disk'[g] = disk[g]
        /\ disk'[f] = Absent \/ disk'[f].ctime = writes + 1
    BY <1>0, <1>10 DEF Put, Disguise, Remove, Now, Copies
  <2>2. \A s \in Sources : seen[s] # writes + 1
    BY <1>0, Setup DEF Times, Writes, Inv, TypeOK
  <2> QED
    BY <1>0, <2>1, <2>2 DEF Acknowledging
<1>11. CASE UNCHANGED vars
  BY <1>11 DEF vars
<1> QED
  BY <1>1, <1>2, <1>3, <1>4, <1>5, <1>6, <1>7, <1>8, <1>9, <1>10, <1>11
  DEF Next, RunnerStep, Acknowledge, Outside

Sound == Inv /\ Times /\ Stored /\ Looked

LEMMA SoundHolds == Spec => []Sound
<1>1. Init => Sound
  <2>1. Init => Times
    BY Setup DEF Init, Times, Absent
  <2>2. Init => Stored /\ Looked
    BY DEF Init, Stored, Looked
  <2> QED
    BY <2>1, <2>2, InitInv DEF Sound
<1>2. Sound /\ [Next]_vars => Sound'
  BY TypeStep, CursorStep, ChosenStep, TimesStep, StoredStep, LookedStep DEF Sound, Inv
<1> QED
  BY <1>1, <1>2, PTL DEF Spec

LEMMA ConsumedIsLooked ==
  ASSUME Sound, [Next]_vars, NEW f \in Files, Consumed(f)
  PROVE  disk[f].bytes \in stored \/ disk[f].ctime # seen[f[1]]
<1>0. /\ pc \in [Sources -> Steps] /\ disk \in [Files -> Copies]
      /\ \A s \in Sources : pc[s] \in Acknowledging => cur[s] \in Files /\ cur[s][1] = s
  BY DEF Sound, Inv, TypeOK, Cursor, Writes, Copies
<1>1. f[1] \in Sources
  BY DEF Files
<1>2. disk # disk' /\ pc # pc' /\ disk[f] # Absent /\ disk'[f] = Absent
  BY DEF Consumed
<1> USE DEF library, ack, bounds, Go, Close
<1>3. ASSUME NEW s \in Sources, Delete(s) \/ Rename(s) \/ Unlink(s)
      PROVE  disk[f].bytes \in stored \/ disk[f].ctime # seen[f[1]]
  <2>1. pc[s] \in {"destroy", "unlink"} /\ \A g \in Files : g # cur[s] => disk'[g] = disk[g]
    BY <1>0, <1>3 DEF Delete, Rename, Unlink
  <2>2. f = cur[s] /\ f[1] = s
    BY <1>0, <1>2, <2>1 DEF Acknowledging
  <2> QED
    BY <1>2, <2>1, <2>2 DEF Sound, Stored, Looked
<1>4. ASSUME NEW s \in Sources, Open(s) \/ Rehash(s) \/ Claim(s) \/ ClaimFails(s) \/ Look(s) PROVE FALSE
  BY <1>2, <1>4 DEF Open, Rehash, Claim, ClaimFails, Look
<1>5. ASSUME NEW s \in Sources, Decide(s) \/ Release(s) \/ Copy(s) \/ CheckCopy(s) \/ CloseRow(s) PROVE FALSE
  BY <1>2, <1>5 DEF Decide, Release, Copy, CheckCopy, CloseRow
<1>6. ASSUME NEW s \in Sources, UnlinkFails(s) \/ ConsumeFails(s) \/ Start(s) \/ Poll(s) \/ FinishRun(s)
      PROVE  FALSE
  BY <1>2, <1>6 DEF UnlinkFails, ConsumeFails, Start, Poll, FinishRun
<1>7. ASSUME NEW s, NEW g, Recover(s, g) \/ Record(s, g) \/ Crash(s) PROVE FALSE
  BY <1>2, <1>7 DEF Recover, Record, Crash
<1>8. ASSUME NEW g, Reading(g) PROVE FALSE
  BY <1>2, <1>8 DEF Reading, ReadFirst, ReadLast, ReadRefused, PipelineFails
<1>9. ASSUME NEW g, NEW b, Put(g, b) \/ Disguise(g, b) \/ Remove(g) PROVE FALSE
  BY <1>2, <1>9 DEF Put, Disguise, Remove
<1>10. CASE UNCHANGED vars
  BY <1>2, <1>10 DEF vars
<1> QED
  BY <1>3, <1>4, <1>5, <1>6, <1>7, <1>8, <1>9, <1>10 DEF Next, RunnerStep, Acknowledge, Outside

\* What a source moves or deletes is in the store, or was written in the gap between the last
\* look and the call that removes it: folder/source.ts's consume, for every number of sources.
THEOREM LostHolds == Spec => LostOnlyInTheGap
<1>1. Sound /\ [Next]_vars => [\A f \in Files : Consumed(f) =>
                                  \/ disk[f].bytes \in stored
                                  \/ disk[f].ctime # seen[f[1]]]_vars
  BY ConsumedIsLooked
<1> QED
  BY <1>1, SoundHolds, PTL DEF Spec, LostOnlyInTheGap

-----------------------------------------------------------------------------
(* What is in the processed directory *)

\* A source that holds a claim: a move between Claim and the call that uses or returns it.
Holds(s) == pc[s] \in {"look", "destroy", "release"} /\ policy[s] # "delete"

Held == \A s \in Sources : Holds(s) =>
          /\ dest[s] \in 1 .. Names
          /\ archived[cur[s][2]][dest[s]].held = "claim"
Apart == \A s, t \in Sources : s # t /\ Holds(s) /\ Holds(t) /\ cur[s][2] = cur[t][2] =>
           dest[s] # dest[t]

Places == [held : {"free", "claim", "copy", "kept"}, bytes : Digests]

LEMMA NoCopies == ASSUME "copy" \notin Policies, Inv, NEW s \in Sources
                  PROVE  pc[s] \notin {"copied", "unlink"} /\ policy[s] # "copy"
BY DEF Inv, TypeOK, Chosen

LEMMA HeldStep ==
  ASSUME "copy" \notin Policies, Inv, Held, Apart, [Next]_vars
  PROVE  Held' /\ Apart' /\ \A p \in Paths : \A i \in 1 .. Names :
           archived[p][i].held = "kept" => archived'[p][i] = archived[p][i]
<1> DEFINE Kept == \A p \in Paths : \A i \in 1 .. Names :
                     archived[p][i].held = "kept" => archived'[p][i] = archived[p][i]
<1> SUFFICES Held' /\ Apart' /\ Kept
  OBVIOUS
<1>0. /\ pc \in [Sources -> Steps] /\ cur \in [Sources -> Files \cup {None}]
      /\ dest \in [Sources -> 0 .. Names] /\ archived \in [Paths -> [1 .. Names -> Places]]
      /\ \A s \in Sources : pc[s] \in Acknowledging => cur[s] \in Files /\ cur[s][2] \in Paths
      /\ \A s \in Sources : Holds(s) => pc[s] \in Acknowledging
  BY DEF Inv, TypeOK, Cursor, Files, Places, Holds, Acknowledging
<1> USE DEF Held, Apart, library, ack, bounds, Go, Close
<1>1. ASSUME UNCHANGED <<archived, policy>>, NEW s \in Sources, ~Holds(s)', 
             \A t \in Sources : t # s => pc'[t] = pc[t] /\ cur'[t] = cur[t] /\ dest'[t] = dest[t]
      PROVE  Held' /\ Apart' /\ Kept
  <2>1. \A t \in Sources : Holds(t)' => t # s /\ Holds(t)
    BY <1>1 DEF Holds
  <2> QED
    BY <1>1, <2>1
<1>2. ASSUME UNCHANGED <<archived, policy, cur, dest>>, \A s \in Sources : Holds(s)' => Holds(s)
      PROVE  Held' /\ Apart' /\ Kept
  BY <1>2
<1>3. ASSUME NEW s \in Sources, Claim(s) PROVE Held' /\ Apart' /\ Kept
  <2> DEFINE q == cur[s][2]
             c == [Free EXCEPT !.held = "claim"]
  <2>0. c \in Places /\ c.held = "claim" /\ Free.held = "free"
    BY Setup DEF Free, Places, Digests
  <2> HIDE DEF c
  <2>1. PICK i \in 1 .. Names \ Taken(s) :
          /\ dest' = [dest EXCEPT ![s] = i]
          /\ archived' = [archived EXCEPT ![q][i] = c]
    BY <1>3 DEF Claim, c
  <2>2. i \in 1 .. Names /\ q \in Paths /\ archived[q][i] = Free /\ pc[s] = "claim"
    BY <1>0, <1>3, <2>1 DEF Claim, Taken, Acknowledging
  <2>3. archived'[q][i].held = "claim" /\ archived[q][i].held = "free"
    BY <1>0, <2>0, <2>1, <2>2
  <2>4. \A p \in Paths : \A j \in 1 .. Names : p # q \/ j # i => archived'[p][j] = archived[p][j]
    BY <1>0, <2>1, <2>2
  <2>5. cur' = cur /\ policy' = policy /\ dest'[s] = i
        /\ \A t \in Sources : t # s => pc'[t] = pc[t] /\ dest'[t] = dest[t]
    BY <1>0, <1>3, <2>1 DEF Claim
  <2>6. \A t \in Sources : t # s /\ Holds(t)' => Holds(t)
    BY <2>5 DEF Holds
  <2>7. \A t \in Sources : t # s /\ Holds(t) => cur[t][2] # q \/ dest[t] # i
    BY <2>3
  <2>8. Kept
    BY <2>3, <2>4
  <2>9. Held'
    <3> SUFFICES ASSUME NEW t \in Sources, Holds(t)'
                 PROVE  dest'[t] \in 1 .. Names /\ archived'[cur'[t][2]][dest'[t]].held = "claim"
      OBVIOUS
    <3>1. CASE t = s
      BY <2>2, <2>3, <2>5, <3>1
    <3>2. CASE t # s
      BY <1>0, <2>4, <2>5, <2>6, <2>7, <3>2
    <3> QED
      BY <3>1, <3>2
  <2> QED
    BY <2>5, <2>6, <2>7, <2>8, <2>9
<1>4. ASSUME NEW s \in Sources, NEW what \in Places, Place(s, what), Holds(s), ~Holds(s)',
             UNCHANGED <<policy, cur, dest>>, \A t \in Sources : t # s => pc'[t] = pc[t]
      PROVE  Held' /\ Apart' /\ Kept
  <2>1. cur[s][2] \in Paths /\ dest[s] \in 1 .. Names /\ archived[cur[s][2]][dest[s]].held = "claim"
    BY <1>0, <1>4
  <2>2. \A p \in Paths : \A j \in 1 .. Names :
          p # cur[s][2] \/ j # dest[s] => archived'[p][j] = archived[p][j]
    BY <1>0, <1>4, <2>1 DEF Place
  <2>3. \A t \in Sources : Holds(t)' => t # s /\ Holds(t)
    BY <1>4 DEF Holds
  <2>4. Kept
    BY <2>1, <2>2
  <2>5. Held'
    BY <1>0, <1>4, <2>2, <2>3
  <2> QED
    BY <1>4, <2>3, <2>4, <2>5
<1>5. ASSUME NEW s \in Sources, Rename(s) PROVE Held' /\ Apart' /\ Kept
  <2>1. [held |-> "kept", bytes |-> disk[cur[s]].bytes] \in Places
    BY <1>0, <1>5 DEF Inv, TypeOK, Rename, Places, Acknowledging
  <2>2. Holds(s) /\ ~Holds(s)'
    BY <1>0, <1>5 DEF Rename, Holds
  <2> QED
    BY <1>0, <1>4, <1>5, <2>1, <2>2 DEF Rename
<1>6. ASSUME NEW s \in Sources, Release(s), Holds(s) PROVE Held' /\ Apart' /\ Kept
  <2>1. Free \in Places
    BY Setup DEF Free, Places, Digests
  <2>2. ~Holds(s)'
    BY <1>0, <1>6 DEF Release, Holds
  <2> QED
    BY <1>0, <1>4, <1>6, <2>1, <2>2 DEF Release
<1>7. ASSUME NEW s \in Sources, Release(s) PROVE Holds(s)
  BY <1>7 DEF Release, Holds, Inv, Chosen
<1>8. ASSUME NEW s \in Sources, Decide(s) \/ Open(s) \/ Rehash(s) \/ ClaimFails(s) PROVE Held' /\ Apart' /\ Kept
  <2>1. ~Holds(s)' /\ UNCHANGED <<archived, policy, cur, dest>> /\ \A t \in Sources : t # s => pc'[t] = pc[t]
    <3>1. CASE Decide(s) \/ Open(s) \/ ClaimFails(s)
      BY <1>0, <3>1 DEF Decide, Open, ClaimFails, Holds
    <3>2. CASE Rehash(s)
      BY <1>0, <3>2 DEF Rehash, Holds
    <3> QED
      BY <1>8, <3>1, <3>2
  <2> QED
    BY <1>1, <2>1
<1>9. ASSUME NEW s \in Sources, Look(s) \/ ConsumeFails(s) PROVE Held' /\ Apart' /\ Kept
  <2>1. pc[s] \in {"look", "destroy"} /\ UNCHANGED <<archived, policy, cur, dest>>
        /\ \A t \in Sources : t # s => pc'[t] = pc[t]
    BY <1>0, <1>9, NoCopies DEF Look, ConsumeFails
  <2>2. \A t \in Sources : Holds(t)' => Holds(t)
    BY <2>1 DEF Holds
  <2> QED
    BY <1>2, <2>1, <2>2
<1>10. ASSUME NEW s \in Sources, Delete(s) PROVE Held' /\ Apart' /\ Kept
  <2>1. ~Holds(s)' /\ UNCHANGED <<archived, policy, cur, dest>> /\ \A t \in Sources : t # s => pc'[t] = pc[t]
    BY <1>0, <1>10 DEF Delete, Holds
  <2> QED
    BY <1>1, <2>1
<1>11. ASSUME NEW s \in Sources, Copy(s) \/ CheckCopy(s) \/ Unlink(s) \/ UnlinkFails(s) PROVE FALSE
  BY <1>11, NoCopies DEF Copy, CheckCopy, Unlink, UnlinkFails
<1>12. ASSUME NEW s \in Sources, CloseRow(s) \/ Start(s) \/ Poll(s) \/ FinishRun(s) \/ Crash(s)
       PROVE  Held' /\ Apart' /\ Kept
  <2>1. pc'[s] \in {"idle", "run", "next", "off"} /\ UNCHANGED <<archived, policy>>
        /\ \A t \in Sources : t # s => pc'[t] = pc[t] /\ cur'[t] = cur[t] /\ dest'[t] = dest[t]
    BY <1>0, <1>12 DEF CloseRow, Start, Poll, FinishRun, Crash
  <2> QED
    BY <1>1, <2>1 DEF Holds
<1>13. ASSUME NEW s \in Sources, NEW p \in Paths, Recover(s, <<s, p>>) \/ Record(s, <<s, p>>)
       PROVE  Held' /\ Apart' /\ Kept
  <2>1. pc'[s] = "decide" /\ UNCHANGED <<archived, policy>>
        /\ \A t \in Sources : t # s => pc'[t] = pc[t] /\ cur'[t] = cur[t] /\ dest'[t] = dest[t]
    BY <1>0, <1>13 DEF Recover, Record
  <2> QED
    BY <1>1, <2>1 DEF Holds
<1>14. CASE UNCHANGED <<archived, policy, cur, dest, pc>>
  BY <1>2, <1>14 DEF Holds
<1>15. ASSUME NEW f, Reading(f) PROVE Held' /\ Apart' /\ Kept
  BY <1>14, <1>15 DEF Reading, ReadFirst, ReadLast, ReadRefused, PipelineFails
<1>16. ASSUME NEW f, NEW b, Put(f, b) \/ Disguise(f, b) \/ Remove(f) PROVE Held' /\ Apart' /\ Kept
  BY <1>14, <1>16 DEF Put, Disguise, Remove
<1>17. CASE UNCHANGED vars
  BY <1>14, <1>17 DEF vars
<1> QED
  BY <1>3, <1>5, <1>6, <1>7, <1>8, <1>9, <1>10, <1>11, <1>12, <1>13, <1>15, <1>16, <1>17
  DEF Next, RunnerStep, Acknowledge, Outside

\* With moves inside one filesystem nobody overwrites or removes an archived original, whatever
\* the number of sources that move into the directory: the names are held before they are used.
\* A move to another mount is left out, and rightly: the copy that differs is removed twice.
THEOREM ArchivedHolds == ASSUME "copy" \notin Policies PROVE Spec => ArchivedStays
<1>1. Init => Inv /\ Held /\ Apart
  BY InitInv DEF Init, Held, Apart, Holds
<1>2. Inv /\ Held /\ Apart /\ [Next]_vars => (Inv /\ Held /\ Apart)'
  BY TypeStep, CursorStep, ChosenStep, HeldStep DEF Inv
<1>3. Inv /\ Held /\ Apart /\ [Next]_vars =>
        [\A p \in Paths : \A i \in 1 .. Names :
           archived[p][i].held = "kept" => archived'[p][i] = archived[p][i]]_vars
  BY HeldStep
<1> QED
  BY <1>1, <1>2, <1>3, PTL DEF Spec, ArchivedStays

-----------------------------------------------------------------------------
(* What the rows say was filed *)

\* Nothing bears a revision that is still to come, and every file bears one.
Dated == \A f \in Files :
  /\ {disk[f].rev, work[f].rev, journal[f].rev, row[f].rev} \subseteq 0 .. writes
  /\ disk[f] # Absent => disk[f].rev # 0

\* While the file is at the revision rev, undisguised, its bytes are those of the digest.
IsFile(f, rev, digest) ==
  disk[f] # Absent /\ disk[f].rev = rev /\ disk[f].ctime = rev => disk[f].bytes = digest

\* What has been read is the file, and a file that was not disguised has the ctime of the read.
WhatWasRead ==
  \A f \in Files :
    /\ work[f].at = "reading" =>
         /\ IsFile(f, work[f].rev, work[f].digest)
         /\ disk[f] # Absent /\ disk[f].rev = work[f].rev /\ disk[f].ctime = work[f].rev =>
              work[f].ctime = work[f].rev
    /\ work[f].at = "answered" /\ ~work[f].failed => IsFile(f, work[f].rev, work[f].digest)

\* What a resumed run takes over, and what the rows say, is the file too.
WhatWasFiled ==
  \A f \in Files :
    /\ journal[f].at \in {"none", "answered"}
    /\ ~journal[f].failed => IsFile(f, journal[f].rev, journal[f].digest)
    /\ ~row[f].failed => IsFile(f, row[f].rev, row[f].digest)

\* A candidate is read during the run only.
ReadInRun == \A f \in Files : pc[f[1]] # "run" => work[f].at \in {"none", "answered"}

FiledInv == Dated /\ WhatWasRead /\ WhatWasFiled /\ ReadInRun

\* A file is as it was, or gone, or bears the time of this step.
LEMMA FileSteps ==
  ASSUME Inv, [Next]_vars
  PROVE  /\ writes' \in {writes, writes + 1}
         /\ \A f \in Files : disk'[f] # disk[f] =>
              \/ disk'[f] = Absent
              \/ /\ writes' = writes + 1 /\ disk'[f].ctime = writes + 1
                 /\ \/ disk'[f].rev = writes + 1
                    \/ disk[f] # Absent /\ disk'[f].rev = disk[f].rev
<1> DEFINE Goal == /\ writes' \in {writes, writes + 1}
                   /\ \A f \in Files : disk'[f] # disk[f] =>
                        \/ disk'[f] = Absent
                        \/ /\ writes' = writes + 1 /\ disk'[f].ctime = writes + 1
                           /\ \/ disk'[f].rev = writes + 1
                              \/ disk[f] # Absent /\ disk'[f].rev = disk[f].rev
<1>0. disk \in [Files -> Copies]
  BY DEF Inv, TypeOK, Copies, Writes
<1>1. ASSUME UNCHANGED <<disk, writes>> PROVE Goal
  BY <1>1
<1>2. ASSUME NEW s \in Sources, Delete(s) \/ Rename(s) \/ Unlink(s) PROVE Goal
  BY <1>0, <1>2 DEF Delete, Rename, Unlink, bounds
<1>3. ASSUME NEW f \in Files, NEW b, Put(f, b) \/ Disguise(f, b) \/ Remove(f) PROVE Goal
  <2>1. writes' = writes + 1 /\ \A g \in Files : g # f => disk'[g] = disk[g]
    BY <1>0, <1>3 DEF Put, Disguise, Remove, Now
  <2>2. CASE Put(f, b)
    BY <1>0, <2>1, <2>2 DEF Put, Now
  <2>3. CASE Disguise(f, b)
    <3>1. disk'[f].rev = disk[f].rev /\ disk'[f].ctime = writes + 1 /\ disk[f] # Absent
      BY <1>0, <2>3 DEF Disguise, Now, Copies
    <3> QED
      BY <2>1, <3>1
  <2>4. CASE Remove(f)
    BY <1>0, <2>1, <2>4 DEF Remove
  <2> QED
    BY <1>3, <2>2, <2>3, <2>4
<1> HIDE DEF Goal
<1>4. ASSUME NEW s, NEW f, \/ Start(s) \/ Poll(s) \/ FinishRun(s) \/ Crash(s)
                           \/ Recover(s, f) \/ Record(s, f) \/ Reading(f)
      PROVE  UNCHANGED <<disk, writes>>
  BY <1>4 DEF Start, Poll, FinishRun, Crash, Recover, Record, Reading, ReadFirst, ReadLast,
              ReadRefused, PipelineFails, bounds
<1>5. ASSUME NEW s, Acknowledge(s), ~Delete(s), ~Rename(s), ~Unlink(s)
      PROVE  UNCHANGED <<disk, writes>>
  BY <1>5 DEF Acknowledge, Decide, Open, Rehash, Claim, ClaimFails, Look, Release, Copy, CheckCopy,
              UnlinkFails, ConsumeFails, CloseRow, bounds
<1>6. ASSUME UNCHANGED vars PROVE Goal
  BY <1>1, <1>6 DEF vars, bounds
<1>7. ASSUME NEW s \in Sources, RunnerStep(s) PROVE Goal
  BY <1>1, <1>2, <1>4, <1>5, <1>7 DEF RunnerStep
<1>8. ASSUME NEW f \in Files, Reading(f) PROVE Goal
  BY <1>1, <1>4, <1>8
<1>9. ASSUME Outside PROVE Goal
  BY <1>1, <1>3, <1>4, <1>9 DEF Outside
<1>10. Goal
  BY <1>6, <1>7, <1>8, <1>9 DEF Next
<1> QED
  BY <1>10 DEF Goal

\* So what is at a revision of before, undisguised, is the file of before.
LEMMA SameFile ==
  ASSUME Inv, Dated, [Next]_vars, NEW f \in Files, NEW r \in 0 .. writes,
         disk'[f] # Absent, disk'[f].rev = r, disk'[f].ctime = r
  PROVE  disk'[f] = disk[f]
BY FileSteps, Setup DEF Inv, TypeOK

LEMMA FileStays ==
  ASSUME Inv, Dated, [Next]_vars, NEW f \in Files, NEW r \in 0 .. writes, NEW d, IsFile(f, r, d)
  PROVE  IsFile(f, r, d)'
BY SameFile DEF IsFile

\* What a step makes of the candidate f, of the answer kept for a resumed run and of the row.
Work(f) ==
  \/ work'[f] \in {work[f], NoAnswer, journal[f], Offer(f)}
  \/ /\ work'[f].rev = work[f].rev /\ disk[f].rev = work[f].rev
     /\ \/ /\ work[f].at = "offered" /\ work'[f].at = "reading"
           /\ work'[f].ctime = disk[f].ctime /\ work'[f].digest = disk[f].bytes
        \/ /\ work[f].at = "reading" /\ work'[f].at = "answered"
           /\ disk[f].ctime = work[f].ctime => work'[f].digest = disk[f].bytes
  \/ work'[f].rev = work[f].rev /\ work'[f].at = "answered" /\ work'[f].failed

Journal(f) == \/ journal'[f] \in {journal[f], NoAnswer}
              \/ journal'[f] = work'[f] /\ work'[f].at = "answered" /\ ~work'[f].failed

Row(f) == \/ /\ row'[f].rev = row[f].rev /\ row'[f].digest = row[f].digest
             /\ row'[f].failed = row[f].failed
          \/ /\ work[f].at = "answered"
             /\ row'[f].rev = work[f].rev /\ row'[f].digest = work[f].digest
             /\ row'[f].failed = work[f].failed

Runs(f) == pc'[f[1]] # "run" => \/ work'[f].at \in {"none", "answered"}
                                \/ pc[f[1]] # "run" /\ work'[f] = work[f]

\* What each step does to them.
LEMMA FiledSteps ==
  ASSUME Inv, ReadInRun, [Next]_vars, NEW f \in Files
  PROVE  Work(f) /\ Journal(f) /\ Row(f) /\ Runs(f)
<1> DEFINE Goal == Work(f) /\ Journal(f) /\ Row(f) /\ Runs(f)
<1>0. /\ work \in [Files -> Answers] /\ journal \in [Files -> Answers] /\ row \in [Files -> Rows]
      /\ pc \in [Sources -> Steps] /\ f[1] \in Sources
      /\ disk \in [Files -> Copies]
  BY DEF Inv, TypeOK, Rows, Writes, Copies, Files
<1>1. ASSUME UNCHANGED <<work, journal, row>>, \A s \in Sources : pc[s] = "run" => pc'[s] = "run"
      PROVE  Goal
  BY <1>0, <1>1 DEF Work, Journal, Row, Runs
<1>2. ASSUME NEW s \in Sources, Acknowledge(s), ~CloseRow(s) PROVE Goal
  <2>1. UNCHANGED <<work, journal, row>> /\ pc[s] # "run" /\ \A t \in Sources : t # s => pc'[t] = pc[t]
    BY <1>0, <1>2 DEF Acknowledge, Decide, Open, Rehash, Claim, ClaimFails, Look, Release, Delete,
       Rename, Copy, CheckCopy, Unlink, UnlinkFails, ConsumeFails, Go, Close, library, bounds
  <2> QED
    BY <1>1, <2>1
<1>3. ASSUME NEW s \in Sources, CloseRow(s) PROVE Goal
  <2>1. UNCHANGED <<work, journal>> /\ pc[s] # "run" /\ \A t \in Sources : t # s => pc'[t] = pc[t]
    BY <1>0, <1>3 DEF CloseRow
  <2>2. Row(f)
    BY <1>0, <1>3 DEF CloseRow, Row, Rows
  <2> QED
    BY <1>0, <2>1, <2>2 DEF Work, Journal, Runs
<1>4. ASSUME NEW s \in Sources, NEW p \in Paths, Record(s, <<s, p>>) PROVE Goal
  <2>1. /\ journal' = journal /\ pc[s] = "next" /\ \A t \in Sources : t # s => pc'[t] = pc[t]
        /\ work' = [work EXCEPT ![<<s, p>>] = NoAnswer]
        /\ work[<<s, p>>].at # "none" /\ <<s, p>> \in Files
        /\ row' = [row EXCEPT ![<<s, p>>] = [rev |-> work[<<s, p>>].rev, digest |-> work[<<s, p>>].digest,
                                             failed |-> work[<<s, p>>].failed, ack |-> "pending"]]
    BY <1>0, <1>4 DEF Record, Batch
  <2>2. work[<<s, p>>].at = "answered"
    BY <2>1 DEF ReadInRun
  <2>3. Row(f)
    BY <1>0, <2>1, <2>2 DEF Row
  <2> QED
    BY <1>0, <2>1, <2>3 DEF Work, Journal, Runs, NoAnswer
<1>5. ASSUME NEW s \in Sources, FinishRun(s) PROVE Goal
  <2>1. /\ work' = work /\ row' = row /\ \A t \in Sources : t # s => pc'[t] = pc[t]
        /\ journal'[f] \in {journal[f], NoAnswer}
        /\ f[1] = s => work[f].at \in {"none", "answered"}
    BY <1>0, <1>5 DEF FinishRun, Batch
  <2> QED
    BY <1>0, <2>1 DEF Work, Journal, Row, Runs
<1>6. ASSUME NEW s \in Sources, Crash(s) PROVE Goal
  <2>1. /\ journal' = journal /\ row' = row /\ \A t \in Sources : t # s => pc'[t] = pc[t]
        /\ work'[f] = IF f[1] = s THEN NoAnswer ELSE work[f]
    BY <1>0, <1>6 DEF Crash, library
  <2> QED
    BY <1>0, <2>1 DEF Work, Journal, Row, Runs, NoAnswer
<1>7. ASSUME NEW s \in Sources, Poll(s) PROVE Goal
  <2>1. /\ journal' = journal /\ row' = row /\ pc'[s] = "run" /\ \A t \in Sources : t # s => pc'[t] = pc[t]
        /\ f[1] # s => work'[f] = work[f]
        /\ work'[f] \in {work[f], journal[f], Offer(f)}
    BY <1>0, <1>7 DEF Poll, Page, Fresh, library
  <2> QED
    BY <1>0, <2>1 DEF Work, Journal, Row, Runs
<1>8. ASSUME NEW s \in Sources, NEW g, Start(s) \/ Recover(s, g) PROVE Goal
  <2>1. UNCHANGED <<work, journal, row>> /\ pc[s] # "run" /\ \A t \in Sources : t # s => pc'[t] = pc[t]
    BY <1>0, <1>8 DEF Start, Recover, library
  <2> QED
    BY <1>1, <2>1
<1>9. ASSUME NEW g \in Files, Reading(g) PROVE Goal
  <2>0. row' = row /\ pc' = pc
    BY <1>9 DEF Reading, ReadFirst, ReadLast, ReadRefused, PipelineFails, library
  <2>6. g = f => pc[f[1]] = "run"
    BY <1>9 DEF Reading, ReadFirst, ReadLast, ReadRefused, PipelineFails, ReadInRun
  <2>1. ASSUME g # f PROVE work'[f] = work[f] /\ journal'[f] = journal[f]
    BY <1>0, <1>9, <2>1 DEF Reading, ReadFirst, ReadLast, ReadRefused, PipelineFails, Answer, library
  <2>2. ASSUME g = f, ReadFirst(f) PROVE Work(f) /\ Journal(f)
    <3>1. /\ work[f].at = "offered" /\ disk[f].rev = work[f].rev /\ journal' = journal
          /\ work' = [work EXCEPT ![f] = [@ EXCEPT !.at = "reading", !.ctime = disk[f].ctime,
                                                  !.digest = disk[f].bytes]]
      BY <2>2 DEF ReadFirst, library
    <3>2. /\ work'[f].rev = work[f].rev /\ work'[f].at = "reading"
          /\ work'[f].ctime = disk[f].ctime /\ work'[f].digest = disk[f].bytes
      BY <1>0, <3>1 DEF Answers
    <3> QED
      BY <3>1, <3>2 DEF Work, Journal
  <2>3. ASSUME NEW a, Answer(f, a), ~a.failed => a.at = "answered"
        PROVE  work'[f] = a /\ Journal(f)
    BY <1>0, <2>3 DEF Answer, Journal
  <2>4. ASSUME g = f, ReadLast(f) PROVE Work(f) /\ Journal(f)
    <3>1. PICK d \in IF disk[f].ctime = work[f].ctime THEN {disk[f].bytes}
                     ELSE {work[f].digest, disk[f].bytes, Torn} :
            Answer(f, [work[f] EXCEPT !.at = "answered", !.digest = d])
      BY <2>4 DEF ReadLast
    <3>2. d \in Digests /\ (disk[f].ctime = work[f].ctime => d = disk[f].bytes)
      BY <1>0, <3>1 DEF Answers, Copies, Digests
    <3>3. [work[f] EXCEPT !.at = "answered", !.digest = d].at = "answered"
      BY <1>0 DEF Answers
    <3>4. work'[f] = [work[f] EXCEPT !.at = "answered", !.digest = d] /\ Journal(f)
      BY <2>3, <3>1, <3>3
    <3>5. work'[f].rev = work[f].rev /\ work'[f].at = "answered" /\ work'[f].digest = d
      BY <1>0, <3>4 DEF Answers
    <3> QED
      BY <2>4, <3>2, <3>4, <3>5 DEF ReadLast, Work
  <2>5. ASSUME g = f, ReadRefused(f) \/ PipelineFails(f) PROVE Work(f) /\ Journal(f)
    <3>1. Answer(f, [work[f] EXCEPT !.at = "answered", !.failed = TRUE])
      BY <2>5 DEF ReadRefused, PipelineFails
    <3>2. [work[f] EXCEPT !.at = "answered", !.failed = TRUE].at = "answered"
      BY <1>0 DEF Answers
    <3>3. work'[f] = [work[f] EXCEPT !.at = "answered", !.failed = TRUE] /\ Journal(f)
      BY <2>3, <3>1, <3>2
    <3>4. work'[f].rev = work[f].rev /\ work'[f].at = "answered" /\ work'[f].failed
      BY <1>0, <3>3 DEF Answers
    <3> QED
      BY <3>3, <3>4 DEF Work
  <2> QED
    BY <1>0, <1>9, <2>0, <2>1, <2>2, <2>4, <2>5, <2>6 DEF Reading, Work, Journal, Row, Runs
<1>10. ASSUME NEW g, NEW b, Put(g, b) \/ Disguise(g, b) \/ Remove(g) PROVE Goal
  BY <1>1, <1>10 DEF Put, Disguise, Remove, library
<1>11. ASSUME UNCHANGED vars PROVE Goal
  BY <1>1, <1>11 DEF vars, library
<1> HIDE DEF Goal
<1>12. Goal
  BY <1>2, <1>3, <1>4, <1>5, <1>6, <1>7, <1>8, <1>9, <1>10, <1>11 DEF Next, RunnerStep, Outside
<1> QED
  BY <1>12 DEF Goal

\* FiledInv is inductive.
LEMMA FiledStep == Inv /\ FiledInv /\ [Next]_vars => FiledInv'
<1> SUFFICES ASSUME Inv, FiledInv, [Next]_vars, NEW f \in Files
             PROVE  /\ {disk'[f].rev, work'[f].rev, journal'[f].rev, row'[f].rev} \subseteq 0 .. writes'
                    /\ disk'[f] # Absent => disk'[f].rev # 0
                    /\ work'[f].at = "reading" =>
                         /\ IsFile(f, work[f].rev, work[f].digest)'
                         /\ disk'[f] # Absent /\ disk'[f].rev = work'[f].rev /\ disk'[f].ctime = work'[f].rev =>
                              work'[f].ctime = work'[f].rev
                    /\ work'[f].at = "answered" /\ ~work'[f].failed => IsFile(f, work[f].rev, work[f].digest)'
                    /\ journal'[f].at \in {"none", "answered"}
                    /\ ~journal'[f].failed => IsFile(f, journal[f].rev, journal[f].digest)'
                    /\ ~row'[f].failed => IsFile(f, row[f].rev, row[f].digest)'
                    /\ pc'[f[1]] # "run" => work'[f].at \in {"none", "answered"}
  BY DEF FiledInv, Dated, WhatWasRead, WhatWasFiled, ReadInRun, IsFile
<1>0. /\ work[f] \in Answers /\ journal[f] \in Answers /\ disk[f] \in Copies
      /\ NoAnswer.at = "none" /\ NoAnswer.rev = 0 /\ ~NoAnswer.failed
      /\ Offer(f).at = "offered" /\ Offer(f).rev = disk[f].rev
      /\ writes \in Nat /\ writes' \in {writes, writes + 1}
  BY FileSteps, Setup DEF Inv, TypeOK, Copies, Writes, NoAnswer, Offer
<1>1. /\ disk[f].rev \in 0 .. writes /\ work[f].rev \in 0 .. writes
      /\ journal[f].rev \in 0 .. writes /\ row[f].rev \in 0 .. writes
      /\ disk[f] # Absent => disk[f].rev # 0
  BY DEF FiledInv, Dated
<1>2. Work(f) /\ Journal(f) /\ Row(f) /\ Runs(f)
  BY FiledSteps DEF FiledInv
<1>3. Dated
  BY DEF FiledInv
<1>4. ASSUME NEW r \in 0 .. writes, NEW d, IsFile(f, r, d) PROVE IsFile(f, r, d)'
  BY <1>3, <1>4, FileStays
<1>5. disk'[f].rev \in 0 .. writes' /\ (disk'[f] # Absent => disk'[f].rev # 0)
  BY <1>0, <1>1, FileSteps DEF Absent
<1>6. work'[f].rev \in 0 .. writes
  BY <1>0, <1>1, <1>2 DEF Work
<1>7. journal'[f].rev \in 0 .. writes /\ row'[f].rev \in 0 .. writes
  BY <1>0, <1>1, <1>2, <1>6 DEF Journal, Row
<1>8. ASSUME work'[f].at = "reading"
      PROVE  /\ IsFile(f, work[f].rev, work[f].digest)'
             /\ disk'[f] # Absent /\ disk'[f].rev = work'[f].rev /\ disk'[f].ctime = work'[f].rev =>
                  work'[f].ctime = work'[f].rev
  <2> SUFFICES ASSUME disk'[f] # Absent, disk'[f].rev = work'[f].rev, disk'[f].ctime = work'[f].rev
               PROVE  disk'[f].bytes = work'[f].digest /\ work'[f].ctime = work'[f].rev
    BY DEF IsFile
  <2>1. disk'[f] = disk[f]
    BY <1>3, <1>6, SameFile
  <2>2. CASE work'[f] = work[f]
    BY <1>8, <2>1, <2>2 DEF FiledInv, WhatWasRead, IsFile
  <2>3. work'[f] # journal[f] /\ work'[f] # NoAnswer /\ work'[f] # Offer(f)
    BY <1>0, <1>8 DEF FiledInv, WhatWasFiled
  <2> QED
    BY <1>2, <1>8, <2>1, <2>2, <2>3 DEF Work
<1>9. ASSUME work'[f].at = "answered", ~work'[f].failed PROVE IsFile(f, work[f].rev, work[f].digest)'
  <2> SUFFICES ASSUME disk'[f] # Absent, disk'[f].rev = work'[f].rev, disk'[f].ctime = work'[f].rev
               PROVE  disk'[f].bytes = work'[f].digest
    BY DEF IsFile
  <2>1. disk'[f] = disk[f]
    BY <1>3, <1>6, SameFile
  <2>2. CASE work'[f] = work[f]
    BY <1>9, <2>1, <2>2 DEF FiledInv, WhatWasRead, IsFile
  <2>3. CASE work'[f] = journal[f]
    BY <1>9, <2>1, <2>3 DEF FiledInv, WhatWasFiled, IsFile
  <2>4. work'[f] # NoAnswer /\ work'[f] # Offer(f)
    BY <1>0, <1>9
  <2>5. CASE /\ work[f].at = "reading" /\ work'[f].rev = work[f].rev
             /\ disk[f].ctime = work[f].ctime => work'[f].digest = disk[f].bytes
    BY <2>1, <2>5 DEF FiledInv, WhatWasRead
  <2> QED
    BY <1>2, <1>9, <2>2, <2>3, <2>4, <2>5 DEF Work
<1>10. journal'[f].at \in {"none", "answered"}
  BY <1>0, <1>2 DEF Journal, FiledInv, WhatWasFiled
<1>11. ASSUME ~journal'[f].failed PROVE IsFile(f, journal[f].rev, journal[f].digest)'
  <2>1. CASE journal'[f] = journal[f]
    BY <1>1, <1>4, <1>11, <2>1 DEF FiledInv, WhatWasFiled, IsFile
  <2>2. CASE journal'[f] = NoAnswer
    BY <1>0, <1>5, <2>2 DEF IsFile
  <2>3. CASE journal'[f] = work'[f] /\ work'[f].at = "answered" /\ ~work'[f].failed
    BY <1>9, <2>3 DEF IsFile
  <2> QED
    BY <1>2, <2>1, <2>2, <2>3 DEF Journal
<1>12. ASSUME ~row'[f].failed PROVE IsFile(f, row[f].rev, row[f].digest)'
  <2>1. CASE row'[f].rev = row[f].rev /\ row'[f].digest = row[f].digest /\ row'[f].failed = row[f].failed
    BY <1>1, <1>4, <1>12, <2>1 DEF FiledInv, WhatWasFiled, IsFile
  <2>2. CASE /\ work[f].at = "answered" /\ row'[f].rev = work[f].rev /\ row'[f].digest = work[f].digest
             /\ row'[f].failed = work[f].failed
    <3>1. IsFile(f, work[f].rev, work[f].digest)
      BY <1>12, <2>2 DEF FiledInv, WhatWasRead
    <3>2. ASSUME disk'[f] # Absent, disk'[f].rev = row'[f].rev, disk'[f].ctime = row'[f].rev
          PROVE  disk'[f] = disk[f]
      BY <1>3, <1>7, <3>2, SameFile
    <3> QED
      BY <2>2, <3>1, <3>2 DEF IsFile
  <2> QED
    BY <1>2, <2>1, <2>2 DEF Row
<1>13. ASSUME pc'[f[1]] # "run" PROVE work'[f].at \in {"none", "answered"}
  BY <1>2, <1>13 DEF Runs, FiledInv, ReadInRun
<1> QED
  BY <1>0, <1>5, <1>6, <1>7, <1>8, <1>9, <1>10, <1>11, <1>12, <1>13 DEF IsFile

\* Whatever people do while it is read and recorded, a file that its source does not offer any
\* more is the one that was filed, unless its rewrite was disguised or its ingestion failed.
THEOREM HandledHolds == Spec => []HandledIsWhatWasFiled
<1>1. Init => FiledInv
  BY Setup DEF Init, FiledInv, Dated, WhatWasRead, WhatWasFiled, ReadInRun, IsFile, Absent, NoRow, NoAnswer
<1>2. Inv /\ FiledInv /\ [Next]_vars => Inv' /\ FiledInv'
  BY TypeStep, CursorStep, ChosenStep, FiledStep DEF Inv
<1>3. FiledInv => HandledIsWhatWasFiled
  BY DEF FiledInv, WhatWasFiled, IsFile, HandledIsWhatWasFiled, Handled
<1> QED
  BY InitInv, <1>1, <1>2, <1>3, PTL DEF Spec
=============================================================================

--------------------------- MODULE JobRowsProofs ----------------------------
(***************************************************************************)
(* Proofs about the runs of a source and the imports from a Paperless      *)
(* server and a Zotero library: what JobRows says of them holds for any    *)
(* number of labels, candidates, workers, executions and mishaps, for any  *)
(* snapshot of a server and any library, however many runs are cut short   *)
(* and whatever people change.                                             *)
(***************************************************************************)
EXTENDS JobRows, FiniteSetTheorems, SequenceTheorems, WellFoundedInduction, TLAPS

-----------------------------------------------------------------------------
(* The inductive invariant *)

Letting == Working \cup {"stopping"}

\* Unless a job was started over an execution of its own, it has one at most, and
\* a cancel reaches it.
OneOfAJob ==
  \A j \in Jobs \ lapped : \A e \in Execs :
     job[e] = j /\ at[e] \in Letting =>
        /\ at[e] \in Working => active[j] = e
        /\ \A x \in Execs : job[x] = j /\ at[x] \in Letting => x = e

\* An execution that is not over has a job.
Hired == \A e \in Execs : at[e] \in Letting => job[e] \in Jobs

\* Until two have met, one execution at most is at work, remains of one included.
OneAtWork == ~ met => \A e, x \in Execs : AtWork(e) /\ AtWork(x) => e = x

\* What workers have in hand is not to be taken again, and only a pipeline that
\* works, or did, has any.
InHand == \A e \in Execs : /\ busy[e] \cap todo[e] = {}
                           /\ busy[e] # {} => at[e] \in {"working", "stopping", "ended"}

\* Until two have met, the only run that is not over is the one left open; an
\* execution in the pipeline is about that one, and has nothing of it to take
\* that was committed.
OneOpen ==
  ~ met =>
    /\ \A l \in Execs : run[l] = "running" => open = l
    /\ \A e \in Execs :
         /\ at[e] \in {"claimed", "working"} =>
              label[e] = open /\ open # None /\ todo[e] \cap done[open] = {}
         /\ at[e] = "finished" => \A l \in Execs : run[l] # "running"

SourceInv == SourceTypeOK /\ RowIsTrue /\ OneOfAJob /\ Hired /\ OneAtWork /\ InHand /\ OneOpen

-----------------------------------------------------------------------------
(* Types *)

LEMMA SourceTypesInit == SourceInit => SourceTypeOK
<1> SUFFICES ASSUME SourceInit PROVE SourceTypeOK
  OBVIOUS
<1> USE DEF SourceInit
<1>1. row \in [Jobs -> {"none", "running", "cancelled", "failed", "succeeded"}]
  OBVIOUS
<1>2. active \in [Jobs -> Execs \cup {None}] /\ job \in [Execs -> Jobs \cup {None}]
  OBVIOUS
<1>3. at \in [Execs -> Working \cup {"none", "stopping", "ended", "dead"}]
  OBVIOUS
<1>4. /\ page \in [Execs -> SUBSET Candidates] /\ label \in [Execs -> Execs \cup {None}]
      /\ todo \in [Execs -> SUBSET Candidates] /\ busy \in [Execs -> SUBSET Candidates]
      /\ done \in [Execs -> SUBSET Candidates]
  OBVIOUS
<1>5. /\ missed \in [Execs -> BOOLEAN] /\ bad \in [Execs -> BOOLEAN]
      /\ aborted \in [Execs -> BOOLEAN] /\ heard \in [Execs -> BOOLEAN]
  OBVIOUS
<1>6. troubles \in 0 .. MaxTroubles
  BY JobSetup
<1>7. run \in [Execs -> {"none", "running", "succeeded", "waiting_review", "failed"}]
  OBVIOUS
<1>8. QED
  BY <1>1, <1>2, <1>3, <1>4, <1>5, <1>6, <1>7, Zenon DEF SourceTypeOK

\* A step of an execution keeps the types.
LEMMA ExecTypes ==
  ASSUME SourceTypeOK, NEW e \in Execs, ExecStep(e)
  PROVE  SourceTypeOK'
<1> USE JobSetup DEF SourceTypeOK, Execs, None, Working, Go, table, work, execOnly, past, Trouble, Listening
<1>1. CASE LetGo(e)
  BY <1>1, Zenon DEF ExecStep, LetGo, Over
<1>2. CASE Close(e)
  BY <1>2, Zenon DEF ExecStep, Close, Over
<1>3. ASSUME UNCHANGED <<aborted, heard>>,
             Opened(e) \/ PollEmpty(e) \/ PollFails(e) \/ Listen(e) \/ FinishRun(e) \/ ForgetRun(e) \/ Leave(e)
      PROVE  SourceTypeOK'
  <2>1. CASE Opened(e) \/ PollEmpty(e) \/ Listen(e) \/ Leave(e)
    BY <1>3, <2>1 DEF ExecStep, Opened, PollEmpty, Listen, Leave
  <2>2. CASE PollFails(e)
    BY <1>3, <2>2 DEF ExecStep, PollFails
  <2>3. CASE FinishRun(e)
    BY <1>3, <2>3, ZenonT(60) DEF ExecStep, FinishRun
  <2>4. CASE ForgetRun(e)
    BY <1>3, <2>4 DEF ExecStep, ForgetRun
  <2>5. QED
    BY <1>3, <2>1, <2>2, <2>3, <2>4
<1>4. ASSUME UNCHANGED <<aborted, heard>>, Poll(e)
      PROVE  SourceTypeOK'
  BY <1>4 DEF ExecStep, Poll
<1>5. ASSUME UNCHANGED <<aborted, heard>>, NEW c \in Candidates, Begin(e, c) \/ Commit(e, c) \/ Miss(e, c)
      PROVE  SourceTypeOK'
  <2>1. CASE Begin(e, c)
    BY <1>5, <2>1 DEF ExecStep, Begin
  <2>2. CASE Commit(e, c)
    BY <1>5, <2>2, ZenonT(60) DEF ExecStep, Commit
  <2>3. CASE Miss(e, c)
    BY <1>5, <2>3 DEF ExecStep, Miss
  <2>4. QED
    BY <1>5, <2>1, <2>2, <2>3, Zenon
<1>6. ASSUME UNCHANGED <<aborted, heard>>, Cancelled(e) \/ Breaks(e)
      PROVE  SourceTypeOK'
  <2>1. ASSUME Stop(e)
        PROVE  /\ row' \in [Jobs -> {"none", "running", "cancelled", "failed", "succeeded"}]
               /\ at' \in [Execs -> Working \cup {"none", "stopping", "ended", "dead"}]
    BY <2>1, Zenon DEF Stop
  <2>2. CASE Cancelled(e)
    <3>1. busy' \in [Execs -> SUBSET Candidates]
      BY <2>2 DEF Cancelled
    <3>2. QED
      BY <1>6, <2>1, <2>2, <3>1 DEF ExecStep, Cancelled
  <2>3. CASE Breaks(e)
    BY <1>6, <2>1, <2>3 DEF ExecStep, Breaks
  <2>4. QED
    BY <1>6, <2>2, <2>3, Zenon
<1>7. ASSUME UNCHANGED <<aborted, heard>>, Record(e)
      PROVE  SourceTypeOK'
  <2>1. recorded' \subseteq Candidates /\ page' \in [Execs -> SUBSET Candidates]
    BY <1>7 DEF Record
  <2>2. bad' \in [Execs -> BOOLEAN] /\ troubles' \in 0 .. MaxTroubles
    <3>1. CASE UNCHANGED <<bad, troubles>>
      BY <3>1
    <3>2. CASE Trouble /\ bad' = [bad EXCEPT ![e] = TRUE]
      BY <3>2
    <3>3. QED
      BY <1>7, <3>1, <3>2 DEF Record
  <2>3. QED
    BY <1>7, <2>1, <2>2 DEF ExecStep, Record
<1>8. QED
  BY <1>1, <1>2, <1>3, <1>4, <1>5, <1>6, <1>7, Zenon DEF ExecStep

\* So does every other.
LEMMA SourceTypes ==
  ASSUME SourceTypeOK, SourceNext
  PROVE  SourceTypeOK'
<1>1. ASSUME NEW j \in Jobs, StartSourceRun(j)
      PROVE  SourceTypeOK'
  BY <1>1, JobSetup DEF SourceTypeOK, StartSourceRun, Go, Execs, None, Working, table, work
<1>2. ASSUME NEW j \in Jobs, StartUnbuilt(j)
      PROVE  SourceTypeOK'
  BY <1>2, JobSetup DEF SourceTypeOK, StartUnbuilt, Trouble, Execs, None, table, work, past
<1>3. ASSUME NEW j \in Jobs, Cancel(j)
      PROVE  SourceTypeOK'
  <2>1. aborted' \in [Execs -> BOOLEAN] /\ heard' \in [Execs -> BOOLEAN]
    <3>1. CASE active[j] # None
      <4>1. Abort({active[j]})
        BY <1>3, <3>1 DEF Cancel
      <4>2. QED
        BY <4>1 DEF Abort
    <3>2. CASE active[j] = None
      BY <1>3, <3>2 DEF SourceTypeOK, Cancel
    <3>3. QED
      BY <3>1, <3>2
  <2>2. row' \in [Jobs -> {"none", "running", "cancelled", "failed", "succeeded"}] /\ orphans' \subseteq Jobs
    BY <1>3 DEF SourceTypeOK, Cancel
  <2>3. QED
    BY <1>3, <2>1, <2>2 DEF SourceTypeOK, Cancel, table, work, past
<1>4. ASSUME Drain
      PROVE  SourceTypeOK'
  BY <1>4, JobSetup DEF SourceTypeOK, Drain, Abort, table, work, past
<1>5. ASSUME Exit
      PROVE  SourceTypeOK'
  BY <1>5, JobSetup, Zenon DEF SourceTypeOK, Exit, table, past
<1>6. ASSUME Crash
      PROVE  SourceTypeOK'
  <2>1. at' \in [Execs -> Working \cup {"none", "stopping", "ended", "dead"}]
    BY <1>6 DEF SourceTypeOK, Crash
  <2>2. /\ active' \in [Jobs -> Execs \cup {None}] /\ orphans' \subseteq Jobs
        /\ draining' \in BOOLEAN
    BY <1>6, Zenon DEF Crash
  <2>6. troubles' \in 0 .. MaxTroubles
    BY <1>6, JobSetup DEF SourceTypeOK, Crash, Trouble
  <2>3. /\ page' \in [Execs -> SUBSET Candidates] /\ label' \in [Execs -> Execs \cup {None}]
        /\ todo' \in [Execs -> SUBSET Candidates] /\ busy' \in [Execs -> SUBSET Candidates]
    BY <1>6 DEF Crash
  <2>4. /\ missed' \in [Execs -> BOOLEAN] /\ bad' \in [Execs -> BOOLEAN]
        /\ aborted' \in [Execs -> BOOLEAN] /\ heard' \in [Execs -> BOOLEAN]
    BY <1>6 DEF Crash
  <2>5. QED
    BY <1>6, <2>1, <2>2, <2>3, <2>4, <2>6 DEF SourceTypeOK, Crash, table, past
<1>7. QED
  BY <1>1, <1>2, <1>3, <1>4, <1>5, <1>6, ExecTypes DEF SourceNext, Run, Retry

-----------------------------------------------------------------------------
(* Rows and their executions *)

At(j) == \E e \in Execs : job[e] = j /\ at[e] \in Working

RowOf(j) == \/ row[j] = "running" <=> At(j)
            \/ j \in lapped
            \/ row[j] = "running" /\ j \in orphans

LEMMA RowByRow == RowIsTrue <=> \A j \in Jobs : RowOf(j)
<1>1. ASSUME NEW j \in Jobs
      PROVE  {e \in Execs : job[e] = j /\ at[e] \in Working} # {} <=> At(j)
  BY DEF At
<1>2. QED
  BY <1>1 DEF RowIsTrue, RowOf

\* A step that keeps rows and entries, and every execution working that worked.
Quiet == /\ UNCHANGED <<row, active, job, lapped, orphans>>
         /\ \A x \in Execs : at'[x] \in Working <=> at[x] \in Working
         /\ \A x \in Execs : at'[x] = "stopping" <=> at[x] = "stopping"

JobsPart == (\A j \in Jobs : RowOf(j)) /\ OneOfAJob /\ Hired

LEMMA QuietKeeps ==
  ASSUME JobsPart, Quiet
  PROVE  JobsPart'
<1>1. ASSUME NEW j \in Jobs
      PROVE  RowOf(j)'
  <2>1. At(j)' <=> At(j)
    BY DEF At, Quiet
  <2>2. QED
    BY <2>1 DEF JobsPart, RowOf, Quiet
<1>2. OneOfAJob'
  <2>1. \A x \in Execs : at'[x] \in Letting <=> at[x] \in Letting
    BY DEF Quiet, Letting
  <2>2. /\ \A x \in Execs : at'[x] \in Working <=> at[x] \in Working
        /\ UNCHANGED <<active, job, lapped>>
    BY DEF Quiet
  <2>3. QED
    BY <2>1, <2>2 DEF JobsPart, OneOfAJob
<1>3. Hired'
  BY DEF JobsPart, Hired, Quiet, Letting
<1>4. QED
  BY <1>1, <1>2, <1>3 DEF JobsPart

\* An execution that has stopped working closed its row, and whoever takes the
\* entry out does so when nobody works.
LEMMA EndKeeps ==
  ASSUME SourceTypeOK, JobsPart, NEW e \in Execs,
         at[e] \in Letting, at'[e] \notin Working,
         \A x \in Execs \ {e} : at'[x] = at[x],
         at[e] \in Working => row'[job[e]] # "running",
         at[e] \notin Working => row'[job[e]] = row[job[e]],
         \A j \in Jobs \ {job[e]} : row'[j] = row[j] /\ active'[j] = active[j],
         UNCHANGED <<job, lapped, orphans>>
  PROVE  JobsPart'
<1>0. job[e] \in Jobs
  BY DEF JobsPart, Hired
<1>1. ASSUME NEW j \in Jobs, j # job[e]
      PROVE  RowOf(j)'
  <2>1. At(j)' <=> At(j)
    BY <1>1 DEF At
  <2>2. QED
    BY <1>1, <2>1 DEF JobsPart, RowOf
<1>2. ASSUME job[e] \notin lapped
      PROVE  ~ At(job[e])'
  <2>1. \A x \in Execs : job[x] = job[e] /\ at[x] \in Letting => x = e
    BY <1>0, <1>2 DEF JobsPart, OneOfAJob
  <2>2. \A x \in Execs : job'[x] = job'[e] => at'[x] \notin Working
    BY <2>1 DEF Letting
  <2>3. QED
    BY <2>2 DEF At
<1>3. RowOf(job[e])'
  <2>1. CASE at[e] \in Working
    BY <1>2, <2>1 DEF RowOf
  <2>2. CASE at[e] \notin Working
    <3>1. job[e] \notin lapped => ~ At(job[e])
      <4>1. \A x \in Execs : at[x] \in Working => at[x] \in Letting
        BY DEF Letting
      <4>2. QED
        BY <1>0, <2>2, <4>1 DEF At, JobsPart, OneOfAJob
    <3>2. QED
      BY <1>0, <1>2, <2>2, <3>1 DEF RowOf, JobsPart
  <2>3. QED
    BY <2>1, <2>2
<1>4. OneOfAJob'
  <2>1. SUFFICES ASSUME NEW j \in Jobs, j \notin lapped, NEW x \in Execs, job[x] = j, at'[x] \in Letting
                 PROVE  /\ at'[x] \in Working => active'[j] = x
                        /\ \A y \in Execs : job[y] = j /\ at'[y] \in Letting => y = x
    BY DEF OneOfAJob, Letting
  <2>2. at[x] \in Letting /\ (at'[x] \in Working => at[x] \in Working /\ x # e)
    BY <2>1
  <2>3. \A y \in Execs : job[y] = j /\ at'[y] \in Letting => y = x
    BY <2>1, <2>2 DEF JobsPart, OneOfAJob
  <2>4. ASSUME at'[x] \in Working PROVE active'[j] = x
    <3>1. j # job[e]
      BY <2>1, <2>2, <2>4 DEF JobsPart, OneOfAJob
    <3>2. QED
      BY <2>1, <2>2, <2>4, <3>1 DEF JobsPart, OneOfAJob
  <2>5. QED
    BY <2>3, <2>4
<1>5. Hired'
  BY DEF JobsPart, Hired, Letting
<1>6. QED
  BY <1>1, <1>3, <1>4, <1>5 DEF JobsPart

LEMMA StartKeeps ==
  ASSUME SourceTypeOK, JobsPart, NEW j \in Jobs, StartSourceRun(j)
  PROVE  JobsPart'
<1>1. PICK e \in Execs : /\ at[e] = "none"
                         /\ active' = [active EXCEPT ![j] = e]
                         /\ job' = [job EXCEPT ![e] = j]
                         /\ at' = [at EXCEPT ![e] = "opening"]
  BY Zenon DEF StartSourceRun, Go
<1>2. at'[e] = "opening" /\ job'[e] = j /\ active'[j] = e /\ row'[j] = "running"
  BY <1>1 DEF SourceTypeOK, StartSourceRun
<1>3. /\ \A x \in Execs \ {e} : at'[x] = at[x] /\ job'[x] = job[x]
      /\ \A i \in Jobs \ {j} : active'[i] = active[i] /\ row'[i] = row[i]
      /\ \A i \in Jobs \ {j} : /\ i \in lapped' <=> i \in lapped
                               /\ i \in orphans' <=> i \in orphans
  BY <1>1 DEF SourceTypeOK, StartSourceRun
<1>4. "opening" \in Working /\ at[e] \notin Letting
  BY <1>1 DEF Working, Letting
<1>5. RowOf(j)'
  BY <1>2, <1>4 DEF RowOf, At
<1>6. ASSUME NEW i \in Jobs, i # j
      PROVE  RowOf(i)'
  <2>1. At(i)' <=> At(i)
    BY <1>2, <1>3, <1>4, <1>6 DEF At, Letting
  <2>2. QED
    BY <1>3, <1>6, <2>1 DEF RowOf, JobsPart
<1>7. OneOfAJob'
  <2>1. SUFFICES ASSUME NEW i \in Jobs, i \notin lapped', NEW x \in Execs, job'[x] = i, at'[x] \in Letting
                 PROVE  /\ at'[x] \in Working => active'[i] = x
                        /\ \A y \in Execs : job'[y] = i /\ at'[y] \in Letting => y = x
    BY DEF OneOfAJob, Letting
  <2>2. CASE i = j
    <3>1. \A y \in Execs : job[y] = j => at[y] \notin Letting
      BY <2>1, <2>2 DEF StartSourceRun, Letting
    <3>2. QED
      BY <1>2, <1>3, <2>1, <2>2, <3>1
  <2>3. CASE i # j
    BY <1>2, <1>3, <2>1, <2>3 DEF JobsPart, OneOfAJob
  <2>4. QED
    BY <2>2, <2>3
<1>8. Hired'
  BY <1>2, <1>3 DEF JobsPart, Hired
<1>9. QED
  BY <1>5, <1>6, <1>7, <1>8 DEF JobsPart


LEMMA ExecKeepsJobs ==
  ASSUME SourceTypeOK, JobsPart, NEW e \in Execs, ExecStep(e)
  PROVE  JobsPart'
<1> USE DEF Working, Letting, Listening, Go, table, work, execOnly, past
<1>0. UNCHANGED <<job, lapped, orphans>>
  BY DEF ExecStep
<1>1. CASE LetGo(e) \/ Close(e)
  <2>1. at[e] \in Letting /\ at'[e] = "ended" /\ \A x \in Execs \ {e} : at'[x] = at[x]
    BY <1>1 DEF LetGo, Close, Over, SourceTypeOK
  <2>2. job[e] \in Jobs
    BY <2>1 DEF JobsPart, Hired
  <2>3. /\ at[e] \in Working => row'[job[e]] # "running"
        /\ at[e] \notin Working => row'[job[e]] = row[job[e]]
        /\ \A j \in Jobs \ {job[e]} : row'[j] = row[j] /\ active'[j] = active[j]
    BY <1>1, <2>2 DEF LetGo, Close, SourceTypeOK
  <2>4. QED
    BY <1>0, <2>1, <2>3, EndKeeps
<1>2. ASSUME Cancelled(e) \/ Breaks(e)
      PROVE  JobsPart'
  <2>1. at[e] \in Working /\ Stop(e) /\ UNCHANGED active
    BY <1>2 DEF Cancelled, Breaks
  <2>2. at'[e] = "stopping" /\ \A x \in Execs \ {e} : at'[x] = at[x]
    BY <2>1 DEF Stop, SourceTypeOK
  <2>3. job[e] \in Jobs
    BY <2>1 DEF JobsPart, Hired
  <2>4. /\ row'[job[e]] # "running"
        /\ \A j \in Jobs \ {job[e]} : row'[j] = row[j] /\ active'[j] = active[j]
    BY <2>1, <2>3 DEF Stop, SourceTypeOK
  <2>5. QED
    BY <1>0, <2>1, <2>2, <2>4, EndKeeps
<1>3. ASSUME \/ Opened(e) \/ Poll(e) \/ PollEmpty(e) \/ PollFails(e) \/ Listen(e)
             \/ FinishRun(e) \/ ForgetRun(e) \/ Leave(e)
      PROVE  JobsPart'
  <2>1. /\ at[e] \in Working /\ UNCHANGED <<row, active>>
        /\ \E s \in Working : at' = [at EXCEPT ![e] = s]
    BY <1>3 DEF Opened, Poll, PollEmpty, PollFails, Listen, FinishRun, ForgetRun, Leave
  <2>2. Quiet
    BY <1>0, <2>1 DEF Quiet, SourceTypeOK
  <2>3. QED
    BY <2>2, QuietKeeps
<1>4. ASSUME \/ \E c \in Candidates : Begin(e, c) \/ Commit(e, c) \/ Miss(e, c)
             \/ Record(e)
      PROVE  JobsPart'
  <2>1. UNCHANGED <<at, row, active>>
    BY <1>4 DEF Begin, Commit, Miss, Record
  <2>2. QED
    BY <1>0, <2>1, QuietKeeps DEF Quiet
<1>5. QED
  BY <1>1, <1>2, <1>3, <1>4 DEF ExecStep

\* Every step keeps the rows true.
LEMMA JobsKept ==
  ASSUME SourceTypeOK, JobsPart, SourceNext
  PROVE  JobsPart'
<1>1. ASSUME NEW j \in Jobs, StartUnbuilt(j)
      PROVE  JobsPart'
  <2>1. /\ UNCHANGED <<job, at, lapped>> /\ \A i \in Jobs \ {j} : row'[i] = row[i] /\ active'[i] = active[i]
        /\ row[j] # "running" /\ row'[j] = "failed" /\ orphans' = orphans \ {j}
    BY <1>1 DEF StartUnbuilt, SourceTypeOK, past
  <2>2. \A i \in Jobs : At(i)' <=> At(i)
    BY <2>1 DEF At
  <2>3. \A i \in Jobs : RowOf(i)'
    BY <2>1, <2>2 DEF RowOf, JobsPart
  <2>4. j \notin lapped => ~ At(j)
    BY <2>1 DEF RowOf, JobsPart
  <2>5. OneOfAJob'
    BY <2>1, <2>4 DEF OneOfAJob, JobsPart, At
  <2>6. QED
    BY <2>1, <2>3, <2>5 DEF JobsPart, Hired
<1>2. ASSUME NEW j \in Jobs, Cancel(j)
      PROVE  JobsPart'
  <2>1. UNCHANGED <<job, at, lapped, active>>
    BY <1>2 DEF Cancel, past
  <2>2. \A i \in Jobs : At(i)' <=> At(i)
    BY <2>1 DEF At
  <2>3. \A i \in Jobs \ {j} : row'[i] = row[i] /\ (i \in orphans' <=> i \in orphans)
    BY <1>2 DEF Cancel, SourceTypeOK
  <2>4. RowOf(j)'
    <3>1. CASE active[j] # None
      BY <1>2, <2>1, <2>2, <3>1 DEF Cancel, RowOf, JobsPart
    <3>2. CASE active[j] = None
      <4>1. row'[j] = "cancelled"
        BY <1>2, <3>2 DEF Cancel, SourceTypeOK
      <4>2. j \notin lapped => ~ At(j)
        BY <3>2 DEF JobsPart, OneOfAJob, At, Letting, Execs, None
      <4>3. QED
        BY <2>1, <2>2, <4>1, <4>2 DEF RowOf
    <3>3. QED
      BY <3>1, <3>2
  <2>5. \A i \in Jobs : RowOf(i)'
    BY <2>1, <2>2, <2>3, <2>4 DEF RowOf, JobsPart
  <2>6. QED
    BY <2>1, <2>5 DEF JobsPart, OneOfAJob, Hired
<1>3. CASE Drain
  BY <1>3, QuietKeeps DEF Drain, Quiet, past, work
<1>4. CASE Exit
  <2>1. UNCHANGED <<row, job, at, lapped, orphans>> /\ \A e \in Execs : at[e] \notin Letting
    BY <1>4 DEF Exit, past, Letting
  <2>2. \A j \in Jobs : RowOf(j)'
    BY <2>1 DEF JobsPart, RowOf, At
  <2>3. QED
    BY <2>1, <2>2 DEF JobsPart, OneOfAJob, Hired
<1>5. CASE Crash
  <2>1. /\ UNCHANGED <<row, lapped>> /\ \A e \in Execs : at'[e] \notin Letting
        /\ \A j \in Jobs : row[j] = "running" => j \in orphans'
    BY <1>5 DEF Crash, past, Letting, Working
  <2>2. \A j \in Jobs : RowOf(j)'
    BY <2>1 DEF RowOf, At, Letting
  <2>3. QED
    BY <2>1, <2>2 DEF JobsPart, OneOfAJob, Hired
<1>6. QED
  BY <1>1, <1>2, <1>3, <1>4, <1>5, StartKeeps, ExecKeepsJobs DEF SourceNext, Run, Retry

-----------------------------------------------------------------------------
(* What workers have in hand, and the run that is open *)

LEMMA HandsKept ==
  ASSUME SourceTypeOK, InHand, SourceNext
  PROVE  InHand'
<1> USE DEF InHand
<1>1. ASSUME NEW j \in Jobs, StartSourceRun(j)
      PROVE  InHand'
  BY <1>1 DEF StartSourceRun, Go, work, SourceTypeOK
<1>2. ASSUME NEW j \in Jobs, StartUnbuilt(j) \/ Cancel(j)
      PROVE  InHand'
  BY <1>2 DEF StartUnbuilt, Cancel, work
<1>3. CASE Drain \/ Exit \/ Crash
  BY <1>3 DEF Drain, Exit, Crash, work
<1>4. ASSUME NEW e \in Execs, ExecStep(e)
      PROVE  InHand'
  <2>1. CASE LetGo(e) \/ Close(e)
    <3>1. at[e] \in {"stopping", "leaving"} /\ Over(e)
      BY <2>1 DEF LetGo, Close
    <3>2. UNCHANGED busy /\ at' = [at EXCEPT ![e] = "ended"] /\ todo' = [todo EXCEPT ![e] = {}]
      BY <3>1 DEF Over, Go
    <3>3. QED
      BY <3>2 DEF SourceTypeOK
  <2>2. ASSUME Opened(e) \/ PollEmpty(e) \/ Leave(e) \/ PollFails(e) \/ Listen(e) \/ FinishRun(e) \/ ForgetRun(e)
        PROVE  InHand'
    <3>1. /\ UNCHANGED <<busy, todo>>
          /\ at[e] \in {"opening", "polling", "claimed", "finished", "recording"} \/ busy[e] = {}
          /\ \E s \in Working : at' = [at EXCEPT ![e] = s]
      BY <2>2 DEF Opened, PollEmpty, Leave, PollFails, Listen, FinishRun, ForgetRun, Go, work, Working, Listening
    <3>2. busy[e] = {}
      BY <3>1
    <3>3. QED
      BY <3>1, <3>2 DEF SourceTypeOK
  <2>3. CASE Poll(e)
    <3>1. at[e] = "polling" /\ UNCHANGED busy /\ \A x \in Execs \ {e} : at'[x] = at[x] /\ todo'[x] = todo[x]
      BY <2>3 DEF Poll, Go, SourceTypeOK
    <3>2. QED
      BY <3>1
  <2>4. ASSUME NEW c \in Candidates, Begin(e, c) \/ Commit(e, c) \/ Miss(e, c)
        PROVE  InHand'
    BY <2>4 DEF Begin, Commit, Miss, SourceTypeOK
  <2>5. CASE Cancelled(e) \/ Breaks(e)
    <3>1. /\ at[e] \in Working /\ at' = [at EXCEPT ![e] = "stopping"] /\ UNCHANGED todo
          /\ \A x \in Execs : busy'[x] \subseteq busy[x]
      BY <2>5 DEF Cancelled, Breaks, Stop, Go, work, Working, SourceTypeOK
    <3>2. QED
      BY <3>1 DEF SourceTypeOK
  <2>6. CASE Record(e)
    BY <2>6 DEF Record
  <2>7. QED
    BY <1>4, <2>1, <2>2, <2>3, <2>4, <2>5, <2>6 DEF ExecStep
<1>5. QED
  BY <1>1, <1>2, <1>3, <1>4 DEF SourceNext, Run, Retry

\* Nothing is at work that was not, but for what is started; and it is not
\* forgotten that two have met.
LEMMA AtWorkKept ==
  ASSUME SourceTypeOK, InHand, OneAtWork, SourceNext
  PROVE  OneAtWork'
<1>1. ASSUME NEW j \in Jobs, StartSourceRun(j)
      PROVE  OneAtWork'
  <2>1. CASE \E x \in Execs : AtWork(x)
    BY <1>1, <2>1, Zenon DEF StartSourceRun, OneAtWork, SourceTypeOK
  <2>2. CASE ~ \E x \in Execs : AtWork(x)
    <3>1. PICK e \in Execs : at' = [at EXCEPT ![e] = "opening"]
      BY <1>1, Zenon DEF StartSourceRun, Go
    <3>2. \A x \in Execs : AtWork(x)' => x = e
      BY <1>1, <2>2, <3>1 DEF AtWork, StartSourceRun, work, SourceTypeOK
    <3>3. QED
      BY <3>2 DEF OneAtWork
  <2>3. QED
    BY <2>1, <2>2
<1>2. ASSUME UNCHANGED met, \A x \in Execs : AtWork(x)' => AtWork(x)
      PROVE  OneAtWork'
  BY <1>2 DEF OneAtWork
<1>3. ASSUME NEW j \in Jobs, StartUnbuilt(j) \/ Cancel(j)
      PROVE  OneAtWork'
  BY <1>2, <1>3 DEF StartUnbuilt, Cancel, work, past, AtWork
<1>4. CASE Drain \/ Exit
  BY <1>2, <1>4 DEF Drain, Exit, work, past, AtWork
<1>5. CASE Crash
  BY <1>2, <1>5 DEF Crash, past, AtWork, Working
<1>6. ASSUME NEW e \in Execs, ExecStep(e)
      PROVE  OneAtWork'
  <2>1. UNCHANGED met
    BY <1>6 DEF ExecStep, execOnly, past
  <2>2. /\ \A x \in Execs \ {e} : at'[x] = at[x] /\ busy'[x] = busy[x]
        /\ AtWork(e)
    <3>1. CASE LetGo(e) \/ Close(e)
      BY <3>1 DEF LetGo, Close, Over, Go, AtWork, Working, SourceTypeOK
    <3>2. CASE \/ Opened(e) \/ Poll(e) \/ PollEmpty(e) \/ PollFails(e) \/ Listen(e) \/ Leave(e)
               \/ FinishRun(e) \/ ForgetRun(e)
      BY <3>2 DEF Opened, Poll, PollEmpty, PollFails, Listen, Leave, FinishRun, ForgetRun, Go, work, AtWork, Working, SourceTypeOK
    <3>3. ASSUME NEW c \in Candidates, Begin(e, c) \/ Commit(e, c) \/ Miss(e, c)
          PROVE  /\ \A x \in Execs \ {e} : at'[x] = at[x] /\ busy'[x] = busy[x]
                 /\ AtWork(e)
      BY <3>3 DEF Begin, Commit, Miss, AtWork, Working, SourceTypeOK
    <3>4. CASE Cancelled(e) \/ Breaks(e)
      BY <3>4 DEF Cancelled, Breaks, Stop, Go, work, AtWork, Working, SourceTypeOK
    <3>5. CASE Record(e)
      BY <3>5 DEF Record, AtWork, Working
    <3>6. QED
      BY <1>6, <3>1, <3>2, <3>3, <3>4, <3>5 DEF ExecStep
  <2>3. \A x \in Execs : AtWork(x)' => AtWork(x)
    BY <2>2 DEF AtWork
  <2>4. QED
    BY <1>2, <2>1, <2>3
<1>7. QED
  BY <1>1, <1>3, <1>4, <1>5, <1>6 DEF SourceNext, Run, Retry

\* A step that commits nothing and leaves the runs alone.
LEMMA OpenKeptIdle ==
  ASSUME OneOpen, met => met', UNCHANGED <<open, run, done>>,
         \A x \in Execs : /\ at'[x] \in {"claimed", "working"} =>
                               /\ at[x] \in {"claimed", "working"}
                               /\ label'[x] = label[x] /\ todo'[x] \subseteq todo[x]
                          /\ at'[x] = "finished" => at[x] = "finished"
  PROVE  OneOpen'
<1>1. SUFFICES ASSUME ~ met' PROVE OneOpen'
  BY DEF OneOpen
<1>2. ~ met
  BY <1>1
<1>3. \A l \in Execs : run'[l] = "running" => open' = l
  BY <1>2 DEF OneOpen
<1>4. ASSUME NEW x \in Execs, at'[x] \in {"claimed", "working"}
      PROVE  label'[x] = open' /\ open' # None /\ todo'[x] \cap done'[open'] = {}
  BY <1>2, <1>4 DEF OneOpen
<1>5. ASSUME NEW x \in Execs, at'[x] = "finished"
      PROVE  \A l \in Execs : run'[l] # "running"
  BY <1>2, <1>5 DEF OneOpen
<1>6. QED
  BY <1>3, <1>4, <1>5 DEF OneOpen

LEMMA OpenKept ==
  ASSUME SourceTypeOK, InHand, OneAtWork, OneOpen, SourceNext
  PROVE  OneOpen'
<1>1. ASSUME NEW j \in Jobs, StartSourceRun(j)
      PROVE  OneOpen'
  <2>1. PICK e \in Execs : at' = [at EXCEPT ![e] = "opening"]
    BY <1>1, Zenon DEF StartSourceRun, Go
  <2>2. (met => met') /\ UNCHANGED <<open, run, done, label, todo>>
    BY <1>1, Zenon DEF StartSourceRun, table, work
  <2>3. QED
    BY <2>1, <2>2, OpenKeptIdle DEF SourceTypeOK
<1>2. ASSUME NEW j \in Jobs, StartUnbuilt(j) \/ Cancel(j)
      PROVE  OneOpen'
  <2>1. UNCHANGED <<met, open, run, done, at, label, todo>>
    BY <1>2 DEF StartUnbuilt, Cancel, table, work, past
  <2>2. QED
    BY <2>1, OpenKeptIdle
<1>3. CASE Drain \/ Exit
  <2>1. UNCHANGED <<met, open, run, done, at, label, todo>>
    BY <1>3 DEF Drain, Exit, table, work, past
  <2>2. QED
    BY <2>1, OpenKeptIdle
<1>4. CASE Crash
  <2>1. /\ UNCHANGED <<met, open, run, done>>
        /\ \A x \in Execs : at'[x] \notin {"claimed", "working", "finished"}
    BY <1>4 DEF Crash, table, past, Working
  <2>2. QED
    BY <2>1, OpenKeptIdle
<1>5. ASSUME NEW e \in Execs, ExecStep(e)
      PROVE  OneOpen'
  <2>1. UNCHANGED met
    BY <1>5 DEF ExecStep, execOnly, past
  <2>2. CASE LetGo(e) \/ Close(e)
    <3>1. /\ UNCHANGED <<open, run, done>> /\ at'[e] = "ended"
          /\ \A x \in Execs \ {e} : at'[x] = at[x] /\ label'[x] = label[x] /\ todo'[x] = todo[x]
      BY <2>2 DEF LetGo, Close, Over, Go, table, SourceTypeOK
    <3>2. QED
      BY <2>1, <3>1, OpenKeptIdle
  <2>3. ASSUME \/ Opened(e) \/ PollEmpty(e) \/ PollFails(e) \/ Listen(e) \/ Leave(e)
               \/ Cancelled(e) \/ Breaks(e)
        PROVE  OneOpen'
    <3>1. UNCHANGED <<open, run, done, label, todo>>
      BY <2>3 DEF Opened, PollEmpty, PollFails, Listen, Leave, Cancelled, Breaks, table, work
    <3>2. /\ \A x \in Execs \ {e} : at'[x] = at[x]
          /\ at'[e] \in {"claimed", "working"} => at[e] \in {"claimed", "working"}
          /\ at'[e] # "finished"
      BY <2>3 DEF Opened, PollEmpty, PollFails, Listen, Leave, Cancelled, Breaks, Stop, Go, Listening, SourceTypeOK
    <3>3. QED
      BY <2>1, <3>1, <3>2, OpenKeptIdle
  <2>4. ASSUME NEW c \in Candidates, Begin(e, c) \/ Miss(e, c)
        PROVE  OneOpen'
    <3>1. UNCHANGED <<open, run, done, label, at>>
      BY <2>4 DEF Begin, Miss, table
    <3>2. \A x \in Execs : todo'[x] \subseteq todo[x]
      BY <2>4 DEF Begin, Miss, SourceTypeOK
    <3>3. QED
      BY <2>1, <3>1, <3>2, OpenKeptIdle
  <2>5. CASE Record(e)
    <3>1. UNCHANGED <<open, run, done, label, at, todo>>
      BY <2>5 DEF Record
    <3>2. QED
      BY <2>1, <3>1, OpenKeptIdle
  <2>6. SUFFICES ASSUME ~ met,
                        Poll(e) \/ (\E c \in Candidates : Commit(e, c)) \/ FinishRun(e) \/ ForgetRun(e)
                 PROVE  OneOpen'
    BY <1>5, <2>1, <2>2, <2>3, <2>4, <2>5 DEF ExecStep, OneOpen
  <2>7. AtWork(e)
    BY <2>6 DEF Poll, Commit, FinishRun, ForgetRun, AtWork, Working
  <2>8. /\ \A x \in Execs \ {e} : at[x] \notin {"claimed", "working", "finished"}
        /\ \A x \in Execs \ {e} : at'[x] = at[x]
    <3>1. \A x \in Execs \ {e} : at[x] \notin {"claimed", "working", "finished"}
      BY <2>6, <2>7 DEF OneAtWork, AtWork, Working
    <3>2. \A x \in Execs \ {e} : at'[x] = at[x]
      BY <2>6 DEF Poll, Commit, FinishRun, ForgetRun, Go, SourceTypeOK
    <3>3. QED
      BY <3>1, <3>2
  <2>9. /\ \A l \in Execs : run[l] = "running" => open = l
        /\ at[e] \in {"claimed", "working"} => label[e] = open /\ open # None /\ todo[e] \cap done[open] = {}
        /\ at[e] = "finished" => \A l \in Execs : run[l] # "running"
    BY <2>6 DEF OneOpen
  <2>10. SUFFICES /\ \A l \in Execs : run'[l] = "running" => open' = l
                  /\ at'[e] \in {"claimed", "working"} =>
                        label'[e] = open' /\ open' # None /\ todo'[e] \cap done'[open'] = {}
                  /\ at'[e] = "finished" => \A l \in Execs : run'[l] # "running"
    BY <2>8 DEF OneOpen
  <2>11. CASE Poll(e)
    <3> DEFINE l == IF open # None THEN open ELSE e
               kept == IF run[l] = "succeeded" THEN {} ELSE done[l]
    <3>1. l \in Execs /\ l # None
      BY DEF SourceTypeOK, Execs, None
    <3>2. /\ label'[e] = l /\ open' = l /\ at'[e] = "claimed"
          /\ todo'[e] = (Candidates \ recorded) \ kept
          /\ done' = [done EXCEPT ![l] = kept] /\ run' = [run EXCEPT ![l] = "running"]
      BY <2>11 DEF Poll, Go, SourceTypeOK
    <3>3. done'[l] = kept
      BY <3>1, <3>2 DEF SourceTypeOK
    <3>4. \A i \in Execs \ {l} : run[i] # "running"
      BY <2>9 DEF Execs, None
    <3>5. \A i \in Execs : run'[i] = "running" => i = l
      BY <3>2, <3>4 DEF SourceTypeOK
    <3> HIDE DEF l, kept
    <3>6. QED
      BY <3>1, <3>2, <3>3, <3>5
  <2>12. CASE \E c \in Candidates : Commit(e, c)
    <3>0. PICK c \in Candidates : Commit(e, c)
      BY <2>12
    <3>1. /\ UNCHANGED <<at, label, todo, open, run>>
          /\ done' = [done EXCEPT ![label[e]] = @ \cup {c}]
          /\ c \notin todo[e]
      BY <3>0 DEF Commit, InHand
    <3>2. ASSUME at[e] \in {"claimed", "working"}
          PROVE  todo'[e] \cap done'[open'] = {}
      <4>1. label[e] = open /\ open \in Execs /\ todo[e] \cap done[open] = {}
        BY <2>9, <3>2 DEF SourceTypeOK
      <4>2. done'[open] = done[open] \cup {c}
        BY <3>1, <4>1 DEF SourceTypeOK
      <4>3. QED
        BY <3>1, <4>1, <4>2
    <3>3. QED
      BY <2>9, <3>1, <3>2
  <2>13. CASE FinishRun(e)
    <3>1. /\ at[e] = "working" /\ at'[e] = "finished" /\ UNCHANGED open
          /\ \E s \in {"failed", "succeeded", "waiting_review"} : run' = [run EXCEPT ![label[e]] = s]
      BY <2>13, Zenon DEF FinishRun, Go, SourceTypeOK
    <3>2. \A i \in Execs : run'[i] # "running"
      BY <2>9, <3>1 DEF SourceTypeOK
    <3>3. QED
      BY <3>1, <3>2
  <2>14. CASE ForgetRun(e)
    <3>1. at[e] = "finished" /\ at'[e] = "recording" /\ UNCHANGED run
      BY <2>14 DEF ForgetRun, Go, SourceTypeOK
    <3>2. QED
      BY <2>9, <3>1
  <2>15. QED
    BY <2>6, <2>11, <2>12, <2>13, <2>14
<1>6. QED
  BY <1>1, <1>2, <1>3, <1>4, <1>5 DEF SourceNext, Run, Retry

-----------------------------------------------------------------------------
(* Theorems *)

LEMMA SourceInvInit == SourceInit => SourceInv
<1> SUFFICES ASSUME SourceInit PROVE SourceInv
  OBVIOUS
<1>1. SourceTypeOK
  BY SourceTypesInit
<1>2. /\ \A e \in Execs : at[e] = "none" /\ busy[e] = {} /\ run[e] = "none"
      /\ \A j \in Jobs : row[j] = "none"
  BY DEF SourceInit
<1>3. RowIsTrue
  BY <1>2, RowByRow DEF RowOf, At, Working
<1>4. OneOfAJob /\ Hired
  BY <1>2 DEF OneOfAJob, Hired, Letting, Working
<1>5. OneAtWork /\ InHand
  BY <1>2 DEF OneAtWork, AtWork, InHand, Working
<1>6. OneOpen
  BY <1>2 DEF OneOpen
<1>7. QED
  BY <1>1, <1>3, <1>4, <1>5, <1>6 DEF SourceInv

LEMMA SourceInvStep ==
  ASSUME SourceInv, SourceNext \/ UNCHANGED sourceVars
  PROVE  SourceInv'
<1>1. CASE SourceNext
  <2>1. SourceTypeOK'
    BY <1>1, SourceTypes DEF SourceInv
  <2>2. JobsPart'
    BY <1>1, JobsKept, RowByRow DEF SourceInv, JobsPart
  <2>3. RowIsTrue' <=> \A j \in Jobs : RowOf(j)'
    <3>1. ASSUME NEW j \in Jobs
          PROVE  {e \in Execs : job'[e] = j /\ at'[e] \in Working} # {} <=> At(j)'
      BY DEF At
    <3>2. QED
      BY <3>1 DEF RowIsTrue, RowOf
  <2>4. QED
    BY <1>1, <2>1, <2>2, <2>3, AtWorkKept, HandsKept, OpenKept DEF SourceInv, JobsPart
<1>2. CASE UNCHANGED sourceVars
  BY <1>2 DEF SourceInv, SourceTypeOK, RowIsTrue, OneOfAJob, Hired, OneAtWork, AtWork, InHand, OneOpen,
              sourceVars, work, table, past
<1>3. QED
  BY <1>1, <1>2

\* The invariant of the runs of a source, whatever a behaviour is about.
THEOREM SourceInvHolds == Spec => []SourceInv
<1>1. Init => SourceInv
  BY SourceInvInit DEF Init
<1>2. SourceInv /\ [Next]_vars => SourceInv'
  <2>1. ASSUME SourceInv, [Next]_vars
        PROVE  SourceNext \/ UNCHANGED sourceVars
    BY <2>1 DEF Next, vars
  <2>2. QED
    BY <2>1, SourceInvStep
<1>3. QED
  BY <1>1, <1>2, PTL DEF Spec

\* Only a worker that takes a candidate has one that it had not.
LEMMA HandedByBegin ==
  ASSUME SourceTypeOK, SourceNext, NEW e \in Execs, NEW c, c \in busy'[e], c \notin busy[e]
  PROVE  Begin(e, c)
<1> USE DEF SourceTypeOK
<1>1. ASSUME NEW j \in Jobs, StartSourceRun(j) \/ StartUnbuilt(j) \/ Cancel(j)
      PROVE  FALSE
  BY <1>1 DEF StartSourceRun, StartUnbuilt, Cancel, work
<1>2. CASE Drain \/ Exit \/ Crash
  BY <1>2 DEF Drain, Exit, Crash, work
<1>3. ASSUME NEW x \in Execs, ExecStep(x)
      PROVE  Begin(e, c)
  <2>1. CASE LetGo(x) \/ Close(x)
    BY <2>1 DEF LetGo, Close, Over
  <2>2. CASE \/ Opened(x) \/ Poll(x) \/ PollEmpty(x) \/ PollFails(x) \/ Listen(x) \/ Breaks(x)
             \/ FinishRun(x) \/ ForgetRun(x) \/ Record(x) \/ Leave(x)
    BY <2>2 DEF Opened, Poll, PollEmpty, PollFails, Listen, Breaks, FinishRun, ForgetRun, Record, Leave, work
  <2>3. CASE Cancelled(x)
    BY <2>3 DEF Cancelled
  <2>4. ASSUME NEW d \in Candidates, Commit(x, d) \/ Miss(x, d)
        PROVE  FALSE
    BY <2>4 DEF Commit, Miss
  <2>5. ASSUME NEW d \in Candidates, Begin(x, d)
        PROVE  Begin(e, c)
    <3>1. x = e /\ d = c
      BY <2>5 DEF Begin
    <3>2. QED
      BY <2>5, <3>1
  <2>6. QED
    BY <1>3, <2>1, <2>2, <2>3, <2>4, <2>5 DEF ExecStep
<1>4. QED
  BY <1>1, <1>2, <1>3 DEF SourceNext, Run, Retry

\* While polls of the source do not meet, no candidate that a run not over has
\* committed is taken in hand again (data-model.md IK4).
THEOREM CommittedIsNotRedoneHolds == Spec => CommittedIsNotRedone
<1>1. ASSUME SourceInv, SourceNext, ~ met,
             NEW e \in Execs, NEW c \in busy'[e] \ busy[e], NEW l \in Execs, run[l] = "running"
      PROVE  c \notin done[l]
  <2>1. at[e] = "working" /\ c \in todo[e]
    BY <1>1, HandedByBegin DEF SourceInv, Begin
  <2>2. open = l /\ todo[e] \cap done[open] = {}
    BY <1>1, <2>1 DEF SourceInv, OneOpen
  <2>3. QED
    BY <2>1, <2>2
<1>2. SourceInv /\ [Next]_vars =>
        [~ met => \A e \in Execs : \A c \in busy'[e] \ busy[e] :
                    \A l \in Execs : run[l] = "running" => c \notin done[l]]_sourceVars
  <2>1. ASSUME [Next]_vars PROVE SourceNext \/ UNCHANGED sourceVars
    BY <2>1 DEF Next, vars
  <2>2. QED
    BY <1>1, <2>1
<1>3. QED
  BY <1>2, SourceInvHolds, PTL DEF Spec, CommittedIsNotRedone

-----------------------------------------------------------------------------
(* Numbers *)

LEMMA FirstNumbers == ASSUME NEW n \in Nat PROVE IsFiniteSet(1 .. n) /\ Cardinality(1 .. n) = n
<1>1. /\ IsFiniteSet(1 .. n)
      /\ Cardinality(1 .. n) = IF 1 > n THEN 0 ELSE n - 1 + 1
  <2>1. 1 \in Int /\ n \in Int
    OBVIOUS
  <2> QED
    BY <2>1, FS_Interval, Zenon
<1>2. (IF 1 > n THEN 0 ELSE n - 1 + 1) = n
  OBVIOUS
<1> QED
  BY <1>1, <1>2

LEMMA LeastNumber == ASSUME NEW T \in SUBSET Nat, T # {} PROVE \E n \in T : \A m \in T : n <= m
<1>1. IsWellFoundedOn(OpToRel(<, Nat), Nat)
  BY NatLessThanWellFounded, Zenon
<1>2. PICK n \in T : \A m \in T : <<m, n>> \notin OpToRel(<, Nat)
  BY <1>1, WFMin, Zenon
<1>3. ASSUME NEW m \in T PROVE n <= m
  <2>1. ~ m < n
    BY <1>2, <1>3, Zenon DEF OpToRel
  <2> QED
    BY <2>1
<1> QED
  BY <1>3

-----------------------------------------------------------------------------
(* The links that lead to an item *)

Leads(links, items, s, f) ==
  IF s = {} THEN <<>>
  ELSE LET x == Max(s)
       IN IF links[x] \in items THEN Append(f[s \ {x}], links[x]) ELSE f[s \ {x}]

Led(links, items, all, f) == f = [s \in SUBSET all |-> Leads(links, items, s, f)]

LEMMA LeadingIs ==
  ASSUME NEW links, NEW items
  PROVE  Leading(links, items) = (CHOOSE f : Led(links, items, DOMAIN links, f))[DOMAIN links]
  BY DEF Leading, FoldLeft, MapThenFoldSet, Leads, Led

LEMMA MaxOf ==
  ASSUME NEW n \in Nat, NEW s \in SUBSET (1 .. n), s # {}
  PROVE  Max(s) \in s /\ \A y \in s : y <= Max(s)
<1> DEFINE T == {k \in Nat : \A y \in s : y <= k}
<1>1. n \in T
  OBVIOUS
<1>2. PICK k \in T : \A m \in T : k <= m
  BY <1>1, LeastNumber, Zenon
<1>3. k \in s
  <2>1. SUFFICES ASSUME k \notin s PROVE FALSE
    OBVIOUS
  <2>2. PICK y \in s : TRUE
    BY Zenon
  <2>3. k - 1 \in T
    BY <2>1, <2>2
  <2> QED
    BY <1>2, <2>3
<1>4. k \in s /\ \A y \in s : k >= y
  BY <1>2, <1>3
<1> QED
  BY <1>4, Zenon DEF Max

LEMMA WithoutMax ==
  ASSUME NEW n \in Nat, NEW s \in SUBSET (1 .. n), s # {}
  PROVE  s \ {Max(s)} \in SUBSET (1 .. n - 1)
<1>1. Max(s) \in s /\ \A y \in s : y <= Max(s)
  BY MaxOf
<1>2. ASSUME NEW k \in s, NEW y \in s, y <= k, y # k PROVE y \in 1 .. n - 1
  <2>1. k \in Int /\ y \in Int /\ n \in Int /\ 1 <= y /\ k <= n
    OBVIOUS
  <2> QED
    BY <1>2, <2>1
<1> QED
  BY <1>1, <1>2, Zenon

LEMMA LeadsExist ==
  ASSUME NEW links, NEW items, NEW m \in Nat
  PROVE  \E f : Led(links, items, 1 .. m, f)
<1> USE DEF Led
<1> DEFINE Up(n) == \E f : f = [s \in SUBSET (1 .. n) |-> Leads(links, items, s, f)]
           B == {n \in Nat : ~ Up(n)}
<1>1. SUFFICES ASSUME B # {} PROVE FALSE
  OBVIOUS
<1>2. PICK n \in B : \A k \in B : n <= k
  <2> HIDE DEF Up
  <2> QED
    BY <1>1, LeastNumber, Zenon
<1>3. CASE n = 0
  <2> DEFINE f == [s \in {{}} |-> <<>>]
  <2>1. SUBSET (1 .. 0) = {{}}
    OBVIOUS
  <2>2. f = [s \in SUBSET (1 .. 0) |-> Leads(links, items, s, f)]
    BY <2>1 DEF Leads
  <2> QED
    BY <1>2, <1>3, <2>2, Zenon
<1>4. CASE n # 0
  <2>1. n \in Nat /\ n - 1 \in Nat /\ Up(n - 1)
    <3> HIDE DEF Up
    <3>1. n \in Nat /\ n - 1 \in Nat /\ ~ n <= n - 1
      BY <1>2, <1>4
    <3> QED
      BY <1>2, <3>1
  <2>2. PICK f : f = [s \in SUBSET (1 .. n - 1) |-> Leads(links, items, s, f)]
    BY <2>1
  <2> DEFINE g == [s \in SUBSET (1 .. n) |-> Leads(links, items, s, f)]
  <2>3. ASSUME NEW s \in SUBSET (1 .. n - 1) PROVE s \in SUBSET (1 .. n) /\ g[s] = f[s]
    BY <2>1, <2>2
  <2>4. ASSUME NEW s \in SUBSET (1 .. n) PROVE Leads(links, items, s, f) = Leads(links, items, s, g)
    <3>1. CASE s = {}
      BY <3>1 DEF Leads
    <3>2. CASE s # {}
      <4>1. f[s \ {Max(s)}] = g[s \ {Max(s)}]
        BY <2>1, <2>3, <3>2, WithoutMax, Zenon
      <4> HIDE DEF g
      <4> QED
        BY <4>1 DEF Leads
    <3> QED
      BY <3>1, <3>2
  <2>5. g = [s \in SUBSET (1 .. n) |-> Leads(links, items, s, g)]
    BY <2>4, Zenon
  <2> QED
    BY <1>2, <2>5, Zenon
<1> QED
  BY <1>3, <1>4

LEMMA LeadingChosen ==
  ASSUME NEW links \in Seq(Docs), NEW items
  PROVE  \E f : /\ Leading(links, items) = f[1 .. Len(links)]
                /\ Led(links, items, 1 .. Len(links), f)
<1>1. DOMAIN links = 1 .. Len(links) /\ Len(links) \in Nat
  OBVIOUS
<1>2. \E f : Led(links, items, 1 .. Len(links), f)
  BY <1>1, LeadsExist
<1>3. Led(links, items, 1 .. Len(links), CHOOSE f : Led(links, items, 1 .. Len(links), f))
  BY <1>2
<1>4. Leading(links, items) = (CHOOSE f : Led(links, items, 1 .. Len(links), f))[1 .. Len(links)]
  BY <1>1, LeadingIs
<1> QED
  BY <1>3, <1>4, Zenon

\* What is left of a sequence of links is one too.
LEMMA LeadingTypes ==
  ASSUME NEW links \in Seq(Docs), NEW items
  PROVE  Leading(links, items) \in Seq(Docs)
<1>0. PICK f : /\ Leading(links, items) = f[1 .. Len(links)]
               /\ Led(links, items, 1 .. Len(links), f)
  BY LeadingChosen
<1>1. /\ Leading(links, items) = f[1 .. Len(links)]
      /\ f = [s \in SUBSET (1 .. Len(links)) |-> Leads(links, items, s, f)]
      /\ Len(links) \in Nat /\ 1 .. Len(links) \in SUBSET (1 .. Len(links))
  BY <1>0 DEF Led
<1> DEFINE B == {n \in 0 .. Len(links) : \E s \in SUBSET (1 .. n) : f[s] \notin Seq(Docs)}
<1>2. SUFFICES ASSUME B # {} PROVE FALSE
  BY <1>1
<1>3. PICK n \in B : \A k \in B : n <= k
  <2>1. B \in SUBSET Nat
    OBVIOUS
  <2> HIDE DEF B
  <2> QED
    BY <1>2, <2>1, LeastNumber
<1>4. PICK s \in SUBSET (1 .. n) : f[s] \notin Seq(Docs)
  BY <1>3
<1>5. n \in 0 .. Len(links) /\ Len(links) \in Nat /\ s \in SUBSET (1 .. Len(links))
  BY <1>3
<1>6. f[s] = Leads(links, items, s, f)
  BY <1>1, <1>5
<1>7. s # {}
  BY <1>4, <1>6 DEF Leads
<1>8. Max(s) \in s /\ s \ {Max(s)} \in SUBSET (1 .. n - 1) /\ n # 0
  <2>1. n \in Nat /\ s \in SUBSET (1 .. n)
    BY <1>5
  <2>2. Max(s) \in s
    BY <1>7, <2>1, MaxOf, Zenon
  <2>3. s \ {Max(s)} \in SUBSET (1 .. n - 1)
    BY <1>7, <2>1, WithoutMax, Zenon
  <2>4. ASSUME n = 0 PROVE FALSE
    <3>1. 1 .. n = {}
      BY <2>4
    <3> QED
      BY <1>7, <2>1, <3>1, Zenon
  <2> QED
    BY <2>2, <2>3, <2>4
<1>9. f[s \ {Max(s)}] \in Seq(Docs)
  <2>1. n - 1 \in 0 .. Len(links) /\ ~ n <= n - 1
    BY <1>5, <1>8
  <2>2. n - 1 \notin B
    <3> HIDE DEF B
    <3> QED
      BY <1>3, <2>1
  <2> QED
    BY <1>8, <2>1, <2>2
<1>10. links[Max(s)] \in Docs
  BY <1>5, <1>8
<1> QED
  BY <1>4, <1>6, <1>7, <1>9, <1>10 DEF Leads

\* Where all have an item nothing is left out.
LEMMA LeadingAll ==
  ASSUME NEW links \in Seq(Docs), NEW items, Docs \subseteq items
  PROVE  Leading(links, items) = links
<1>0. PICK f : /\ Leading(links, items) = f[1 .. Len(links)]
               /\ Led(links, items, 1 .. Len(links), f)
  BY LeadingChosen
<1>1. /\ Leading(links, items) = f[1 .. Len(links)]
      /\ f = [s \in SUBSET (1 .. Len(links)) |-> Leads(links, items, s, f)]
      /\ Len(links) \in Nat /\ 1 .. Len(links) \in SUBSET (1 .. Len(links))
  BY <1>0 DEF Led
<1> DEFINE Good(n) == f[1 .. n] \in Seq(Docs) /\ Len(f[1 .. n]) = n /\ \A i \in 1 .. n : f[1 .. n][i] = links[i]
           B == {n \in 0 .. Len(links) : ~ Good(n)}
<1>2. ASSUME B # {} PROVE FALSE
  <2>1. PICK n \in B : \A k \in B : n <= k
    <3>1. B \in SUBSET Nat
      OBVIOUS
    <3> HIDE DEF B
    <3> QED
      BY <1>2, <3>1, LeastNumber
  <2>2. n \in 0 .. Len(links) /\ Len(links) \in Nat /\ 1 .. n \in SUBSET (1 .. Len(links))
    BY <2>1
  <2>3. f[1 .. n] = Leads(links, items, 1 .. n, f)
    BY <1>1, <2>2
  <2>4. CASE n = 0
    <3>1. 1 .. n = {}
      BY <2>4
    <3>2. f[1 .. n] = <<>>
      BY <2>3, <3>1 DEF Leads
    <3>3. Good(n)
      BY <2>4, <3>1, <3>2
    <3> QED
      BY <2>1, <3>3
  <2>5. CASE n # 0
    <3>1. n - 1 \in 0 .. Len(links) /\ ~ n <= n - 1
      BY <2>2, <2>5
    <3>2. Good(n - 1)
      <4> HIDE DEF Good
      <4> QED
        BY <2>1, <3>1
    <3>3. Max(1 .. n) = n /\ (1 .. n) \ {n} = 1 .. n - 1
      <4>1. 1 .. n # {} /\ n \in 1 .. n /\ n \in Nat /\ 1 .. n \in SUBSET (1 .. n)
        <5>1. n \in Nat /\ 1 <= n
          BY <2>2, <2>5
        <5>2. n \in 1 .. n
          BY <5>1
        <5> QED
          BY <5>1, <5>2, Zenon
      <4>2. Max(1 .. n) \in 1 .. n /\ n <= Max(1 .. n)
        BY <4>1, MaxOf, Zenon
      <4>3. \A k \in 1 .. n : n <= k => k = n
        BY <2>2
      <4>4. (1 .. n) \ {n} = 1 .. n - 1
        BY <2>2
      <4> QED
        BY <4>2, <4>3, <4>4
    <3>4. links[n] \in Docs
      BY <2>2, <2>5
    <3>5. f[1 .. n] = Append(f[1 .. n - 1], links[n])
      <4>1. 1 .. n # {}
        <5>1. n \in Nat /\ 1 <= n
          BY <2>2, <2>5
        <5>2. n \in 1 .. n
          BY <5>1
        <5> QED
          BY <5>1, <5>2, Zenon
      <4>2. Docs \subseteq items /\ links[n] \in items
        BY <3>4
      <4> QED
        BY <2>3, <3>3, <4>1, <4>2, Zenon DEF Leads
    <3>6. Good(n)
      <4> DEFINE a == f[1 .. n - 1]
      <4>1. a \in Seq(Docs) /\ Len(a) = n - 1 /\ \A i \in 1 .. n - 1 : a[i] = links[i]
        BY <3>2
      <4> HIDE DEF a
      <4>2. Append(a, links[n]) \in Seq(Docs) /\ Len(Append(a, links[n])) = n
        BY <2>2, <3>4, <4>1
      <4>3. \A i \in 1 .. n : Append(a, links[n])[i] = links[i]
        BY <2>2, <3>4, <4>1
      <4> QED
        BY <3>5, <4>2, <4>3 DEF a
    <3> QED
      BY <2>1, <3>6
  <2> QED
    BY <2>4, <2>5
<1>3. Good(Len(links))
  <2> HIDE DEF Good
  <2> QED
    BY <1>2
<1> DEFINE a == f[1 .. Len(links)]
<1>4. a \in Seq(Docs) /\ Len(a) = Len(links) /\ \A i \in 1 .. Len(links) : a[i] = links[i]
  BY <1>3
<1> HIDE DEF a
<1>5. a = links
  BY <1>4
<1> QED
  BY <1>1, <1>5 DEF a
-----------------------------------------------------------------------------
(* Paperless: types, and where a run is *)

Writing == {"tags", "notes", "values", "original", "observe", "done"}
PaperSteps == Writing \cup {"fetch", "look", "left", "upsert"}
AllTexts == UNION {Texts(d) : d \in Docs}

PapersKind ==
  [tags : SUBSET Labels, fields : SUBSET Fields, item : [Docs -> {"none", "live", "trashed"}],
   tagged : [Docs -> SUBSET Labels], note : [Docs -> SUBSET AllTexts],
   asn : [Docs -> SUBSET Numbers], kept : [Docs -> SUBSET Numbers],
   link : [Docs -> Seq(Docs)], file : [Bytes -> {"none", "live", "trashed"}],
   attached : [Docs -> {"none", "live", "detached"}], provenance : SUBSET Docs, dated : SUBSET Docs,
   own : SUBSET Docs, taken : SUBSET Numbers]

Errands ==
  [after : 0 .. Paperless.count, last : 0 .. Paperless.count, step : PaperSteps \cup {"off"},
   labels : SUBSET Labels, items : SUBSET Docs, since : 0 .. MaxEdits]

JobKinds ==
  /\ import \in [state : {"none", "running", "succeeded", "failed", "cancelled"}, cursor : 0 .. 5]
  /\ doing \in [stage : 0 .. 6, n : Nat, made : {FALSE}, left : {<<>>}]
  /\ stops \in 0 .. MaxStops /\ touches \in 0 .. MaxTouches
  /\ touched \in BOOLEAN /\ settled \in {"no", "began", "ended"}

PaperKinds ==
  /\ JobKinds
  /\ papers \in PapersKind /\ errand \in Errands
  /\ reach \in 0 .. Paperless.count /\ edits \in 0 .. MaxEdits

\* Where a run is, and that the row says so.
Whereabouts ==
  /\ doing.stage \in {0, 6} => doing.n = 0
  /\ doing = Idle <=> errand.step = "off"
  /\ doing = Idle <=> doing.stage = 0
  /\ doing # Idle => /\ import.state = "running" /\ errand.last = reach /\ errand.since <= edits
                     /\ import.cursor \in {doing.stage - 1, doing.stage}
  /\ doing.n > 0 => import.cursor = doing.stage
  /\ errand.step = "fetch" => doing.n = 0
  /\ doing.stage \in 1 .. 5 => doing.n <= Len(PaperRows(PaperStages[doing.stage])) + 1
  /\ errand.step \in Writing \cup {"left", "upsert"} => doing.stage = 3 /\ doing.n \in Docs
  /\ import.state = "succeeded" => import.cursor = 5

LEMMA StagesAre ==
  /\ DOMAIN PaperStages = 1 .. 5 /\ Len(PaperStages) = 5
  /\ PaperStages[1] = "vocabularies" /\ PaperStages[2] = "custom_fields" /\ PaperStages[3] = "documents"
  /\ PaperStages[4] = "links" /\ PaperStages[5] = "finalise"
  BY DEF PaperStages

LEMMA DocsAre == /\ Docs = 1 .. Paperless.count /\ Paperless.count \in Nat
                 /\ [d \in Docs |-> d] \in Seq(Docs) /\ Len([d \in Docs |-> d]) = Paperless.count
                 /\ DOMAIN [d \in Docs |-> d] = Docs
<1>1. Docs = 1 .. Paperless.count /\ Paperless.count \in Nat
  BY PaperlessSetup DEF Docs
<1> QED
  BY <1>1

LEMMA RowsAre ==
  /\ PaperRows("vocabularies") = Paperless.tags /\ PaperRows("custom_fields") = Paperless.fields
  /\ PaperRows("documents") = [d \in Docs |-> d] /\ PaperRows("links") = [d \in Docs |-> d]
  /\ PaperRows("finalise") = [d \in Docs |-> d]
  BY DEF PaperRows

\* What a run is at in each of its stages.
LEMMA AtTag ==
  ASSUME OnStage("vocabularies")
  PROVE  doing.stage = 1 /\ doing.n \in DOMAIN Paperless.tags /\ Row = Paperless.tags[doing.n] /\ errand.step # "fetch"
  BY StagesAre, RowsAre DEF OnStage, Row

LEMMA AtField ==
  ASSUME OnStage("custom_fields")
  PROVE  doing.stage = 2 /\ doing.n \in DOMAIN Paperless.fields /\ Row = Paperless.fields[doing.n] /\ errand.step # "fetch"
  BY StagesAre, RowsAre DEF OnStage, Row

LEMMA AtDocument ==
  ASSUME NEW step, OnDocument(step)
  PROVE  doing.stage = 3 /\ doing.n \in Docs /\ Row = doing.n /\ errand.step = step /\ step # "fetch"
<1>1. doing.stage = 3 /\ doing.n \in DOMAIN PaperRows("documents") /\ errand.step # "fetch" /\ errand.step = step
  BY StagesAre DEF OnDocument, OnStage
<1>2. doing.n \in Docs
  BY <1>1, RowsAre, DocsAre, Zenon
<1>3. Row = [d \in Docs |-> d][doing.n]
  BY <1>1, StagesAre, RowsAre DEF Row
<1> QED
  BY <1>1, <1>2, <1>3

LEMMA AtLink ==
  ASSUME OnStage("links")
  PROVE  doing.stage = 4 /\ doing.n \in Docs /\ Row = doing.n /\ errand.step # "fetch"
<1>1. doing.stage = 4 /\ doing.n \in DOMAIN PaperRows("links") /\ errand.step # "fetch"
  BY StagesAre DEF OnStage
<1>2. doing.n \in Docs
  BY <1>1, RowsAre, DocsAre, Zenon
<1>3. Row = [d \in Docs |-> d][doing.n]
  BY <1>1, StagesAre, RowsAre DEF Row
<1> QED
  BY <1>1, <1>2, <1>3

LEMMA AtDate ==
  ASSUME OnStage("finalise")
  PROVE  doing.stage = 5 /\ doing.n \in Docs /\ Row = doing.n /\ errand.step # "fetch"
<1>1. doing.stage = 5 /\ doing.n \in DOMAIN PaperRows("finalise") /\ errand.step # "fetch"
  BY StagesAre DEF OnStage
<1>2. doing.n \in Docs
  BY <1>1, RowsAre, DocsAre, Zenon
<1>3. Row = [d \in Docs |-> d][doing.n]
  BY <1>1, StagesAre, RowsAre DEF Row
<1> QED
  BY <1>1, <1>2, <1>3

LEMMA IdleAndOff ==
  /\ Idle \in [stage : 0 .. 6, n : Nat, made : {FALSE}, left : {<<>>}] /\ Idle.stage = 0 /\ Idle.n = 0
  /\ Off \in Errands /\ Off.step = "off"
<1>1. 0 \in 0 .. Paperless.count /\ 0 \in 0 .. MaxEdits
  BY PaperlessSetup
<1> QED
  BY <1>1 DEF Idle, Off, Errands, NoCursor

LEMMA TypesWhenOver ==
  ASSUME PaperKinds, NEW state \in {"failed", "running", "succeeded", "cancelled"}, End(state), errand' = Off,
         UNCHANGED <<papers, edits>>, reach' \in 0 .. Paperless.count,
         stops' \in 0 .. MaxStops, settled' \in {"no", "began", "ended"}
  PROVE  PaperKinds'
  BY IdleAndOff, Zenon DEF PaperKinds, JobKinds, End

LEMMA TypesWhenOn ==
  ASSUME PaperKinds, NEW w \in Errands, AdvanceAs(w)
  PROVE  PaperKinds'
<1>1. w.last \in 0 .. Paperless.count /\ [w EXCEPT !.step = "look"] \in Errands
  BY DEF Errands, PaperSteps
<1>2. CASE AbortRun /\ errand' = Off
  <2>1. stops' \in 0 .. MaxStops /\ UNCHANGED settled
    BY <1>2, ImportSetup DEF AbortRun, PaperKinds, JobKinds
  <2> QED
    BY <1>1, <1>2, <2>1, TypesWhenOver, Zenon DEF AdvanceAs, AbortRun, PaperKinds, JobKinds
<1>3. CASE /\ doing' = [doing EXCEPT !.n = @ + 1] /\ errand' = [w EXCEPT !.step = "look"]
           /\ UNCHANGED <<import, log, stops, touches, touched, settled>>
  <2>1. doing' \in [stage : 0 .. 6, n : Nat, made : {FALSE}, left : {<<>>}]
    <3>1. doing \in [stage : 0 .. 6, n : Nat, made : {FALSE}, left : {<<>>}]
      BY Zenon DEF PaperKinds, JobKinds
    <3>2. doing.n + 1 \in Nat
      BY <3>1
    <3> QED
      BY <1>3, <3>1, <3>2, Zenon
  <2>2. errand' \in Errands /\ reach' \in 0 .. Paperless.count
    BY <1>1, <1>3 DEF AdvanceAs
  <2> QED
    BY <1>3, <2>1, <2>2, Zenon DEF AdvanceAs, PaperKinds, JobKinds
<1> QED
  BY <1>2, <1>3 DEF AdvanceAs

LEMMA TypesWhenWritten ==
  ASSUME PaperKinds, NEW l \in PapersKind, NEW step \in PaperSteps, Wrote(l, step)
  PROVE  PaperKinds'
  BY Zenon DEF Wrote, PaperKinds, JobKinds, jobVars, Errands

LEMMA TypesWhenSeen ==
  ASSUME PaperKinds, NEW entries, NEW step \in PaperSteps, Observe(entries, step)
  PROVE  PaperKinds'
  BY Zenon DEF Observe, PaperKinds, JobKinds, Errands

LEMMA TypesWhenRefused == ASSUME PaperKinds, Refused PROVE PaperKinds'
  BY TypesWhenOver, Zenon DEF Refused, Throw, PaperKinds, JobKinds

\* A run's own steps.
LEMMA TypesOfRun ==
  ASSUME PaperKinds,
         ClaimPaper \/ FetchSnapshot \/ BeginPaperStage \/ EndPaperStage \/ FinishPaper \/ CutPaper
  PROVE  PaperKinds'
<1>1. CASE ClaimPaper
  <2>1. reach' \in 0 .. Paperless.count /\ edits \in 0 .. MaxEdits
    BY <1>1, PaperlessSetup DEF ClaimPaper, PaperKinds
  <2>2. errand' \in Errands
    BY <1>1, <2>1, IdleAndOff, Zenon DEF ClaimPaper, Errands, PaperSteps
  <2>3. import' \in [state : {"none", "running", "succeeded", "failed", "cancelled"}, cursor : 0 .. 5]
    BY <1>1 DEF ClaimPaper, Claim, Resume, NoCursor, PaperKinds, JobKinds
  <2>4. doing' \in [stage : 0 .. 6, n : Nat, made : {FALSE}, left : {<<>>}]
    <3>1. Resume \in 0 .. 6
      BY DEF Resume, NoCursor, PaperKinds, JobKinds
    <3>2. PICK stage \in 0 .. 6 : doing' = [Idle EXCEPT !.stage = stage]
      BY <1>1, <3>1 DEF ClaimPaper, Claim
    <3> QED
      BY <3>2, IdleAndOff, Zenon
  <2> QED
    BY <1>1, <2>1, <2>2, <2>3, <2>4, Zenon DEF ClaimPaper, Claim, PaperKinds, JobKinds
<1>2. CASE FetchSnapshot
  BY <1>2, Zenon DEF FetchSnapshot, PaperKinds, JobKinds, jobVars, Errands, PaperSteps, PapersKind, Live
<1>3. CASE BeginPaperStage
  <2>1. doing.stage \in 1 .. 5
    BY <1>3, StagesAre DEF BeginPaperStage
  <2>2. import' \in [state : {"none", "running", "succeeded", "failed", "cancelled"}, cursor : 0 .. 5]
    BY <1>3, <2>1 DEF BeginPaperStage, Checkpoint, PaperKinds, JobKinds
  <2>3. doing' \in [stage : 0 .. 6, n : Nat, made : {FALSE}, left : {<<>>}]
    BY <1>3, Zenon DEF BeginPaperStage, PaperKinds, JobKinds
  <2> QED
    BY <1>3, <2>2, <2>3, Zenon DEF BeginPaperStage, PaperKinds, JobKinds
<1>4. CASE EndPaperStage
  <2>1. doing.stage + 1 \in 0 .. 6
    BY <1>4, StagesAre DEF EndPaperStage
  <2> QED
    BY <1>4, <2>1, IdleAndOff, Zenon DEF EndPaperStage, PaperKinds, JobKinds
<1>5. CASE FinishPaper
  BY <1>5, TypesWhenOver, Zenon DEF FinishPaper, Succeed, PaperKinds, JobKinds
<1>6. CASE CutPaper
  <2>1. stops' \in 0 .. MaxStops
    BY <1>6, ImportSetup DEF CutPaper, Cut, PaperKinds, JobKinds
  <2> QED
    BY <1>6, <2>1, TypesWhenOver, Zenon DEF CutPaper, Cut, PaperKinds, JobKinds
<1> QED
  BY <1>1, <1>2, <1>3, <1>4, <1>5, <1>6

LEMMA PartsOfServer ==
  /\ Range(Paperless.tags) = Labels /\ Range(Paperless.fields) = Fields
  /\ \A m \in DOMAIN Paperless.tags : Paperless.tags[m] \in Labels
  /\ \A m \in DOMAIN Paperless.fields : Paperless.fields[m] \in Fields
  /\ \A d \in Docs : /\ Texts(d) \in SUBSET AllTexts /\ Paperless.asn[d] \in SUBSET Numbers
                     /\ Paperless.bytes[d] \in Bytes
                     /\ Allocated(d) \in SUBSET Paperless.asn[d] /\ Allocated(d) \in SUBSET Numbers
  BY PaperlessSnapshot DEF Labels, Fields, ToSet, Range, AllTexts, Numbers, Bytes, Allocated

LEMMA SlotsTypes == ASSUME PaperKinds, NEW d \in Docs PROVE Slots(d) \in Seq(Docs)
<1> DEFINE to == Leading(Paperless.links[d], errand.items)
<1>1. to \in Seq(Docs) /\ papers.link[d] \in Seq(Docs)
  BY LeadingTypes, PaperlessSnapshot DEF PaperKinds, PapersKind
<1> HIDE DEF to
<1>2. SubSeq(papers.link[d], Len(to) + 1, Len(papers.link[d])) \in Seq(Docs)
  BY <1>1, SubSeqProperties
<1>3. to \o SubSeq(papers.link[d], Len(to) + 1, Len(papers.link[d])) \in Seq(Docs)
  BY <1>1, <1>2
<1> QED
  BY <1>3 DEF Slots, to

LEMMA TypesOfTags ==
  ASSUME PaperKinds, ImportPaperTag \/ DefineCustomField
  PROVE  PaperKinds'
<1>0. papers \in PapersKind /\ errand \in Errands /\ "look" \in PaperSteps
  BY DEF PaperKinds, PaperSteps
<1>1. CASE ImportPaperTag
  <2>1. Row \in Labels
    BY <1>1, AtTag, PartsOfServer DEF ImportPaperTag
  <2>2. [papers EXCEPT !.tags = @ \cup {Row}] \in PapersKind /\ [errand EXCEPT !.labels = @ \cup {Row}] \in Errands
    BY <1>0, <2>1, ZenonT(60) DEF PapersKind, Errands
  <2> QED
    BY <1>0, <1>1, <2>2, TypesWhenOn, TypesWhenWritten DEF ImportPaperTag
<1>2. CASE DefineCustomField
  <2>1. Row \in Fields
    BY <1>2, AtField, PartsOfServer DEF DefineCustomField
  <2>2. [papers EXCEPT !.fields = @ \cup {Row}] \in PapersKind
    BY <1>0, <2>1, Zenon DEF PapersKind
  <2> QED
    BY <1>0, <1>2, <2>2, TypesWhenOn, TypesWhenWritten DEF DefineCustomField
<1> QED
  BY <1>1, <1>2

LEMMA TypesOfDocuments ==
  ASSUME PaperKinds,
         PassOver \/ LeaveTrashedItemAlone \/ UpsertItem \/ ApplyTags \/ ApplyNotes \/ ApplyValues \/ ImportOriginal
  PROVE  PaperKinds'
<1>0. /\ papers \in PapersKind /\ errand \in Errands
      /\ Writing \cup {"look", "left", "upsert"} \subseteq PaperSteps
  BY DEF PaperKinds, PaperSteps
<1>1. \A d \in Docs : [errand EXCEPT !.last = d] \in Errands
  <2>1. \A d \in Docs : d \in 0 .. Paperless.count
    BY DocsAre
  <2> QED
    BY <1>0, <2>1 DEF Errands
<1>2. CASE PassOver
  <2>1. [errand EXCEPT !.items = @ \cup ({Row} \cap Live)] \in Errands
    BY <1>0 DEF Errands, Live
  <2> QED
    BY <1>2, <2>1, TypesWhenOn DEF PassOver
<1>3. CASE LeaveTrashedItemAlone
  BY <1>0, <1>1, <1>3, AtDocument, TypesWhenOn, TypesWhenSeen DEF LeaveTrashedItemAlone
<1>4. CASE UpsertItem
  <2>1. Row \in Docs
    BY <1>4, AtDocument DEF UpsertItem
  <2>2. [papers EXCEPT !.item[Row] = "live", !.asn[Row] = Allocated(Row), !.dated = @ \ {Row}] \in PapersKind
    BY <1>0, <2>1, PartsOfServer, Zenon DEF PapersKind
  <2>3. [errand EXCEPT !.step = "tags", !.items = @ \cup {Row}] \in Errands
    BY <1>0, <2>1, Zenon DEF Errands, Writing, PaperSteps
  <2>4. CASE Refused
    BY <2>4, TypesWhenRefused
  <2>5. CASE ~ Refused
    <3>1. papers' \in PapersKind /\ errand' \in Errands
      BY <1>0, <1>4, <2>2, <2>3, <2>5 DEF UpsertItem
    <3> QED
      BY <1>4, <2>5, <3>1, Zenon DEF UpsertItem, PaperKinds, JobKinds
  <2> QED
    BY <2>4, <2>5
<1>5. CASE ApplyTags
  <2>1. Row \in Docs
    BY <1>5, AtDocument DEF ApplyTags
  <2>2. Paperless.tagged[Row] \cap errand.labels \in SUBSET Labels
    BY <1>0 DEF Errands
  <2>3. [papers EXCEPT !.tagged[Row] = @ \cup (Paperless.tagged[Row] \cap errand.labels)] \in PapersKind
    BY <1>0, <2>1, <2>2, Zenon DEF PapersKind
  <2>4. "notes" \in PaperSteps
    BY DEF Writing, PaperSteps
  <2> QED
    BY <1>5, <2>3, <2>4, TypesWhenWritten, TypesWhenRefused DEF ApplyTags
<1>6. CASE ApplyNotes
  <2>1. Row \in Docs
    BY <1>6, AtDocument DEF ApplyNotes
  <2>2. [papers EXCEPT !.note[Row] = @ \cup Texts(Row)] \in PapersKind
    BY <1>0, <2>1, PartsOfServer, Zenon DEF PapersKind
  <2>3. "values" \in PaperSteps
    BY DEF Writing, PaperSteps
  <2> QED
    BY <1>6, <2>2, <2>3, TypesWhenWritten, TypesWhenRefused DEF ApplyNotes
<1>7. CASE ApplyValues
  <2>1. Row \in Docs
    BY <1>7, AtDocument DEF ApplyValues
  <2>2. [papers EXCEPT !.kept[Row] = @ \cup Paperless.asn[Row]] \in PapersKind
    BY <1>0, <2>1, PartsOfServer, Zenon DEF PapersKind
  <2>3. "original" \in PaperSteps
    BY DEF Writing, PaperSteps
  <2> QED
    BY <1>7, <2>2, <2>3, TypesWhenWritten DEF ApplyValues
<1>8. CASE ImportOriginal
  <2>1. Row \in Docs
    BY <1>8, AtDocument DEF ImportOriginal
  <2>2. [papers EXCEPT !.file[Paperless.bytes[Row]] = "live", !.provenance = @ \cup {Row}, !.attached[Row] = "live"]
          \in PapersKind
    BY <1>0, <2>1, PartsOfServer, Zenon DEF PapersKind
  <2>3. "done" \in PaperSteps /\ "observe" \in PaperSteps /\ [errand EXCEPT !.last = Row] \in Errands
    BY <1>1, <2>1 DEF Writing, PaperSteps
  <2> QED
    BY <1>8, <2>2, <2>3, TypesWhenWritten, TypesWhenRefused, TypesWhenSeen, TypesWhenOn DEF ImportOriginal
<1> QED
  BY <1>2, <1>3, <1>4, <1>5, <1>6, <1>7, <1>8

LEMMA TypesOfLinks ==
  ASSUME PaperKinds, ImportDocumentLinks \/ FinaliseDocument
  PROVE  PaperKinds'
<1>0. papers \in PapersKind /\ errand \in Errands /\ "look" \in PaperSteps
  BY DEF PaperKinds, PaperSteps
<1>1. CASE ImportDocumentLinks
  <2>1. Row \in Docs
    BY <1>1, AtLink DEF ImportDocumentLinks
  <2>2. [papers EXCEPT !.link[Row] = Slots(Row)] \in PapersKind
    BY <1>0, <2>1, SlotsTypes, Zenon DEF PapersKind
  <2> QED
    BY <1>0, <1>1, <2>2, TypesWhenOn, TypesWhenWritten DEF ImportDocumentLinks
<1>2. CASE FinaliseDocument
  <2>1. Row \in Docs
    BY <1>2, AtDate DEF FinaliseDocument
  <2>2. [papers EXCEPT !.dated = @ \cup {Row}] \in PapersKind
    BY <1>0, <2>1, Zenon DEF PapersKind
  <2> QED
    BY <1>0, <1>2, <2>2, TypesWhenOn, TypesWhenWritten DEF FinaliseDocument
<1> QED
  BY <1>1, <1>2

\* What people do to one document, a file, a tag, or elsewhere.
PeoplesHand(d) == BinPaper(d) \/ RestorePaper(d) \/ RemoveNote(d) \/ AddNote(d) \/ DetachFile(d) \/ BinFile(d)

LEMMA TypesOfPeople == ASSUME PaperKinds, PeopleEdit PROVE PaperKinds'
<1>0. papers \in PapersKind
  BY DEF PaperKinds
<1>1. ASSUME NEW d \in Docs, PeoplesHand(d) PROVE papers' \in PapersKind
  <2>1. CASE BinPaper(d) \/ RestorePaper(d)
    <3>1. \A state \in {"live", "trashed"} :
            [papers EXCEPT !.item[d] = state, !.dated = @ \ {d}] \in PapersKind
      BY <1>0, Zenon DEF PapersKind
    <3> QED
      BY <2>1, <3>1 DEF BinPaper, RestorePaper
  <2>2. CASE RemoveNote(d)
    <3>1. \A x : [papers EXCEPT !.note[d] = @ \ {x}] \in PapersKind
      BY <1>0, Zenon DEF PapersKind
    <3> QED
      BY <2>2, <3>1 DEF RemoveNote
  <2>3. CASE AddNote(d) \/ DetachFile(d)
    <3>1. [papers EXCEPT !.own = @ \cup {d}] \in PapersKind /\ [papers EXCEPT !.attached[d] = "detached"] \in PapersKind
      BY <1>0, Zenon DEF PapersKind
    <3> QED
      BY <2>3, <3>1 DEF AddNote, DetachFile
  <2>4. CASE BinFile(d)
    BY <1>0, <2>4, PartsOfServer, Zenon DEF BinFile, PapersKind
  <2> QED
    BY <1>1, <2>1, <2>2, <2>3, <2>4 DEF PeoplesHand
<1>2. ASSUME NEW b \in Bytes, RestoreFile(b) PROVE papers' \in PapersKind
  BY <1>0, <1>2, Zenon DEF RestoreFile, PapersKind
<1>3. ASSUME NEW t \in Labels, BinTag(t) PROVE papers' \in PapersKind
  BY <1>0, <1>3, Zenon DEF BinTag, PapersKind
<1>4. ASSUME NEW x \in Numbers, OtherAsn(x) PROVE papers' \in PapersKind
  <2>1. [papers EXCEPT !.taken = @ \ {x}] \in PapersKind /\ [papers EXCEPT !.taken = @ \cup {x}] \in PapersKind
    BY <1>0, Zenon DEF PapersKind
  <2> QED
    BY <1>4, <2>1 DEF OtherAsn
<1>5. papers' \in PapersKind
  BY <1>1, <1>2, <1>3, <1>4 DEF PeopleEdit, PeoplesHand
<1>6. edits' \in 0 .. MaxEdits
  BY PaperlessSetup DEF PeopleEdit, PaperKinds
<1> QED
  BY <1>5, <1>6, Zenon DEF PeopleEdit, PaperKinds, JobKinds

LEMMA PaperTypesStep == PaperKinds /\ (PaperlessNext \/ UNCHANGED paperVars) => PaperKinds'
<1>1. ASSUME PaperKinds, UNCHANGED paperVars PROVE PaperKinds'
  BY <1>1, Zenon DEF paperVars, jobVars, PaperKinds, JobKinds
<1> QED
  BY <1>1, TypesOfRun, TypesOfTags, TypesOfDocuments, TypesOfLinks, TypesOfPeople DEF PaperlessNext

LEMMA PaperTypesInit == PaperlessInit => PaperKinds
<1> SUFFICES ASSUME PaperlessInit PROVE PaperKinds
  OBVIOUS
<1>1. JobKinds
  <2>1. /\ import = [state |-> "none", cursor |-> 0] /\ doing = Idle /\ stops = 0 /\ touches = 0
        /\ touched = FALSE /\ settled = "no"
    BY DEF PaperlessInit, JobInit, NoCursor
  <2>2. Idle \in [stage : 0 .. 6, n : Nat, made : {FALSE}, left : {<<>>}]
    BY DEF Idle, NoCursor
  <2>3. stops \in 0 .. MaxStops /\ touches \in 0 .. MaxTouches
    BY <2>1, ImportSetup
  <2>4. import \in [state : {"none", "running", "succeeded", "failed", "cancelled"}, cursor : 0 .. 5]
    BY <2>1
  <2>5. touched \in BOOLEAN /\ settled \in {"no", "began", "ended"}
    BY <2>1, Zenon
  <2> QED
    BY <2>1, <2>2, <2>3, <2>4, <2>5, Zenon DEF JobKinds
<1>2. papers \in PapersKind
  BY PaperlessSnapshot DEF PaperlessInit, PapersKind
<1>3. errand \in Errands /\ reach \in 0 .. Paperless.count /\ edits \in 0 .. MaxEdits
  BY IdleAndOff, PaperlessSetup DEF PaperlessInit
<1> QED
  BY <1>1, <1>2, <1>3 DEF PaperKinds

LEMMA WhereWhenOver ==
  ASSUME PaperKinds, PaperKinds', Whereabouts, doing' = Idle, errand' = Off, import'.cursor = import.cursor,
         import'.state = "succeeded" => import.cursor = 5
  PROVE  Whereabouts'
  BY IdleAndOff DEF Whereabouts, Writing

LEMMA WhereWhenOn ==
  ASSUME PaperKinds, PaperKinds', Whereabouts, NEW w \in Errands, AdvanceAs(w), w.since = errand.since,
         doing.stage \in 1 .. 5, doing.n \in 1 .. Len(PaperRows(PaperStages[doing.stage]))
  PROVE  Whereabouts'
<1>1. CASE AbortRun /\ errand' = Off
  BY <1>1, WhereWhenOver, Zenon DEF AbortRun, End, PaperKinds, JobKinds
<1>2. CASE doing' = [doing EXCEPT !.n = @ + 1] /\ errand' = [w EXCEPT !.step = "look"] /\ UNCHANGED import
  <2>1. /\ doing'.stage = doing.stage /\ doing'.n = doing.n + 1 /\ doing.n \in Nat
        /\ errand'.step = "look" /\ errand'.last = reach' /\ errand'.since = errand.since /\ UNCHANGED edits
    BY <1>2 DEF AdvanceAs, PaperKinds, JobKinds, Errands
  <2>2. doing' # Idle /\ doing # Idle
    BY <2>1, IdleAndOff
  <2>3. doing'.n <= Len(PaperRows(PaperStages[doing'.stage])) + 1
    BY <2>1
  <2> QED
    BY <1>2, <2>1, <2>2, <2>3, IdleAndOff DEF Whereabouts, Writing
<1> QED
  BY <1>1, <1>2 DEF AdvanceAs

\* A step within a document.
LEMMA WhereWhenStepped ==
  ASSUME PaperKinds, PaperKinds', Whereabouts, doing # Idle, UNCHANGED <<import, doing, reach, edits>>,
         errand'.last = errand.last, errand'.since = errand.since,
         errand'.step \in {"look"} \cup (IF doing.stage = 3 /\ doing.n \in Docs THEN Writing \cup {"left", "upsert"} ELSE {})
  PROVE  Whereabouts'
  BY DEF Whereabouts, Writing

LEMMA RowsLength ==
  /\ \A n \in DOMAIN Paperless.tags : n \in 1 .. Len(PaperRows(PaperStages[1]))
  /\ \A n \in DOMAIN Paperless.fields : n \in 1 .. Len(PaperRows(PaperStages[2]))
  /\ \A n \in Docs : \A s \in 3 .. 5 : n \in 1 .. Len(PaperRows(PaperStages[s]))
  /\ \A s \in 1 .. 5 : Len(PaperRows(PaperStages[s])) \in Nat
  /\ \A s \in 3 .. 5 : Len(PaperRows(PaperStages[s])) = Paperless.count
<1>1. \A s \in 3 .. 5 : PaperRows(PaperStages[s]) = [d \in Docs |-> d]
  BY StagesAre, RowsAre
<1>2. PaperRows(PaperStages[1]) = Paperless.tags /\ PaperRows(PaperStages[2]) = Paperless.fields
  BY StagesAre, RowsAre
<1>3. \A s \in 3 .. 5 : Len(PaperRows(PaperStages[s])) = Paperless.count /\ Paperless.count \in Nat
  BY <1>1, DocsAre
<1>4. /\ DOMAIN Paperless.tags = 1 .. Len(Paperless.tags) /\ Len(Paperless.tags) \in Nat
      /\ DOMAIN Paperless.fields = 1 .. Len(Paperless.fields) /\ Len(Paperless.fields) \in Nat
  BY PaperlessSnapshot
<1>5. \A s \in 1 .. 5 : Len(PaperRows(PaperStages[s])) \in Nat
  <2>1. \A s \in 1 .. 5 : s = 1 \/ s = 2 \/ s \in 3 .. 5
    OBVIOUS
  <2> QED
    BY <2>1, <1>2, <1>3, <1>4
<1> QED
  BY <1>2, <1>3, <1>4, <1>5, DocsAre

LEMMA InRow ==
  ASSUME doing.stage \in 3 .. 5, doing.n \in Docs
  PROVE  doing.n \in 1 .. Len(PaperRows(PaperStages[doing.stage])) /\ doing # Idle
<1>1. Len(PaperRows(PaperStages[doing.stage])) = Paperless.count
  BY RowsLength
<1> QED
  BY <1>1, DocsAre, IdleAndOff

LEMMA WhereOfRun ==
  ASSUME PaperKinds, PaperKinds', Whereabouts,
         ClaimPaper \/ FetchSnapshot \/ BeginPaperStage \/ EndPaperStage \/ FinishPaper \/ CutPaper
  PROVE  Whereabouts'
<1>1. CASE ClaimPaper
  <2>1. Resume \in 0 .. 5
    BY DEF Resume, NoCursor, PaperKinds, JobKinds
  <2>2. import' = [state |-> "running", cursor |-> Resume]
    BY <1>1 DEF ClaimPaper, Claim
  <2>3. doing'.stage = (IF Resume = 0 THEN 1 ELSE Resume) /\ doing'.n = 0
    BY <1>1, IdleAndOff DEF ClaimPaper, Claim, NoCursor, Idle
  <2>4. errand'.step = "fetch" /\ errand'.last = reach' /\ errand'.since = edits /\ UNCHANGED edits
    BY <1>1, IdleAndOff DEF ClaimPaper, Errands
  <2>5. doing' # Idle /\ doing'.stage \in 1 .. 5 /\ import'.cursor \in {doing'.stage - 1, doing'.stage}
    BY <2>1, <2>2, <2>3, IdleAndOff
  <2>6. doing'.n <= Len(PaperRows(PaperStages[doing'.stage])) + 1
    <3>1. Len(PaperRows(PaperStages[doing'.stage])) \in Nat
      BY <2>5, RowsLength
    <3> QED
      BY <2>3, <3>1
  <2>7. edits' <= edits' /\ edits \in Nat
    BY PaperlessSetup DEF PaperKinds
  <2> QED
    BY <2>2, <2>3, <2>4, <2>5, <2>6, <2>7 DEF Whereabouts, Writing
<1>2. CASE FetchSnapshot
  <2>1. doing # Idle /\ errand'.step = "look" /\ errand'.last = errand.last /\ errand'.since = errand.since
    BY <1>2 DEF FetchSnapshot, Whereabouts, PaperKinds, Errands
  <2> QED
    BY <1>2, <2>1, WhereWhenStepped DEF FetchSnapshot, jobVars
<1>3. CASE BeginPaperStage
  <2>1. doing.stage \in 1 .. 5 /\ errand.step # "fetch"
    BY <1>3, StagesAre DEF BeginPaperStage
  <2>2. doing'.stage = doing.stage /\ doing'.n = 1 /\ import'.cursor = doing.stage /\ import'.state = import.state
    BY <1>3 DEF BeginPaperStage, Checkpoint, PaperKinds, JobKinds
  <2>3. doing # Idle /\ doing' # Idle
    BY <2>1, <2>2, IdleAndOff
  <2>4. doing'.n <= Len(PaperRows(PaperStages[doing'.stage])) + 1
    <3>1. Len(PaperRows(PaperStages[doing'.stage])) \in Nat
      BY <2>1, <2>2, RowsLength
    <3> QED
      BY <2>2, <3>1
  <2>5. errand.step \notin Writing \cup {"left", "upsert"}
    <3>1. doing.n = 0 /\ 0 \notin Docs
      BY <1>3, DocsAre DEF BeginPaperStage
    <3> QED
      BY <3>1 DEF Whereabouts
  <2>6. UNCHANGED <<errand, reach, edits>>
    BY <1>3 DEF BeginPaperStage
  <2> QED
    BY <2>1, <2>2, <2>3, <2>4, <2>5, <2>6 DEF Whereabouts
<1>4. CASE EndPaperStage
  <2>1. doing.stage \in 1 .. 5 /\ doing.n > Len(PaperRows(PaperStages[doing.stage]))
    BY <1>4, StagesAre DEF EndPaperStage
  <2>2. doing.n \in Nat /\ Len(PaperRows(PaperStages[doing.stage])) \in Nat
    BY <2>1, RowsLength DEF PaperKinds, JobKinds
  <2>3. doing.n > 0
    BY <2>1, <2>2
  <2>4. doing'.stage = doing.stage + 1 /\ doing'.n = 0 /\ UNCHANGED <<import, errand, reach, edits>>
    BY <1>4, IdleAndOff DEF EndPaperStage, Idle
  <2>5. doing # Idle /\ doing' # Idle
    BY <2>1, <2>4, IdleAndOff
  <2>6. errand.step \notin Writing \cup {"left", "upsert"}
    <3>1. SUFFICES ASSUME doing.stage = 3 /\ doing.n \in Docs PROVE FALSE
      BY DEF Whereabouts
    <3>2. doing.n \in 1 .. Len(PaperRows(PaperStages[doing.stage]))
      BY <3>1, InRow
    <3> QED
      BY <2>1, <2>2, <3>2
  <2>7. doing'.n <= Len(PaperRows(PaperStages[doing'.stage])) + 1 \/ doing'.stage \notin 1 .. 5
    <3>1. doing'.stage \in 1 .. 5 => Len(PaperRows(PaperStages[doing'.stage])) \in Nat
      BY RowsLength
    <3> QED
      BY <2>4, <3>1
  <2>8. import.cursor = doing.stage /\ errand.step # "fetch" /\ errand.step # "off"
    BY <2>3, <2>5 DEF Whereabouts
  <2>9. import.cursor \in {doing'.stage - 1, doing'.stage} /\ doing'.stage # 0
    BY <2>1, <2>4, <2>8
  <2> QED
    BY <2>4, <2>5, <2>6, <2>7, <2>8, <2>9 DEF Whereabouts
<1>5. CASE FinishPaper
  <2>1. doing.stage = 6 /\ doing # Idle
    BY <1>5, StagesAre, IdleAndOff DEF FinishPaper
  <2>2. import.cursor = 5
    BY <2>1 DEF Whereabouts, PaperKinds, JobKinds
  <2> QED
    BY <1>5, <2>2, WhereWhenOver, Zenon DEF FinishPaper, Succeed, End, PaperKinds, JobKinds
<1>6. CASE CutPaper
  BY <1>6, WhereWhenOver, Zenon DEF CutPaper, Cut, End, PaperKinds, JobKinds
<1> QED
  BY <1>1, <1>2, <1>3, <1>4, <1>5, <1>6

LEMMA WhereWhenRefused == ASSUME PaperKinds, PaperKinds', Whereabouts, Refused PROVE Whereabouts'
  BY WhereWhenOver, Zenon DEF Refused, Throw, End, PaperKinds, JobKinds

LEMMA WhereOfTags ==
  ASSUME PaperKinds, PaperKinds', Whereabouts, ImportPaperTag \/ DefineCustomField
  PROVE  Whereabouts'
<1>0. errand \in Errands
  BY DEF PaperKinds
<1>1. CASE ImportPaperTag
  <2>1. doing.stage = 1 /\ doing.n \in 1 .. Len(PaperRows(PaperStages[1])) /\ doing # Idle
    BY <1>1, AtTag, RowsLength, IdleAndOff DEF ImportPaperTag
  <2>2. [errand EXCEPT !.labels = @ \cup {Row}] \in Errands
    <3>1. Row \in Labels
      BY <1>1, AtTag, PartsOfServer DEF ImportPaperTag
    <3> QED
      BY <1>0, <3>1 DEF Errands
  <2>3. [errand EXCEPT !.labels = @ \cup {Row}].since = errand.since
    BY <1>0 DEF Errands
  <2>4. ASSUME NEW l, Wrote(l, "look") PROVE Whereabouts'
    <3>1. errand'.step = "look" /\ errand'.last = errand.last /\ errand'.since = errand.since
      BY <1>0, <2>4 DEF Wrote, Errands
    <3> QED
      BY <2>1, <2>4, <3>1, WhereWhenStepped DEF Wrote, jobVars
  <2>5. CASE AdvanceAs([errand EXCEPT !.labels = @ \cup {Row}])
    <3> DEFINE w == [errand EXCEPT !.labels = @ \cup {Row}]
    <3>1. w \in Errands /\ w.since = errand.since /\ AdvanceAs(w)
      BY <2>2, <2>3, <2>5
    <3>2. doing.stage \in 1 .. 5 /\ doing.n \in 1 .. Len(PaperRows(PaperStages[doing.stage]))
      BY <2>1
    <3> HIDE DEF w
    <3> QED
      BY <3>1, <3>2, WhereWhenOn
  <2> QED
    BY <1>1, <2>4, <2>5 DEF ImportPaperTag
<1>2. CASE DefineCustomField
  <2>1. doing.stage = 2 /\ doing.n \in 1 .. Len(PaperRows(PaperStages[2])) /\ doing # Idle
    BY <1>2, AtField, RowsLength, IdleAndOff DEF DefineCustomField
  <2>2. ASSUME NEW l, Wrote(l, "look") PROVE Whereabouts'
    <3>1. errand'.step = "look" /\ errand'.last = errand.last /\ errand'.since = errand.since
      BY <1>0, <2>2 DEF Wrote, Errands
    <3> QED
      BY <2>1, <2>2, <3>1, WhereWhenStepped DEF Wrote, jobVars
  <2> QED
    BY <1>0, <1>2, <2>1, <2>2, WhereWhenOn DEF DefineCustomField
<1> QED
  BY <1>1, <1>2

\* What a document's step can do to a run's place.
LEMMA WhereOfSteps ==
  ASSUME PaperKinds, PaperKinds', Whereabouts, doing.stage = 3, doing.n \in Docs
  PROVE  /\ \A w \in Errands : AdvanceAs(w) /\ w.since = errand.since => Whereabouts'
         /\ \A l, step : step \in Writing /\ Wrote(l, step) => Whereabouts'
         /\ \A entries, step : step \in Writing \cup {"left", "upsert"} /\ Observe(entries, step) => Whereabouts'
<1>0. errand \in Errands /\ doing # Idle /\ doing.n \in 1 .. Len(PaperRows(PaperStages[3]))
  BY InRow DEF PaperKinds
<1>1. \A step : [errand EXCEPT !.step = step].last = errand.last /\ [errand EXCEPT !.step = step].since = errand.since
                /\ [errand EXCEPT !.step = step].step = step
  BY <1>0 DEF Errands
<1>2. ASSUME NEW w \in Errands, AdvanceAs(w), w.since = errand.since PROVE Whereabouts'
  BY <1>0, <1>2, WhereWhenOn
<1>3. ASSUME NEW l, NEW step \in Writing, Wrote(l, step) PROVE Whereabouts'
  BY <1>0, <1>1, <1>3, WhereWhenStepped DEF Wrote, jobVars
<1>4. ASSUME NEW entries, NEW step \in Writing \cup {"left", "upsert"}, Observe(entries, step) PROVE Whereabouts'
  BY <1>0, <1>1, <1>4, WhereWhenStepped DEF Observe
<1> QED
  BY <1>2, <1>3, <1>4

LEMMA WhereOfDocuments ==
  ASSUME PaperKinds, PaperKinds', Whereabouts,
         PassOver \/ LeaveTrashedItemAlone \/ UpsertItem \/ ApplyTags \/ ApplyNotes \/ ApplyValues \/ ImportOriginal
  PROVE  Whereabouts'
<1>0. errand \in Errands /\ \A d \in Docs : d \in 0 .. Paperless.count
  BY DocsAre DEF PaperKinds
<1>1. doing.stage = 3 /\ doing.n \in Docs /\ Row = doing.n
  BY AtDocument DEF PassOver, LeaveTrashedItemAlone, UpsertItem, ApplyTags, ApplyNotes, ApplyValues, ImportOriginal
<1>2. [errand EXCEPT !.last = Row] \in Errands /\ [errand EXCEPT !.last = Row].since = errand.since
  BY <1>0, <1>1 DEF Errands
<1>3. CASE PassOver
  <2>1. /\ [errand EXCEPT !.items = @ \cup ({Row} \cap Live)] \in Errands
        /\ [errand EXCEPT !.items = @ \cup ({Row} \cap Live)].since = errand.since
    BY <1>0 DEF Errands, Live
  <2> QED
    BY <1>1, <1>3, <2>1, WhereOfSteps, Zenon DEF PassOver
<1>4. CASE LeaveTrashedItemAlone
  BY <1>1, <1>2, <1>4, WhereOfSteps, Zenon DEF LeaveTrashedItemAlone
<1>5. CASE UpsertItem
  <2>1. CASE Refused
    BY <2>1, WhereWhenRefused
  <2>2. CASE ~ Refused
    <3>1. UNCHANGED <<import, doing, reach, edits>> /\ errand' = [errand EXCEPT !.step = "tags", !.items = @ \cup {Row}]
      BY <1>5, <2>2 DEF UpsertItem, Wrote, paperVars, jobVars
    <3>2. errand'.step = "tags" /\ errand'.last = errand.last /\ errand'.since = errand.since
      BY <1>0, <3>1 DEF Errands
    <3> QED
      BY <1>1, <3>1, <3>2, WhereWhenStepped, IdleAndOff DEF Writing
  <2> QED
    BY <2>1, <2>2
<1>6. CASE ApplyTags \/ ApplyNotes \/ ApplyValues
  BY <1>1, <1>6, WhereOfSteps, WhereWhenRefused DEF ApplyTags, ApplyNotes, ApplyValues, Writing
<1>7. CASE ImportOriginal
  BY <1>1, <1>2, <1>7, WhereOfSteps, WhereWhenRefused, Zenon DEF ImportOriginal, Writing
<1> QED
  BY <1>3, <1>4, <1>5, <1>6, <1>7

LEMMA WhereOfLinks ==
  ASSUME PaperKinds, PaperKinds', Whereabouts, ImportDocumentLinks \/ FinaliseDocument
  PROVE  Whereabouts'
<1>0. errand \in Errands
  BY DEF PaperKinds
<1>1. doing.stage \in {4, 5} /\ doing.n \in Docs
  BY AtLink, AtDate DEF ImportDocumentLinks, FinaliseDocument
<1>2. doing.n \in 1 .. Len(PaperRows(PaperStages[doing.stage])) /\ doing # Idle
  BY <1>1, InRow
<1>3. ASSUME NEW l, Wrote(l, "look") PROVE Whereabouts'
  <2>1. errand'.step = "look" /\ errand'.last = errand.last /\ errand'.since = errand.since
    BY <1>0, <1>3 DEF Wrote, Errands
  <2> QED
    BY <1>2, <1>3, <2>1, WhereWhenStepped DEF Wrote, jobVars
<1>4. CASE AdvanceAs(errand)
  BY <1>0, <1>1, <1>2, <1>4, WhereWhenOn
<1> QED
  BY <1>3, <1>4 DEF ImportDocumentLinks, FinaliseDocument

LEMMA WhereStep == ASSUME PaperKinds, Whereabouts, PaperlessNext PROVE Whereabouts'
<1>1. PaperKinds'
  BY PaperTypesStep
<1>2. CASE PeopleEdit
  <2>1. edits' = edits + 1 /\ edits \in Nat /\ errand.since \in Nat /\ UNCHANGED <<import, doing, reach, errand>>
    BY <1>2, PaperlessSetup DEF PeopleEdit, PaperKinds, Errands
  <2> QED
    BY <2>1 DEF Whereabouts
<1> QED
  BY <1>1, <1>2, WhereOfRun, WhereOfTags, WhereOfDocuments, WhereOfLinks DEF PaperlessNext
-----------------------------------------------------------------------------
(* Paperless: what is done while nobody changes anything *)

\* A number is on no item but that of the document it is due to.
Owned == \A d \in Docs : \A x \in papers.asn[d] : x \in Paperless.asn[d] /\ AsnOwner(x) = d

\* The number a document's item ends up with.
Due(d) == {x \in Paperless.asn[d] : AsnOwner(x) = d /\ x \notin papers.taken}

\* A document's item as a run leaves it, unless people had put it in the trash.
Upserted(d) == papers.item[d] = "live" /\ papers.asn[d] = Due(d)
Carried(d) == d \notin Paperless.shaky => papers.attached[d] = "live"
Copied(d) ==
  \/ papers.item[d] = "trashed"
  \/ /\ Upserted(d) /\ Carried(d)
     /\ Paperless.tagged[d] \subseteq papers.tagged[d]
     /\ Texts(d) \subseteq papers.note[d]
     /\ Paperless.asn[d] \subseteq papers.kept[d]

\* What the run has on record of it.
NumberNoted(d) == papers.asn[d] = Paperless.asn[d] \/ <<"asn", d>> \in log
FileNoted(d) == d \in papers.provenance \/ <<"missing", d>> \in log
Noted(d) == papers.item[d] = "trashed" \/ (NumberNoted(d) /\ FileNoted(d))

\* The links an item has once those that lead to an item are written.
SlotsOf(d) == LET to == Leading(Paperless.links[d], Live)
              IN to \o SubSeq(papers.link[d], Len(to) + 1, Len(papers.link[d]))

\* Stages and records that are done, since the run that began with no cursor.
Past(s) == settled = "ended" \/ s < import.cursor \/ s < doing.stage
Through(s, m) == Past(s) \/ (doing.stage = s /\ m < doing.n)

\* What a run passes over is done, and the row says how far the documents are.
Reached ==
  /\ doing # Idle => errand.after <= reach
  /\ errand.step \in Writing \cup {"left", "upsert"} => errand.after < doing.n
  /\ doing.stage = 3 /\ doing.n > 0 => doing.n - 1 <= reach
  /\ import.cursor > 3 \/ doing.stage > 3 => reach = Paperless.count

Fetched == doing # Idle /\ errand.step # "fetch"

TagsDone ==
  settled # "no" =>
    /\ \A m \in DOMAIN Paperless.tags : Through(1, m) => Paperless.tags[m] \in papers.tags
    /\ \A m \in DOMAIN Paperless.fields : Through(2, m) => Paperless.fields[m] \in papers.fields
    /\ Fetched => \A m \in DOMAIN Paperless.tags :
                     doing.stage > 1 \/ m < doing.n => Paperless.tags[m] \in errand.labels

\* How far a document is at each step.
AtStep ==
  settled # "no" =>
    LET d == doing.n
    IN /\ errand.step = "left" => papers.item[d] = "trashed"
       /\ errand.step = "upsert" => papers.item[d] # "trashed"
       /\ errand.step \in Writing => Upserted(d) /\ NumberNoted(d) /\ d \in errand.items
       /\ errand.step \in Writing \ {"tags"} => Paperless.tagged[d] \subseteq papers.tagged[d]
       /\ errand.step \in Writing \ {"tags", "notes"} => Texts(d) \subseteq papers.note[d]
       /\ errand.step \in {"original", "observe", "done"} => Paperless.asn[d] \subseteq papers.kept[d]
       /\ errand.step = "observe" => papers.attached[d] = "live" /\ d \in papers.provenance
       /\ errand.step = "done" => Carried(d) /\ FileNoted(d)

DocsDone ==
  settled # "no" =>
    \A d \in Docs : /\ settled = "ended" \/ d <= reach => Copied(d)
                    /\ d <= reach => Noted(d)
                    /\ <<"asn", d>> \in log => Due(d) # Paperless.asn[d]

ItemsKnown ==
  settled # "no" /\ Fetched =>
    /\ errand.items \subseteq Live
    /\ doing.stage = 3 => \A d \in Live : d < doing.n => d \in errand.items
    /\ doing.stage > 3 => Live \subseteq errand.items

LinksDone ==
  settled # "no" => \A d \in Live : /\ Through(4, d) => papers.link[d] = SlotsOf(d)
                                    /\ Through(5, d) => d \in papers.dated

Began == /\ settled = "began" => import.state # "succeeded"
         /\ settled = "ended" => import.state # "none"

\* Nobody has changed anything yet.
Untouched ==
  ~ touched =>
    /\ \A d \in Docs : /\ papers.item[d] # "trashed"
                       /\ papers.tagged[d] \subseteq Paperless.tagged[d]
                       /\ papers.note[d] \subseteq Texts(d)
                       /\ papers.kept[d] \subseteq Paperless.asn[d]
                       /\ papers.link[d] \in {<<>>, Paperless.links[d]}
                       /\ papers.attached[d] = IF d \in papers.provenance THEN "live" ELSE "none"
    /\ papers.taken = Paperless.taken /\ papers.own = {}
    /\ settled = "no" => import.state = "none" /\ import.cursor = 0 /\ doing = Idle

PaperInv == /\ PaperKinds /\ Whereabouts /\ Owned /\ Reached
            /\ TagsDone /\ AtStep /\ DocsDone /\ ItemsKnown /\ LinksDone /\ Began /\ Untouched

\* Since the run began nobody changed anything.
Undisturbed ==
  Fetched /\ errand.since = edits =>
    /\ errand.labels \subseteq papers.tags
    /\ errand.step = "upsert" => papers.item[doing.n] # "trashed"
    /\ errand.step \in Writing => papers.item[doing.n] = "live"

-----------------------------------------------------------------------------
(* Paperless: what the steps of a run do to the library *)

\* Nothing gets lost, and no item goes to the trash or comes back.
Grows ==
  /\ papers.tags \subseteq papers'.tags /\ papers.fields \subseteq papers'.fields
  /\ papers'.taken = papers.taken /\ papers.provenance \subseteq papers'.provenance /\ papers'.own = papers.own
  /\ \A d \in Docs : /\ papers.tagged[d] \subseteq papers'.tagged[d] /\ papers.note[d] \subseteq papers'.note[d]
                     /\ papers.kept[d] \subseteq papers'.kept[d]
                     /\ papers.attached[d] = "live" => papers'.attached[d] = "live"
                     /\ papers.item[d] # "none" => papers'.item[d] = papers.item[d]
                     /\ papers'.item[d] = "trashed" => papers.item[d] = "trashed"
                     /\ Upserted(d) => papers'.asn[d] = papers.asn[d]
                     /\ Upserted(d) /\ d \in papers.dated => d \in papers'.dated

\* It is one of a run's steps.
RunStep ==
  \/ ClaimPaper \/ FetchSnapshot \/ BeginPaperStage \/ EndPaperStage \/ FinishPaper \/ CutPaper
  \/ ImportPaperTag \/ DefineCustomField
  \/ PassOver \/ LeaveTrashedItemAlone \/ UpsertItem \/ ApplyTags \/ ApplyNotes \/ ApplyValues
  \/ ImportOriginal
  \/ ImportDocumentLinks \/ FinaliseDocument

LEMMA AllocatedIsDue == ASSUME Owned, NEW d \in Docs PROVE Allocated(d) = Due(d)
<1>1. ASSUME NEW x \in Paperless.asn[d], AsnOwner(x) = d PROVE Held(x, d) <=> x \in papers.taken
  <2>1. ASSUME NEW e \in Live \ {d}, x \in papers.asn[e] PROVE FALSE
    BY <1>1, <2>1 DEF Owned, Live
  <2> QED
    BY <2>1 DEF Held
<1> QED
  BY <1>1 DEF Allocated, Due

\* What a run writes of the document it is at.
Puts(d) ==
  \/ /\ ~ Upserted(d) /\ papers.item[d] # "trashed"
     /\ papers' = [papers EXCEPT !.item[d] = "live", !.asn[d] = Due(d), !.dated = @ \ {d}]
  \/ /\ errand.step \in Writing
     /\ \/ papers' = [papers EXCEPT !.tagged[d] = @ \cup (Paperless.tagged[d] \cap errand.labels)]
        \/ papers' = [papers EXCEPT !.note[d] = @ \cup Texts(d)]
        \/ papers' = [papers EXCEPT !.kept[d] = @ \cup Paperless.asn[d]]
        \/ papers' = [papers EXCEPT !.file[Paperless.bytes[d]] = "live", !.provenance = @ \cup {d}, !.attached[d] = "live"]
  \/ /\ doing.stage = 4 /\ d \in errand.items /\ papers.link[d] # Slots(d)
     /\ papers' = [papers EXCEPT !.link[d] = Slots(d)]
  \/ /\ doing.stage = 5 /\ d \in errand.items
     /\ papers' = [papers EXCEPT !.dated = @ \cup {d}]

LEMMA WritesOf ==
  ASSUME PaperKinds, Owned, RunStep
  PROVE  \/ papers' = papers
         \/ \E t \in Labels : papers' = [papers EXCEPT !.tags = @ \cup {t}]
         \/ \E t \in Fields : papers' = [papers EXCEPT !.fields = @ \cup {t}]
         \/ doing.n \in Docs /\ Puts(doing.n)
<1>1. CASE ClaimPaper \/ FetchSnapshot \/ BeginPaperStage \/ EndPaperStage \/ FinishPaper \/ CutPaper
  BY <1>1 DEF ClaimPaper, FetchSnapshot, BeginPaperStage, EndPaperStage, FinishPaper, CutPaper
<1>2. CASE ImportPaperTag
  BY <1>2, AtTag, PartsOfServer DEF ImportPaperTag, AdvanceAs, Wrote
<1>3. CASE DefineCustomField
  BY <1>3, AtField, PartsOfServer DEF DefineCustomField, AdvanceAs, Wrote
<1>4. CASE PassOver \/ LeaveTrashedItemAlone
  BY <1>4 DEF PassOver, LeaveTrashedItemAlone, AdvanceAs, Observe
<1>5. CASE UpsertItem
  <2>1. Row \in Docs /\ Row = doing.n
    BY <1>5, AtDocument DEF UpsertItem
  <2>2. Allocated(Row) = Due(Row)
    BY <2>1, AllocatedIsDue
  <2>3. CASE papers' = papers
    BY <2>3
  <2>4. CASE papers' # papers
    <3>1. papers.item[Row] # "trashed" \/ papers.asn[Row] = Due(Row)
      BY <1>5, <2>2, <2>4 DEF UpsertItem, Refused
    <3>2. /\ papers.item[Row] = "none" \/ papers.asn[Row] # Due(Row)
          /\ papers' = [papers EXCEPT !.item[Row] = "live", !.asn[Row] = Due(Row), !.dated = @ \ {Row}]
      BY <1>5, <2>2, <2>4, <3>1 DEF UpsertItem
    <3>3. ~ Upserted(Row) /\ papers.item[Row] # "trashed"
      BY <3>1, <3>2 DEF Upserted
    <3> QED
      BY <2>1, <3>2, <3>3 DEF Puts
  <2> QED
    BY <2>3, <2>4
<1>6. CASE ApplyTags \/ ApplyNotes \/ ApplyValues
  <2>1. doing.n \in Docs /\ Row = doing.n /\ errand.step \in Writing
    BY <1>6, AtDocument DEF ApplyTags, ApplyNotes, ApplyValues, OnDocument, Writing
  <2> QED
    BY <1>6, <2>1 DEF ApplyTags, ApplyNotes, ApplyValues, Wrote, Refused, Puts
<1>7. CASE ImportOriginal
  <2>1. doing.n \in Docs /\ Row = doing.n /\ errand.step \in Writing
    BY <1>7, AtDocument DEF ImportOriginal, OnDocument, Writing
  <2> QED
    BY <1>7, <2>1 DEF ImportOriginal, Wrote, Refused, Observe, AdvanceAs, Puts
<1>8. CASE ImportDocumentLinks
  BY <1>8, AtLink DEF ImportDocumentLinks, AdvanceAs, Wrote, Puts
<1>9. CASE FinaliseDocument
  BY <1>9, AtDate DEF FinaliseDocument, AdvanceAs, Wrote, Puts
<1> QED
  BY <1>1, <1>2, <1>3, <1>4, <1>5, <1>6, <1>7, <1>8, <1>9 DEF RunStep

LEMMA RunGrows == ASSUME PaperKinds, Owned, RunStep PROVE Grows
<1>0. papers \in PapersKind
  BY DEF PaperKinds
<1>1. CASE papers' = papers
  BY <1>1 DEF Grows
<1>2. ASSUME NEW t, papers' = [papers EXCEPT !.tags = @ \cup {t}] \/ papers' = [papers EXCEPT !.fields = @ \cup {t}]
      PROVE  Grows
  BY <1>0, <1>2, ZenonT(60) DEF PapersKind, Grows
<1>3. ASSUME NEW d \in Docs, Puts(d) PROVE Grows
  <2>1. CASE papers' = [papers EXCEPT !.item[d] = "live", !.asn[d] = Due(d), !.dated = @ \ {d}]
                /\ ~ Upserted(d) /\ papers.item[d] # "trashed"
    BY <1>0, <2>1 DEF PapersKind, Grows
  <2>2. CASE papers' = [papers EXCEPT !.tagged[d] = @ \cup (Paperless.tagged[d] \cap errand.labels)]
    BY <1>0, <2>2 DEF PapersKind, Grows
  <2>3. CASE papers' = [papers EXCEPT !.note[d] = @ \cup Texts(d)]
    BY <1>0, <2>3 DEF PapersKind, Grows
  <2>4. CASE papers' = [papers EXCEPT !.kept[d] = @ \cup Paperless.asn[d]]
    BY <1>0, <2>4 DEF PapersKind, Grows
  <2>5. CASE papers' = [papers EXCEPT !.file[Paperless.bytes[d]] = "live", !.provenance = @ \cup {d}, !.attached[d] = "live"]
    BY <1>0, <2>5 DEF PapersKind, Grows
  <2>6. CASE papers' = [papers EXCEPT !.link[d] = Slots(d)]
    BY <1>0, <2>6 DEF PapersKind, Grows
  <2>7. CASE papers' = [papers EXCEPT !.dated = @ \cup {d}]
    BY <1>0, <2>7 DEF PapersKind, Grows
  <2> QED
    BY <1>3, <2>1, <2>2, <2>3, <2>4, <2>5, <2>6, <2>7 DEF Puts
<1> QED
  BY <1>1, <1>2, <1>3, WritesOf

LEMMA OwnedStep == ASSUME PaperKinds, Owned, PaperlessNext PROVE Owned'
<1>0. papers \in PapersKind
  BY DEF PaperKinds
<1>1. SUFFICES \A d \in Docs : papers'.asn[d] = papers.asn[d] \/ papers'.asn[d] = Due(d)
  BY DEF Owned, Due
<1>2. CASE PeopleEdit
  <2>1. papers'.asn = papers.asn
    BY <1>0, <1>2, Zenon DEF PeopleEdit, BinPaper, RestorePaper, RemoveNote, AddNote, DetachFile, BinFile, RestoreFile,
                      BinTag, OtherAsn, PapersKind
  <2> QED
    BY <2>1
<1>3. CASE RunStep
  <2>1. \/ papers'.asn = papers.asn
        \/ \E d \in Docs : papers'.asn = [papers.asn EXCEPT ![d] = Due(d)]
    BY <1>0, <1>3, WritesOf, ZenonT(60) DEF PapersKind, Puts
  <2>2. papers.asn \in [Docs -> SUBSET Numbers]
    BY <1>0 DEF PapersKind
  <2> QED
    BY <2>1, <2>2, Zenon
<1> QED
  BY <1>2, <1>3 DEF PaperlessNext, RunStep

\* A step that counts a record.
Advancing == doing.n # 0 /\ doing'.stage = doing.stage /\ doing'.n = doing.n + 1

LEMMA PastStep ==
  ASSUME PaperKinds, Whereabouts, Began, RunStep, settled # "no", NEW s \in 1 .. 5, Past(s)'
  PROVE  Past(s) \/ (EndPaperStage /\ s = doing.stage)
<1>1. CASE ClaimPaper
  <2>1. import'.cursor = Resume /\ doing'.stage = IF Resume = 0 THEN 1 ELSE Resume
    BY <1>1, IdleAndOff DEF ClaimPaper, Claim, NoCursor, Idle
  <2>2. Resume = 0 \/ Resume = import.cursor
    BY DEF Resume, NoCursor
  <2>3. settled' = settled
    BY <1>1 DEF ClaimPaper, Claim
  <2> QED
    BY <2>1, <2>2, <2>3 DEF Past, PaperKinds, JobKinds
<1>2. CASE BeginPaperStage
  <2>1. import'.cursor = doing.stage /\ doing'.stage = doing.stage /\ settled' = settled
    BY <1>2 DEF BeginPaperStage, Checkpoint, PaperKinds, JobKinds
  <2> QED
    BY <2>1 DEF Past
<1>3. CASE EndPaperStage
  <2>1. UNCHANGED <<import, settled>> /\ doing'.stage = doing.stage + 1 /\ doing.stage \in 0 .. 6
    BY <1>3, IdleAndOff DEF EndPaperStage, Idle, PaperKinds, JobKinds
  <2> QED
    BY <1>3, <2>1 DEF Past
<1>4. CASE FinishPaper
  <2>1. doing.stage = 6
    BY <1>4, StagesAre DEF FinishPaper
  <2> QED
    BY <2>1 DEF Past
<1>5. ASSUME UNCHANGED settled, import'.cursor = import.cursor, doing'.stage = doing.stage \/ doing'.stage = 0
      PROVE  Past(s)
  BY <1>5 DEF Past, PaperKinds, JobKinds
<1>6. CASE FetchSnapshot \/ CutPaper
  BY <1>5, <1>6, IdleAndOff DEF FetchSnapshot, CutPaper, Cut, End, jobVars, PaperKinds, JobKinds
<1>7. ASSUME NEW w, AdvanceAs(w) PROVE Past(s)
  BY <1>5, <1>7, IdleAndOff DEF AdvanceAs, AbortRun, End, PaperKinds, JobKinds
<1>8. ASSUME NEW l, NEW step, Wrote(l, step) \/ Observe(l, step) PROVE Past(s)
  BY <1>5, <1>8 DEF Wrote, Observe, jobVars
<1>9. CASE Refused
  BY <1>5, <1>9, IdleAndOff DEF Refused, Throw, End, PaperKinds, JobKinds
<1>10. CASE ImportPaperTag \/ DefineCustomField \/ PassOver \/ LeaveTrashedItemAlone
  BY <1>7, <1>8, <1>10 DEF ImportPaperTag, DefineCustomField, PassOver, LeaveTrashedItemAlone
<1>11. CASE UpsertItem
  BY <1>5, <1>9, <1>11 DEF UpsertItem
<1>12. CASE ApplyTags \/ ApplyNotes \/ ApplyValues \/ ImportOriginal \/ ImportDocumentLinks \/ FinaliseDocument
  BY <1>7, <1>8, <1>9, <1>12 DEF ApplyTags, ApplyNotes, ApplyValues, ImportOriginal, ImportDocumentLinks, FinaliseDocument
<1> QED
  BY <1>1, <1>2, <1>3, <1>4, <1>6, <1>10, <1>11, <1>12 DEF RunStep

\* A record is counted, or the run is aborted there.
Counts(w) ==
  /\ doing.stage \in 1 .. 5 /\ doing.n # 0 /\ errand.step # "fetch" /\ w.after = errand.after /\ w.since = errand.since
  /\ UNCHANGED <<papers, log, settled, touched, edits>> /\ reach' = w.last /\ import'.cursor = import.cursor
  /\ \/ Advancing /\ UNCHANGED import /\ errand' = [w EXCEPT !.step = "look"]
     \/ doing' = Idle /\ errand' = Off /\ import'.state = "cancelled"

\* How a record comes to be counted, in each stage.
Counted ==
  \/ /\ doing.stage = 1 /\ doing.n \in DOMAIN Paperless.tags /\ Paperless.tags[doing.n] \in papers.tags
     /\ Counts([errand EXCEPT !.labels = @ \cup {Paperless.tags[doing.n]}])
  \/ /\ doing.stage = 2 /\ doing.n \in DOMAIN Paperless.fields /\ Paperless.fields[doing.n] \in papers.fields
     /\ Counts(errand)
  \/ /\ doing.stage = 3 /\ doing.n \in Docs /\ errand.step = "look" /\ doing.n <= errand.after
     /\ Counts([errand EXCEPT !.items = @ \cup ({doing.n} \cap Live)])
  \/ /\ doing.stage = 3 /\ doing.n \in Docs /\ errand.step \in {"left", "done"}
     /\ Counts([errand EXCEPT !.last = doing.n])
  \/ /\ doing.stage = 4 /\ doing.n \in Docs /\ (doing.n \in errand.items => papers.link[doing.n] = Slots(doing.n))
     /\ Counts(errand)
  \/ /\ doing.stage = 5 /\ doing.n \in Docs /\ (doing.n \in errand.items => doing.n \in papers.dated)
     /\ Counts(errand)

\* The run is over and has not got further.
Broken ==
  /\ doing' = Idle /\ errand' = Off /\ import'.cursor = import.cursor /\ import'.state \in {"failed", "running"}
  /\ UNCHANGED <<papers, log, reach, edits, settled, touched>>

\* The run goes on with the record it is at.
Within ==
  /\ doing.stage \in 1 .. 5 /\ doing.n # 0 /\ errand.step # "fetch"
  /\ UNCHANGED <<import, doing, settled, touched, reach, edits>>
  /\ errand'.after = errand.after /\ errand'.last = errand.last /\ errand'.since = errand.since
  /\ errand'.labels = errand.labels /\ errand'.step \notin {"off", "fetch"}
  /\ errand'.items = errand.items \/ errand'.step = "tags"

LEMMA CountsWhen ==
  ASSUME PaperKinds, NEW w \in Errands, AdvanceAs(w), doing.stage \in 1 .. 5, doing.n # 0, errand.step # "fetch",
         w.after = errand.after, w.since = errand.since
  PROVE  Counts(w)
<1>1. CASE AbortRun /\ errand' = Off
  BY <1>1 DEF AdvanceAs, AbortRun, End, Counts, PaperKinds, JobKinds
<1>2. CASE doing' = [doing EXCEPT !.n = @ + 1] /\ errand' = [w EXCEPT !.step = "look"]
           /\ UNCHANGED <<import, log, stops, touches, touched, settled>>
  BY <1>2 DEF AdvanceAs, Counts, Advancing, PaperKinds, JobKinds
<1> QED
  BY <1>1, <1>2 DEF AdvanceAs

LEMMA BrokenWhen == ASSUME PaperKinds, Refused \/ CutPaper PROVE Broken
  BY DEF Refused, CutPaper, Throw, Cut, End, Broken, PaperKinds, JobKinds

LEMMA WithinWhen ==
  ASSUME PaperKinds, doing.stage \in 1 .. 5, doing.n # 0, errand.step # "fetch", NEW l, NEW step, step \notin {"off", "fetch"},
         Wrote(l, step) \/ Observe(l, step)
  PROVE  Within
  BY DEF Wrote, Observe, Within, jobVars, PaperKinds, Errands

RunItself == ClaimPaper \/ FetchSnapshot \/ BeginPaperStage \/ EndPaperStage \/ FinishPaper

LEMMA WaysOfTags ==
  ASSUME PaperKinds, ImportPaperTag \/ DefineCustomField
  PROVE  Counted \/ Within
<1>0. errand \in Errands /\ 0 \notin DOMAIN Paperless.tags /\ 0 \notin DOMAIN Paperless.fields
  BY PaperlessSnapshot DEF PaperKinds
<1>1. CASE ImportPaperTag
  <2>1. /\ doing.stage = 1 /\ doing.n \in DOMAIN Paperless.tags /\ Row = Paperless.tags[doing.n] /\ errand.step # "fetch"
        /\ Row \in Labels /\ doing.n # 0
    BY <1>0, <1>1, AtTag, PartsOfServer DEF ImportPaperTag
  <2> DEFINE w == [errand EXCEPT !.labels = @ \cup {Row}]
  <2>2. w \in Errands /\ w.after = errand.after /\ w.since = errand.since
    BY <1>0, <2>1 DEF Errands
  <2>3. CASE Row \in papers.tags /\ AdvanceAs(w)
    <3> HIDE DEF w
    <3>1. Counts(w)
      BY <2>1, <2>2, <2>3, CountsWhen
    <3> QED
      BY <2>1, <2>3, <3>1 DEF Counted, w
  <2>4. CASE Wrote([papers EXCEPT !.tags = @ \cup {Row}], "look")
    BY <2>1, <2>4, WithinWhen
  <2> QED
    BY <1>1, <2>3, <2>4 DEF ImportPaperTag
<1>2. CASE DefineCustomField
  <2>1. /\ doing.stage = 2 /\ doing.n \in DOMAIN Paperless.fields /\ Row = Paperless.fields[doing.n] /\ errand.step # "fetch"
        /\ doing.n # 0
    BY <1>0, <1>2, AtField DEF DefineCustomField
  <2>2. CASE Row \in papers.fields /\ AdvanceAs(errand)
    <3>1. Counts(errand)
      BY <1>0, <2>1, <2>2, CountsWhen
    <3> QED
      BY <2>1, <2>2, <3>1 DEF Counted
  <2>3. CASE Wrote([papers EXCEPT !.fields = @ \cup {Row}], "look")
    BY <2>1, <2>3, WithinWhen
  <2> QED
    BY <1>2, <2>2, <2>3 DEF DefineCustomField
<1> QED
  BY <1>1, <1>2

LEMMA WaysOfDocuments ==
  ASSUME PaperKinds,
         PassOver \/ LeaveTrashedItemAlone \/ UpsertItem \/ ApplyTags \/ ApplyNotes \/ ApplyValues \/ ImportOriginal
  PROVE  Counted \/ Broken \/ Within
<1>0. errand \in Errands /\ \A d \in Docs : d \in 0 .. Paperless.count
  BY DocsAre DEF PaperKinds
<1>1. doing.stage = 3 /\ doing.n \in Docs /\ Row = doing.n /\ doing.n # 0 /\ errand.step # "fetch"
  <2>1. doing.stage = 3 /\ doing.n \in Docs /\ Row = doing.n /\ errand.step # "fetch"
    BY AtDocument DEF PassOver, LeaveTrashedItemAlone, UpsertItem, ApplyTags, ApplyNotes, ApplyValues, ImportOriginal
  <2> QED
    BY <2>1, DocsAre
<1>2. ASSUME NEW l, NEW step, step \notin {"off", "fetch"}, Wrote(l, step) \/ Observe(l, step) PROVE Within
  BY <1>1, <1>2, WithinWhen
<1>3. ASSUME AdvanceAs([errand EXCEPT !.last = Row]), errand.step \in {"left", "done"} PROVE Counted
  <2> DEFINE w == [errand EXCEPT !.last = Row]
  <2>1. w \in Errands /\ w.after = errand.after /\ w.since = errand.since /\ AdvanceAs(w)
    BY <1>0, <1>1, <1>3 DEF Errands
  <2> HIDE DEF w
  <2>2. Counts(w)
    BY <1>1, <2>1, CountsWhen
  <2> QED
    BY <1>1, <1>3, <2>2 DEF Counted, w
<1>4. CASE PassOver
  <2> DEFINE w == [errand EXCEPT !.items = @ \cup ({Row} \cap Live)]
  <2>1. w \in Errands /\ w.after = errand.after /\ w.since = errand.since /\ AdvanceAs(w)
    BY <1>0, <1>4 DEF Errands, Live, PassOver
  <2> HIDE DEF w
  <2>2. Counts(w)
    BY <1>1, <2>1, CountsWhen
  <2>3. errand.step = "look" /\ Row <= errand.after
    BY <1>4 DEF PassOver, OnDocument
  <2> QED
    BY <1>1, <2>2, <2>3 DEF Counted, w
<1>5. CASE LeaveTrashedItemAlone
  BY <1>2, <1>3, <1>5 DEF LeaveTrashedItemAlone, OnDocument
<1>6. CASE UpsertItem
  <2>1. CASE Refused
    BY <2>1, BrokenWhen
  <2>2. CASE ~ Refused
    <3>1. /\ errand' = [errand EXCEPT !.step = "tags", !.items = @ \cup {Row}]
          /\ UNCHANGED <<import, doing, touched, settled, reach, edits>>
      BY <1>6, <2>2 DEF UpsertItem
    <3> QED
      BY <1>0, <1>1, <3>1 DEF Within, Errands
  <2> QED
    BY <2>1, <2>2
<1>7. CASE ApplyTags \/ ApplyNotes \/ ApplyValues
  BY <1>2, <1>7, BrokenWhen DEF ApplyTags, ApplyNotes, ApplyValues
<1>8. CASE ImportOriginal
  BY <1>2, <1>3, <1>8, BrokenWhen DEF ImportOriginal, OnDocument
<1> QED
  BY <1>4, <1>5, <1>6, <1>7, <1>8

LEMMA WaysOfLinks ==
  ASSUME PaperKinds, ImportDocumentLinks \/ FinaliseDocument
  PROVE  Counted \/ Within
<1>0. errand \in Errands
  BY DEF PaperKinds
<1>1. doing.n \in Docs /\ Row = doing.n /\ doing.n # 0 /\ errand.step # "fetch" /\ doing.stage \in 1 .. 5
  <2>1. doing.n \in Docs /\ Row = doing.n /\ errand.step # "fetch" /\ doing.stage \in {4, 5}
    BY AtLink, AtDate DEF ImportDocumentLinks, FinaliseDocument
  <2> QED
    BY <2>1, DocsAre
<1>2. ASSUME NEW l, Wrote(l, "look") PROVE Within
  BY <1>1, <1>2, WithinWhen
<1>3. AdvanceAs(errand) => Counts(errand)
  BY <1>0, <1>1, CountsWhen
<1>4. CASE ImportDocumentLinks
  BY <1>1, <1>2, <1>3, <1>4, AtLink DEF ImportDocumentLinks, Counted
<1>5. CASE FinaliseDocument
  BY <1>1, <1>2, <1>3, <1>5, AtDate DEF FinaliseDocument, Counted
<1> QED
  BY <1>4, <1>5

LEMMA Ways ==
  ASSUME PaperKinds, RunStep
  PROVE  RunItself \/ Counted \/ Broken \/ Within
  BY WaysOfTags, WaysOfDocuments, WaysOfLinks, BrokenWhen DEF RunStep, RunItself

\* The steps a run takes with a document.
Looks(d) == /\ errand.step = "look" /\ errand.after < d
            /\ errand' = [errand EXCEPT !.step = IF papers.item[d] = "trashed" THEN "left" ELSE "upsert"]
            /\ papers' = papers /\ log' \in {log, log \cup {<<"trash", d>>}}
Upserts(d) == /\ errand.step = "upsert" /\ errand' = [errand EXCEPT !.step = "tags", !.items = @ \cup {d}]
              /\ papers.item[d] # "trashed" => papers'.item[d] = "live"
              /\ papers'.asn[d] = Due(d) /\ papers'.taken = papers.taken
              /\ log' = IF Due(d) = Paperless.asn[d] THEN log ELSE log \cup {<<"asn", d>>}
Goes(step, next) == errand.step = step /\ errand' = [errand EXCEPT !.step = next]
Fills(d) ==
  \/ Goes("tags", "notes") /\ papers'.tagged[d] = papers.tagged[d] \cup (Paperless.tagged[d] \cap errand.labels) /\ log' = log
  \/ Goes("notes", "values") /\ papers'.note[d] = papers.note[d] \cup Texts(d) /\ log' = log
  \/ Goes("values", "original") /\ papers'.kept[d] = papers.kept[d] \cup Paperless.asn[d] /\ log' = log
Carries(d) ==
  \/ Goes("original", "done") /\ d \in Paperless.shaky /\ log' = Originals(d, "missing") /\ papers' = papers
  \/ Goes("original", "observe") /\ papers'.attached[d] = "live" /\ d \in papers'.provenance /\ log' = log
  \/ Goes("observe", "done") /\ log' = Originals(d, "stored") /\ papers' = papers
Moves(d) == doing' = doing /\ (Looks(d) \/ Upserts(d) \/ Fills(d) \/ Carries(d))

Handling == Writing \cup {"left", "upsert"}

LEMMA HandlingBy ==
  ASSUME PaperKinds, Whereabouts, RunStep, errand'.step \in Handling
  PROVE  \/ LeaveTrashedItemAlone /\ OnDocument("look")
         \/ UpsertItem /\ ~ Refused
         \/ ApplyTags \/ ApplyNotes \/ ApplyValues \/ (ImportOriginal /\ ~ OnDocument("done"))
<1>0. errand \in Errands
  BY DEF PaperKinds
<1>1. CASE RunItself
  <2>1. CASE ClaimPaper \/ FetchSnapshot \/ FinishPaper
    BY <1>0, <2>1, IdleAndOff, Zenon DEF ClaimPaper, FetchSnapshot, FinishPaper, Handling, Writing, Errands
  <2>2. CASE BeginPaperStage
    BY <2>2, DocsAre DEF BeginPaperStage, Whereabouts, Handling
  <2>3. CASE EndPaperStage
    <3>1. doing.stage = 3 /\ doing.n \in Docs /\ doing.n > Len(PaperRows(PaperStages[doing.stage]))
      BY <2>3 DEF EndPaperStage, Whereabouts, Handling
    <3>2. doing.n \in 1 .. Len(PaperRows(PaperStages[doing.stage])) /\ Len(PaperRows(PaperStages[doing.stage])) \in Nat
      BY <3>1, InRow, RowsLength
    <3> QED
      BY <3>1, <3>2
  <2> QED
    BY <1>1, <2>1, <2>2, <2>3 DEF RunItself
<1>2. ASSUME NEW w, AdvanceAs(w) PROVE errand'.step \notin Handling
  <2>1. CASE errand' = Off
    BY <2>1, IdleAndOff DEF Handling, Writing
  <2>2. CASE errand' = [w EXCEPT !.step = "look"]
    <3>1. errand' \in Errands
      BY PaperTypesStep DEF PaperlessNext, RunStep, PaperKinds
    <3>2. errand'.step = "look"
      BY <2>2, <3>1 DEF Errands
    <3> QED
      BY <3>2 DEF Handling, Writing
  <2> QED
    BY <1>2, <2>1, <2>2 DEF AdvanceAs
<1>3. CASE CutPaper \/ Refused
  BY <1>3, IdleAndOff DEF CutPaper, Refused, Handling, Writing
<1>4. ASSUME NEW l, Wrote(l, "look") PROVE errand'.step \notin Handling
  BY <1>0, <1>4 DEF Wrote, Handling, Writing, Errands
<1>5. CASE ImportPaperTag \/ DefineCustomField \/ PassOver \/ ImportDocumentLinks \/ FinaliseDocument
  BY <1>2, <1>4, <1>5 DEF ImportPaperTag, DefineCustomField, PassOver, ImportDocumentLinks, FinaliseDocument
<1>6. CASE LeaveTrashedItemAlone
  BY <1>2, <1>6 DEF LeaveTrashedItemAlone
<1>7. CASE UpsertItem
  BY <1>3, <1>7
<1>8. CASE ImportOriginal
  <2>1. CASE OnDocument("done")
    <3>1. AdvanceAs([errand EXCEPT !.last = Row])
      BY <1>8, <2>1 DEF ImportOriginal, OnDocument
    <3> QED
      BY <1>2, <3>1
  <2> QED
    BY <1>8, <2>1
<1>9. CASE ApplyTags \/ ApplyNotes \/ ApplyValues
  BY <1>9
<1> QED
  BY <1>1, <1>3, <1>5, <1>6, <1>7, <1>8, <1>9 DEF RunStep, RunItself

LEMMA WorkIsMoves ==
  ASSUME PaperKinds, Whereabouts, Owned, RunStep, errand'.step \in Handling
  PROVE  doing.stage = 3 /\ doing.n \in Docs /\ Moves(doing.n)
<1>0. papers \in PapersKind /\ errand \in Errands
  BY DEF PaperKinds
<1>1. doing.stage = 3 /\ doing.n \in Docs /\ Row = doing.n
  BY HandlingBy, AtDocument DEF UpsertItem, ApplyTags, ApplyNotes, ApplyValues, ImportOriginal
<1>2. errand' # Off
  BY IdleAndOff DEF Handling, Writing
<1>3. ~ Refused
  BY <1>2 DEF Refused
<1>4. CASE LeaveTrashedItemAlone /\ OnDocument("look")
  <2>1. OnDocument("look") /\ Row > errand.after
        /\ IF LeftAlone(Row) THEN Observe(log \cup {<<"trash", Row>>}, "left") ELSE Observe(log, "upsert")
    BY <1>4 DEF LeaveTrashedItemAlone, OnDocument
  <2>2. errand.after < doing.n
    BY <1>0, <1>1, <2>1, DocsAre DEF Errands
  <2> QED
    BY <1>1, <2>1, <2>2 DEF Moves, Looks, LeftAlone, Observe, OnDocument
<1>5. CASE UpsertItem
  <2>1. Allocated(doing.n) = Due(doing.n)
    BY <1>1, AllocatedIsDue
  <2>2. /\ papers' = IF papers.item[doing.n] # "none" /\ papers.asn[doing.n] = Due(doing.n) THEN papers
                     ELSE [papers EXCEPT !.item[doing.n] = "live", !.asn[doing.n] = Due(doing.n), !.dated = @ \ {doing.n}]
        /\ log' = IF Due(doing.n) = Paperless.asn[doing.n] THEN log ELSE log \cup {<<"asn", doing.n>>}
        /\ errand' = [errand EXCEPT !.step = "tags", !.items = @ \cup {doing.n}]
        /\ doing' = doing /\ errand.step = "upsert"
    BY <1>1, <1>3, <1>5, <2>1 DEF UpsertItem, OnDocument
  <2>3. papers'.asn[doing.n] = Due(doing.n) /\ papers'.taken = papers.taken
    BY <1>0, <1>1, <2>2 DEF PapersKind
  <2>4. papers.item[doing.n] # "trashed" => papers'.item[doing.n] = "live"
    BY <1>0, <1>1, <2>2 DEF PapersKind
  <2>5. Upserts(doing.n)
    BY <2>2, <2>3, <2>4, Zenon DEF Upserts
  <2> QED
    BY <1>1, <2>2, <2>5 DEF Moves
<1>6. CASE ApplyTags
  <2>1. papers' = [papers EXCEPT !.tagged[doing.n] = @ \cup (Paperless.tagged[doing.n] \cap errand.labels)]
        /\ Goes("tags", "notes") /\ UNCHANGED <<log, doing>>
    BY <1>1, <1>3, <1>6 DEF ApplyTags, Wrote, OnDocument, Goes, jobVars
  <2> QED
    BY <1>0, <1>1, <2>1 DEF Moves, Fills, PapersKind
<1>7. CASE ApplyNotes
  <2>1. papers' = [papers EXCEPT !.note[doing.n] = @ \cup Texts(doing.n)] /\ Goes("notes", "values") /\ UNCHANGED <<log, doing>>
    BY <1>1, <1>3, <1>7 DEF ApplyNotes, Wrote, OnDocument, Goes, jobVars
  <2> QED
    BY <1>0, <1>1, <2>1 DEF Moves, Fills, PapersKind
<1>8. CASE ApplyValues
  <2>1. papers' = [papers EXCEPT !.kept[doing.n] = @ \cup Paperless.asn[doing.n]] /\ Goes("values", "original") /\ UNCHANGED <<log, doing>>
    BY <1>1, <1>8 DEF ApplyValues, Wrote, OnDocument, Goes, jobVars
  <2> QED
    BY <1>0, <1>1, <2>1 DEF Moves, Fills, PapersKind
<1>9. CASE ImportOriginal /\ ~ OnDocument("done")
  <2>1. CASE /\ OnDocument("original") /\ Row \in Paperless.shaky
             /\ Observe(Originals(Row, "missing"), "done")
    BY <1>1, <2>1 DEF Observe, OnDocument, Goes, Moves, Carries
  <2>2. CASE /\ OnDocument("original")
             /\ Wrote([papers EXCEPT !.file[Paperless.bytes[Row]] = "live", !.provenance = @ \cup {Row},
                                     !.attached[Row] = "live"], "observe")
    <3>1. papers' = [papers EXCEPT !.file[Paperless.bytes[doing.n]] = "live", !.provenance = @ \cup {doing.n},
                                   !.attached[doing.n] = "live"]
          /\ Goes("original", "observe") /\ UNCHANGED <<log, doing>>
      BY <1>1, <2>2 DEF Wrote, OnDocument, Goes, jobVars
    <3> QED
      BY <1>0, <1>1, <3>1 DEF Moves, Carries, PapersKind
  <2>3. CASE OnDocument("observe") /\ Observe(Originals(Row, "stored"), "done")
    BY <1>1, <2>3 DEF Observe, OnDocument, Goes, Moves, Carries
  <2> QED
    BY <1>3, <1>9, <2>1, <2>2, <2>3 DEF ImportOriginal
<1> QED
  BY <1>1, <1>4, <1>5, <1>6, <1>7, <1>8, <1>9, HandlingBy

\* A step that is not one of those leaves the observations alone, or begins a run.
LEMMA LogKept ==
  ASSUME PaperKinds, RunStep, errand'.step \notin Handling
  PROVE  log' = log \/ ClaimPaper
<1>0. errand \in Errands
  BY DEF PaperKinds
<1>1. ASSUME NEW entries, NEW step \in Handling, Observe(entries, step) PROVE FALSE
  BY <1>0, <1>1 DEF Observe, Errands
<1>2. ASSUME NEW w, AdvanceAs(w) PROVE log' = log
  BY <1>2 DEF AdvanceAs, AbortRun, End
<1>3. ASSUME NEW l, NEW step, Wrote(l, step) PROVE log' = log
  BY <1>3 DEF Wrote, jobVars
<1>4. CASE Refused
  BY <1>4 DEF Refused, Throw, End
<1>5. CASE RunItself \/ CutPaper
  BY <1>5 DEF RunItself, FetchSnapshot, BeginPaperStage, EndPaperStage, FinishPaper, CutPaper, Succeed, Cut, End, jobVars
<1>6. CASE UpsertItem
  <2>1. CASE ~ Refused
    <3>1. errand' = [errand EXCEPT !.step = "tags", !.items = @ \cup {Row}]
      BY <1>6, <2>1 DEF UpsertItem
    <3> QED
      BY <1>0, <3>1 DEF Handling, Writing, Errands
  <2> QED
    BY <1>4, <2>1
<1>7. CASE LeaveTrashedItemAlone \/ ImportOriginal
  BY <1>1, <1>2, <1>3, <1>4, <1>7 DEF LeaveTrashedItemAlone, ImportOriginal, Handling, Writing
<1>8. CASE \/ ImportPaperTag \/ DefineCustomField \/ PassOver \/ ApplyTags \/ ApplyNotes \/ ApplyValues
           \/ ImportDocumentLinks \/ FinaliseDocument
  BY <1>2, <1>3, <1>4, <1>8 DEF ImportPaperTag, DefineCustomField, PassOver, ApplyTags, ApplyNotes, ApplyValues,
                                ImportDocumentLinks, FinaliseDocument
<1> QED
  BY <1>5, <1>6, <1>7, <1>8 DEF RunStep, RunItself

-----------------------------------------------------------------------------
(* Paperless: what is passed over is done *)

LEMMA WithoutCursor == Claim(1) => IF Resume = 0 THEN /\ log' = {} /\ doing'.stage = 1
                                                      /\ settled' = (IF settled = "no" THEN "began" ELSE settled)
                                   ELSE log' = log /\ doing'.stage = Resume /\ settled' = settled
  BY IdleAndOff DEF Claim, NoCursor, Idle

LEMMA Claimed ==
  ASSUME PaperKinds, ClaimPaper
  PROVE  /\ doing = Idle /\ doing'.n = 0 /\ import'.state = "running" /\ import'.cursor = Resume
         /\ errand'.step = "fetch" /\ errand'.after = reach' /\ errand'.since = edits
         /\ reach' = IF Resume = 0 THEN 0 ELSE reach
         /\ Resume = 0 \/ Resume = import.cursor
         /\ UNCHANGED <<papers, edits, touched>>
  BY IdleAndOff DEF ClaimPaper, Claim, Resume, NoCursor, Idle, Off, Errands, PaperKinds, JobKinds

LEMMA ReachedInit == PaperlessInit => Reached
  BY IdleAndOff DEF PaperlessInit, JobInit, Reached, Writing, Off, NoCursor

LEMMA CountedIs ==
  ASSUME PaperKinds, Counted
  PROVE  /\ doing.stage \in 1 .. 5 /\ doing.n # 0 /\ errand.step # "fetch"
         /\ UNCHANGED <<papers, log, settled, touched, edits>> /\ import'.cursor = import.cursor
         /\ reach' = IF doing.stage = 3 /\ errand.step \in {"left", "done"} THEN doing.n ELSE errand.last
         /\ \/ /\ Advancing /\ UNCHANGED import
               /\ errand'.step = "look" /\ errand'.after = errand.after /\ errand'.since = errand.since
               /\ errand'.labels = IF doing.stage = 1 THEN errand.labels \cup {Paperless.tags[doing.n]} ELSE errand.labels
               /\ errand'.items = IF doing.stage = 3 /\ errand.step = "look" THEN errand.items \cup ({doing.n} \cap Live)
                                  ELSE errand.items
            \/ doing' = Idle /\ errand' = Off /\ import'.state = "cancelled"
<1>0. errand \in Errands
  BY DEF PaperKinds
<1>1. ASSUME NEW w \in Errands, Counts(w)
      PROVE  /\ doing.stage \in 1 .. 5 /\ doing.n # 0 /\ errand.step # "fetch"
             /\ UNCHANGED <<papers, log, settled, touched, edits>> /\ import'.cursor = import.cursor /\ reach' = w.last
             /\ \/ /\ Advancing /\ UNCHANGED import
                   /\ errand'.step = "look" /\ errand'.after = errand.after /\ errand'.since = errand.since
                   /\ errand'.labels = w.labels /\ errand'.items = w.items
                \/ doing' = Idle /\ errand' = Off /\ import'.state = "cancelled"
  BY <1>1 DEF Counts, Errands
<1>2. CASE doing.stage = 1 /\ doing.n \in DOMAIN Paperless.tags /\ Counts([errand EXCEPT !.labels = @ \cup {Paperless.tags[doing.n]}])
  <2> DEFINE w == [errand EXCEPT !.labels = @ \cup {Paperless.tags[doing.n]}]
  <2>1. w \in Errands /\ w.labels = errand.labels \cup {Paperless.tags[doing.n]} /\ w.items = errand.items /\ w.last = errand.last
    BY <1>0, <1>2, PartsOfServer DEF Errands, Live
  <2>2. Counts(w)
    BY <1>2
  <2> HIDE DEF w
  <2> QED
    BY <1>1, <1>2, <2>1, <2>2
<1>3. CASE doing.stage = 3 /\ doing.n \in Docs /\ errand.step = "look" /\ Counts([errand EXCEPT !.items = @ \cup ({doing.n} \cap Live)])
  <2> DEFINE w == [errand EXCEPT !.items = @ \cup ({doing.n} \cap Live)]
  <2>1. w \in Errands /\ w.items = errand.items \cup ({doing.n} \cap Live) /\ w.labels = errand.labels /\ w.last = errand.last
    BY <1>0, <1>3, PartsOfServer DEF Errands, Live
  <2>2. Counts(w)
    BY <1>3
  <2> HIDE DEF w
  <2> QED
    BY <1>1, <1>3, <2>1, <2>2
<1>4. CASE doing.stage = 3 /\ doing.n \in Docs /\ errand.step \in {"left", "done"} /\ Counts([errand EXCEPT !.last = doing.n])
  <2> DEFINE w == [errand EXCEPT !.last = doing.n]
  <2>1. w \in Errands /\ w.last = doing.n /\ w.labels = errand.labels /\ w.items = errand.items
    <3>1. doing.n \in 0 .. Paperless.count
      BY <1>4, DocsAre
    <3> QED
      BY <1>0, <3>1 DEF Errands
  <2>2. Counts(w)
    BY <1>4
  <2> HIDE DEF w
  <2> QED
    BY <1>1, <1>4, <2>1, <2>2
<1>5. CASE doing.stage \in {2, 4, 5} /\ Counts(errand)
  BY <1>0, <1>1, <1>5
<1> QED
  BY <1>2, <1>3, <1>4, <1>5 DEF Counted

LEMMA ReachedStep == ASSUME PaperKinds, Whereabouts, Owned, Reached, PaperlessNext PROVE Reached'
<1>0. /\ errand \in Errands /\ reach \in 0 .. Paperless.count /\ Paperless.count \in Nat
      /\ import.cursor \in 0 .. 5 /\ doing.stage \in 0 .. 6 /\ doing.n \in Nat
  BY DocsAre DEF PaperKinds, JobKinds
<1>1. CASE PeopleEdit
  BY <1>1 DEF PeopleEdit, Reached
<1>2. CASE ClaimPaper
  <2>1. doing'.stage = IF Resume = 0 THEN 1 ELSE Resume
    BY <1>2, WithoutCursor DEF ClaimPaper
  <2> QED
    BY <1>0, <1>2, <2>1, Claimed DEF Reached, Writing
<1>3. CASE FetchSnapshot
  <2>1. errand'.after = errand.after /\ errand'.step = "look" /\ UNCHANGED <<import, doing, reach>>
    BY <1>0, <1>3 DEF FetchSnapshot, Errands, jobVars
  <2> QED
    BY <2>1 DEF Reached, Writing
<1>4. CASE BeginPaperStage
  <2>1. /\ doing'.n = 1 /\ doing'.stage = doing.stage /\ doing # Idle /\ import'.cursor = doing.stage
        /\ UNCHANGED <<errand, reach>> /\ errand.step \notin Handling
    BY <1>0, <1>4, DocsAre, StagesAre DEF BeginPaperStage, Checkpoint, Whereabouts, Handling, PaperKinds, JobKinds
  <2> QED
    BY <1>0, <2>1 DEF Reached, Handling
<1>5. CASE EndPaperStage
  <2>1. /\ doing'.n = 0 /\ doing'.stage = doing.stage + 1 /\ doing # Idle /\ doing.stage \in 1 .. 5
        /\ UNCHANGED <<import, errand, reach>> /\ doing.n > Len(PaperRows(PaperStages[doing.stage]))
    BY <1>0, <1>5, IdleAndOff, StagesAre DEF EndPaperStage, Idle, Whereabouts
  <2>2. errand.step \notin Handling
    BY <2>1, InRow, RowsLength DEF Whereabouts, Handling
  <2>3. ASSUME doing.stage = 3 PROVE reach = Paperless.count
    BY <1>0, <2>1, <2>3, RowsLength DEF Reached
  <2> QED
    BY <1>0, <2>1, <2>2, <2>3 DEF Reached, Handling
<1>6. CASE FinishPaper
  BY <1>0, <1>6, IdleAndOff DEF FinishPaper, Succeed, End, Reached, Writing
<1>7. CASE Broken
  BY <1>0, <1>7, IdleAndOff DEF Broken, Reached, Writing
<1>8. CASE Within /\ RunStep
  <2>1. ASSUME errand'.step \in Handling PROVE errand'.after < doing.n
    <3>1. Moves(doing.n) /\ doing.n \in Docs
      BY <1>8, <2>1, WorkIsMoves
    <3>2. errand.step = "look" => errand.after < doing.n
      BY <3>1 DEF Moves, Looks, Upserts, Fills, Carries, Goes
    <3>3. errand.step = "look" \/ errand.step \in Handling
      BY <3>1 DEF Moves, Looks, Upserts, Fills, Carries, Goes, Handling, Writing
    <3> QED
      BY <1>8, <3>2, <3>3 DEF Within, Reached, Handling
  <2>2. UNCHANGED <<import, doing, reach>> /\ errand'.after = errand.after /\ doing # Idle
    BY <1>8, IdleAndOff DEF Within
  <2> QED
    BY <2>1, <2>2 DEF Reached, Handling
<1>9. CASE Counted
  <2>1. errand'.step \notin Handling
    BY <1>9, CountedIs, IdleAndOff DEF Handling, Writing
  <2>2. errand.last = reach /\ doing # Idle /\ import.cursor = doing.stage /\ doing.n # 0
    BY <1>0, <1>9, CountedIs, IdleAndOff DEF Whereabouts
  <2>3. doing.stage = 3 => (errand.step \in {"left", "done"} /\ doing.n \in Docs /\ errand.after < doing.n /\ reach' = doing.n)
                        \/ (reach' = reach /\ doing.n <= errand.after)
    <3>1. CASE doing.stage = 3
      <4>1. CASE errand.step \in {"left", "done"}
        BY <1>9, <3>1, <4>1, CountedIs DEF Reached, Writing, Whereabouts
      <4>2. CASE errand.step \notin {"left", "done"}
        BY <1>9, <2>2, <3>1, <4>2, CountedIs DEF Counted
      <4> QED
        BY <4>1, <4>2
    <3> QED
      BY <3>1
  <2>4. doing.stage # 3 => reach' = reach
    BY <1>9, <2>2, CountedIs
  <2>5. errand.after <= reach
    BY <2>2 DEF Reached
  <2>6. CASE Advancing /\ errand'.after = errand.after
    <3>1. doing'.stage = doing.stage /\ doing'.n = doing.n + 1 /\ import'.cursor = doing.stage
      BY <1>9, <2>2, <2>6, CountedIs DEF Advancing
    <3>2. errand.after <= reach' /\ (doing.stage = 3 => doing.n <= reach')
      <4>1. errand.after \in Nat /\ doing.n \in Nat /\ reach \in Nat
        BY <1>0 DEF Errands
      <4> QED
        BY <2>3, <2>4, <2>5, <4>1
    <3>3. doing.stage > 3 => reach' = Paperless.count
      BY <1>0, <2>4 DEF Reached
    <3> QED
      BY <1>0, <2>1, <2>6, <3>1, <3>2, <3>3 DEF Reached, Handling
  <2>7. CASE doing' = Idle
    BY <1>0, <1>9, <2>1, <2>2, <2>4, <2>7, CountedIs, IdleAndOff DEF Reached, Handling
  <2> QED
    BY <1>9, <2>6, <2>7, CountedIs
<1> QED
  BY <1>1, <1>2, <1>3, <1>4, <1>5, <1>6, <1>7, <1>8, <1>9, Ways DEF PaperlessNext, RunStep, RunItself

\* What a run knows of itself: a claim with no cursor begins it, and its end ends it.
LEMMA SettledBy ==
  ASSUME PaperKinds, RunStep
  PROVE  \/ settled' = settled
         \/ FinishPaper /\ settled = "began" /\ settled' = "ended"
         \/ /\ ClaimPaper /\ settled = "no" /\ settled' = "began" /\ log' = {} /\ reach' = 0 /\ import'.cursor = 0
            /\ doing'.stage = 1 /\ doing'.n = 0 /\ errand'.step = "fetch"
<1>1. CASE ClaimPaper
  BY <1>1, Claimed, WithoutCursor DEF ClaimPaper
<1>2. CASE FetchSnapshot \/ BeginPaperStage \/ EndPaperStage
  BY <1>2 DEF FetchSnapshot, BeginPaperStage, EndPaperStage, jobVars
<1>3. CASE FinishPaper
  BY <1>3 DEF FinishPaper, Succeed, End
<1>4. CASE Counted \/ Broken \/ Within
  BY <1>4, CountedIs DEF Broken, Within
<1> QED
  BY <1>1, <1>2, <1>3, <1>4, Ways DEF RunItself

LEMMA ThroughStep ==
  ASSUME PaperKinds, Whereabouts, Began, RunStep, settled # "no", NEW s \in 1 .. 5,
         NEW m \in 1 .. Len(PaperRows(PaperStages[s])), Through(s, m)'
  PROVE  Through(s, m) \/ (doing.stage = s /\ m = doing.n /\ Counted)
<1>0. /\ doing.n \in Nat /\ doing.stage \in 0 .. 6 /\ m \in Nat /\ m # 0
      /\ Len(PaperRows(PaperStages[s])) \in Nat
  BY RowsLength DEF PaperKinds, JobKinds
<1>1. CASE Past(s)'
  BY <1>0, <1>1, PastStep DEF Through, EndPaperStage
<1>2. CASE ~ Past(s)'
  <2>1. doing'.stage = s /\ m < doing'.n
    BY <1>2 DEF Through
  <2>2. CASE ClaimPaper \/ EndPaperStage \/ FinishPaper \/ Broken
    <3>1. doing'.n = 0
      BY <2>2, Claimed, IdleAndOff DEF EndPaperStage, FinishPaper, Succeed, End, Broken, Idle
    <3> QED
      BY <1>0, <2>1, <3>1
  <2>3. CASE BeginPaperStage
    <3>1. doing'.n = 1
      BY <2>3 DEF BeginPaperStage, PaperKinds, JobKinds
    <3> QED
      BY <1>0, <2>1, <3>1
  <2>4. CASE FetchSnapshot \/ Within
    BY <2>1, <2>4 DEF FetchSnapshot, Within, jobVars, Through
  <2>5. CASE Counted
    <3>1. Advancing
      BY <2>1, <2>5, CountedIs, IdleAndOff
    <3> QED
      BY <1>0, <2>1, <2>5, <3>1 DEF Advancing, Through
  <2> QED
    BY <2>2, <2>3, <2>4, <2>5, Ways DEF RunItself
<1> QED
  BY <1>1, <1>2

LEMMA TagsInit == PaperlessInit => TagsDone /\ AtStep /\ DocsDone /\ ItemsKnown /\ LinksDone /\ Began
  BY DEF PaperlessInit, JobInit, TagsDone, AtStep, DocsDone, ItemsKnown, LinksDone, Began

LEMMA NoTagsYet ==
  ASSUME settled' = "began", import'.cursor = 0, doing'.stage = 1, doing'.n = 0, NEW s \in 1 .. 5, NEW m \in Nat
  PROVE  ~ Through(s, m)'
  BY DEF Through, Past

LEMMA TagsStep ==
  ASSUME PaperKinds, Whereabouts, Owned, Began, TagsDone, PaperlessNext
  PROVE  TagsDone'
<1>0. /\ doing.n \in Nat /\ doing.stage \in 0 .. 6 /\ papers.tags \subseteq Labels /\ errand \in Errands
      /\ \A m \in DOMAIN Paperless.tags : m \in Nat /\ m # 0 /\ m \in 1 .. Len(PaperRows(PaperStages[1]))
      /\ \A m \in DOMAIN Paperless.fields : m \in Nat /\ m # 0 /\ m \in 1 .. Len(PaperRows(PaperStages[2]))
  BY RowsLength DEF PaperKinds, JobKinds, PapersKind
<1>1. CASE PeopleEdit
  BY <1>1 DEF PeopleEdit, TagsDone
<1>2. SUFFICES ASSUME RunStep, settled' # "no" PROVE TagsDone'
  BY <1>1 DEF PaperlessNext, RunStep, TagsDone
<1>3. CASE settled = "no"
  <2>1. /\ settled' = "began" /\ import'.cursor = 0 /\ doing'.stage = 1 /\ doing'.n = 0 /\ errand'.step = "fetch"
    BY <1>2, <1>3, SettledBy
  <2> QED
    BY <1>0, <2>1, NoTagsYet DEF TagsDone, Fetched
<1>4. CASE settled # "no"
  <2>1. Grows
    BY <1>2, RunGrows
  <2>2. ASSUME NEW m \in DOMAIN Paperless.tags, Through(1, m)' PROVE Paperless.tags[m] \in papers'.tags
    BY <1>0, <1>2, <1>4, <2>1, <2>2, ThroughStep DEF TagsDone, Counted, Grows
  <2>3. ASSUME NEW m \in DOMAIN Paperless.fields, Through(2, m)' PROVE Paperless.fields[m] \in papers'.fields
    BY <1>0, <1>2, <1>4, <2>1, <2>3, ThroughStep DEF TagsDone, Counted, Grows
  <2>4. ASSUME Fetched', NEW m \in DOMAIN Paperless.tags, doing'.stage > 1 \/ m < doing'.n
        PROVE  Paperless.tags[m] \in errand'.labels
    <3>1. CASE ClaimPaper \/ FinishPaper \/ Broken
      BY <2>4, <3>1, Claimed DEF Fetched, FinishPaper, Succeed, End, Broken
    <3>2. CASE FetchSnapshot
      <4>1. doing' = doing /\ doing.stage > 1 /\ errand'.labels = papers.tags
        BY <1>0, <2>4, <3>2 DEF FetchSnapshot, jobVars, Whereabouts, Errands
      <4>2. Through(1, m)
        BY <4>1 DEF Through, Past
      <4> QED
        BY <1>4, <4>1, <4>2 DEF TagsDone
    <3>3. CASE BeginPaperStage
      <4>1. doing'.n = 1 /\ doing'.stage = doing.stage /\ errand' = errand /\ Fetched
        BY <1>0, <3>3, IdleAndOff, StagesAre DEF BeginPaperStage, Fetched, PaperKinds, JobKinds
      <4> QED
        BY <1>0, <1>4, <2>4, <4>1 DEF TagsDone
    <3>4. CASE EndPaperStage
      <4>1. doing.n > Len(PaperRows(PaperStages[doing.stage])) /\ doing.stage \in 1 .. 5 /\ errand' = errand /\ doing # Idle
        BY <3>4, IdleAndOff, StagesAre DEF EndPaperStage
      <4>2. Fetched
        BY <1>0, <4>1, RowsLength DEF Fetched, Whereabouts
      <4>3. doing.stage > 1 \/ m < doing.n
        BY <1>0, <4>1, RowsLength
      <4> QED
        BY <1>4, <4>1, <4>2, <4>3 DEF TagsDone
    <3>5. CASE Counted
      <4>1. Fetched /\ Advancing /\ doing.stage \in 1 .. 5
            /\ errand'.labels = IF doing.stage = 1 THEN errand.labels \cup {Paperless.tags[doing.n]} ELSE errand.labels
        BY <2>4, <3>5, CountedIs, IdleAndOff DEF Fetched
      <4>2. doing.stage > 1 \/ m < doing.n \/ m = doing.n
        BY <1>0, <2>4, <4>1 DEF Advancing
      <4> QED
        BY <1>0, <1>4, <4>1, <4>2 DEF TagsDone
    <3>6. CASE Within
      BY <1>0, <1>4, <2>4, <3>6, IdleAndOff DEF Within, TagsDone, Fetched
    <3> QED
      BY <1>2, <3>1, <3>2, <3>3, <3>4, <3>5, <3>6, Ways DEF RunItself
  <2> QED
    BY <2>2, <2>3, <2>4 DEF TagsDone
<1> QED
  BY <1>3, <1>4

\* What has been copied stays copied.
LEMMA CopiedStays ==
  ASSUME Grows, NEW d \in Docs, Copied(d) PROVE Copied(d)'
<1>1. CASE papers.item[d] = "trashed"
  BY <1>1 DEF Grows, Copied
<1>2. CASE papers.item[d] # "trashed"
  <2>1. Upserted(d)'
    BY <1>2 DEF Grows, Copied, Upserted, Due
  <2>2. Carried(d)'
    BY <1>2 DEF Grows, Copied, Carried
  <2> QED
    BY <1>2, <2>1, <2>2 DEF Grows, Copied
<1> QED
  BY <1>1, <1>2

LEMMA UpsertedStays == ASSUME Grows, NEW d \in Docs, Upserted(d) PROVE Upserted(d)' /\ papers'.asn[d] = papers.asn[d]
  BY DEF Grows, Upserted, Due

\* What is on record of a number stays on record.
LEMMA LogKeeps ==
  ASSUME PaperKinds, Whereabouts, Owned, RunStep, settled # "no", NEW d \in Docs
  PROVE  /\ <<"asn", d>> \in log => <<"asn", d>> \in log' \/ log' = {}
         /\ <<"asn", d>> \in log' => <<"asn", d>> \in log \/ Due(d) # Paperless.asn[d]
         /\ <<"missing", d>> \in log => \/ <<"missing", d>> \in log' \/ log' = {}
                                        \/ errand.step = "observe" /\ d = doing.n
<1>1. CASE errand'.step \in Handling
  <2>1. doing.n \in Docs /\ Moves(doing.n)
    BY <1>1, WorkIsMoves
  <2>2. CASE Looks(doing.n) \/ Fills(doing.n)
    BY <2>2 DEF Looks, Fills
  <2>3. CASE Upserts(doing.n)
    BY <2>3 DEF Upserts
  <2>4. CASE Carries(doing.n)
    BY <2>4 DEF Carries, Originals, Goes
  <2> QED
    BY <2>1, <2>2, <2>3, <2>4 DEF Moves
<1>2. CASE errand'.step \notin Handling
  <2>1. log' = log \/ log' = {}
    BY <1>2, LogKept, WithoutCursor DEF ClaimPaper
  <2> QED
    BY <2>1
<1> QED
  BY <1>1, <1>2

LEMMA AtStepStep ==
  ASSUME PaperKinds, Whereabouts, Owned, TagsDone, AtStep, PaperlessNext
  PROVE  AtStep'
<1>0. errand \in Errands /\ papers \in PapersKind
  BY DEF PaperKinds
<1>1. CASE PeopleEdit
  BY <1>1 DEF PeopleEdit, AtStep
<1>2. SUFFICES ASSUME RunStep, settled' # "no", errand'.step \in Handling PROVE AtStep'
  BY <1>1 DEF PaperlessNext, RunStep, AtStep, Handling, Writing
<1>3. settled # "no"
  BY <1>2, SettledBy DEF Handling, Writing
<1>4. PICK d \in Docs : d = doing.n /\ d = doing'.n /\ doing.stage = 3 /\ doing.n # 0 /\ doing' = doing /\ Moves(d)
  BY <1>2, WorkIsMoves, DocsAre DEF Moves
<1>5. Grows
  BY <1>2, RunGrows
<1>6. CASE Looks(d)
  BY <1>0, <1>4, <1>6 DEF Looks, AtStep, Writing, Errands
<1>7. CASE Upserts(d)
  <2>1. papers'.item[d] = "live" /\ errand'.step = "tags" /\ d \in errand'.items
    BY <1>0, <1>3, <1>4, <1>7 DEF Upserts, AtStep, Errands
  <2>2. Upserted(d)' /\ NumberNoted(d)'
    BY <1>7, <2>1 DEF Upserts, Upserted, Due, NumberNoted
  <2> QED
    BY <1>4, <2>1, <2>2 DEF AtStep
<1>8. CASE Fills(d) \/ Carries(d)
  <2>1. errand.step \in Writing /\ errand'.items = errand.items /\ errand'.step \in Writing \ {"tags"}
    BY <1>0, <1>8 DEF Fills, Carries, Goes, Writing, Errands
  <2>2. Upserted(d) /\ NumberNoted(d) /\ d \in errand.items
    BY <1>3, <1>4, <2>1 DEF AtStep
  <2>3. Upserted(d)' /\ papers'.asn[d] = papers.asn[d]
    BY <1>5, <2>2, UpsertedStays
  <2>4. <<"asn", d>> \in log => <<"asn", d>> \in log'
    BY <1>8 DEF Fills, Carries, Originals
  <2>5. NumberNoted(d)'
    BY <2>2, <2>3, <2>4 DEF NumberNoted
  <2>6. Paperless.tagged[d] \subseteq papers'.tagged[d]
    <3>1. CASE errand.step = "tags"
      <4>1. papers'.tagged[d] = papers.tagged[d] \cup (Paperless.tagged[d] \cap errand.labels)
        BY <1>8, <3>1 DEF Fills, Carries, Goes
      <4>2. Fetched
        BY <1>4, <3>1, IdleAndOff DEF Fetched
      <4>3. Labels \subseteq errand.labels
        BY <1>3, <1>4, <4>2, PartsOfServer DEF TagsDone, Range
      <4>4. Paperless.tagged[d] \subseteq Labels
        BY PaperlessSnapshot
      <4> QED
        BY <4>1, <4>3, <4>4
    <3>2. CASE errand.step # "tags"
      BY <1>3, <1>4, <1>5, <2>1, <3>2 DEF AtStep, Grows
    <3> QED
      BY <3>1, <3>2
  <2>7. errand'.step # "notes" => Texts(d) \subseteq papers'.note[d]
    <3>1. CASE errand.step = "notes"
      BY <1>8, <3>1 DEF Fills, Carries, Goes
    <3>2. CASE errand.step \notin {"tags", "notes"}
      BY <1>3, <1>4, <1>5, <2>1, <3>2 DEF AtStep, Grows
    <3>3. errand.step = "tags" => errand'.step = "notes"
      BY <1>0, <1>8 DEF Fills, Carries, Goes, Errands
    <3> QED
      BY <3>1, <3>2, <3>3
  <2>8. errand'.step \in {"original", "observe", "done"} => Paperless.asn[d] \subseteq papers'.kept[d]
    <3>1. CASE errand.step = "values"
      BY <1>8, <3>1 DEF Fills, Carries, Goes
    <3>2. CASE errand.step \in {"original", "observe", "done"}
      BY <1>3, <1>4, <1>5, <3>2 DEF AtStep, Grows
    <3>3. errand'.step \in {"original", "observe", "done"} => errand.step \in {"values", "original", "observe", "done"}
      BY <1>0, <1>8 DEF Fills, Carries, Goes, Errands
    <3> QED
      BY <3>1, <3>2, <3>3
  <2>9. errand'.step = "observe" => papers'.attached[d] = "live" /\ d \in papers'.provenance
    BY <1>0, <1>8 DEF Fills, Carries, Goes, Errands
  <2>10. errand'.step = "done" => Carried(d)' /\ FileNoted(d)'
    <3>1. CASE d \in Paperless.shaky /\ log' = Originals(d, "missing")
      BY <3>1 DEF Carried, FileNoted, Originals
    <3>2. CASE errand.step = "observe" /\ papers' = papers
      BY <1>3, <1>4, <3>2 DEF AtStep, Carried, FileNoted
    <3>3. errand'.step = "done" => \/ d \in Paperless.shaky /\ log' = Originals(d, "missing")
                                   \/ errand.step = "observe" /\ papers' = papers
      BY <1>0, <1>8 DEF Fills, Carries, Goes, Errands
    <3> QED
      BY <3>1, <3>2, <3>3
  <2>11. d \in errand'.items
    BY <2>1, <2>2
  <2> QED
    BY <1>4, <2>1, <2>3, <2>5, <2>6, <2>7, <2>8, <2>9, <2>10, <2>11 DEF AtStep, Writing
<1> QED
  BY <1>4, <1>6, <1>7, <1>8 DEF Moves

\* An item that people had put in the trash is left there.
LEMMA LeftIsTrashed == ASSUME AtStep, settled # "no", errand.step = "left" PROVE papers.item[doing.n] = "trashed"
  BY DEF AtStep

LEMMA DoneIsCopied ==
  ASSUME AtStep, settled # "no", errand.step \in {"left", "done"}
  PROVE  Copied(doing.n) /\ Noted(doing.n)
<1>1. CASE errand.step = "left"
  BY <1>1, LeftIsTrashed DEF Copied, Noted
<1>2. CASE errand.step = "done"
  BY <1>2 DEF AtStep, Writing, Copied, Noted
<1> QED
  BY <1>1, <1>2

\* How a run gets further with the documents.
LEMMA ReachBy ==
  ASSUME PaperKinds, Whereabouts, Reached, RunStep, NEW d \in Docs, d <= reach'
  PROVE  d <= reach \/ (errand.step \in {"left", "done"} /\ d = doing.n /\ Counted)
<1>0. /\ doing.n \in Nat /\ doing.stage \in 0 .. 6 /\ reach \in Nat
      /\ d \in Nat /\ d # 0
  BY DocsAre DEF PaperKinds, JobKinds
<1>1. CASE Counted /\ doing.stage = 3 /\ errand.step \in {"left", "done"}
  BY <1>0, <1>1, CountedIs DEF Reached
<1>2. CASE Counted /\ ~ (doing.stage = 3 /\ errand.step \in {"left", "done"})
  BY <1>2, CountedIs, IdleAndOff DEF Whereabouts
<1>3. CASE ClaimPaper
  BY <1>0, <1>3, Claimed
<1>4. CASE FetchSnapshot \/ BeginPaperStage \/ EndPaperStage \/ FinishPaper \/ Broken \/ Within
  BY <1>4 DEF FetchSnapshot, BeginPaperStage, EndPaperStage, FinishPaper, Broken, Within
<1> QED
  BY <1>1, <1>2, <1>3, <1>4, Ways DEF RunItself

LEMMA DocsDoneStep ==
  ASSUME PaperKinds, Whereabouts, Owned, Reached, Began, AtStep, DocsDone, PaperlessNext
  PROVE  DocsDone'
<1>0. /\ doing.n \in Nat /\ doing.stage \in 0 .. 6 /\ reach \in Nat /\ Paperless.count \in Nat
      /\ \A d \in Docs : d \in Nat /\ d # 0 /\ d <= Paperless.count
  BY DocsAre DEF PaperKinds, JobKinds
<1>1. CASE PeopleEdit
  BY <1>1, Zenon DEF PeopleEdit, DocsDone
<1>2. SUFFICES ASSUME RunStep, settled' # "no", NEW d \in Docs
               PROVE  /\ settled' = "ended" \/ d <= reach' => Copied(d)'
                      /\ d <= reach' => Noted(d)'
                      /\ <<"asn", d>> \in log' => Due(d)' # Paperless.asn[d]
  BY <1>1, Zenon DEF PaperlessNext, RunStep, DocsDone
<1>3. Grows /\ Due(d)' = Due(d)
  BY <1>2, RunGrows DEF Grows, Due
<1>4. CASE settled = "no"
  BY <1>0, <1>2, <1>4, SettledBy
<1>5. CASE settled # "no"
  <2>1. d <= reach' => d <= reach \/ (errand.step \in {"left", "done"} /\ d = doing.n /\ Counted)
    BY <1>2, ReachBy
  <2>2. settled' = "ended" => settled = "ended" \/ d <= reach
    <3>1. CASE FinishPaper
      BY <1>0, <3>1, StagesAre DEF FinishPaper, Reached
    <3>2. CASE ~ FinishPaper
      BY <1>2, <1>5, <3>2, SettledBy
    <3> QED
      BY <3>1, <3>2
  <2>3. ASSUME Counted, errand.step \in {"left", "done"}, d = doing.n PROVE Copied(d)' /\ Noted(d)'
    <3>1. UNCHANGED <<papers, log>> /\ Copied(d) /\ Noted(d)
      BY <1>5, <2>3, CountedIs, DoneIsCopied
    <3> QED
      BY <3>1 DEF Copied, Noted, Upserted, Due, Carried, NumberNoted, FileNoted
  <2>4. settled' = "ended" \/ d <= reach' => Copied(d)'
    BY <1>3, <1>5, <2>1, <2>2, <2>3, CopiedStays, Zenon DEF DocsDone
  <2>5. ASSUME d <= reach', d <= reach PROVE Noted(d)'
    <3>1. Copied(d) /\ Noted(d)
      BY <1>5, <2>5, Zenon DEF DocsDone
    <3>2. CASE papers.item[d] = "trashed"
      BY <1>3, <3>2 DEF Grows, Noted
    <3>3. CASE papers.item[d] # "trashed"
      <4>1. Upserted(d) /\ NumberNoted(d) /\ FileNoted(d) /\ papers'.asn[d] = papers.asn[d]
        BY <1>3, <3>1, <3>3, UpsertedStays DEF Copied, Noted
      <4>2. log' # {} \/ log' = log
        <5>1. CASE errand'.step \in Handling
          BY <1>2, <5>1, WorkIsMoves, Zenon DEF Moves, Looks, Upserts, Fills, Carries, Originals
        <5>2. CASE errand'.step \notin Handling
          BY <1>0, <1>2, <1>5, <2>5, <5>2, LogKept, WithoutCursor, Claimed DEF ClaimPaper
        <5> QED
          BY <5>1, <5>2
      <4>3. /\ <<"asn", d>> \in log => <<"asn", d>> \in log'
            /\ <<"missing", d>> \in log => <<"missing", d>> \in log' \/ (errand.step = "observe" /\ d = doing.n)
        BY <1>2, <1>5, <4>2, LogKeeps
      <4>4. errand.step = "observe" /\ d = doing.n => d \in papers.provenance
        BY <1>5 DEF AtStep
      <4> QED
        BY <1>3, <4>1, <4>3, <4>4 DEF Grows, Noted, NumberNoted, FileNoted
    <3> QED
      BY <3>2, <3>3
  <2>6. <<"asn", d>> \in log' => Due(d) # Paperless.asn[d]
    BY <1>2, <1>5, LogKeeps, Zenon DEF DocsDone
  <2> QED
    BY <1>3, <2>1, <2>3, <2>4, <2>5, <2>6
<1> QED
  BY <1>4, <1>5

\* Only the item of the document a run is at changes, and only while it is at work on it.
LEMMA ItemKept ==
  ASSUME PaperKinds, Owned, RunStep
  PROVE  /\ \A e \in Docs : e # doing.n => papers'.item[e] = papers.item[e]
         /\ errand'.step \notin Handling => papers'.item = papers.item
<1>0. papers \in PapersKind /\ errand \in Errands
  BY DEF PaperKinds
<1>1. ASSUME NEW e \in Docs, e # doing.n PROVE papers'.item[e] = papers.item[e]
  <2>1. CASE doing.n \in Docs /\ Puts(doing.n)
    <3>1. papers'.item = [papers.item EXCEPT ![doing.n] = "live"] \/ papers'.item = papers.item
      BY <1>0, <2>1, ZenonT(60) DEF Puts, PapersKind
    <3>2. papers.item \in [Docs -> {"none", "live", "trashed"}]
      BY <1>0 DEF PapersKind
    <3> QED
      BY <1>1, <3>1, <3>2
  <2>2. CASE ~ (doing.n \in Docs /\ Puts(doing.n))
    BY <1>0, <2>2, WritesOf, Zenon DEF PapersKind
  <2> QED
    BY <2>1, <2>2
<1>2. ASSUME errand'.step \notin Handling PROVE papers'.item = papers.item
  <2>1. CASE RunItself \/ CutPaper \/ Refused
    BY <2>1 DEF RunItself, CutPaper, Refused, ClaimPaper, FetchSnapshot, BeginPaperStage, EndPaperStage, FinishPaper
  <2>2. CASE Counted
    BY <2>2, CountedIs
  <2>3. ASSUME NEW w, AdvanceAs(w) PROVE papers'.item = papers.item
    BY <2>3 DEF AdvanceAs
  <2>4. ASSUME NEW l, NEW step \in Handling, Wrote(l, step) \/ Observe(l, step) PROVE FALSE
    BY <1>0, <1>2, <2>4 DEF Wrote, Observe, Errands
  <2>5. CASE ImportPaperTag
    BY <1>0, <2>3, <2>5 DEF ImportPaperTag, Wrote, PapersKind
  <2>6. CASE DefineCustomField
    BY <1>0, <2>3, <2>6 DEF DefineCustomField, Wrote, PapersKind
  <2>7. CASE ImportDocumentLinks
    BY <1>0, <2>3, <2>7 DEF ImportDocumentLinks, Wrote, PapersKind
  <2>8. CASE FinaliseDocument
    BY <1>0, <2>3, <2>8 DEF FinaliseDocument, Wrote, PapersKind
  <2>9. CASE PassOver \/ LeaveTrashedItemAlone
    BY <2>3, <2>9 DEF PassOver, LeaveTrashedItemAlone, Observe
  <2>10. CASE UpsertItem
    <3>1. ASSUME ~ Refused PROVE FALSE
      <4>1. errand' = [errand EXCEPT !.step = "tags", !.items = @ \cup {Row}]
        BY <2>10, <3>1 DEF UpsertItem
      <4> QED
        BY <1>0, <1>2, <4>1 DEF Handling, Writing, Errands
    <3> QED
      BY <2>1, <3>1
  <2>11. CASE ApplyTags \/ ApplyNotes \/ ApplyValues \/ ImportOriginal
    BY <2>1, <2>3, <2>4, <2>11 DEF ApplyTags, ApplyNotes, ApplyValues, ImportOriginal, Handling, Writing
  <2> QED
    BY <2>1, <2>5, <2>6, <2>7, <2>8, <2>9, <2>10, <2>11 DEF RunStep, RunItself
<1> QED
  BY <1>1, <1>2

\* What is copied of every document settles which items there are.
LEMMA LiveSettled ==
  ASSUME PaperKinds, Reached, DocsDone, Grows, settled # "no", NEW s \in 4 .. 5, NEW m, Through(s, m)
  PROVE  Live' = Live /\ \A d \in Docs : Copied(d)
<1>0. /\ reach \in Nat /\ Paperless.count \in Nat /\ import.cursor \in Nat /\ doing.stage \in Nat
      /\ \A d \in Docs : d \in Nat /\ d <= Paperless.count
  BY DocsAre DEF PaperKinds, JobKinds
<1>1. settled = "ended" \/ reach = Paperless.count
  BY <1>0 DEF Through, Past, Reached
<1>2. \A d \in Docs : Copied(d)
  BY <1>0, <1>1, Zenon DEF DocsDone
<1>3. \A d \in Docs : papers.item[d] # "none"
  BY <1>2 DEF Copied, Upserted
<1> QED
  BY <1>2, <1>3 DEF Grows, Live

LEMMA ItemsStep ==
  ASSUME PaperKinds, Whereabouts, Owned, AtStep, ItemsKnown, PaperlessNext
  PROVE  ItemsKnown'
<1>0. /\ doing.n \in Nat /\ doing.stage \in 0 .. 6 /\ Paperless.count \in Nat /\ errand \in Errands
      /\ \A d \in Docs : d \in Nat /\ d # 0 /\ d <= Paperless.count
  BY DocsAre DEF PaperKinds, JobKinds
<1>1. CASE PeopleEdit
  BY <1>1 DEF PeopleEdit, ItemsKnown
<1>2. SUFFICES ASSUME RunStep, settled' # "no", Fetched'
               PROVE  /\ errand'.items \subseteq Live'
                      /\ doing'.stage = 3 => \A d \in Live' : d < doing'.n => d \in errand'.items
                      /\ doing'.stage > 3 => Live' \subseteq errand'.items
  BY <1>1 DEF PaperlessNext, RunStep, ItemsKnown
<1>3. settled # "no"
  BY <1>2, SettledBy DEF Fetched
<1>4. CASE ClaimPaper \/ FinishPaper \/ Broken
  BY <1>2, <1>4, Claimed DEF Fetched, FinishPaper, Succeed, End, Broken
<1>5. CASE FetchSnapshot
  <2>1. doing' = doing /\ doing.n = 0 /\ Live' = Live /\ errand'.items = IF doing.stage > 3 THEN Live ELSE {}
    BY <1>0, <1>5 DEF FetchSnapshot, jobVars, Whereabouts, Errands, Live
  <2> QED
    BY <1>0, <2>1 DEF Live
<1>6. CASE BeginPaperStage
  <2>1. doing'.n = 1 /\ doing'.stage = doing.stage /\ errand' = errand /\ Fetched /\ Live' = Live
    BY <1>0, <1>6, IdleAndOff, StagesAre DEF BeginPaperStage, Fetched, Live, PaperKinds, JobKinds
  <2>2. \A d \in Live : ~ d < 1
    BY <1>0 DEF Live
  <2> QED
    BY <1>3, <2>1, <2>2 DEF ItemsKnown
<1>7. CASE EndPaperStage
  <2>1. /\ doing.n > Len(PaperRows(PaperStages[doing.stage])) /\ doing.stage \in 1 .. 5 /\ UNCHANGED <<errand, papers>>
        /\ doing'.stage = doing.stage + 1 /\ doing'.n = 0 /\ doing # Idle
    BY <1>7, IdleAndOff, StagesAre DEF EndPaperStage, Idle
  <2>2. Fetched /\ Live' = Live
    BY <1>0, <2>1, RowsLength DEF Fetched, Whereabouts, Live
  <2>3. ASSUME doing.stage = 3, NEW d \in Live PROVE d < doing.n
    BY <1>0, <2>1, <2>3, RowsLength DEF Live
  <2> QED
    BY <1>0, <1>3, <2>1, <2>2, <2>3 DEF ItemsKnown, Live
<1>8. CASE Counted
  <2>1. /\ Fetched /\ Advancing /\ Live' = Live
        /\ errand'.items = IF doing.stage = 3 /\ errand.step = "look" THEN errand.items \cup ({doing.n} \cap Live)
                           ELSE errand.items
    BY <1>2, <1>8, CountedIs, IdleAndOff DEF Fetched, Live
  <2>2. ASSUME doing.stage = 3, doing.n \in Live PROVE doing.n \in errand'.items
    <3>1. errand.step \in {"look", "left", "done"}
      BY <1>8, <2>2 DEF Counted
    <3> QED
      BY <1>3, <2>1, <2>2, <3>1, LeftIsTrashed DEF AtStep, Writing, Live
  <2> QED
    BY <1>0, <1>3, <2>1, <2>2 DEF ItemsKnown, Advancing, Live
<1>9. CASE Within
  <2>1. Fetched /\ doing' = doing /\ Grows
    BY <1>2, <1>9, IdleAndOff, RunGrows DEF Within, Fetched
  <2>2. Live \subseteq Live'
    BY <2>1 DEF Grows, Live
  <2>3. CASE errand'.step \in Handling
    <3>1. doing.stage = 3 /\ doing.n \in Docs /\ Moves(doing.n)
      BY <1>2, <2>3, WorkIsMoves
    <3>2. errand'.items \subseteq errand.items \cup {doing.n} /\ errand.items \subseteq errand'.items
          /\ (errand'.items = errand.items \/ errand.step = "upsert")
      BY <1>0, <3>1, Zenon DEF Moves, Looks, Upserts, Fills, Carries, Goes, Errands
    <3>3. errand.step = "upsert" => doing.n \in Live'
      BY <1>3, <3>1 DEF AtStep, Moves, Looks, Upserts, Fills, Carries, Goes, Live
    <3>4. \A d \in Live' : d < doing.n => d \in Live
      BY <1>0, <1>2, ItemKept DEF Live
    <3> QED
      BY <1>3, <2>1, <2>2, <3>1, <3>2, <3>3, <3>4 DEF ItemsKnown
  <2>4. CASE errand'.step \notin Handling
    <3>1. Live' = Live /\ errand'.items = errand.items
      BY <1>2, <1>9, <2>4, ItemKept DEF Live, Within, Handling, Writing
    <3> QED
      BY <1>3, <2>1, <3>1 DEF ItemsKnown
  <2> QED
    BY <2>3, <2>4
<1> QED
  BY <1>2, <1>4, <1>5, <1>6, <1>7, <1>8, <1>9, Ways DEF RunItself

\* The links a run would write are those the item is due, once it knows every item.
LEMMA SlotsAre ==
  ASSUME ItemsKnown, settled # "no", Fetched, doing.stage > 3, NEW d \in Docs
  PROVE  Slots(d) = SlotsOf(d) /\ errand.items = Live
<1>1. errand.items = Live
  BY Zenon DEF ItemsKnown
<1> QED
  BY <1>1 DEF Slots, SlotsOf

LEMMA LinksStep ==
  ASSUME PaperKinds, Whereabouts, Owned, Reached, Began, DocsDone, ItemsKnown, LinksDone, PaperlessNext
  PROVE  LinksDone'
<1>0. /\ papers \in PapersKind /\ doing.n \in Nat /\ doing.stage \in 0 .. 6
      /\ \A d \in Docs : d \in Nat /\ d # 0 /\ \A s \in 4 .. 5 : d \in 1 .. Len(PaperRows(PaperStages[s]))
  BY RowsLength, DocsAre DEF PaperKinds, JobKinds
<1>1. CASE PeopleEdit
  BY <1>1 DEF PeopleEdit, LinksDone
<1>2. SUFFICES ASSUME RunStep, settled' # "no", NEW d \in Live'
               PROVE  /\ Through(4, d)' => papers'.link[d] = SlotsOf(d)'
                      /\ Through(5, d)' => d \in papers'.dated
  BY <1>1 DEF PaperlessNext, RunStep, LinksDone
<1>3. Grows /\ d \in Docs
  BY <1>2, RunGrows DEF Live
<1>4. CASE settled = "no"
  <2>1. settled' = "began" /\ import'.cursor = 0 /\ doing'.stage = 1 /\ doing'.n = 0
    BY <1>2, <1>4, SettledBy
  <2> QED
    BY <1>0, <1>3, <2>1, NoTagsYet
<1>5. CASE settled # "no"
  <2>1. ASSUME NEW s \in 4 .. 5, Counted, doing.stage = s, d = doing.n
        PROVE  /\ papers' = papers /\ d \in errand.items /\ Slots(d) = SlotsOf(d) /\ SlotsOf(d)' = SlotsOf(d)
               /\ IF s = 4 THEN papers.link[d] = Slots(d) ELSE d \in papers.dated
    <3>1. Fetched /\ papers' = papers
      BY <2>1, CountedIs, IdleAndOff DEF Fetched
    <3>2. Live' = Live /\ SlotsOf(d)' = SlotsOf(d)
      BY <3>1 DEF Live, SlotsOf
    <3>3. d \in errand.items /\ Slots(d) = SlotsOf(d)
      BY <1>2, <1>3, <1>5, <2>1, <3>1, <3>2, SlotsAre
    <3> QED
      BY <2>1, <3>1, <3>2, <3>3 DEF Counted
  <2>2. ASSUME Through(4, d) PROVE papers'.link[d] = SlotsOf(d)'
    <3>1. Live' = Live
      BY <1>3, <1>5, <2>2, LiveSettled
    <3>2. papers.link[d] = SlotsOf(d)
      BY <1>2, <1>5, <2>2, <3>1 DEF LinksDone
    <3>3. papers'.link[d] = papers.link[d]
      <4>1. CASE doing.stage = 4 /\ doing.n = d /\ d \in errand.items /\ papers.link[d] # Slots(d)
        <5>1. Fetched
          BY <1>0, <1>3, <4>1, IdleAndOff DEF Fetched, Whereabouts
        <5> QED
          BY <1>3, <1>5, <3>2, <4>1, <5>1, SlotsAre
      <4>2. CASE ~ (doing.stage = 4 /\ doing.n = d /\ d \in errand.items /\ papers.link[d] # Slots(d))
        <5>1. \/ papers'.link = papers.link
              \/ /\ doing.stage = 4 /\ doing.n \in errand.items /\ papers.link[doing.n] # Slots(doing.n)
                 /\ papers'.link = [papers.link EXCEPT ![doing.n] = Slots(doing.n)]
          BY <1>0, <1>2, WritesOf, Zenon DEF Puts, PapersKind
        <5>2. papers.link \in [Docs -> Seq(Docs)]
          BY <1>0 DEF PapersKind
        <5> QED
          BY <1>3, <4>2, <5>1, <5>2
      <4> QED
        BY <4>1, <4>2
    <3> QED
      BY <3>1, <3>2, <3>3, Zenon DEF SlotsOf
  <2>3. ASSUME Through(5, d) PROVE d \in papers'.dated
    <3>1. Live' = Live /\ Copied(d)
      BY <1>3, <1>5, <2>3, LiveSettled
    <3>2. Upserted(d) /\ d \in papers.dated
      BY <1>2, <1>5, <2>3, <3>1 DEF LinksDone, Copied, Live
    <3> QED
      BY <1>3, <3>2 DEF Grows
  <2>4. ASSUME Through(4, d)' PROVE papers'.link[d] = SlotsOf(d)'
    BY <1>0, <1>2, <1>3, <1>5, <2>1, <2>2, <2>4, ThroughStep
  <2>5. ASSUME Through(5, d)' PROVE d \in papers'.dated
    BY <1>0, <1>2, <1>3, <1>5, <2>1, <2>3, <2>5, ThroughStep
  <2> QED
    BY <2>4, <2>5
<1> QED
  BY <1>4, <1>5

LEMMA BeganStep == ASSUME PaperKinds, Whereabouts, Began, PaperlessNext PROVE Began'
<1>1. CASE PeopleEdit
  BY <1>1 DEF PeopleEdit, Began
<1>2. CASE ClaimPaper
  BY <1>2, Claimed DEF Began
<1>3. CASE FetchSnapshot \/ BeginPaperStage \/ EndPaperStage
  <2>1. import'.state = import.state /\ settled' = settled
    BY <1>3 DEF FetchSnapshot, BeginPaperStage, EndPaperStage, Checkpoint, jobVars, PaperKinds, JobKinds
  <2> QED
    BY <2>1 DEF Began
<1>4. CASE FinishPaper
  BY <1>4 DEF FinishPaper, Succeed, End, Began, PaperKinds, JobKinds
<1>5. CASE Broken
  BY <1>5 DEF Broken, Began
<1>6. CASE Counted
  <2>1. settled' = settled /\ (import' = import \/ import'.state = "cancelled")
    BY <1>6, CountedIs
  <2> QED
    BY <2>1 DEF Began
<1>7. CASE Within
  BY <1>7 DEF Within, Began
<1> QED
  BY <1>1, <1>2, <1>3, <1>4, <1>5, <1>6, <1>7, Ways DEF PaperlessNext, RunStep, RunItself

\* While people leave the copy alone, a document's links are written as they are on the server.
LEMMA WholeLinks ==
  ASSUME PaperKinds, Whereabouts, Reached, DocsDone, ItemsKnown, Untouched, ~ touched, doing.stage = 4, doing.n \in Docs,
         doing.n \in errand.items
  PROVE  Slots(doing.n) = Paperless.links[doing.n]
<1>0. doing.n \in Nat /\ doing.n # 0 /\ doing # Idle
  BY DocsAre, IdleAndOff
<1>1. settled # "no" /\ Fetched
  BY <1>0 DEF Untouched, Fetched, Whereabouts
<1>2. \A d \in Docs : papers.item[d] = "live"
  <2>1. settled = "ended" \/ reach = Paperless.count
    BY DEF Reached
  <2>2. \A d \in Docs : Copied(d)
    <3>1. \A d \in Docs : settled = "ended" \/ d <= reach
      BY <2>1, DocsAre
    <3> QED
      BY <1>1, <3>1, Zenon DEF DocsDone
  <2> QED
    BY <2>2 DEF Untouched, Copied, Upserted
<1>3. Docs \subseteq errand.items
  BY <1>1, <1>2 DEF ItemsKnown, Live
<1>4. PICK links \in Seq(Docs) : links = Paperless.links[doing.n]
  BY PaperlessSnapshot
<1>5. Leading(links, errand.items) = links
  BY <1>3, LeadingAll
<1>6. papers.link[doing.n] \in {<<>>, links} /\ Len(links) \in Nat
  BY <1>4 DEF Untouched
<1>7. SubSeq(papers.link[doing.n], Len(links) + 1, Len(papers.link[doing.n])) = <<>>
  <2>1. Len(papers.link[doing.n]) \in 0 .. Len(links)
    BY <1>6
  <2> QED
    BY <1>6, <2>1, SubSeqEmpty
<1>8. Slots(doing.n) = links \o <<>>
  BY <1>4, <1>5, <1>7, Zenon DEF Slots
<1> QED
  BY <1>4, <1>8

LEMMA UntouchedInit == PaperlessInit => Untouched
<1>1. SUFFICES ASSUME PaperlessInit PROVE Untouched
  OBVIOUS
<1>2. /\ \A d \in Docs : /\ papers.item[d] = "none" /\ papers.tagged[d] = {} /\ papers.note[d] = {} /\ papers.kept[d] = {}
                         /\ papers.link[d] = <<>> /\ papers.attached[d] = "none"
      /\ papers.provenance = {} /\ papers.taken = Paperless.taken /\ papers.own = {}
  BY <1>1 DEF PaperlessInit
<1>3. import.state = "none" /\ import.cursor = 0 /\ doing = Idle
  BY <1>1 DEF PaperlessInit, JobInit, NoCursor
<1> QED
  BY <1>2, <1>3 DEF Untouched

LEMMA UntouchedStep ==
  ASSUME PaperKinds, Whereabouts, Owned, Reached, DocsDone, ItemsKnown, Untouched, PaperlessNext
  PROVE  Untouched'
<1>0. papers \in PapersKind
  BY DEF PaperKinds
<1>1. CASE PeopleEdit
  BY <1>1 DEF PeopleEdit, Untouched
<1>2. SUFFICES ASSUME RunStep, ~ touched' PROVE Untouched'
  BY <1>1 DEF PaperlessNext, RunStep, Untouched
<1>3. touched' = touched
  BY <1>2, Ways, Claimed, CountedIs DEF RunItself, FetchSnapshot, BeginPaperStage, EndPaperStage, FinishPaper, Succeed,
                                        End, Broken, Within, jobVars
<1>4. Grows
  BY <1>2, RunGrows
<1>5. papers'.taken = Paperless.taken /\ papers'.own = {} /\ \A d \in Docs : papers'.item[d] # "trashed"
  BY <1>2, <1>3, <1>4 DEF Grows, Untouched
<1>6. settled' = "no" => import'.state = "none" /\ import'.cursor = 0 /\ doing' = Idle
  <2>1. ASSUME settled = "no" PROVE settled' # "no"
    <3>1. doing = Idle /\ import.cursor = 0
      BY <1>2, <1>3, <2>1 DEF Untouched
    <3>2. doing.stage = 0 /\ doing.n = 0
      BY <3>1, IdleAndOff
    <3>3. CASE ClaimPaper
      BY <2>1, <3>1, <3>3, WithoutCursor DEF ClaimPaper, Resume, NoCursor
    <3>4. ~ CutPaper /\ ~ BeginPaperStage /\ ~ EndPaperStage /\ ~ FinishPaper
      BY <3>1, <3>2, StagesAre DEF CutPaper, Cut, BeginPaperStage, EndPaperStage, FinishPaper
    <3>5. ~ FetchSnapshot
      BY <3>1 DEF FetchSnapshot, Whereabouts
    <3>6. ~ ImportPaperTag /\ ~ DefineCustomField /\ ~ ImportDocumentLinks /\ ~ FinaliseDocument
      BY <3>2, AtTag, AtField, AtLink, AtDate DEF ImportPaperTag, DefineCustomField, ImportDocumentLinks, FinaliseDocument
    <3>7. \A step : ~ OnDocument(step)
      BY <3>2, AtDocument
    <3>8. /\ ~ PassOver /\ ~ LeaveTrashedItemAlone /\ ~ UpsertItem /\ ~ ApplyTags /\ ~ ApplyNotes /\ ~ ApplyValues
          /\ ~ ImportOriginal
      BY <3>7 DEF PassOver, LeaveTrashedItemAlone, UpsertItem, ApplyTags, ApplyNotes, ApplyValues, ImportOriginal
    <3> QED
      BY <1>2, <3>3, <3>4, <3>5, <3>6, <3>8 DEF RunStep
  <2> QED
    BY <1>2, <2>1, SettledBy
<1>7. ASSUME NEW d \in Docs
      PROVE  /\ papers'.tagged[d] \subseteq Paperless.tagged[d]
             /\ papers'.note[d] \subseteq Texts(d)
             /\ papers'.kept[d] \subseteq Paperless.asn[d]
             /\ papers'.link[d] \in {<<>>, Paperless.links[d]}
             /\ papers'.attached[d] = IF d \in papers'.provenance THEN "live" ELSE "none"
  <2>0. /\ papers.tagged[d] \subseteq Paperless.tagged[d]
        /\ papers.note[d] \subseteq Texts(d)
        /\ papers.kept[d] \subseteq Paperless.asn[d]
        /\ papers.link[d] \in {<<>>, Paperless.links[d]}
        /\ papers.attached[d] = IF d \in papers.provenance THEN "live" ELSE "none"
    BY <1>2, <1>3 DEF Untouched
  <2>1. \/ papers'.tagged = papers.tagged
        \/ \E e \in Docs : papers'.tagged = [papers.tagged EXCEPT ![e] = @ \cup (Paperless.tagged[e] \cap errand.labels)]
    BY <1>0, <1>2, WritesOf, ZenonT(60) DEF Puts, PapersKind
  <2>2. papers'.note = papers.note \/ \E e \in Docs : papers'.note = [papers.note EXCEPT ![e] = @ \cup Texts(e)]
    BY <1>0, <1>2, WritesOf, ZenonT(60) DEF Puts, PapersKind
  <2>3. papers'.kept = papers.kept \/ \E e \in Docs : papers'.kept = [papers.kept EXCEPT ![e] = @ \cup Paperless.asn[e]]
    BY <1>0, <1>2, WritesOf, ZenonT(60) DEF Puts, PapersKind
  <2>4. \/ papers'.link = papers.link
        \/ \E e \in Docs : e = doing.n /\ doing.stage = 4 /\ e \in errand.items /\ papers'.link = [papers.link EXCEPT ![e] = Slots(e)]
    BY <1>0, <1>2, WritesOf, ZenonT(60) DEF Puts, PapersKind
  <2>5. \/ papers'.attached = papers.attached /\ papers'.provenance = papers.provenance
        \/ \E e \in Docs : papers'.attached = [papers.attached EXCEPT ![e] = "live"] /\ papers'.provenance = papers.provenance \cup {e}
    BY <1>0, <1>2, WritesOf, ZenonT(60) DEF Puts, PapersKind
  <2>6. /\ papers.tagged \in [Docs -> SUBSET Labels] /\ papers.note \in [Docs -> SUBSET AllTexts]
        /\ papers.kept \in [Docs -> SUBSET Numbers] /\ papers.link \in [Docs -> Seq(Docs)]
        /\ papers.attached \in [Docs -> {"none", "live", "detached"}]
    BY <1>0 DEF PapersKind
  <2>7. papers'.tagged[d] \subseteq Paperless.tagged[d]
    BY <2>0, <2>1, <2>6, Zenon
  <2>8. papers'.note[d] \subseteq Texts(d)
    BY <2>0, <2>2, <2>6, Zenon
  <2>9. papers'.kept[d] \subseteq Paperless.asn[d]
    BY <2>0, <2>3, <2>6, Zenon
  <2>10. papers'.link[d] \in {<<>>, Paperless.links[d]}
    BY <1>2, <1>3, <2>0, <2>4, <2>6, WholeLinks, ZenonT(60)
  <2>11. papers'.attached[d] = IF d \in papers'.provenance THEN "live" ELSE "none"
    BY <2>0, <2>5, <2>6, Zenon
  <2> QED
    BY <2>7, <2>8, <2>9, <2>10, <2>11
<1> QED
  BY <1>5, <1>6, <1>7 DEF Untouched

-----------------------------------------------------------------------------
(* Paperless: the invariant *)

LEMMA PaperInvInit == PaperlessInit => PaperInv
<1>1. SUFFICES ASSUME PaperlessInit PROVE PaperInv
  OBVIOUS
<1>2. import.state = "none" /\ import.cursor = 0 /\ doing = Idle /\ errand = Off
      /\ \A d \in Docs : papers.asn[d] = {}
  BY <1>1 DEF PaperlessInit, JobInit, NoCursor
<1>3. Whereabouts /\ Owned
  BY <1>2, IdleAndOff DEF Whereabouts, Owned, Writing
<1> QED
  BY <1>1, <1>3, PaperTypesInit, ReachedInit, TagsInit, UntouchedInit DEF PaperInv

LEMMA PaperInvStep == ASSUME PaperInv, PaperlessNext \/ UNCHANGED paperVars PROVE PaperInv'
<1>1. CASE PaperlessNext
  <2> USE <1>1 DEF PaperInv
  <2>1. PaperKinds' /\ Whereabouts' /\ Owned' /\ Reached'
    BY PaperTypesStep, WhereStep, OwnedStep, ReachedStep
  <2>2. TagsDone' /\ AtStep' /\ DocsDone'
    BY TagsStep, AtStepStep, DocsDoneStep
  <2>3. ItemsKnown' /\ LinksDone' /\ Began' /\ Untouched'
    BY ItemsStep, LinksStep, BeganStep, UntouchedStep
  <2> QED
    BY <2>1, <2>2, <2>3
<1>2. CASE UNCHANGED paperVars
  <2>1. UNCHANGED <<import, doing, log, touched, settled, papers, reach, errand, edits>> /\ PaperKinds'
    BY <1>2, PaperTypesStep DEF PaperInv, paperVars, jobVars
  <2>2. Whereabouts' /\ Owned' /\ Reached' /\ Began' /\ Untouched' /\ TagsDone'
    BY <2>1 DEF PaperInv, Whereabouts, Owned, Reached, Began, Untouched, TagsDone, Fetched, Through, Past
  <2>3. AtStep' /\ DocsDone'
    BY <2>1 DEF PaperInv, AtStep, DocsDone, Copied, Noted, Upserted, Carried, NumberNoted, FileNoted, Due
  <2>4. ItemsKnown' /\ LinksDone'
    BY <2>1, Zenon DEF PaperInv, ItemsKnown, LinksDone, Fetched, Through, Past, Live, SlotsOf
  <2> QED
    BY <2>1, <2>2, <2>3, <2>4 DEF PaperInv
<1> QED
  BY <1>1, <1>2

\* The invariant of an import from Paperless: where the run is, and what of the
\* server is in the library by then unless people changed something.
THEOREM PaperInvHolds == Spec => [](kind = "paperless" => PaperInv)
<1>1. Init => (kind = "paperless" => PaperInv)
  BY PaperInvInit DEF Init
<1>2. (kind = "paperless" => PaperInv) /\ [Next]_vars => (kind = "paperless" => PaperInv)'
  <2>1. ASSUME [Next]_vars, kind' = "paperless"
        PROVE  kind = "paperless" /\ (PaperlessNext \/ UNCHANGED paperVars)
    BY <2>1 DEF Next, vars
  <2> QED
    BY <2>1, PaperInvStep
<1> QED
  BY <1>1, <1>2, PTL DEF Spec

-----------------------------------------------------------------------------
(* Paperless: what a run that succeeded has copied *)

\* The documents a number is on have a first one.
LEMMA OwnerExists ==
  ASSUME NEW d \in Docs, NEW x \in Paperless.asn[d]
  PROVE  AsnOwner(x) \in Docs /\ x \in Paperless.asn[AsnOwner(x)]
<1> DEFINE T == {e \in Docs : x \in Paperless.asn[e]}
<1>1. T \in SUBSET Nat /\ T # {}
  BY DocsAre
<1>2. PICK e \in T : \A m \in T : e <= m
  BY <1>1, LeastNumber, Zenon
<1>3. \A m \in 1 .. e - 1 : x \notin Paperless.asn[m]
  <2>1. ASSUME NEW m \in 1 .. e - 1 PROVE m \in Docs /\ ~ e <= m
    BY DocsAre
  <2> QED
    BY <1>2, <2>1
<1> QED
  BY <1>2, <1>3 DEF AsnOwner

LEMMA Mirrored ==
  ASSUME PaperInv, import.state = "succeeded", ~ touched
  PROVE  /\ PaperlessMirrors
         /\ \A d \in Docs : papers.item[d] = "live" /\ papers.asn[d] = Due(d)
<1> USE DEF PaperInv
<1>1. settled = "ended" /\ import.cursor = 5 /\ doing = Idle
  BY DEF Untouched, Began, PaperKinds, JobKinds, Whereabouts
<1>2. reach = Paperless.count /\ \A d \in Docs : d <= reach
  BY <1>1, DocsAre DEF Reached
<1>3. \A d \in Docs : /\ papers.item[d] = "live" /\ Upserted(d) /\ Carried(d) /\ NumberNoted(d) /\ FileNoted(d)
                      /\ Paperless.tagged[d] \subseteq papers.tagged[d] /\ Texts(d) \subseteq papers.note[d]
                      /\ Paperless.asn[d] \subseteq papers.kept[d]
  BY <1>1, <1>2, Zenon DEF DocsDone, Copied, Noted, Untouched, Upserted
<1>4. papers.tags = Labels /\ papers.fields = Fields
  <2>1. \A s \in 1 .. 5 : \A m : Through(s, m)
    BY <1>1 DEF Through, Past
  <2>2. Range(Paperless.tags) \subseteq papers.tags /\ Range(Paperless.fields) \subseteq papers.fields
    BY <1>1, <2>1 DEF TagsDone, Range
  <2> QED
    BY <2>2, PartsOfServer, Zenon DEF PaperKinds, PapersKind
<1>5. \A d \in Docs : papers.link[d] = Paperless.links[d] /\ d \in papers.dated
  <2>1. SUFFICES ASSUME NEW d \in Docs PROVE papers.link[d] = Paperless.links[d] /\ d \in papers.dated
    OBVIOUS
  <2>2. d \in Live /\ Docs \subseteq Live
    BY <1>3 DEF Live
  <2>3. papers.link[d] = SlotsOf(d) /\ d \in papers.dated
    BY <1>1, <2>2 DEF LinksDone, Through, Past
  <2>4. PICK links \in Seq(Docs) : links = Paperless.links[d]
    BY PaperlessSnapshot
  <2>5. Leading(links, Live) = links
    BY <2>2, LeadingAll
  <2>6. papers.link[d] \in {<<>>, links} /\ Len(links) \in Nat
    BY <2>4 DEF Untouched
  <2>7. SubSeq(papers.link[d], Len(links) + 1, Len(papers.link[d])) = <<>>
    <3>1. Len(papers.link[d]) \in 0 .. Len(links)
      BY <2>6
    <3> QED
      BY <2>6, <3>1, SubSeqEmpty
  <2>8. SlotsOf(d) = links \o <<>>
    BY <2>4, <2>5, <2>7, Zenon DEF SlotsOf
  <2> QED
    BY <2>3, <2>4, <2>8
<1>6. \A d \in Docs : /\ papers.tagged[d] = Paperless.tagged[d] /\ papers.note[d] = Texts(d)
                      /\ papers.kept[d] = Paperless.asn[d]
                      /\ papers.attached[d] = "live" <=> d \in papers.provenance
  BY <1>3, Zenon DEF Untouched
<1>7. \A d \in Docs : /\ papers.asn[d] = Due(d)
                      /\ papers.asn[d] = Paperless.asn[d] <=> <<"asn", d>> \notin log
                      /\ d \notin papers.provenance => d \in Missing
  BY <1>1, <1>3, Zenon DEF Upserted, NumberNoted, FileNoted, DocsDone, Missing
<1>8. papers.taken = Paperless.taken
  BY DEF Untouched
<1> QED
  BY <1>3, <1>4, <1>5, <1>6, <1>7, <1>8, Zenon DEF PaperlessMirrors, Due

\* The two sums of the report.
TagsSum == LET due(d) == Cardinality(Paperless.tagged[d])
               got(d) == Cardinality(papers.tagged[d])
           IN MapThenSumSet(due, Active) = MapThenSumSet(got, Live)

NotesSum == LET due(d) == Cardinality(Texts(d))
                got(d) == Cardinality(papers.note[d]) + Cardinality({d} \cap papers.own)
            IN MapThenSumSet(due, Active) = MapThenSumSet(got, Live)

LEMMA TagsSums ==
  ASSUME Active = Docs, Live = Docs, \A d \in Docs : papers.tagged[d] = Paperless.tagged[d]
  PROVE  TagsSum
<1> DEFINE due(d) == Cardinality(Paperless.tagged[d])
           got(d) == Cardinality(papers.tagged[d])
           P(h) == h = [s \in SUBSET Active |-> IF s = {} THEN 0
                            ELSE LET x == CHOOSE x \in s : TRUE IN Cardinality(Paperless.tagged[x]) + h[s \ {x}]]
           Q(h) == h = [s \in SUBSET Live |-> IF s = {} THEN 0
                            ELSE LET x == CHOOSE x \in s : TRUE IN Cardinality(papers.tagged[x]) + h[s \ {x}]]
<1>1. MapThenSumSet(due, Active) = (CHOOSE h : P(h))[Active]
  BY DEF MapThenSumSet, MapThenFoldSet
<1>2. MapThenSumSet(got, Live) = (CHOOSE h : Q(h))[Live]
  BY DEF MapThenSumSet, MapThenFoldSet
<1>3. ASSUME NEW h PROVE P(h) <=> Q(h)
  OBVIOUS
<1> HIDE DEF P, Q
<1>4. (CHOOSE h : P(h)) = (CHOOSE h : Q(h))
  BY <1>3, Zenon
<1>5. MapThenSumSet(due, Active) = MapThenSumSet(got, Live)
  BY <1>1, <1>2, <1>4, Zenon
<1> QED
  BY <1>5 DEF TagsSum

LEMMA NotesSums ==
  ASSUME Active = Docs, Live = Docs, papers.own = {}, \A d \in Docs : papers.note[d] = Texts(d)
  PROVE  NotesSum
<1> DEFINE due(d) == Cardinality(Texts(d))
           got(d) == Cardinality(papers.note[d]) + Cardinality({d} \cap papers.own)
           P(h) == h = [s \in SUBSET Active |-> IF s = {} THEN 0
                            ELSE LET x == CHOOSE x \in s : TRUE IN due(x) + h[s \ {x}]]
           Q(h) == h = [s \in SUBSET Live |-> IF s = {} THEN 0
                            ELSE LET x == CHOOSE x \in s : TRUE IN got(x) + h[s \ {x}]]
<1>1. MapThenSumSet(due, Active) = (CHOOSE h : P(h))[Active]
  BY DEF MapThenSumSet, MapThenFoldSet
<1>2. MapThenSumSet(got, Live) = (CHOOSE h : Q(h))[Live]
  BY DEF MapThenSumSet, MapThenFoldSet
<1>3. ASSUME NEW h PROVE P(h) <=> Q(h)
  <2>1. ASSUME NEW d \in Docs PROVE due(d) = got(d)
    <3>1. IsFiniteSet(Texts(d))
      <4>1. PICK notes \in Seq(Texts(d)) : notes = Paperless.notes[d]
        BY PaperlessSnapshot
      <4>2. Len(notes) \in Nat /\ notes \in [1 .. Len(notes) -> Texts(d)] /\ DOMAIN notes = 1 .. Len(notes)
        BY <4>1
      <4>3. \A x \in Texts(d) : \E i \in 1 .. Len(notes) : notes[i] = x
        BY <4>1, <4>2, Zenon DEF Texts, ToSet
      <4>4. notes \in Surjection(1 .. Len(notes), Texts(d))
        BY <4>2, <4>3 DEF Surjection
      <4> QED
        BY <4>2, <4>4, FS_NatSurjection DEF ExistsSurjection
    <3>2. Cardinality(Texts(d)) \in Nat /\ Cardinality({d} \cap papers.own) = 0
      BY <3>1, FS_EmptySet, FS_CardinalityType
    <3> QED
      BY <3>2
  <2>2. ASSUME NEW s \in SUBSET Docs, s # {} PROVE due(CHOOSE x \in s : TRUE) = got(CHOOSE x \in s : TRUE)
    <3>1. (CHOOSE x \in s : TRUE) \in Docs
      BY <2>2
    <3> HIDE DEF due, got
    <3> QED
      BY <2>1, <3>1
  <2> HIDE DEF due, got
  <2>3. [s \in SUBSET Docs |-> IF s = {} THEN 0 ELSE LET x == CHOOSE x \in s : TRUE IN due(x) + h[s \ {x}]]
        = [s \in SUBSET Docs |-> IF s = {} THEN 0 ELSE LET x == CHOOSE x \in s : TRUE IN got(x) + h[s \ {x}]]
    BY <2>2
  <2> QED
    BY <2>3, Zenon
<1> HIDE DEF P, Q
<1>4. (CHOOSE h : P(h)) = (CHOOSE h : Q(h))
  BY <1>3, Zenon
<1>5. MapThenSumSet(due, Active) = MapThenSumSet(got, Live)
  BY <1>1, <1>2, <1>4, Zenon
<1> QED
  BY <1>5, Zenon DEF NotesSum

LEMMA Report ==
  ReportPasses <=>
    /\ Active = Live /\ Labels \subseteq papers.tags /\ Fields \subseteq papers.fields
    /\ TagsSum /\ NotesSum
    /\ Cardinality({d \in Active : Paperless.links[d] # <<>>}) = Cardinality({d \in Live : papers.link[d] # <<>>})
    /\ FilesCarried
    /\ NumbersCarried
  BY Zenon DEF ReportPasses, TagsSum, NotesSum

LEMMA FilesAndNumbers ==
  ASSUME PaperKinds, PaperlessMirrors
  PROVE  FilesCarried /\ NumbersCarried <=> papers.provenance \cap Missing = {} /\ Numbers \cap papers.taken = {}
<1>1. Active = Docs /\ Live = Docs /\ papers.provenance \subseteq Docs
  BY Zenon DEF PaperlessMirrors, Active, Live, PaperKinds, PapersKind
<1>2. FilesCarried <=> papers.provenance \cap Missing = {}
  BY <1>1, Zenon DEF PaperlessMirrors, FilesCarried
<1>3. ASSUME Numbers \cap papers.taken = {} PROVE NumbersCarried
  <2>1. SUFFICES ASSUME NEW d \in Docs, NEW x \in Paperless.asn[d], x \notin papers.asn[d]
                 PROVE  AsnOwner(x) # d /\ x \in papers.kept[d]
    BY <1>1 DEF NumbersCarried
  <2>2. x \notin papers.taken
    BY <1>3 DEF Numbers
  <2> QED
    BY <2>1, <2>2, Zenon DEF PaperlessMirrors
<1>4. ASSUME NumbersCarried, NEW x \in Numbers \cap papers.taken PROVE FALSE
  <2>1. PICK e \in Docs : x \in Paperless.asn[e]
    BY DEF Numbers
  <2>2. PICK d \in Docs : d = AsnOwner(x) /\ x \in Paperless.asn[d]
    BY <2>1, OwnerExists
  <2>3. x \notin papers.asn[d]
    BY <2>2, Zenon DEF PaperlessMirrors
  <2> QED
    BY <1>1, <1>4, <2>2, <2>3 DEF NumbersCarried
<1> QED
  BY <1>2, <1>3, <1>4

LEMMA PaperInvImpliesWhole == ASSUME PaperInv PROVE PaperlessWhole
<1>1. SUFFICES ASSUME import.state = "succeeded", ~ touched
               PROVE  /\ PaperlessMirrors
                      /\ ReportPasses <=> papers.provenance \cap Missing = {} /\ Numbers \cap papers.taken = {}
  BY DEF PaperlessWhole
<1>2. PaperlessMirrors /\ PaperKinds
  BY <1>1, Mirrored DEF PaperInv
<1>3. Active = Docs /\ Live = Docs
  BY <1>2, Zenon DEF PaperlessMirrors, Active, Live
<1>4. TagsSum
  BY <1>2, <1>3, TagsSums, Zenon DEF PaperlessMirrors
<1>5. papers.own = {}
  BY <1>1 DEF PaperInv, Untouched
<1>6. NotesSum
  BY <1>2, <1>3, <1>5, NotesSums, Zenon DEF PaperlessMirrors
<1>7. {d \in Active : Paperless.links[d] # <<>>} = {d \in Live : papers.link[d] # <<>>}
  BY <1>2, <1>3, Zenon DEF PaperlessMirrors
<1>8. Labels \subseteq papers.tags /\ Fields \subseteq papers.fields
  BY <1>2 DEF PaperlessMirrors
<1>9. ReportPasses <=> FilesCarried /\ NumbersCarried
  BY <1>3, <1>4, <1>6, <1>7, <1>8, Report, Zenon
<1> QED
  BY <1>2, <1>9, FilesAndNumbers

LEMMA PaperKindsAreTypes == ASSUME PaperKinds PROVE PaperlessTypeOK
<1>1. JobTypeOK
  <2>1. import.state \in {"none", "running", "succeeded", "failed", "cancelled"} /\ import.cursor \in Nat
    BY DEF PaperKinds, JobKinds
  <2>2. doing.stage \in Nat /\ doing.n \in Nat
    BY DEF PaperKinds, JobKinds
  <2>3. doing.made \in BOOLEAN
    <3>1. doing.made \in {FALSE}
      BY Zenon DEF PaperKinds, JobKinds
    <3> QED
      BY <3>1, Zenon
  <2> QED
    BY <2>1, <2>2, <2>3 DEF PaperKinds, JobKinds, JobTypeOK
<1>2. errand.last \in 0 .. Paperless.count
  BY DEF PaperKinds, Errands
<1> QED
  BY <1>1, <1>2 DEF PaperKinds, PapersKind, PaperlessTypeOK

-----------------------------------------------------------------------------
(* Paperless: runs that come again *)

LEMMA UndisturbedStep ==
  ASSUME PaperInv, Undisturbed, PaperlessNext
  PROVE  Undisturbed'
<1> USE DEF PaperInv
<1>0. /\ errand \in Errands /\ edits \in Nat /\ errand.since \in Nat /\ papers \in PapersKind /\ doing.n \in Nat
      /\ doing.stage \in 0 .. 6
  BY PaperlessSetup DEF PaperKinds, JobKinds, Errands
<1>1. CASE PeopleEdit
  <2>1. errand' = errand /\ doing' = doing /\ edits' = edits + 1
    BY <1>1 DEF PeopleEdit
  <2>2. Fetched' => errand'.since # edits'
    BY <1>0, <2>1 DEF Fetched, Whereabouts
  <2> QED
    BY <2>2 DEF Undisturbed
<1>2. SUFFICES ASSUME RunStep, Fetched', errand'.since = edits'
               PROVE  /\ errand'.labels \subseteq papers'.tags
                      /\ errand'.step = "upsert" => papers'.item[doing'.n] # "trashed"
                      /\ errand'.step \in Writing => papers'.item[doing'.n] = "live"
  BY <1>1 DEF PaperlessNext, RunStep, Undisturbed
<1>3. Grows
  BY <1>2, RunGrows
<1>4. edits' = edits /\ (Fetched => errand'.since = errand.since)
  <2>1. CASE ClaimPaper \/ FinishPaper \/ Broken
    BY <1>2, <2>1, Claimed DEF Fetched, FinishPaper, Succeed, End, Broken
  <2>2. CASE FetchSnapshot \/ BeginPaperStage \/ EndPaperStage
    BY <2>2 DEF FetchSnapshot, BeginPaperStage, EndPaperStage, Fetched
  <2>3. CASE Counted
    BY <1>2, <2>3, CountedIs DEF Fetched
  <2>4. CASE Within
    BY <2>4 DEF Within
  <2> QED
    BY <1>2, <2>1, <2>2, <2>3, <2>4, Ways DEF RunItself
<1>5. errand'.labels \subseteq papers'.tags
  <2>1. CASE FetchSnapshot
    BY <1>0, <2>1 DEF FetchSnapshot, Errands
  <2>2. CASE ClaimPaper \/ FinishPaper \/ Broken
    BY <1>2, <2>2, Claimed DEF Fetched, FinishPaper, Succeed, End, Broken
  <2>3. CASE BeginPaperStage \/ EndPaperStage
    <3>1. errand' = errand /\ papers' = papers /\ Fetched
      <4>1. CASE BeginPaperStage
        BY <1>0, <4>1, IdleAndOff, StagesAre DEF BeginPaperStage, Fetched
      <4>2. CASE EndPaperStage
        BY <1>0, <4>2, IdleAndOff, StagesAre, RowsLength DEF EndPaperStage, Fetched, Whereabouts
      <4> QED
        BY <2>3, <4>1, <4>2
    <3> QED
      BY <1>2, <1>4, <3>1 DEF Undisturbed
  <2>4. CASE Counted
    <3>1. Fetched /\ papers' = papers
          /\ errand'.labels = IF doing.stage = 1 THEN errand.labels \cup {Paperless.tags[doing.n]} ELSE errand.labels
      BY <1>2, <2>4, CountedIs, IdleAndOff DEF Fetched
    <3> QED
      BY <1>2, <1>4, <2>4, <3>1 DEF Undisturbed, Counted
  <2>5. CASE Within
    BY <1>2, <1>3, <1>4, <2>5, IdleAndOff DEF Within, Undisturbed, Fetched, Grows
  <2> QED
    BY <1>2, <2>1, <2>2, <2>3, <2>4, <2>5, Ways DEF RunItself
<1>6. ASSUME errand'.step \in Handling
      PROVE  /\ errand'.step = "upsert" => papers'.item[doing'.n] # "trashed"
             /\ errand'.step \in Writing => papers'.item[doing'.n] = "live"
  <2>1. PICK d \in Docs : d = doing.n /\ doing.stage = 3 /\ doing' = doing /\ Moves(d)
    BY <1>2, <1>6, WorkIsMoves DEF Moves
  <2>2. errand.step # "fetch" /\ doing # Idle
    BY <2>1, IdleAndOff, DocsAre DEF Moves, Looks, Upserts, Fills, Carries, Goes
  <2>3. /\ errand.step = "upsert" => papers.item[d] # "trashed"
        /\ errand.step \in Writing => papers.item[d] = "live"
    BY <1>2, <1>4, <2>1, <2>2 DEF Undisturbed, Fetched
  <2>4. CASE Looks(d)
    BY <1>0, <2>1, <2>4 DEF Looks, Errands, Writing
  <2>5. CASE Upserts(d)
    BY <1>0, <2>1, <2>3, <2>5 DEF Upserts, Errands
  <2>6. CASE Fills(d) \/ Carries(d)
    <3>1. errand.step \in Writing /\ errand'.step # "upsert"
      BY <1>0, <2>6 DEF Fills, Carries, Goes, Writing, Errands
    <3> QED
      BY <1>3, <2>1, <2>3, <3>1 DEF Grows
  <2> QED
    BY <2>1, <2>4, <2>5, <2>6 DEF Moves
<1> QED
  BY <1>5, <1>6 DEF Handling, Writing

LEMMA GoesThroughStep ==
  ASSUME PaperInv, Undisturbed, PaperlessNext \/ UNCHANGED paperVars
  PROVE  PaperlessGoesThrough
<1> USE DEF PaperInv
<1>0. /\ errand.since \in Nat /\ edits \in Nat /\ stops \in Nat
      /\ doing \in [stage : 0 .. 6, n : Nat, made : {FALSE}, left : {<<>>}]
  <2>1. errand.since \in Nat /\ edits \in Nat
    BY PaperlessSetup DEF PaperKinds, Errands
  <2>2. stops \in Nat
    BY ImportSetup DEF PaperKinds, JobKinds
  <2> QED
    BY <2>1, <2>2, Zenon DEF PaperKinds, JobKinds
<1>1. SUFFICES ASSUME doing # Idle, doing' = Idle, stops' = stops, import'.state = "failed", edits = errand.since
               PROVE  \E b \in Bytes : papers.file[b] = "trashed"
  BY <1>0 DEF PaperlessGoesThrough, Concludes, Whereabouts
<1>2. ~ PeopleEdit /\ ~ UNCHANGED paperVars
  BY <1>1 DEF PeopleEdit, paperVars, jobVars
<1>3. ~ ClaimPaper /\ ~ FetchSnapshot /\ ~ BeginPaperStage /\ ~ EndPaperStage /\ ~ FinishPaper /\ ~ CutPaper
  <2>1. ~ ClaimPaper /\ ~ FetchSnapshot
    BY <1>1, Claimed DEF FetchSnapshot, jobVars
  <2>2. ~ BeginPaperStage /\ ~ EndPaperStage
    BY <1>0, <1>1, IdleAndOff DEF BeginPaperStage, EndPaperStage, Idle
  <2>3. ~ FinishPaper
    BY <1>1 DEF FinishPaper, Succeed, End, PaperKinds, JobKinds
  <2>4. ~ CutPaper
    BY <1>0, <1>1 DEF CutPaper, Cut
  <2> QED
    BY <2>1, <2>2, <2>3, <2>4
<1>4. \A w : ~ AdvanceAs(w)
  BY <1>0, <1>1, IdleAndOff DEF AdvanceAs, AbortRun
<1>5. \A l, step : ~ Wrote(l, step) /\ ~ Observe(l, step)
  BY <1>1 DEF Wrote, Observe, jobVars
<1>6. ~ ImportPaperTag /\ ~ DefineCustomField /\ ~ ImportDocumentLinks /\ ~ FinaliseDocument
  BY <1>4, <1>5 DEF ImportPaperTag, DefineCustomField, ImportDocumentLinks, FinaliseDocument
<1>7. ~ PassOver /\ ~ LeaveTrashedItemAlone /\ ~ ApplyValues
  BY <1>4, <1>5 DEF PassOver, LeaveTrashedItemAlone, ApplyValues
<1>8. ASSUME UpsertItem PROVE FALSE
  <2>1. doing.n \in Docs /\ Row = doing.n /\ errand.step = "upsert"
    BY <1>8, AtDocument DEF UpsertItem
  <2>2. Refused
    <3>1. ASSUME ~ Refused PROVE doing' = doing
      BY <1>8, <3>1 DEF UpsertItem
    <3> QED
      BY <1>1, <3>1
  <2>3. errand' = Off
    BY <2>2 DEF Refused
  <2>4. papers.item[doing.n] = "trashed"
    <3>1. ASSUME papers.item[doing.n] # "trashed" PROVE doing' = doing
      BY <1>8, <2>1, <3>1 DEF UpsertItem
    <3> QED
      BY <1>1, <3>1
  <2> QED
    BY <1>1, <2>1, <2>4 DEF Undisturbed, Fetched
<1>9. ASSUME ApplyTags \/ ApplyNotes PROVE FALSE
  <2>1. doing.n \in Docs /\ Row = doing.n /\ errand.step \in {"tags", "notes"}
    BY <1>9, AtDocument DEF ApplyTags, ApplyNotes, OnDocument
  <2>2. errand.labels \subseteq papers.tags /\ papers.item[doing.n] = "live"
    BY <1>1, <2>1 DEF Undisturbed, Fetched, Writing
  <2> QED
    BY <1>5, <1>9, <2>1, <2>2 DEF ApplyTags, ApplyNotes
<1>10. ASSUME ImportOriginal PROVE \E b \in Bytes : papers.file[b] = "trashed"
  <2>1. doing.n \in Docs /\ Row = doing.n
    BY <1>10, AtDocument DEF ImportOriginal
  <2>2. papers.file[Paperless.bytes[doing.n]] = "trashed"
    BY <1>4, <1>5, <1>10, <2>1 DEF ImportOriginal
  <2> QED
    BY <2>1, <2>2, PartsOfServer
<1> QED
  BY <1>2, <1>3, <1>6, <1>7, <1>8, <1>9, <1>10 DEF PaperlessNext

LEMMA RerunStep ==
  ASSUME PaperInv, PaperlessNext \/ UNCHANGED paperVars
  PROVE  PaperlessRerunHarmless
<1> USE DEF PaperInv
<1>0. papers \in PapersKind
  BY DEF PaperKinds
<1>1. SUFFICES ASSUME settled = "ended", settled' = "ended"
               PROVE  \/ papers' = papers
                      \/ \E d \in Docs :
                           /\ d \in Paperless.shaky \/ papers.attached[d] = "live"
                           /\ papers' = [papers EXCEPT !.file[Paperless.bytes[d]] = "live", !.provenance = @ \cup {d},
                                                       !.attached[d] = "live"]
  <2>1. ASSUME papers' = papers
        PROVE  papers' = [papers EXCEPT !.file = papers'.file, !.provenance = papers'.provenance, !.attached = papers'.attached]
    BY <1>0, <2>1, Zenon DEF PapersKind
  <2>2. ASSUME NEW d \in Docs, d \in Paperless.shaky \/ papers.attached[d] = "live",
               papers' = [papers EXCEPT !.file[Paperless.bytes[d]] = "live", !.provenance = @ \cup {d}, !.attached[d] = "live"]
        PROVE  /\ papers' = [papers EXCEPT !.file = papers'.file, !.provenance = papers'.provenance,
                                           !.attached = papers'.attached]
               /\ \A e \in Docs \ Paperless.shaky : papers'.attached[e] = papers.attached[e]
    BY <1>0, <2>2, ZenonT(60) DEF PapersKind
  <2> QED
    BY <2>1, <2>2, Zenon DEF PaperlessRerunHarmless
<1>2. CASE PeopleEdit
  BY <1>1, <1>2, Zenon DEF PeopleEdit
<1>3. CASE UNCHANGED paperVars
  BY <1>3 DEF paperVars
<1>4. CASE RunStep
  <2>1. \A s \in 1 .. 5 : \A m : Through(s, m)
    BY <1>1 DEF Through, Past
  <2>2. \A d \in Docs : Copied(d)
    BY <1>1, Zenon DEF DocsDone
  <2>3. Labels \subseteq papers.tags /\ Fields \subseteq papers.fields
    <3>1. Range(Paperless.tags) \subseteq papers.tags /\ Range(Paperless.fields) \subseteq papers.fields
      BY <1>1, <2>1 DEF TagsDone, Range
    <3> QED
      BY <3>1, PartsOfServer
  <2>4. ASSUME NEW t, t \in papers.tags, papers' = [papers EXCEPT !.tags = @ \cup {t}] PROVE papers' = papers
    BY <1>0, <2>4 DEF PapersKind
  <2>5. ASSUME NEW t, t \in papers.fields, papers' = [papers EXCEPT !.fields = @ \cup {t}] PROVE papers' = papers
    BY <1>0, <2>5 DEF PapersKind
  <2>6. ASSUME doing.n \in Docs, Puts(doing.n)
        PROVE  \/ papers' = papers
               \/ /\ doing.n \in Paperless.shaky \/ papers.attached[doing.n] = "live"
                  /\ papers' = [papers EXCEPT !.file[Paperless.bytes[doing.n]] = "live", !.provenance = @ \cup {doing.n},
                                              !.attached[doing.n] = "live"]
    <3>1. ~ (~ Upserted(doing.n) /\ papers.item[doing.n] # "trashed")
      BY <2>2, <2>6 DEF Copied
    <3>2. ASSUME errand.step \in Writing
          PROVE  /\ Paperless.tagged[doing.n] \subseteq papers.tagged[doing.n] /\ Texts(doing.n) \subseteq papers.note[doing.n]
                 /\ Paperless.asn[doing.n] \subseteq papers.kept[doing.n]
                 /\ doing.n \in Paperless.shaky \/ papers.attached[doing.n] = "live"
      <4>1. papers.item[doing.n] = "live"
        BY <1>1, <3>2 DEF AtStep, Upserted
      <4> QED
        BY <2>2, <2>6, <4>1 DEF Copied, Carried
    <3>3. ASSUME errand.step \in Writing,
                 \/ papers' = [papers EXCEPT !.tagged[doing.n] = @ \cup (Paperless.tagged[doing.n] \cap errand.labels)]
                 \/ papers' = [papers EXCEPT !.note[doing.n] = @ \cup Texts(doing.n)]
                 \/ papers' = [papers EXCEPT !.kept[doing.n] = @ \cup Paperless.asn[doing.n]]
          PROVE  papers' = papers
      <4>1. /\ papers.tagged[doing.n] \cup (Paperless.tagged[doing.n] \cap errand.labels) = papers.tagged[doing.n]
            /\ papers.note[doing.n] \cup Texts(doing.n) = papers.note[doing.n]
            /\ papers.kept[doing.n] \cup Paperless.asn[doing.n] = papers.kept[doing.n]
        BY <3>2, <3>3
      <4>2. /\ papers = [papers EXCEPT !.tagged[doing.n] = papers.tagged[doing.n]]
            /\ papers = [papers EXCEPT !.note[doing.n] = papers.note[doing.n]]
            /\ papers = [papers EXCEPT !.kept[doing.n] = papers.kept[doing.n]]
        BY <1>0, <2>6 DEF PapersKind
      <4> QED
        BY <3>3, <4>1, <4>2, Zenon
    <3>4. doing.n # 0 /\ doing.stage \in {4, 5} => Fetched
      BY IdleAndOff DEF Fetched, Whereabouts
    <3>5. ASSUME doing.stage \in {4, 5}, doing.n \in errand.items
          PROVE  papers.link[doing.n] = Slots(doing.n) /\ doing.n \in papers.dated
      <4>1. Fetched /\ doing.stage > 3
        BY <2>6, <3>4, <3>5, DocsAre
      <4>2. Slots(doing.n) = SlotsOf(doing.n) /\ doing.n \in Live
        BY <1>1, <2>6, <3>5, <4>1, SlotsAre
      <4> QED
        BY <1>1, <2>1, <4>2 DEF LinksDone
    <3>6. ASSUME doing.n \in papers.dated, papers' = [papers EXCEPT !.dated = @ \cup {doing.n}] PROVE papers' = papers
      BY <1>0, <3>6 DEF PapersKind
    <3> QED
      BY <2>6, <3>1, <3>2, <3>3, <3>5, <3>6 DEF Puts
  <2> QED
    BY <1>4, <2>3, <2>4, <2>5, <2>6, WritesOf, Zenon
<1> QED
  BY <1>2, <1>3, <1>4, Zenon DEF PaperlessNext, RunStep

-----------------------------------------------------------------------------
(* Paperless: what one change of people's can do *)

\* What is there came from the server, but for the notes that people wrote.
Partial == \A d \in Docs : papers.tagged[d] \subseteq Paperless.tagged[d] /\ papers.note[d] \subseteq Texts(d)

\* Stages and records that the row or the run has behind it.
Passed(s, m) == s < import.cursor \/ s < doing.stage \/ (doing.stage = s /\ m < doing.n)

\* All that people did, if anything, is to write a note of their own.
Intact == edits = 0 \/ (edits = 1 /\ papers.own # {})

NotesKept ==
  /\ edits = 0 => papers.own = {}
  /\ Intact => /\ errand.step # "left"
               /\ errand.step \in Writing \ {"tags", "notes"} => Texts(doing.n) \subseteq papers.note[doing.n]
               /\ \A d \in Docs : /\ papers.item[d] # "trashed"
                                  /\ d <= reach => Texts(d) \subseteq papers.note[d]

LinksKept ==
  edits <= 1 =>
    /\ Fetched =>
         /\ errand.step = "left" => doing.n \notin Live
         /\ errand.step \in Writing => doing.n \in errand.items
         /\ doing.stage = 3 => \A d \in Live : d < doing.n => d \in errand.items
         /\ doing.stage > 3 => Live \subseteq errand.items
    /\ \A d \in Live : Passed(4, d) => ToSet(Paperless.links[d]) \cap Live \subseteq ToSet(papers.link[d])

LEMMA PartialStep == ASSUME PaperKinds, Owned, Partial, PaperlessNext PROVE Partial'
<1>0. papers \in PapersKind
  BY DEF PaperKinds
<1>1. CASE PeopleEdit
  <2>1. \/ papers'.tagged = papers.tagged
        \/ \E t \in Labels : papers'.tagged = [d \in Docs |-> papers.tagged[d] \ {t}]
    <3>1. ASSUME NEW t \in Labels, BinTag(t)
          PROVE  papers'.tagged = [d \in Docs |-> papers.tagged[d] \ {t}]
      BY <1>0, <3>1 DEF BinTag, PapersKind
    <3>2. ASSUME NEW d \in Docs,
                 BinPaper(d) \/ RestorePaper(d) \/ RemoveNote(d) \/ AddNote(d) \/ DetachFile(d) \/ BinFile(d)
          PROVE  papers'.tagged = papers.tagged
      BY <1>0, <3>2, Zenon DEF BinPaper, RestorePaper, RemoveNote, AddNote, DetachFile, BinFile, PapersKind
    <3>3. ASSUME NEW x, RestoreFile(x) \/ OtherAsn(x) PROVE papers'.tagged = papers.tagged
      BY <1>0, <3>3 DEF RestoreFile, OtherAsn, PapersKind
    <3> QED
      BY <1>1, <3>1, <3>2, <3>3 DEF PeopleEdit
  <2>2. papers'.note = papers.note \/ \E d \in Docs : \E x : papers'.note = [papers.note EXCEPT ![d] = @ \ {x}]
    <3>1. ASSUME NEW d \in Docs, RemoveNote(d)
          PROVE  \E x : papers'.note = [papers.note EXCEPT ![d] = @ \ {x}]
      <4>1. PICK x \in papers.note[d] : papers' = [papers EXCEPT !.note[d] = @ \ {x}]
        BY <3>1, Zenon DEF RemoveNote
      <4>2. papers'.note = [papers.note EXCEPT ![d] = @ \ {x}]
        BY <1>0, <4>1 DEF PapersKind
      <4> QED
        BY <4>2, Zenon
    <3>2. ASSUME NEW d \in Docs, BinPaper(d) \/ RestorePaper(d) \/ AddNote(d) \/ DetachFile(d) \/ BinFile(d)
          PROVE  papers'.note = papers.note
      BY <1>0, <3>2, Zenon DEF BinPaper, RestorePaper, AddNote, DetachFile, BinFile, PapersKind
    <3>3. ASSUME NEW x, RestoreFile(x) \/ BinTag(x) \/ OtherAsn(x) PROVE papers'.note = papers.note
      BY <1>0, <3>3, Zenon DEF RestoreFile, BinTag, OtherAsn, PapersKind
    <3> QED
      BY <1>1, <3>1, <3>2, <3>3, Zenon DEF PeopleEdit
  <2>3. papers.note \in [Docs -> SUBSET AllTexts]
    BY <1>0 DEF PapersKind
  <2> QED
    BY <2>1, <2>2, <2>3, Zenon DEF Partial
<1>2. CASE RunStep
  <2>1. \/ papers'.tagged = papers.tagged
        \/ \E e \in Docs : papers'.tagged = [papers.tagged EXCEPT ![e] = @ \cup (Paperless.tagged[e] \cap errand.labels)]
    BY <1>0, <1>2, WritesOf, ZenonT(60) DEF Puts, PapersKind
  <2>2. papers'.note = papers.note \/ \E e \in Docs : papers'.note = [papers.note EXCEPT ![e] = @ \cup Texts(e)]
    BY <1>0, <1>2, WritesOf, ZenonT(60) DEF Puts, PapersKind
  <2>3. papers.tagged \in [Docs -> SUBSET Labels] /\ papers.note \in [Docs -> SUBSET AllTexts]
    BY <1>0 DEF PapersKind
  <2>4. \A d \in Docs : papers'.tagged[d] \subseteq Paperless.tagged[d]
    BY <2>1, <2>3, Zenon DEF Partial
  <2>5. \A d \in Docs : papers'.note[d] \subseteq Texts(d)
    BY <2>2, <2>3, Zenon DEF Partial
  <2> QED
    BY <2>4, <2>5 DEF Partial
<1> QED
  BY <1>1, <1>2 DEF PaperlessNext, RunStep

LEMMA RunKeepsEdits == ASSUME PaperKinds, RunStep PROVE edits' = edits
<1>1. CASE RunItself
  BY <1>1, Claimed DEF RunItself, FetchSnapshot, BeginPaperStage, EndPaperStage, FinishPaper
<1> QED
  BY <1>1, Ways, CountedIs DEF Broken, Within

LEMMA NotesStep ==
  ASSUME PaperKinds, Whereabouts, Owned, Reached, NotesKept, PaperlessNext
  PROVE  NotesKept'
<1>0. papers \in PapersKind /\ errand \in Errands /\ edits \in Nat
  BY PaperlessSetup DEF PaperKinds
<1>1. CASE PeopleEdit
  <2>1. edits' = edits + 1 /\ UNCHANGED <<doing, errand, reach>>
    BY <1>1 DEF PeopleEdit
  <2>2. ASSUME Intact'
        PROVE  Intact /\ papers'.item = papers.item /\ papers'.note = papers.note
    <3>1. edits = 0 /\ papers.own = {} /\ papers'.own # {}
      BY <1>0, <2>1, <2>2 DEF Intact, NotesKept
    <3>2. ~ \E b \in Bytes : RestoreFile(b)
      BY <1>0, <3>1, Zenon DEF RestoreFile, PapersKind
    <3>3. ~ \E t \in Labels : BinTag(t)
      BY <1>0, <3>1, Zenon DEF BinTag, PapersKind
    <3>4. ~ \E x \in Numbers : OtherAsn(x)
      BY <1>0, <3>1, Zenon DEF OtherAsn, PapersKind
    <3>5. \A d \in Docs : ~ BinPaper(d) /\ ~ RestorePaper(d) /\ ~ RemoveNote(d) /\ ~ DetachFile(d) /\ ~ BinFile(d)
      BY <1>0, <3>1, Zenon DEF BinPaper, RestorePaper, RemoveNote, DetachFile, BinFile, PapersKind
    <3>6. PICK d \in Docs : AddNote(d)
      BY <1>1, <3>2, <3>3, <3>4, <3>5 DEF PeopleEdit
    <3> QED
      BY <1>0, <3>1, <3>6 DEF AddNote, Intact, PapersKind
  <2> QED
    BY <1>0, <2>1, <2>2 DEF NotesKept
<1>2. CASE RunStep
  <2>1. Grows /\ edits' = edits
    BY <1>2, RunGrows, RunKeepsEdits
  <2>2. papers'.own = papers.own /\ (Intact' <=> Intact)
    BY <2>1 DEF Grows, Intact
  <2>3. ASSUME Intact
        PROVE  /\ errand'.step # "left"
               /\ errand'.step \in Writing \ {"tags", "notes"} => Texts(doing'.n) \subseteq papers'.note[doing'.n]
               /\ \A d \in Docs : /\ papers'.item[d] # "trashed"
                                  /\ d <= reach' => Texts(d) \subseteq papers'.note[d]
    <3>1. \A d \in Docs : papers'.item[d] # "trashed" /\ papers.item[d] # "trashed"
      BY <2>1, <2>3 DEF Grows, NotesKept
    <3>2. ASSUME errand'.step \in Handling
          PROVE  /\ errand'.step # "left"
                 /\ errand'.step \in Writing \ {"tags", "notes"} => Texts(doing'.n) \subseteq papers'.note[doing'.n]
      <4>1. PICK d \in Docs : d = doing.n /\ doing' = doing /\ Moves(d)
        BY <1>2, <3>2, WorkIsMoves DEF Moves
      <4>2. CASE Looks(d) \/ Upserts(d)
        BY <1>0, <3>1, <4>2, Zenon DEF Looks, Upserts, Errands, Writing
      <4>3. CASE Fills(d) \/ Carries(d)
        <5>1. errand.step \in Writing /\ errand'.step # "left" /\ (errand.step = "tags" => errand'.step = "notes")
          BY <1>0, <4>3 DEF Fills, Carries, Goes, Errands, Writing
        <5>2. errand.step = "notes" => Texts(d) \subseteq papers'.note[d]
          BY <4>3 DEF Fills, Carries, Goes
        <5>3. errand.step \in Writing \ {"tags", "notes"} => Texts(d) \subseteq papers'.note[d]
          BY <2>1, <2>3, <4>1 DEF Grows, NotesKept
        <5> QED
          BY <4>1, <5>1, <5>2, <5>3
      <4> QED
        BY <4>1, <4>2, <4>3 DEF Moves
    <3>3. ASSUME NEW d \in Docs, d <= reach' PROVE Texts(d) \subseteq papers'.note[d]
      <4>1. CASE d <= reach
        BY <2>1, <2>3, <4>1 DEF Grows, NotesKept
      <4>2. CASE errand.step \in {"left", "done"} /\ d = doing.n
        BY <2>1, <2>3, <4>2 DEF Grows, NotesKept, Writing
      <4> QED
        BY <1>2, <3>3, <4>1, <4>2, ReachBy
    <3> QED
      BY <3>1, <3>2, <3>3 DEF Handling, Writing
  <2> QED
    BY <2>1, <2>2, <2>3 DEF NotesKept
<1> QED
  BY <1>1, <1>2 DEF PaperlessNext, RunStep

\* Every link that leads to an item is among those that are left.
LEMMA LeadingHas ==
  ASSUME NEW links \in Seq(Docs), NEW items, NEW e \in ToSet(links), e \in items
  PROVE  \E j \in 1 .. Len(Leading(links, items)) : Leading(links, items)[j] = e
<1>0. PICK f : /\ Leading(links, items) = f[1 .. Len(links)]
               /\ Led(links, items, 1 .. Len(links), f)
  BY LeadingChosen
<1>1. /\ Leading(links, items) = f[1 .. Len(links)]
      /\ f = [s \in SUBSET (1 .. Len(links)) |-> Leads(links, items, s, f)]
      /\ Len(links) \in Nat /\ 1 .. Len(links) \in SUBSET (1 .. Len(links))
  BY <1>0 DEF Led
<1> DEFINE Has(n) == \A i \in 1 .. n : links[i] = e => \E j \in 1 .. Len(f[1 .. n]) : f[1 .. n][j] = e
           Good(n) == f[1 .. n] \in Seq(Docs) /\ Has(n)
           B == {n \in 0 .. Len(links) : ~ Good(n)}
<1>2. ASSUME B # {} PROVE FALSE
  <2>1. PICK n \in B : \A k \in B : n <= k
    <3>1. B \in SUBSET Nat
      OBVIOUS
    <3> HIDE DEF B
    <3> QED
      BY <1>2, <3>1, LeastNumber
  <2>2. n \in 0 .. Len(links) /\ Len(links) \in Nat /\ 1 .. n \in SUBSET (1 .. Len(links))
    BY <2>1
  <2>3. f[1 .. n] = Leads(links, items, 1 .. n, f)
    BY <1>1, <2>2
  <2>4. CASE n = 0
    <3>1. 1 .. n = {}
      BY <2>4
    <3>2. f[1 .. n] = <<>>
      BY <2>3, <3>1 DEF Leads
    <3>3. Good(n)
      BY <3>1, <3>2
    <3> QED
      BY <2>1, <3>3
  <2>5. CASE n # 0
    <3>1. n - 1 \in 0 .. Len(links) /\ ~ n <= n - 1
      BY <2>2, <2>5
    <3>2. Good(n - 1)
      <4> HIDE DEF Good
      <4> QED
        BY <2>1, <3>1
    <3>3. 1 .. n # {} /\ Max(1 .. n) = n /\ (1 .. n) \ {n} = 1 .. n - 1
      <4>1. 1 .. n # {} /\ n \in 1 .. n /\ n \in Nat /\ 1 .. n \in SUBSET (1 .. n)
        <5>1. n \in Nat /\ 1 <= n
          BY <2>2, <2>5
        <5>2. n \in 1 .. n
          BY <5>1
        <5> QED
          BY <5>1, <5>2
      <4>2. Max(1 .. n) \in 1 .. n /\ n <= Max(1 .. n)
        BY <4>1, MaxOf, Zenon
      <4>3. \A k \in 1 .. n : n <= k => k = n
        BY <2>2
      <4>4. (1 .. n) \ {n} = 1 .. n - 1
        BY <2>2
      <4> QED
        BY <4>1, <4>2, <4>3, <4>4
    <3>4. links[n] \in Docs
      BY <2>2, <2>5
    <3> DEFINE a == f[1 .. n - 1]
    <3>5. a \in Seq(Docs) /\ \A i \in 1 .. n - 1 : links[i] = e => \E j \in 1 .. Len(a) : a[j] = e
      BY <3>2
    <3>6. f[1 .. n] = IF links[n] \in items THEN Append(a, links[n]) ELSE a
      BY <2>3, <3>3, Zenon DEF Leads
    <3> HIDE DEF a
    <3>7. CASE links[n] \in items
      <4> DEFINE b == Append(a, links[n])
      <4>1. /\ b \in Seq(Docs) /\ Len(b) = Len(a) + 1 /\ b[Len(a) + 1] = links[n] /\ Len(a) \in Nat
            /\ \A j \in 1 .. Len(a) : b[j] = a[j]
        BY <3>4, <3>5
      <4> HIDE DEF b
      <4>2. ASSUME NEW i \in 1 .. n, links[i] = e PROVE \E j \in 1 .. Len(b) : b[j] = e
        <5>1. CASE i = n
          BY <4>1, <4>2, <5>1
        <5>2. CASE i # n
          <6>1. i \in 1 .. n - 1
            BY <2>2, <5>2
          <6>2. PICK j \in 1 .. Len(a) : a[j] = e
            BY <3>5, <4>2, <6>1
          <6>3. j \in 1 .. Len(b)
            BY <4>1
          <6> QED
            BY <4>1, <6>2, <6>3
        <5> QED
          BY <5>1, <5>2
      <4>3. f[1 .. n] = b
        BY <3>6, <3>7 DEF b
      <4>4. Good(n)
        BY <4>1, <4>2, <4>3
      <4> QED
        BY <2>1, <4>4
    <3>8. CASE links[n] \notin items
      <4>1. ASSUME NEW i \in 1 .. n, links[i] = e PROVE \E j \in 1 .. Len(a) : a[j] = e
        <5>1. i \in 1 .. n - 1
          BY <2>2, <3>8, <4>1
        <5> QED
          BY <3>5, <4>1, <5>1
      <4>2. f[1 .. n] = a
        BY <3>6, <3>8
      <4>3. Good(n)
        BY <3>5, <4>1, <4>2
      <4> QED
        BY <2>1, <4>3
    <3> QED
      BY <3>7, <3>8
  <2> QED
    BY <2>4, <2>5
<1>3. Has(Len(links))
  <2> HIDE DEF Has
  <2> QED
    BY <1>2
<1>4. PICK i \in 1 .. Len(links) : links[i] = e
  BY DEF ToSet
<1> QED
  BY <1>1, <1>3, <1>4

LEMMA SlotsHave ==
  ASSUME PaperKinds, NEW d \in Docs, Live \subseteq errand.items
  PROVE  ToSet(Paperless.links[d]) \cap Live \subseteq ToSet(Slots(d))
<1>1. PICK links \in Seq(Docs) : links = Paperless.links[d]
  BY PaperlessSnapshot
<1> DEFINE to == Leading(links, errand.items)
<1>2. to \in Seq(Docs) /\ papers.link[d] \in Seq(Docs)
  BY LeadingTypes DEF PaperKinds, PapersKind
<1>3. ASSUME NEW e \in ToSet(links) \cap Live PROVE \E j \in 1 .. Len(to) : to[j] = e
  BY <1>3, LeadingHas
<1>4. Slots(d) = to \o SubSeq(papers.link[d], Len(to) + 1, Len(papers.link[d]))
  BY <1>1 DEF Slots
<1> HIDE DEF to
<1>5. Len(Slots(d)) >= Len(to) /\ Slots(d) \in Seq(Docs) /\ \A j \in 1 .. Len(to) : Slots(d)[j] = to[j]
  <2>1. SubSeq(papers.link[d], Len(to) + 1, Len(papers.link[d])) \in Seq(Docs)
    BY <1>2
  <2> QED
    BY <1>2, <1>4, <2>1
<1>6. ASSUME NEW e \in ToSet(links) \cap Live PROVE e \in ToSet(Slots(d))
  <2>1. PICK j \in 1 .. Len(to) : to[j] = e
    BY <1>3
  <2>2. j \in 1 .. Len(Slots(d)) /\ Slots(d)[j] = e
    BY <1>2, <1>5, <2>1
  <2> QED
    BY <1>5, <2>2 DEF ToSet
<1> QED
  BY <1>1, <1>6

LEMMA PassedStep ==
  ASSUME PaperKinds, Whereabouts, RunStep, NEW d \in Docs, Passed(4, d)'
  PROVE  Passed(4, d) \/ (doing.stage = 4 /\ d = doing.n /\ Counted)
<1>0. /\ doing.n \in Nat /\ doing.stage \in 0 .. 6 /\ import.cursor \in 0 .. 5 /\ d \in Nat /\ d # 0
      /\ d <= Paperless.count /\ Paperless.count \in Nat
  BY DocsAre DEF PaperKinds, JobKinds
<1>1. CASE ClaimPaper
  BY <1>0, <1>1, Claimed, WithoutCursor DEF ClaimPaper, Passed
<1>2. CASE FetchSnapshot \/ Within
  BY <1>2 DEF FetchSnapshot, Within, jobVars, Passed
<1>3. CASE BeginPaperStage
  <2>1. import'.cursor = doing.stage /\ doing'.stage = doing.stage /\ doing'.n = 1
    BY <1>3 DEF BeginPaperStage, Checkpoint, PaperKinds, JobKinds
  <2> QED
    BY <1>0, <2>1 DEF Passed
<1>4. CASE EndPaperStage
  <2>1. /\ doing.stage \in 1 .. 5 /\ doing.n > Len(PaperRows(PaperStages[doing.stage]))
        /\ import' = import /\ doing'.stage = doing.stage + 1 /\ doing'.n = 0
    BY <1>4, StagesAre DEF EndPaperStage, Idle
  <2>2. doing.stage = 4 => d < doing.n
    BY <1>0, <2>1, RowsLength
  <2> QED
    BY <1>0, <2>1, <2>2 DEF Passed
<1>5. CASE FinishPaper \/ Broken
  BY <1>0, <1>5, IdleAndOff DEF FinishPaper, Succeed, End, Broken, Passed, PaperKinds, JobKinds
<1>6. CASE Counted
  BY <1>0, <1>6, CountedIs, IdleAndOff DEF Advancing, Passed
<1> QED
  BY <1>1, <1>2, <1>3, <1>4, <1>5, <1>6, Ways DEF RunItself

\* One edit has put nothing in the trash that it could have taken out again.
LEMMA EditOnce ==
  ASSUME PaperKinds, NotesKept, PeopleEdit, edits' <= 1
  PROVE  edits = 0 /\ Live' \subseteq Live /\ papers'.link = papers.link
<1>0. papers \in PapersKind /\ edits \in Nat
  BY PaperlessSetup DEF PaperKinds
<1>1. edits = 0
  BY <1>0 DEF PeopleEdit
<1>2. \A d \in Docs : papers.item[d] # "trashed"
  BY <1>1 DEF NotesKept, Intact
<1>3. ASSUME NEW d \in Docs, BinPaper(d) PROVE Live' \subseteq Live /\ papers'.link = papers.link
  BY <1>0, <1>3 DEF BinPaper, PapersKind, Live
<1>4. ASSUME NEW d \in Docs, RestorePaper(d) \/ RemoveNote(d) \/ AddNote(d) \/ DetachFile(d) \/ BinFile(d)
      PROVE  papers'.item = papers.item /\ papers'.link = papers.link
  BY <1>0, <1>2, <1>4, ZenonT(60) DEF RestorePaper, RemoveNote, AddNote, DetachFile, BinFile, PapersKind
<1>5. ASSUME NEW x, RestoreFile(x) \/ BinTag(x) \/ OtherAsn(x)
      PROVE  papers'.item = papers.item /\ papers'.link = papers.link
  BY <1>0, <1>5, Zenon DEF RestoreFile, BinTag, OtherAsn, PapersKind
<1> QED
  BY <1>1, <1>3, <1>4, <1>5 DEF PeopleEdit, Live

LEMMA KnownStep ==
  ASSUME PaperKinds, Whereabouts, Owned, LinksKept, RunStep, edits <= 1, Fetched'
  PROVE  /\ errand'.step = "left" => doing'.n \notin Live'
         /\ errand'.step \in Writing => doing'.n \in errand'.items
         /\ doing'.stage = 3 => \A d \in Live' : d < doing'.n => d \in errand'.items
         /\ doing'.stage > 3 => Live' \subseteq errand'.items
<1>0. /\ doing.n \in Nat /\ doing.stage \in 0 .. 6 /\ Paperless.count \in Nat /\ errand \in Errands
      /\ \A d \in Docs : d \in Nat /\ d # 0 /\ d <= Paperless.count
  BY DocsAre DEF PaperKinds, JobKinds
<1>4. CASE ClaimPaper \/ FinishPaper \/ Broken
  BY <1>4, Claimed DEF Fetched, FinishPaper, Succeed, End, Broken
<1>5. CASE FetchSnapshot
  <2>1. doing' = doing /\ doing.n = 0 /\ Live' = Live /\ errand'.items = (IF doing.stage > 3 THEN Live ELSE {}) /\ errand'.step = "look"
    BY <1>0, <1>5 DEF FetchSnapshot, jobVars, Whereabouts, Errands, Live
  <2> QED
    BY <1>0, <2>1 DEF Live, Writing
<1>6. CASE BeginPaperStage
  <2>1. doing'.n = 1 /\ doing'.stage = doing.stage /\ errand' = errand /\ Fetched /\ Live' = Live /\ doing.n = 0
    BY <1>0, <1>6, IdleAndOff, StagesAre DEF BeginPaperStage, Fetched, Live, PaperKinds, JobKinds
  <2>2. \A d \in Live : ~ d < 1
    BY <1>0 DEF Live
  <2>3. errand.step \notin Handling
    BY <1>0, <2>1 DEF Whereabouts, Handling
  <2> QED
    BY <2>1, <2>2, <2>3 DEF LinksKept, Handling
<1>7. CASE EndPaperStage
  <2>1. /\ doing.n > Len(PaperRows(PaperStages[doing.stage])) /\ doing.stage \in 1 .. 5 /\ UNCHANGED <<errand, papers>>
        /\ doing'.stage = doing.stage + 1 /\ doing'.n = 0 /\ doing # Idle
    BY <1>7, IdleAndOff, StagesAre DEF EndPaperStage, Idle
  <2>2. Fetched /\ Live' = Live
    BY <1>0, <2>1, RowsLength DEF Fetched, Whereabouts, Live
  <2>3. ASSUME doing.stage = 3, NEW d \in Live PROVE d < doing.n
    BY <1>0, <2>1, <2>3, RowsLength DEF Live
  <2>4. errand.step \notin Handling
    <3>1. errand.step \in Handling => doing.stage = 3 /\ doing.n \in Docs
      BY DEF Whereabouts, Handling
    <3> QED
      BY <1>0, <2>1, <3>1, RowsLength
  <2> QED
    BY <1>0, <2>1, <2>2, <2>3, <2>4 DEF LinksKept, Handling, Live
<1>8. CASE Counted
  <2>1. /\ Fetched /\ Advancing /\ Live' = Live /\ errand'.step = "look"
        /\ errand'.items = IF doing.stage = 3 /\ errand.step = "look" THEN errand.items \cup ({doing.n} \cap Live)
                           ELSE errand.items
    BY <1>8, CountedIs, IdleAndOff DEF Fetched, Live
  <2>2. ASSUME doing.stage = 3, doing.n \in Live PROVE doing.n \in errand'.items
    <3>1. errand.step \in {"look", "left", "done"}
      BY <1>8, <2>2 DEF Counted
    <3> QED
      BY <2>1, <2>2, <3>1 DEF LinksKept, Writing
  <2>3. errand'.step \notin Handling
    BY <2>1 DEF Handling, Writing
  <2> QED
    BY <1>0, <2>1, <2>2, <2>3 DEF LinksKept, Advancing, Handling, Live
<1>9. CASE Within
  <2>1. Fetched /\ doing' = doing
    BY <1>9, IdleAndOff DEF Within, Fetched
  <2>3. CASE errand'.step \in Handling
    <3>1. doing.stage = 3 /\ doing.n \in Docs /\ Moves(doing.n)
      BY <2>3, WorkIsMoves
    <3>2. errand.items \subseteq errand'.items
      BY <1>0, <3>1, Zenon DEF Moves, Looks, Upserts, Fills, Carries, Goes, Errands
    <3>3. errand'.step = "left" => doing.n \notin Live'
      BY <1>0, <3>1, Zenon DEF Moves, Looks, Upserts, Fills, Carries, Goes, Errands, Live
    <3>4. errand'.step \in Writing => doing.n \in errand'.items
      <4>1. CASE Looks(doing.n)
        BY <1>0, <4>1 DEF Looks, Errands, Writing
      <4>2. CASE Upserts(doing.n)
        BY <1>0, <3>1, <4>2 DEF Upserts, Errands
      <4>3. CASE Fills(doing.n) \/ Carries(doing.n)
        BY <1>0, <2>1, <3>2, <4>3 DEF Fills, Carries, Goes, Errands, Writing, LinksKept
      <4> QED
        BY <3>1, <4>1, <4>2, <4>3 DEF Moves
    <3>5. \A d \in Live' : d < doing.n => d \in Live
      BY <1>0, ItemKept DEF Live
    <3> QED
      BY <2>1, <3>1, <3>2, <3>3, <3>4, <3>5 DEF LinksKept
  <2>4. CASE errand'.step \notin Handling
    <3>1. Live' = Live /\ errand'.items = errand.items
      BY <1>9, <2>4, ItemKept DEF Live, Within, Handling, Writing
    <3> QED
      BY <2>1, <2>4, <3>1 DEF LinksKept, Handling
  <2> QED
    BY <2>3, <2>4
<1> QED
  BY <1>4, <1>5, <1>6, <1>7, <1>8, <1>9, Ways DEF RunItself

LEMMA LinksKeptStep ==
  ASSUME PaperKinds, Whereabouts, Owned, NotesKept, LinksKept, PaperlessNext
  PROVE  LinksKept'
<1>0. /\ papers \in PapersKind /\ doing.n \in Nat /\ doing.stage \in 0 .. 6 /\ import.cursor \in 0 .. 5 /\ edits \in Nat
      /\ \A d \in Docs : d \in Nat /\ d # 0
  BY DocsAre, PaperlessSetup DEF PaperKinds, JobKinds
<1>1. CASE PeopleEdit
  <2>1. UNCHANGED <<import, doing, errand>>
    BY <1>1 DEF PeopleEdit
  <2>2. ASSUME edits' <= 1 PROVE edits = 0 /\ Live' \subseteq Live /\ papers'.link = papers.link
    BY <1>1, <2>2, EditOnce
  <2> QED
    BY <1>0, <2>1, <2>2 DEF LinksKept, Fetched, Passed
<1>2. CASE RunStep
  <2>1. edits' = edits /\ Grows
    BY <1>2, RunKeepsEdits, RunGrows
  <2>2. SUFFICES ASSUME edits <= 1, NEW d \in Live', Passed(4, d)'
                 PROVE  ToSet(Paperless.links[d]) \cap Live' \subseteq ToSet(papers'.link[d])
    BY <1>2, <2>1, KnownStep DEF LinksKept
  <2>3. d \in Docs
    BY <2>2 DEF Live
  <2>4. doing.stage > 3 \/ import.cursor > 3
    BY <1>0, <1>2, <2>2, <2>3, PassedStep DEF Passed
  <2>5. Live' = Live
    <3>1. CASE errand'.step \in Handling
      <4>1. doing.stage = 3 /\ import.cursor \in {2, 3}
        BY <1>0, <1>2, <3>1, WorkIsMoves, IdleAndOff DEF Whereabouts
      <4> QED
        BY <2>4, <4>1
    <3>2. CASE errand'.step \notin Handling
      BY <1>2, <3>2, ItemKept DEF Live
    <3> QED
      BY <3>1, <3>2
  <2>6. CASE Passed(4, d)
    <3>1. ~ (doing.stage = 4 /\ doing.n = d)
      <4>1. doing.stage = 4 => import.cursor \in {3, 4}
        BY <1>0, IdleAndOff DEF Whereabouts
      <4> QED
        BY <1>0, <2>6, <4>1 DEF Passed
    <3>2. \/ papers'.link = papers.link
          \/ /\ doing.stage = 4
             /\ papers'.link = [papers.link EXCEPT ![doing.n] = Slots(doing.n)]
      BY <1>0, <1>2, WritesOf, Zenon DEF Puts, PapersKind
    <3>3. papers.link \in [Docs -> Seq(Docs)]
      BY <1>0 DEF PapersKind
    <3>4. papers'.link[d] = papers.link[d]
      BY <2>3, <3>1, <3>2, <3>3
    <3> QED
      BY <2>2, <2>5, <2>6, <3>4 DEF LinksKept
  <2>7. CASE doing.stage = 4 /\ d = doing.n /\ Counted
    <3>1. Fetched /\ papers' = papers
      BY <1>0, <2>7, CountedIs, IdleAndOff DEF Fetched
    <3>2. Live \subseteq errand.items
      BY <2>2, <2>7, <3>1 DEF LinksKept
    <3>3. papers.link[d] = Slots(d)
      BY <2>2, <2>5, <2>7, <3>2 DEF Counted
    <3> QED
      BY <2>3, <2>5, <3>1, <3>2, <3>3, SlotsHave
  <2> QED
    BY <1>2, <2>2, <2>3, <2>6, <2>7, PassedStep
<1> QED
  BY <1>1, <1>2 DEF PaperlessNext, RunStep

-----------------------------------------------------------------------------
(* Paperless: what equal sums say *)

Adds(f, s, h) == IF s = {} THEN 0 ELSE LET x == CHOOSE x \in s : TRUE IN f[x] + h[s \ {x}]
Sums(f, all, h) == h = [s \in SUBSET all |-> Adds(f, s, h)]
UpTo(all, n) == {s \in SUBSET all : Cardinality(s) <= n}

LEMMA WithoutOne ==
  ASSUME NEW all, IsFiniteSet(all), NEW s \in SUBSET all, s # {}
  PROVE  LET x == CHOOSE x \in s : TRUE
         IN x \in s /\ s \ {x} \in SUBSET all /\ Cardinality(s) \in Nat \ {0} /\ Cardinality(s \ {x}) = Cardinality(s) - 1
<1> DEFINE x == CHOOSE x \in s : TRUE
<1>1. x \in s
  OBVIOUS
<1> HIDE DEF x
<1>2. IsFiniteSet(s)
  BY FS_Subset
<1>3. Cardinality(s) \in Nat /\ Cardinality(s) # 0
  BY <1>2, FS_CardinalityType, FS_EmptySet
<1>4. Cardinality(s \ {x}) = Cardinality(s) - 1
  BY <1>1, <1>2, FS_RemoveElement, Zenon
<1> QED
  BY <1>1, <1>3, <1>4 DEF x

LEMMA SumsExist ==
  ASSUME NEW all, IsFiniteSet(all), NEW f
  PROVE  \E h : Sums(f, all, h)
<1> DEFINE Up(n) == \E h : h = [s \in UpTo(all, n) |-> Adds(f, s, h)]
           B == {n \in Nat : ~ Up(n)}
<1>0. \A s \in SUBSET all : IsFiniteSet(s) /\ Cardinality(s) \in Nat /\ (s # {} => Cardinality(s) # 0)
  BY FS_Subset, FS_CardinalityType, FS_EmptySet
<1>1. ASSUME B # {} PROVE FALSE
  <2>1. PICK n \in B : \A k \in B : n <= k
    <3> HIDE DEF Up
    <3> QED
      BY <1>1, LeastNumber, Zenon
  <2>2. CASE n = 0
    <3> DEFINE h == [s \in UpTo(all, n) |-> 0]
    <3>1. \A s \in UpTo(all, n) : s = {}
      BY <1>0, <2>2 DEF UpTo
    <3>2. h = [s \in UpTo(all, n) |-> Adds(f, s, h)]
      BY <3>1 DEF Adds
    <3> QED
      BY <2>1, <3>2
  <2>3. CASE n # 0
    <3>1. n \in Nat /\ n - 1 \in Nat /\ Up(n - 1)
      <4> HIDE DEF Up
      <4>1. n \in Nat /\ n - 1 \in Nat /\ ~ n <= n - 1
        BY <2>1, <2>3
      <4> QED
        BY <2>1, <4>1
    <3>2. PICK h : h = [s \in UpTo(all, n - 1) |-> Adds(f, s, h)]
      BY <3>1
    <3> DEFINE g == [s \in UpTo(all, n) |-> Adds(f, s, h)]
    <3>3. ASSUME NEW s \in UpTo(all, n - 1) PROVE s \in UpTo(all, n) /\ g[s] = h[s]
      <4>1. s \in UpTo(all, n)
        BY <1>0, <3>1 DEF UpTo
      <4> QED
        BY <3>2, <4>1
    <3>4. ASSUME NEW s \in UpTo(all, n) PROVE Adds(f, s, h) = Adds(f, s, g)
      <4>1. CASE s = {}
        BY <4>1 DEF Adds
      <4>2. CASE s # {}
        <5> DEFINE x == CHOOSE x \in s : TRUE
        <5>1. s \in SUBSET all /\ Cardinality(s) <= n
          BY DEF UpTo
        <5>2. s \ {x} \in SUBSET all /\ Cardinality(s) \in Nat /\ Cardinality(s \ {x}) = Cardinality(s) - 1
          BY <4>2, <5>1, WithoutOne
        <5> HIDE DEF x
        <5>3. s \ {x} \in UpTo(all, n - 1)
          BY <3>1, <5>1, <5>2 DEF UpTo
        <5>4. h[s \ {x}] = g[s \ {x}]
          BY <3>3, <5>3
        <5> HIDE DEF g
        <5> QED
          BY <5>4 DEF Adds, x
      <4> QED
        BY <4>1, <4>2
    <3>5. g = [s \in UpTo(all, n) |-> Adds(f, s, g)]
      BY <3>4
    <3> QED
      BY <2>1, <3>5, Zenon
  <2> QED
    BY <2>2, <2>3
<1>2. UpTo(all, Cardinality(all)) = SUBSET all /\ Cardinality(all) \in Nat
  BY FS_Subset, FS_CardinalityType DEF UpTo
<1>3. Up(Cardinality(all))
  <2> HIDE DEF Up
  <2> QED
    BY <1>1, <1>2
<1> QED
  BY <1>2, <1>3 DEF Sums

LEMMA NoGreater ==
  ASSUME NEW a \in Nat, NEW b \in Nat, NEW c \in Nat, NEW d \in Nat, b <= a, d <= c
  PROVE  a + c = b + d => a = b /\ c = d
  OBVIOUS

\* Sums of numbers that are never greater are equal only where all of the numbers are.
LEMMA SumsAgree ==
  ASSUME NEW all, IsFiniteSet(all), NEW f, NEW g, NEW h, NEW k, Sums(f, all, h), Sums(g, all, k),
         \A x \in all : f[x] \in Nat /\ g[x] \in Nat /\ g[x] <= f[x], h[all] = k[all], NEW y \in all
  PROVE  f[y] = g[y]
<1> DEFINE Good(s) == /\ h[s] \in Nat /\ k[s] \in Nat /\ k[s] <= h[s]
                      /\ h[s] = k[s] => \A x \in s : f[x] = g[x]
           B == {n \in Nat : \E s \in SUBSET all : Cardinality(s) = n /\ ~ Good(s)}
<1>0. \A s \in SUBSET all : Cardinality(s) \in Nat
  BY FS_Subset, FS_CardinalityType
<1>1. ASSUME B # {} PROVE FALSE
  <2>1. PICK n \in B : \A m \in B : n <= m
    <3> HIDE DEF Good
    <3> QED
      BY <1>1, LeastNumber, Zenon
  <2>2. PICK s \in SUBSET all : Cardinality(s) = n /\ ~ Good(s)
    BY <2>1
  <2>3. h[s] = Adds(f, s, h) /\ k[s] = Adds(g, s, k)
    BY DEF Sums
  <2>4. CASE s = {}
    BY <2>2, <2>3, <2>4 DEF Adds
  <2>5. CASE s # {}
    <3> DEFINE x == CHOOSE x \in s : TRUE
    <3>1. x \in s /\ s \ {x} \in SUBSET all /\ Cardinality(s) \in Nat \ {0} /\ Cardinality(s \ {x}) = Cardinality(s) - 1
      BY <2>5, WithoutOne
    <3>2. h[s] = f[x] + h[s \ {x}] /\ k[s] = g[x] + k[s \ {x}]
      BY <2>3, <2>5 DEF Adds
    <3> HIDE DEF x
    <3>3. Good(s \ {x})
      <4> HIDE DEF Good
      <4>1. n - 1 \in Nat /\ ~ n <= n - 1
        BY <2>2, <3>1
      <4> QED
        BY <2>1, <2>2, <3>1, <4>1
    <3>4. x \in all /\ f[x] \in Nat /\ g[x] \in Nat /\ g[x] <= f[x]
      BY <3>1
    <3>5. h[s] = k[s] => f[x] = g[x] /\ h[s \ {x}] = k[s \ {x}]
      <4>1. h[s \ {x}] \in Nat /\ k[s \ {x}] \in Nat /\ k[s \ {x}] <= h[s \ {x}]
        BY <3>3
      <4> QED
        BY <3>2, <3>4, <4>1, NoGreater
    <3>6. Good(s)
      BY <3>2, <3>3, <3>4, <3>5
    <3> QED
      BY <2>2, <3>6
  <2> QED
    BY <2>4, <2>5
<1>2. Good(all)
  <2> HIDE DEF Good
  <2> QED
    BY <1>0, <1>1
<1> QED
  BY <1>2

LEMMA ServerIsFinite ==
  /\ IsFiniteSet(Docs) /\ \A d \in Docs : IsFiniteSet(Paperless.tagged[d]) /\ IsFiniteSet(Texts(d))
<1>1. ASSUME NEW S, NEW q \in Seq(S), S = ToSet(q) PROVE IsFiniteSet(S)
  <2>1. Len(q) \in Nat /\ q \in [1 .. Len(q) -> S] /\ DOMAIN q = 1 .. Len(q)
    OBVIOUS
  <2>2. \A x \in S : \E i \in 1 .. Len(q) : q[i] = x
    BY <1>1, <2>1 DEF ToSet
  <2>3. q \in Surjection(1 .. Len(q), S)
    BY <2>1, <2>2 DEF Surjection
  <2> QED
    BY <2>1, <2>3, FS_NatSurjection DEF ExistsSurjection
<1>2. IsFiniteSet(Labels)
  BY <1>1, PaperlessSnapshot DEF Labels
<1>3. ASSUME NEW d \in Docs PROVE IsFiniteSet(Paperless.tagged[d]) /\ IsFiniteSet(Texts(d))
  <2>1. IsFiniteSet(Texts(d))
    BY <1>1, PaperlessSnapshot DEF Texts
  <2>2. Paperless.tagged[d] \in SUBSET Labels
    BY PaperlessSnapshot
  <2> QED
    BY <1>2, <2>1, <2>2, FS_Subset
<1>4. IsFiniteSet(Docs)
  BY FirstNumbers, DocsAre
<1> QED
  BY <1>3, <1>4

\* The two sums of the report are equal only where every item has all it is due.
LEMMA TagsArrived ==
  ASSUME Partial, TagsSum, Active = Live, NEW d \in Live
  PROVE  papers.tagged[d] = Paperless.tagged[d]
<1> DEFINE due(e) == Cardinality(Paperless.tagged[e])
           got(e) == Cardinality(papers.tagged[e])
           f == [e \in Live |-> due(e)]
           g == [e \in Live |-> got(e)]
           P(h) == h = [s \in SUBSET Live |-> IF s = {} THEN 0 ELSE LET x == CHOOSE x \in s : TRUE IN due(x) + h[s \ {x}]]
           Q(h) == h = [s \in SUBSET Live |-> IF s = {} THEN 0 ELSE LET x == CHOOSE x \in s : TRUE IN got(x) + h[s \ {x}]]
<1>1. MapThenSumSet(due, Live) = (CHOOSE h : P(h))[Live]
  BY DEF MapThenSumSet, MapThenFoldSet
<1>2. MapThenSumSet(got, Live) = (CHOOSE h : Q(h))[Live]
  BY DEF MapThenSumSet, MapThenFoldSet
<1>3. MapThenSumSet(due, Active) = MapThenSumSet(got, Live)
  BY DEF TagsSum
<1>4. ASSUME NEW h PROVE P(h) <=> Sums(f, Live, h)
  <2>1. ASSUME NEW s \in SUBSET Live, s # {} PROVE due(CHOOSE x \in s : TRUE) = f[CHOOSE x \in s : TRUE]
    BY <2>1
  <2> HIDE DEF due, f
  <2>2. [s \in SUBSET Live |-> IF s = {} THEN 0 ELSE LET x == CHOOSE x \in s : TRUE IN due(x) + h[s \ {x}]]
        = [s \in SUBSET Live |-> Adds(f, s, h)]
    BY <2>1 DEF Adds
  <2> QED
    BY <2>2, Zenon DEF Sums
<1>5. ASSUME NEW h PROVE Q(h) <=> Sums(g, Live, h)
  <2>1. ASSUME NEW s \in SUBSET Live, s # {} PROVE got(CHOOSE x \in s : TRUE) = g[CHOOSE x \in s : TRUE]
    BY <2>1
  <2> HIDE DEF got, g
  <2>2. [s \in SUBSET Live |-> IF s = {} THEN 0 ELSE LET x == CHOOSE x \in s : TRUE IN got(x) + h[s \ {x}]]
        = [s \in SUBSET Live |-> Adds(g, s, h)]
    BY <2>1 DEF Adds
  <2> QED
    BY <2>2, Zenon DEF Sums
<1>6. IsFiniteSet(Live)
  BY ServerIsFinite, FS_Subset DEF Live
<1>7. \A e \in Live : f[e] \in Nat /\ g[e] \in Nat /\ g[e] <= f[e] /\ (f[e] = g[e] => papers.tagged[e] = Paperless.tagged[e])
  <2>1. SUFFICES ASSUME NEW e \in Live
                 PROVE  LET a == Cardinality(Paperless.tagged[e])  b == Cardinality(papers.tagged[e])
                        IN a \in Nat /\ b \in Nat /\ b <= a /\ (a = b => papers.tagged[e] = Paperless.tagged[e])
    OBVIOUS
  <2>2. IsFiniteSet(Paperless.tagged[e]) /\ papers.tagged[e] \in SUBSET Paperless.tagged[e]
    BY ServerIsFinite DEF Live, Partial
  <2> QED
    BY <2>2, FS_Subset, FS_CardinalityType
<1> HIDE DEF P, Q, f, g
<1>8. PICK h : Sums(f, Live, h) /\ h[Live] = MapThenSumSet(due, Live)
  <2>1. \E h : P(h)
    BY <1>4, <1>6, SumsExist
  <2>2. P(CHOOSE h : P(h))
    BY <2>1
  <2> QED
    BY <1>1, <1>4, <2>2, Zenon
<1>9. PICK k : Sums(g, Live, k) /\ k[Live] = MapThenSumSet(got, Live)
  <2>1. \E k : Q(k)
    BY <1>5, <1>6, SumsExist
  <2>2. Q(CHOOSE k : Q(k))
    BY <2>1
  <2> QED
    BY <1>2, <1>5, <2>2, Zenon
<1>10. f[d] = g[d]
  <2>1. h[Live] = k[Live]
    BY <1>3, <1>8, <1>9
  <2> QED
    BY <1>6, <1>7, <1>8, <1>9, <2>1, SumsAgree
<1> QED
  BY <1>7, <1>10

LEMMA NotesArrived ==
  ASSUME Partial, NotesSum, Active = Live, papers.own = {}, NEW d \in Live
  PROVE  papers.note[d] = Texts(d)
<1> DEFINE due(e) == Cardinality(Texts(e))
           got(e) == Cardinality(papers.note[e]) + Cardinality({e} \cap papers.own)
           f == [e \in Live |-> due(e)]
           g == [e \in Live |-> got(e)]
           P(h) == h = [s \in SUBSET Live |-> IF s = {} THEN 0 ELSE LET x == CHOOSE x \in s : TRUE IN due(x) + h[s \ {x}]]
           Q(h) == h = [s \in SUBSET Live |-> IF s = {} THEN 0 ELSE LET x == CHOOSE x \in s : TRUE IN got(x) + h[s \ {x}]]
<1>1. MapThenSumSet(due, Live) = (CHOOSE h : P(h))[Live]
  BY DEF MapThenSumSet, MapThenFoldSet
<1>2. MapThenSumSet(got, Live) = (CHOOSE h : Q(h))[Live]
  BY DEF MapThenSumSet, MapThenFoldSet
<1>3. MapThenSumSet(due, Active) = MapThenSumSet(got, Live)
  BY Zenon DEF NotesSum
<1>4. ASSUME NEW h PROVE P(h) <=> Sums(f, Live, h)
  <2>1. ASSUME NEW s \in SUBSET Live, s # {} PROVE due(CHOOSE x \in s : TRUE) = f[CHOOSE x \in s : TRUE]
    BY <2>1
  <2> HIDE DEF due, f
  <2>2. [s \in SUBSET Live |-> IF s = {} THEN 0 ELSE LET x == CHOOSE x \in s : TRUE IN due(x) + h[s \ {x}]]
        = [s \in SUBSET Live |-> Adds(f, s, h)]
    BY <2>1 DEF Adds
  <2> QED
    BY <2>2, Zenon DEF Sums
<1>5. ASSUME NEW h PROVE Q(h) <=> Sums(g, Live, h)
  <2>1. ASSUME NEW s \in SUBSET Live, s # {} PROVE got(CHOOSE x \in s : TRUE) = g[CHOOSE x \in s : TRUE]
    BY <2>1
  <2> HIDE DEF got, g
  <2>2. [s \in SUBSET Live |-> IF s = {} THEN 0 ELSE LET x == CHOOSE x \in s : TRUE IN got(x) + h[s \ {x}]]
        = [s \in SUBSET Live |-> Adds(g, s, h)]
    BY <2>1 DEF Adds
  <2> QED
    BY <2>2, Zenon DEF Sums
<1>6. IsFiniteSet(Live)
  BY ServerIsFinite, FS_Subset DEF Live
<1>7. \A e \in Live : f[e] \in Nat /\ g[e] \in Nat /\ g[e] <= f[e] /\ (f[e] = g[e] => papers.note[e] = Texts(e))
  <2>1. SUFFICES ASSUME NEW e \in Live
                 PROVE  LET a == Cardinality(Texts(e))
                            b == Cardinality(papers.note[e]) + Cardinality({e} \cap papers.own)
                        IN a \in Nat /\ b \in Nat /\ b <= a /\ (a = b => papers.note[e] = Texts(e))
    OBVIOUS
  <2>2. IsFiniteSet(Texts(e)) /\ papers.note[e] \in SUBSET Texts(e)
    BY ServerIsFinite DEF Live, Partial
  <2>3. Cardinality(papers.note[e]) \in Nat /\ Cardinality({e} \cap papers.own) = 0
    BY <2>2, FS_Subset, FS_CardinalityType, FS_EmptySet
  <2> QED
    BY <2>2, <2>3, FS_Subset, FS_CardinalityType
<1> HIDE DEF P, Q, f, g
<1>8. PICK h : Sums(f, Live, h) /\ h[Live] = MapThenSumSet(due, Live)
  <2>1. \E h : P(h)
    BY <1>4, <1>6, SumsExist
  <2>2. P(CHOOSE h : P(h))
    BY <2>1
  <2> QED
    BY <1>1, <1>4, <2>2, Zenon
<1>9. PICK k : Sums(g, Live, k) /\ k[Live] = MapThenSumSet(got, Live)
  <2>1. \E k : Q(k)
    BY <1>5, <1>6, SumsExist
  <2>2. Q(CHOOSE k : Q(k))
    BY <2>1
  <2> QED
    BY <1>2, <1>5, <2>2, Zenon
<1>10. f[d] = g[d]
  <2>1. h[Live] = k[Live]
    BY <1>3, <1>8, <1>9, Zenon
  <2>2. \A x \in Live : f[x] \in Nat /\ g[x] \in Nat /\ g[x] <= f[x]
    BY <1>7
  <2>3. Sums(f, Live, h) /\ Sums(g, Live, k) /\ d \in Live
    BY <1>8, <1>9, Zenon
  <2> QED
    BY <1>6, <2>1, <2>2, <2>3, SumsAgree
<1> QED
  BY <1>7, <1>10

\* Only a run that has gone through everything succeeds.
LEMMA Concluded ==
  ASSUME PaperKinds, PaperlessNext, Concludes, import'.state = "succeeded"
  PROVE  FinishPaper /\ doing.stage = 6 /\ papers' = papers
<1>1. CASE PeopleEdit \/ FetchSnapshot \/ Within
  BY <1>1 DEF PeopleEdit, FetchSnapshot, Within, jobVars, Concludes
<1>2. CASE ClaimPaper
  BY <1>2, Claimed DEF Concludes
<1>3. CASE BeginPaperStage \/ EndPaperStage
  <2>1. doing'.n = 1 \/ doing'.stage \in 2 .. 6
    BY <1>3, StagesAre DEF BeginPaperStage, EndPaperStage, Idle, PaperKinds, JobKinds
  <2> QED
    BY <2>1, IdleAndOff DEF Concludes
<1>4. CASE FinishPaper
  BY <1>4, StagesAre DEF FinishPaper
<1>5. CASE Counted
  <2>1. Advancing => doing'.n # 0
    BY DEF Advancing, PaperKinds, JobKinds
  <2> QED
    BY <1>5, <2>1, CountedIs, IdleAndOff DEF Concludes
<1>6. CASE Broken
  BY <1>6 DEF Broken
<1> QED
  BY <1>1, <1>2, <1>3, <1>4, <1>5, <1>6, Ways DEF PaperlessNext, RunStep, RunItself

LEMMA ReportStep ==
  ASSUME PaperInv, Partial, NotesKept, LinksKept, PaperlessNext \/ UNCHANGED paperVars
  PROVE  PaperlessReportHolds
<1> USE DEF PaperInv
<1>1. SUFFICES ASSUME Concludes, import'.state = "succeeded", ReportPasses, edits <= 1, NEW d \in Live
               PROVE  /\ Paperless.tagged[d] \subseteq papers.tagged[d] /\ Texts(d) \subseteq papers.note[d]
                      /\ ToSet(Paperless.links[d]) \cap Live \subseteq ToSet(papers.link[d])
                      /\ papers.attached[d] # "none" \/ d \in Missing
  BY DEF PaperlessReportHolds
<1>2. PaperlessNext
  BY <1>1 DEF Concludes, paperVars, jobVars
<1>3. doing.stage = 6 /\ reach = Paperless.count
  BY <1>1, <1>2, Concluded DEF Reached
<1>4. d \in Docs /\ d <= reach /\ Active = Live /\ TagsSum /\ NotesSum /\ FilesCarried
  BY <1>1, <1>3, Report, DocsAre DEF Live
<1>5. Paperless.tagged[d] \subseteq papers.tagged[d]
  BY <1>1, <1>4, TagsArrived
<1>6. papers.own = {} => Texts(d) \subseteq papers.note[d]
  BY <1>1, <1>4, NotesArrived
<1>7. ASSUME papers.own # {} PROVE Texts(d) \subseteq papers.note[d]
  <2>1. edits = 1
    BY <1>1, <1>7, PaperlessSetup DEF NotesKept, PaperKinds
  <2> QED
    BY <1>4, <1>7, <2>1 DEF NotesKept, Intact
<1>8. ToSet(Paperless.links[d]) \cap Live \subseteq ToSet(papers.link[d])
  BY <1>1, <1>3 DEF LinksKept, Passed
<1>9. papers.attached[d] # "none" \/ d \in Missing
  BY <1>1, <1>4 DEF FilesCarried
<1> QED
  BY <1>5, <1>6, <1>7, <1>8, <1>9

-----------------------------------------------------------------------------
(* Paperless: the theorems *)

\* What is known of an import from Paperless, whatever people do meanwhile.
PaperKnown == PaperInv /\ Undisturbed /\ Partial /\ NotesKept /\ LinksKept

LEMMA PaperKnownInit == PaperlessInit => PaperKnown
<1>1. SUFFICES ASSUME PaperlessInit PROVE PaperKnown
  OBVIOUS
<1>2. /\ doing = Idle /\ errand.step = "off" /\ reach = 0 /\ edits = 0 /\ import.cursor = 0
      /\ papers.item = [d \in Docs |-> "none"] /\ papers.tagged = [d \in Docs |-> {}]
      /\ papers.note = [d \in Docs |-> {}] /\ papers.own = {}
  BY <1>1, IdleAndOff DEF PaperlessInit, JobInit, NoCursor
<1>3. ~ Fetched /\ Live = {}
  BY <1>2 DEF Fetched, Live
<1>4. \A d \in Docs : ~ d <= reach
  BY <1>2, DocsAre
<1> QED
  BY <1>1, <1>2, <1>3, <1>4, PaperInvInit DEF PaperKnown, Undisturbed, Partial, NotesKept, LinksKept, Writing

LEMMA PaperKnownStep == ASSUME PaperKnown, PaperlessNext \/ UNCHANGED paperVars PROVE PaperKnown'
<1> USE DEF PaperKnown
<1>1. CASE PaperlessNext
  <2>1. PaperInv' /\ Undisturbed'
    BY <1>1, PaperInvStep, UndisturbedStep
  <2>2. Partial' /\ NotesKept' /\ LinksKept'
    BY <1>1, PartialStep, NotesStep, LinksKeptStep DEF PaperInv
  <2> QED
    BY <2>1, <2>2
<1>2. CASE UNCHANGED paperVars
  <2>1. UNCHANGED <<import, doing, papers, reach, errand, edits>>
    BY <1>2 DEF paperVars, jobVars
  <2>2. PaperInv' /\ Undisturbed'
    BY <1>2, <2>1, PaperInvStep DEF Undisturbed, Fetched
  <2>3. Partial' /\ NotesKept' /\ LinksKept'
    BY <2>1 DEF Partial, NotesKept, LinksKept, Intact, Fetched, Passed, Live
  <2> QED
    BY <2>2, <2>3
<1> QED
  BY <1>1, <1>2

\* It holds of every import from Paperless.
THEOREM PaperKnownHolds == Spec => [](kind = "paperless" => PaperKnown)
<1>1. Init => (kind = "paperless" => PaperKnown)
  BY PaperKnownInit DEF Init
<1>2. (kind = "paperless" => PaperKnown) /\ [Next]_vars => (kind = "paperless" => PaperKnown)'
  <2>1. ASSUME [Next]_vars, kind' = "paperless"
        PROVE  kind = "paperless" /\ (PaperlessNext \/ UNCHANGED paperVars)
    BY <2>1 DEF Next, vars
  <2> QED
    BY <2>1, PaperKnownStep
<1> QED
  BY <1>1, <1>2, PTL DEF Spec

-----------------------------------------------------------------------------
(* Zotero: types, and where a run is *)

Cs == ToSet(Zotero.collections)
Marks == ToSet(Zotero.annotations)
Places == {Place(f) : f \in Files}
Documents == {Zotero.bytes[f] : f \in Files} \ {Nothing}
States == {"none", "live", "trashed"}

LibKind ==
  [collection : [Cs -> States], tags : SUBSET ToSet(Zotero.tags), creators : SUBSET ToSet(Zotero.creators),
   item : [Hosts -> States],
   authors : [Items -> {Zotero.authors[i] : i \in Items} \cup {<<>>}],
   key : [Items -> {Zotero.claim[i] : i \in Items} \cup {Nothing}],
   tagged : [Hosts -> SUBSET ToSet(Zotero.tags)], filed : [Hosts -> SUBSET Cs],
   documents : SUBSET Documents, provenance : SUBSET Files,
   attachment : [Hosts -> [Places -> Status]], note : [NoteKeys -> Seq(Status)], annotation : [Marks -> Status], related : SUBSET ToSet(Zotero.relations)]

ShelfRow ==
  /\ import \in [state : {"none", "running", "succeeded", "failed", "cancelled"}, cursor : 0 .. 10]
  /\ doing \in [stage : 0 .. 11, n : Nat, made : BOOLEAN, left : {<<>>} \cup [NoteKeys -> Nat]]
  /\ stops \in 0 .. MaxStops /\ touches \in 0 .. MaxTouches
  /\ touched \in BOOLEAN /\ settled \in {"no", "began", "ended"}

ShelfKinds ==
  /\ ShelfRow /\ lib \in LibKind
  /\ halved \subseteq Standing /\ log \subseteq Files \cup {i \in Items : Drops(i)}

\* Where a run is, and that the row says so.
OnShelf ==
  /\ doing = Idle <=> doing.stage = 0
  /\ doing.n = 0 => ~ doing.made
  /\ doing.n # 0 /\ doing.stage = 6 => doing.left \in [NoteKeys -> Nat]
  /\ doing # Idle => import.state = "running" /\ import.cursor \in {doing.stage - 1, doing.stage}
  /\ doing.n # 0 => import.cursor = doing.stage
  /\ doing.stage \in {0, 11} => doing.n = 0
  /\ doing.stage \in 1 .. 10 => doing.n <= Len(Rows(Stages[doing.stage])) + 1
  /\ doing.made => (In("attachments") /\ This \in Standing /\ lib.item[This] # "none") \/ In("notes")
  /\ import.state = "succeeded" => import.cursor = 10

LEMMA ShelfStages ==
  /\ DOMAIN Stages = 1 .. 10 /\ Len(Stages) = 10
  /\ Stages[1] = "collections" /\ Stages[2] = "tags" /\ Stages[3] = "creators" /\ Stages[4] = "items"
  /\ Stages[5] = "attachments" /\ Stages[6] = "notes" /\ Stages[7] = "annotations" /\ Stages[8] = "relations"
  /\ Stages[9] = "trash" /\ Stages[10] = "finalise"
  BY DEF Stages

LEMMA ShelfRows ==
  /\ Rows("collections") = Zotero.collections /\ Rows("tags") = Zotero.tags /\ Rows("creators") = Zotero.creators
  /\ Rows("items") = Zotero.items /\ Rows("attachments") = Zotero.attachments /\ Rows("notes") = Zotero.notes
  /\ Rows("annotations") = Zotero.annotations /\ Rows("relations") = Zotero.relations
  /\ Rows("trash") = <<"all">> /\ Rows("finalise") = Zotero.items
  BY DEF Rows

\* Records have numbers.
Listed(s) == /\ Len(s) \in Nat /\ DOMAIN s = 1 .. Len(s)
             /\ \A m \in DOMAIN s : m # 0 /\ m \in Nat /\ s[m] \in ToSet(s)
             /\ \A x \in ToSet(s) : \E m \in DOMAIN s : s[m] = x

LEMMA ListedSeq == ASSUME NEW s, s \in Seq(ToSet(s)) PROVE Listed(s)
  BY DEF Listed, ToSet

LEMMA ShelfLists ==
  /\ Listed(Zotero.collections) /\ Listed(Zotero.tags) /\ Listed(Zotero.creators) /\ Listed(Zotero.items)
  /\ Listed(Zotero.attachments) /\ Listed(Zotero.notes) /\ Listed(Zotero.annotations) /\ Listed(Zotero.relations)
<1>1. \A stage \in {"collections", "tags", "creators", "items", "attachments", "notes", "annotations",
                    "relations"} : Listed(Zotero[stage])
  BY ZoteroLibrary, ListedSeq
<1> QED
  BY <1>1

\* The record a run is at, in each of its stages.
AtRow(s, list) == doing.stage = s /\ doing.n \in DOMAIN list /\ doing.n # 0 /\ This = list[doing.n] /\ This \in ToSet(list)

LEMMA AtRecord ==
  /\ In("collections") <=> AtRow(1, Zotero.collections)
  /\ In("tags") <=> AtRow(2, Zotero.tags)
  /\ In("creators") <=> AtRow(3, Zotero.creators)
  /\ In("items") <=> AtRow(4, Zotero.items)
  /\ In("attachments") <=> AtRow(5, Zotero.attachments)
  /\ In("notes") <=> AtRow(6, Zotero.notes)
  /\ In("annotations") <=> AtRow(7, Zotero.annotations)
  /\ In("relations") <=> AtRow(8, Zotero.relations)
  /\ In("trash") <=> doing.stage = 9 /\ doing.n = 1
  /\ In("finalise") <=> AtRow(10, Zotero.items)
<1>1. ASSUME NEW s \in 1 .. 10, NEW stage, Stages[s] = stage, \A r \in 1 .. 10 : Stages[r] = stage => r = s,
             NEW list, Rows(stage) = list, Listed(list)
      PROVE  In(stage) <=> AtRow(s, list)
  BY <1>1, ShelfStages, Zenon DEF In, AtRow, This, Listed
<1>2. In("trash") <=> doing.stage = 9 /\ doing.n = 1
  BY ShelfStages, ShelfRows DEF In
<1> QED
  BY <1>1, <1>2, ShelfStages, ShelfRows, ShelfLists

-----------------------------------------------------------------------------
(* Zotero: the steps of a run *)

ShelfItself == Start \/ BeginStage \/ EndStage \/ ReportRun

\* It is one of a run's steps.
ShelfStep ==
  \/ ShelfItself \/ CutRun
  \/ ImportCollection \/ ImportTag \/ ImportCreator \/ ImportItem \/ ImportAttachment
  \/ ImportNote \/ ImportAnnotation \/ ImportRelations \/ ApplyTrash \/ FinaliseItem

\* A collection is there with all above it.
Made(c) == \A d \in ToSet(Zotero.line[c]) : lib.collection[d] # "none"
TrashDone == ItemsDue \cup NotesDue \cup FilesDue \cup MarksDue \cup CollectionsDue = {}
KeyDone(i) == Defers(i) => lib.key[i] = Zotero.claim[i]

\* A record is counted, or the run is aborted there.
Tallies ==
  /\ UNCHANGED <<lib, log, halved, settled, touches, touched>>
  /\ \/ /\ import' = import /\ stops' = stops
        /\ doing' = [doing EXCEPT !.n = @ + 1, !.made = FALSE]
     \/ /\ import' = [import EXCEPT !.state = "cancelled"] /\ stops' \in 0 .. MaxStops
        /\ doing' = Idle

\* How a record comes to be counted, in each stage.
Tallied ==
  /\ Tallies
  /\ \/ AtRow(1, Zotero.collections) /\ Made(This)
     \/ AtRow(2, Zotero.tags) /\ This \in lib.tags
     \/ AtRow(3, Zotero.creators) /\ This \in lib.creators
     \/ AtRow(4, Zotero.items) /\ lib.item[This] = "trashed"
     \/ /\ AtRow(4, Zotero.items) /\ lib.item[This] = "live"
        /\ lib.authors[This] = Zotero.authors[This] /\ Sorted(This) /\ (Drops(This) => This \in log)
     \/ /\ AtRow(5, Zotero.attachments) /\ This \in log
        /\ Placed /\ lib.attachment[Host(This)][Place(This)] # "none"
     \/ AtRow(6, Zotero.notes) /\ doing.made
     \/ /\ AtRow(7, Zotero.annotations)
        /\ Zotero.bytes[Zotero.on[This]] \notin lib.documents \/ lib.annotation[This] # "none"
     \/ AtRow(8, Zotero.relations) /\ This \in lib.related
     \/ doing.stage = 9 /\ doing.n = 1 /\ TrashDone
     \/ AtRow(10, Zotero.items) /\ KeyDone(This)

\* The run is over and has not got further.
Halts ==
  /\ doing # Idle /\ doing' = Idle
  /\ \E state \in {"failed", "running"} : import' = [import EXCEPT !.state = state]
  /\ UNCHANGED <<lib, log, settled, touches, touched>>
  /\ halved' = Halved /\ stops' \in 0 .. MaxStops

\* What a run writes of the record it is at.
PutsCollection ==
  /\ AtRow(1, Zotero.collections)
  /\ \E c \in Cs : lib.collection[c] = "none" /\ lib' = [lib EXCEPT !.collection[c] = "live"]
PutsName ==
  \/ AtRow(2, Zotero.tags) /\ lib' = [lib EXCEPT !.tags = @ \cup {This}]
  \/ AtRow(3, Zotero.creators) /\ lib' = [lib EXCEPT !.creators = @ \cup {This}]
  \/ AtRow(8, Zotero.relations) /\ lib' = [lib EXCEPT !.related = @ \cup {This}]
PutsItem ==
  /\ AtRow(4, Zotero.items)
  /\ \/ /\ lib.item[This] = "none"
        /\ lib' = [lib EXCEPT !.item[This] = "live",
                              !.key[This] = IF Keeps(This) THEN Zotero.claim[This] ELSE Nothing]
     \/ /\ lib.item[This] = "live" /\ lib.authors[This] # Zotero.authors[This]
        /\ lib' = [lib EXCEPT !.authors[This] = Zotero.authors[This]]
Sorts ==
  /\ This \in Hosts
  /\ \/ AtRow(4, Zotero.items) /\ lib.item[This] = "live"
     \/ AtRow(5, Zotero.attachments) /\ doing.made /\ lib.item[This] # "none"
  /\ \/ \E t \in Zotero.tagged[This] \ lib.tagged[This] : lib' = [lib EXCEPT !.tagged[This] = @ \cup {t}]
     \/ \E c \in Zotero.filed[This] \ lib.filed[This] : lib' = [lib EXCEPT !.filed[This] = @ \cup {c}]
PutsFile ==
  /\ AtRow(5, Zotero.attachments) /\ lib.item[Host(This)] # "none"
  /\ \/ /\ Stored /\ Zotero.bytes[This] \notin lib.documents
        /\ lib' = [lib EXCEPT !.documents = @ \cup {Zotero.bytes[This]}, !.provenance = @ \cup {This}]
     \/ Stored /\ This \notin lib.provenance /\ lib' = [lib EXCEPT !.provenance = @ \cup {This}]
     \/ /\ lib.attachment[Host(This)][Place(This)] = "none"
        /\ lib' = [lib EXCEPT !.attachment[Host(This)][Place(This)] = "live"]
PutsMark ==
  /\ AtRow(7, Zotero.annotations)
  /\ Zotero.bytes[Zotero.on[This]] \in lib.documents /\ lib.annotation[This] = "none"
  /\ lib' = [lib EXCEPT !.annotation[This] = "live"]
PutsKey ==
  /\ AtRow(10, Zotero.items) /\ ~ KeyDone(This)
  /\ lib' = [lib EXCEPT !.key[This] = Zotero.claim[This]]

\* What it puts in the trash.
BinsItem == \E i \in ItemsDue : lib' = WithChildren(i, "trashed", "live", "with")
BinsPart ==
  /\ ItemsDue = {}
  /\ \/ \E n \in NotesDue : lib' = [lib EXCEPT !.note[NoteKey(n)][1] = "trashed"]
     \/ \E f \in FilesDue : lib' = [lib EXCEPT !.attachment[Host(f)][Place(f)] = "trashed"]
     \/ \E a \in MarksDue : lib' = [lib EXCEPT !.annotation[a] = "trashed"]
BinsCollection == \E c \in CollectionsDue : lib' = CollectionTrashed(c)
Bins == doing.stage = 9 /\ doing.n = 1 /\ (BinsItem \/ BinsPart \/ BinsCollection)

\* What it remembers of the record.
MakesHost ==
  /\ AtRow(5, Zotero.attachments) /\ This \in Standing /\ lib.item[This] = "none"
  /\ lib' = [lib EXCEPT !.item[This] = "live"] /\ doing' = [doing EXCEPT !.made = TRUE] /\ log' = log
FindsNote ==
  /\ AtRow(6, Zotero.notes) /\ ~ doing.made /\ doing.left[NoteKey(This)] > 0
  /\ doing' = [doing EXCEPT !.made = TRUE, !.left[NoteKey(This)] = @ - 1] /\ UNCHANGED <<lib, log>>
AddsNote ==
  /\ AtRow(6, Zotero.notes) /\ ~ doing.made /\ doing.left[NoteKey(This)] = 0 /\ Receives(NoteKey(This)[1])
  /\ lib' = [lib EXCEPT !.note[NoteKey(This)] = Append(@, "live")]
  /\ doing' = [doing EXCEPT !.made = TRUE] /\ log' = log
Notices ==
  /\ (AtRow(4, Zotero.items) /\ Drops(This)) \/ AtRow(5, Zotero.attachments)
  /\ log' = log \cup {This} /\ UNCHANGED <<lib, doing>>

Shelved == PutsCollection \/ PutsName \/ PutsItem \/ Sorts \/ PutsFile \/ PutsMark \/ PutsKey \/ Bins

Works ==
  /\ UNCHANGED <<import, stops, touches, touched, settled, halved>>
  /\ \/ Shelved /\ UNCHANGED <<doing, log>>
     \/ MakesHost \/ FindsNote \/ AddsNote \/ Notices

LEMMA TalliesWhen == ASSUME ShelfKinds, Advance PROVE Tallies
  BY ImportSetup DEF Advance, AbortRun, End, Tallies, ShelfKinds, ShelfRow

LEMMA HaltsWhen ==
  ASSUME ShelfKinds, OnShelf, \/ CutRun
                              \/ Throw /\ UNCHANGED <<lib, halved>> /\ ~ In("attachments") /\ doing # Idle
  PROVE  Halts
  BY ImportSetup DEF CutRun, Throw, Cut, End, Halts, Halved, ShelfKinds, ShelfRow

LEMMA WorksWhen == ASSUME NEW l, Write(l), (lib' = l => Shelved) PROVE Works
  BY DEF Write, Works, jobVars

LEMMA WaysOfNames ==
  ASSUME ShelfKinds, OnShelf, ImportCollection \/ ImportTag \/ ImportCreator \/ ImportRelations
  PROVE  Tallied \/ Works
<1>1. CASE ImportCollection
  <2>1. AtRow(1, Zotero.collections) /\ Zotero.line[This] \in Seq(Cs)
    BY <1>1, AtRecord, ZoteroLibrary, Zenon DEF ImportCollection, AtRow, Cs
  <2> DEFINE absent == {m \in DOMAIN Zotero.line[This] : lib.collection[Zotero.line[This][m]] = "none"}
  <2>2. CASE absent = {}
    <3>1. Made(This)
      BY <2>1, <2>2 DEF Made, ToSet
    <3> QED
      BY <1>1, <2>1, <2>2, <3>1, TalliesWhen DEF ImportCollection, Tallied
  <2>3. CASE absent # {}
    <3> DEFINE m == CHOOSE m \in absent : \A k \in absent : m <= k
    <3>1. m \in absent
      <4>1. absent \subseteq Nat
        BY <2>1
      <4>2. \E n \in absent : \A k \in absent : n <= k
        BY <2>3, <4>1, LeastNumber, Zenon
      <4> QED
        BY <4>2
    <3>2. Write([lib EXCEPT !.collection[Zotero.line[This][m]] = "live"])
      BY <1>1, <2>3, Zenon DEF ImportCollection
    <3> HIDE DEF m
    <3>3. Zotero.line[This][m] \in Cs /\ lib.collection[Zotero.line[This][m]] = "none"
      BY <2>1, <3>1
    <3> QED
      BY <2>1, <3>2, <3>3, WorksWhen DEF PutsCollection, Shelved
  <2> QED
    BY <2>2, <2>3
<1>2. CASE ImportTag
  <2>1. AtRow(2, Zotero.tags)
    BY <1>2, AtRecord DEF ImportTag
  <2> QED
    BY <1>2, <2>1, TalliesWhen, WorksWhen DEF ImportTag, Tallied, PutsName, Shelved
<1>3. CASE ImportCreator
  <2>1. AtRow(3, Zotero.creators)
    BY <1>3, AtRecord DEF ImportCreator
  <2> QED
    BY <1>3, <2>1, TalliesWhen, WorksWhen DEF ImportCreator, Tallied, PutsName, Shelved
<1>4. CASE ImportRelations
  <2>1. AtRow(8, Zotero.relations)
    BY <1>4, AtRecord DEF ImportRelations
  <2> QED
    BY <1>4, <2>1, TalliesWhen, WorksWhen DEF ImportRelations, Tallied, PutsName, Shelved
<1> QED
  BY <1>1, <1>2, <1>3, <1>4

LEMMA SortsWhen ==
  ASSUME Sort(This), This \in Hosts,
         \/ AtRow(4, Zotero.items) /\ lib.item[This] = "live"
         \/ AtRow(5, Zotero.attachments) /\ doing.made /\ lib.item[This] # "none"
  PROVE  Works
<1>1. CASE \E t \in Zotero.tagged[This] \ lib.tagged[This] : Write([lib EXCEPT !.tagged[This] = @ \cup {t}])
  BY <1>1, Zenon DEF Write, Works, jobVars, Shelved, Sorts
<1>2. CASE \E c \in Zotero.filed[This] \ lib.filed[This] : Write([lib EXCEPT !.filed[This] = @ \cup {c}])
  BY <1>2, Zenon DEF Write, Works, jobVars, Shelved, Sorts
<1> QED
  BY <1>1, <1>2, Zenon DEF Sort

LEMMA WaysOfItems ==
  ASSUME ShelfKinds, OnShelf, ImportItem \/ ImportAttachment
  PROVE  Tallied \/ Works
<1>1. CASE ImportItem
  <2>1. AtRow(4, Zotero.items) /\ This \in Hosts
    BY <1>1, AtRecord DEF ImportItem, Hosts, Items, AtRow
  <2>2. CASE lib.item[This] = "trashed" /\ Advance
    BY <2>1, <2>2, TalliesWhen DEF Tallied
  <2>3. CASE lib.item[This] = "none"
             /\ Write([lib EXCEPT !.item[This] = "live", !.key[This] = IF Keeps(This) THEN Zotero.claim[This] ELSE Nothing])
    BY <2>1, <2>3, WorksWhen DEF PutsItem, Shelved
  <2>4. CASE lib.item[This] = "live" /\ lib.authors[This] # Zotero.authors[This]
             /\ Write([lib EXCEPT !.authors[This] = Zotero.authors[This]])
    BY <2>1, <2>4, WorksWhen DEF PutsItem, Shelved
  <2>5. CASE lib.item[This] = "live" /\ Sort(This)
    BY <2>1, <2>5, SortsWhen
  <2>6. CASE Drops(This) /\ log' = log \cup {This}
             /\ UNCHANGED <<import, doing, stops, touches, touched, settled, lib, halved>>
    BY <2>1, <2>6 DEF Works, Notices
  <2>7. CASE /\ lib.item[This] = "live" /\ lib.authors[This] = Zotero.authors[This] /\ Sorted(This)
             /\ Drops(This) => This \in log
             /\ Advance
    BY <2>1, <2>7, TalliesWhen DEF Tallied
  <2> QED
    BY <1>1, <2>2, <2>3, <2>4, <2>5, <2>6, <2>7 DEF ImportItem
<1>2. CASE ImportAttachment
  <2>1. AtRow(5, Zotero.attachments) /\ In("attachments") /\ ~ In("notes")
    BY <1>2, AtRecord DEF ImportAttachment, AtRow
  <2>2. CASE MakeHost
    BY <2>1, <2>2 DEF MakeHost, Make, Works, MakesHost
  <2>3. CASE doing.made /\ Sort(This)
    <3>1. This \in Hosts /\ lib.item[This] # "none"
      BY <2>1, <2>3 DEF OnShelf, Hosts
    <3> QED
      BY <2>1, <2>3, <3>1, SortsWhen
  <2>4. CASE IngestBuffer \/ EnsureDocumentProvenance \/ Attach
    <3>1. lib.item[Host(This)] # "none"
      BY <2>4 DEF IngestBuffer, EnsureDocumentProvenance, Attach, Placed, Hosted
    <3> QED
      BY <2>1, <2>4, <3>1, WorksWhen DEF IngestBuffer, EnsureDocumentProvenance, Attach, PutsFile, Shelved
  <2>5. CASE AttachmentOutcome
    BY <2>1, <2>5 DEF AttachmentOutcome, Works, Notices
  <2>6. CASE Placed /\ lib.attachment[Host(This)][Place(This)] # "none" /\ This \in log /\ Advance
    BY <2>1, <2>6, TalliesWhen DEF Tallied
  <2> QED
    BY <1>2, <2>2, <2>3, <2>4, <2>5, <2>6 DEF ImportAttachment
<1> QED
  BY <1>1, <1>2

LEMMA WaysOfNotes ==
  ASSUME ShelfKinds, OnShelf, ImportNote \/ ImportAnnotation
  PROVE  Tallied \/ Halts \/ Works
<1>1. CASE ImportNote
  <2>1. AtRow(6, Zotero.notes) /\ ~ In("attachments") /\ doing # Idle
    BY <1>1, AtRecord DEF ImportNote, AtRow, OnShelf
  <2> DEFINE k == NoteKey(This)
  <2>2. CASE /\ ~ doing.made /\ doing.left[k] > 0
             /\ doing' = [doing EXCEPT !.made = TRUE, !.left[k] = @ - 1]
             /\ UNCHANGED <<import, log, stops, touches, touched, settled, lib, halved>>
    BY <2>1, <2>2 DEF Works, FindsNote
  <2>3. CASE ~ doing.made /\ doing.left[k] = 0 /\ Receives(k[1]) /\ Make([lib EXCEPT !.note[k] = Append(@, "live")])
    BY <2>1, <2>3 DEF Make, Works, AddsNote
  <2>4. CASE Throw /\ UNCHANGED <<lib, halved>>
    BY <2>1, <2>4, HaltsWhen
  <2>5. CASE doing.made /\ Advance
    BY <2>1, <2>5, TalliesWhen DEF Tallied
  <2> QED
    BY <1>1, <2>2, <2>3, <2>4, <2>5 DEF ImportNote
<1>2. CASE ImportAnnotation
  <2>1. AtRow(7, Zotero.annotations)
    BY <1>2, AtRecord DEF ImportAnnotation
  <2> QED
    BY <1>2, <2>1, TalliesWhen, WorksWhen DEF ImportAnnotation, Tallied, PutsMark, Shelved
<1> QED
  BY <1>1, <1>2

LEMMA WaysOfTrash ==
  ASSUME ShelfKinds, OnShelf, ApplyTrash \/ FinaliseItem
  PROVE  Tallied \/ Halts \/ Works
<1>1. CASE ApplyTrash
  <2>1. doing.stage = 9 /\ doing.n = 1
    BY <1>1, AtRecord DEF ApplyTrash
  <2>2. CASE \E i \in ItemsDue : Write(WithChildren(i, "trashed", "live", "with"))
    BY <2>1, <2>2 DEF Write, Works, jobVars, Shelved, Bins, BinsItem
  <2>3. CASE /\ ItemsDue = {}
             /\ \/ \E n \in NotesDue : Write([lib EXCEPT !.note[NoteKey(n)][1] = "trashed"])
                \/ \E f \in FilesDue : Write([lib EXCEPT !.attachment[Host(f)][Place(f)] = "trashed"])
                \/ \E a \in MarksDue : Write([lib EXCEPT !.annotation[a] = "trashed"])
    BY <2>1, <2>3 DEF Write, Works, jobVars, Shelved, Bins, BinsPart
  <2>4. CASE \E c \in CollectionsDue : Write(CollectionTrashed(c))
    BY <2>1, <2>4 DEF Write, Works, jobVars, Shelved, Bins, BinsCollection
  <2>5. CASE ItemsDue \cup NotesDue \cup FilesDue \cup MarksDue = {} /\ CollectionsDue = {} /\ Advance
    BY <2>1, <2>5, TalliesWhen DEF Tallied, TrashDone
  <2> QED
    BY <1>1, <2>2, <2>3, <2>4, <2>5, Zenon DEF ApplyTrash
<1>2. CASE FinaliseItem
  <2>1. AtRow(10, Zotero.items) /\ ~ In("attachments") /\ doing # Idle
    BY <1>2, AtRecord DEF FinaliseItem, AtRow, OnShelf
  <2>2. CASE Throw /\ UNCHANGED <<lib, halved>>
    BY <2>1, <2>2, HaltsWhen
  <2>3. CASE KeyDone(This) /\ Advance
    BY <2>1, <2>3, TalliesWhen DEF Tallied
  <2>4. CASE ~ KeyDone(This) /\ Write([lib EXCEPT !.key[This] = Zotero.claim[This]])
    BY <2>1, <2>4, WorksWhen DEF PutsKey, Shelved
  <2> QED
    BY <1>2, <2>2, <2>3, <2>4 DEF FinaliseItem, KeyDone
<1> QED
  BY <1>1, <1>2

LEMMA ShelfWays ==
  ASSUME ShelfKinds, OnShelf, ShelfStep
  PROVE  ShelfItself \/ Tallied \/ Halts \/ Works
  BY WaysOfNames, WaysOfItems, WaysOfNotes, WaysOfTrash, HaltsWhen DEF ShelfStep

-----------------------------------------------------------------------------
(* Zotero: types *)

LEMMA ShelfParts ==
  /\ \A i \in Items : i \in Hosts /\ i \notin Standing
  /\ \A f \in Files : Host(f) \in Hosts /\ Place(f) \in Places /\ f \notin Items
  /\ \A f \in Files : Zotero.bytes[f] # Nothing => Zotero.bytes[f] \in Documents
  /\ \A f \in Standing : f \in Files /\ f \in Hosts /\ Host(f) = f /\ f \notin Items
  /\ \A n \in ToSet(Zotero.notes) : NoteKey(n) \in NoteKeys /\ NoteKey(n)[1] = Zotero.parent[n]
  /\ \A a \in Marks : Zotero.on[a] \in Files
  /\ \A h \in Hosts : Zotero.tagged[h] \subseteq ToSet(Zotero.tags) /\ Zotero.filed[h] \subseteq Cs
<1>1. \A f \in Files : f \notin Items
  BY ZoteroLibrary
<1>2. \A f \in Files : Place(f) \in Places /\ (Zotero.bytes[f] # Nothing => Zotero.bytes[f] \in Documents)
  BY DEF Places, Documents
<1>3. \A i \in Items : i \in Hosts /\ i \notin Standing
  BY <1>1 DEF Hosts, Standing
<1>4. \A f \in Standing : f \in Files /\ f \in Hosts /\ Host(f) = f
  BY DEF Hosts, Standing, Host
<1>5. \A f \in Files : Host(f) \in Hosts
  BY <1>3, <1>4, ZoteroLibrary DEF Host, Standing
<1>6. \A n \in ToSet(Zotero.notes) : NoteKey(n) \in NoteKeys /\ NoteKey(n)[1] = Zotero.parent[n]
  BY DEF NoteKeys, NoteKey
<1>7. \A a \in Marks : Zotero.on[a] \in Files
  BY ZoteroLibrary DEF Marks
<1>8. \A h \in Hosts : Zotero.tagged[h] \subseteq ToSet(Zotero.tags) /\ Zotero.filed[h] \subseteq Cs
  BY ZoteroLibrary DEF Cs
<1> QED
  BY <1>1, <1>2, <1>3, <1>4, <1>5, <1>6, <1>7, <1>8

\* What goes with an item, or comes back with it.
LEMMA ChildrenAre ==
  ASSUME lib \in LibKind, NEW h \in Hosts, NEW state \in States, NEW from \in Status, NEW to \in Status,
         lib' = WithChildren(h, state, from, to)
  PROVE  /\ lib' \in LibKind
         /\ lib'.item = [lib.item EXCEPT ![h] = state]
         /\ \A g \in Hosts : \A p \in Places :
              lib'.attachment[g][p] = IF g = h THEN Flip(lib.attachment[g][p], from, to) ELSE lib.attachment[g][p]
         /\ \A k \in NoteKeys : /\ Len(lib'.note[k]) = Len(lib.note[k]) /\ DOMAIN lib'.note[k] = DOMAIN lib.note[k]
                                /\ \A m \in DOMAIN lib.note[k] :
                                     lib'.note[k][m] = IF k[1] = h THEN Flip(lib.note[k][m], from, to) ELSE lib.note[k][m]
         /\ \A a \in Marks :
              lib'.annotation[a] = IF Host(Zotero.on[a]) = h THEN Flip(lib.annotation[a], from, to) ELSE lib.annotation[a]
         /\ lib'.collection = lib.collection /\ lib'.tags = lib.tags /\ lib'.creators = lib.creators
         /\ lib'.authors = lib.authors /\ lib'.key = lib.key /\ lib'.tagged = lib.tagged /\ lib'.filed = lib.filed
         /\ lib'.documents = lib.documents /\ lib'.provenance = lib.provenance
         /\ lib'.related = lib.related
<1>1. \A s \in Status : Flip(s, from, to) \in Status
  BY DEF Flip
<1> DEFINE a == [lib.attachment EXCEPT ![h] = [p \in DOMAIN @ |-> Flip(@[p], from, to)]]
           n == [k \in NoteKeys |-> IF k[1] # h THEN lib.note[k]
                                    ELSE [m \in DOMAIN lib.note[k] |-> Flip(lib.note[k][m], from, to)]]
           z == [x \in DOMAIN lib.annotation |-> IF Host(Zotero.on[x]) # h THEN lib.annotation[x]
                                                 ELSE Flip(lib.annotation[x], from, to)]
<1>2. lib' = [lib EXCEPT !.item[h] = state, !.attachment = a, !.note = n, !.annotation = z]
  BY DEF WithChildren, LibKind
<1>3. /\ a \in [Hosts -> [Places -> Status]]
      /\ \A g \in Hosts : \A p \in Places :
           a[g][p] = IF g = h THEN Flip(lib.attachment[g][p], from, to) ELSE lib.attachment[g][p]
  BY <1>1 DEF LibKind
<1>4. /\ n \in [NoteKeys -> Seq(Status)]
      /\ \A k \in NoteKeys : /\ Len(n[k]) = Len(lib.note[k]) /\ DOMAIN n[k] = DOMAIN lib.note[k]
                             /\ \A m \in DOMAIN lib.note[k] :
                                  n[k][m] = IF k[1] = h THEN Flip(lib.note[k][m], from, to) ELSE lib.note[k][m]
  <2>1. ASSUME NEW k \in NoteKeys
        PROVE  /\ n[k] \in Seq(Status) /\ Len(n[k]) = Len(lib.note[k]) /\ DOMAIN n[k] = DOMAIN lib.note[k]
               /\ \A m \in DOMAIN lib.note[k] :
                    n[k][m] = IF k[1] = h THEN Flip(lib.note[k][m], from, to) ELSE lib.note[k][m]
    <3>1. lib.note[k] \in Seq(Status)
      BY DEF LibKind
    <3>2. CASE k[1] # h
      BY <3>1, <3>2
    <3>3. CASE k[1] = h
      <4> DEFINE s == [m \in DOMAIN lib.note[k] |-> Flip(lib.note[k][m], from, to)]
      <4>1. n[k] = s
        BY <3>3
      <4>2. DOMAIN lib.note[k] = 1 .. Len(lib.note[k]) /\ Len(lib.note[k]) \in Nat
            /\ \A m \in DOMAIN lib.note[k] : lib.note[k][m] \in Status
        BY <3>1
      <4>3. s \in [1 .. Len(lib.note[k]) -> Status]
        BY <1>1, <4>2
      <4>4. s \in Seq(Status) /\ Len(s) = Len(lib.note[k])
        BY <4>2, <4>3
      <4> QED
        BY <3>3, <4>1, <4>2, <4>4
    <3> QED
      BY <3>2, <3>3
  <2> QED
    BY <2>1
<1>5. /\ z \in [Marks -> Status]
      /\ \A x \in Marks : z[x] = IF Host(Zotero.on[x]) = h THEN Flip(lib.annotation[x], from, to) ELSE lib.annotation[x]
  BY <1>1 DEF LibKind
<1> HIDE DEF a, n, z
<1>6. /\ lib'.item = [lib.item EXCEPT ![h] = state] /\ lib'.attachment = a /\ lib'.note = n /\ lib'.annotation = z
      /\ lib'.collection = lib.collection /\ lib'.tags = lib.tags /\ lib'.creators = lib.creators
      /\ lib'.authors = lib.authors /\ lib'.key = lib.key /\ lib'.tagged = lib.tagged /\ lib'.filed = lib.filed
      /\ lib'.documents = lib.documents /\ lib'.provenance = lib.provenance /\ lib'.related = lib.related
  BY <1>2 DEF LibKind
<1>7. lib' \in LibKind
  <2>1. [lib.item EXCEPT ![h] = state] \in [Hosts -> States]
    BY DEF LibKind
  <2>2. a \in [Hosts -> [Places -> Status]] /\ n \in [NoteKeys -> Seq(Status)] /\ z \in [Marks -> Status]
    BY <1>3, <1>4, <1>5
  <2> QED
    BY <1>2, <2>1, <2>2, Zenon DEF LibKind
<1> QED
  BY <1>3, <1>4, <1>5, <1>6, <1>7

LEMMA BranchIs ==
  ASSUME lib \in LibKind, NEW c \in Cs, lib' = CollectionTrashed(c)
  PROVE  LET branch == {d \in Cs : c \in ToSet(Zotero.line[d]) /\ lib.collection[d] = "live"}
         IN /\ lib' \in LibKind
            /\ lib' = [lib EXCEPT !.collection = [d \in Cs |-> IF d \in branch THEN "trashed" ELSE lib.collection[d]],
                                  !.filed = [h \in Hosts |-> lib.filed[h] \ branch]]
  BY Zenon DEF CollectionTrashed, LibKind, Cs, States

LEMMA LibTyped == ASSUME lib \in LibKind, Works PROVE lib' \in LibKind
<1>1. CASE PutsCollection
  <2>1. PICK c \in Cs : lib' = [lib EXCEPT !.collection[c] = "live"]
    BY <1>1, Zenon DEF PutsCollection
  <2>2. [lib.collection EXCEPT ![c] = "live"] \in [Cs -> States]
    BY DEF LibKind, States
  <2> QED
    BY <2>1, <2>2, Zenon DEF LibKind
<1>13. CASE PutsName
  <2>1. CASE This \in ToSet(Zotero.tags) /\ lib' = [lib EXCEPT !.tags = @ \cup {This}]
    BY <2>1, Zenon DEF LibKind
  <2>2. CASE This \in ToSet(Zotero.creators) /\ lib' = [lib EXCEPT !.creators = @ \cup {This}]
    BY <2>2, Zenon DEF LibKind
  <2>3. CASE This \in ToSet(Zotero.relations) /\ lib' = [lib EXCEPT !.related = @ \cup {This}]
    BY <2>3, Zenon DEF LibKind
  <2> QED
    BY <1>13, <2>1, <2>2, <2>3 DEF PutsName, AtRow
<1>2. CASE PutsItem
  <2>1. This \in Items /\ This \in Hosts
    BY <1>2, ShelfParts DEF PutsItem, AtRow, Items
  <2>2. CASE lib' = [lib EXCEPT !.item[This] = "live",
                              !.key[This] = IF Keeps(This) THEN Zotero.claim[This] ELSE Nothing]
    <3>1. [lib.item EXCEPT ![This] = "live"] \in [Hosts -> States]
      BY <2>1 DEF LibKind, States
    <3>2. [lib.key EXCEPT ![This] = IF Keeps(This) THEN Zotero.claim[This] ELSE Nothing]
             \in [Items -> {Zotero.claim[i] : i \in Items} \cup {Nothing}]
      BY <2>1 DEF LibKind
    <3> QED
      BY <2>2, <3>1, <3>2, Zenon DEF LibKind
  <2>3. CASE lib' = [lib EXCEPT !.authors[This] = Zotero.authors[This]]
    BY <2>1, <2>3, Zenon DEF LibKind
  <2> QED
    BY <1>2, <2>2, <2>3 DEF PutsItem
<1>3. CASE Sorts
  <2>1. This \in Hosts /\ Zotero.tagged[This] \subseteq ToSet(Zotero.tags) /\ Zotero.filed[This] \subseteq Cs
    BY <1>3, ShelfParts DEF Sorts
  <2>2. ASSUME NEW t \in ToSet(Zotero.tags), lib' = [lib EXCEPT !.tagged[This] = @ \cup {t}] PROVE lib' \in LibKind
    BY <2>1, <2>2, Zenon DEF LibKind
  <2>3. ASSUME NEW c \in Cs, lib' = [lib EXCEPT !.filed[This] = @ \cup {c}] PROVE lib' \in LibKind
    BY <2>1, <2>3, Zenon DEF LibKind
  <2> QED
    BY <1>3, <2>1, <2>2, <2>3 DEF Sorts
<1>4. CASE PutsFile
  <2>1. This \in Files /\ Host(This) \in Hosts /\ Place(This) \in Places /\ (Stored => Zotero.bytes[This] \in Documents)
    BY <1>4, ShelfParts DEF PutsFile, AtRow, Files, Stored
  <2>2. CASE Stored /\ lib' = [lib EXCEPT !.documents = @ \cup {Zotero.bytes[This]}, !.provenance = @ \cup {This}]
    BY <2>1, <2>2, Zenon DEF LibKind
  <2>3. CASE lib' = [lib EXCEPT !.provenance = @ \cup {This}]
    BY <2>1, <2>3, Zenon DEF LibKind
  <2>4. CASE lib' = [lib EXCEPT !.attachment[Host(This)][Place(This)] = "live"]
    <3> DEFINE h == Host(This)  q == Place(This)
    <3>1. [lib.attachment[h] EXCEPT ![q] = "live"] \in [Places -> Status]
      BY <2>1 DEF LibKind, Status
    <3>2. [lib.attachment EXCEPT ![h] = [@ EXCEPT ![q] = "live"]] \in [Hosts -> [Places -> Status]]
      BY <2>1, <3>1 DEF LibKind
    <3> QED
      BY <2>4, <3>2, Zenon DEF LibKind
  <2> QED
    BY <1>4, <2>2, <2>3, <2>4 DEF PutsFile
<1>5. CASE PutsMark
  BY <1>5, Zenon DEF PutsMark, AtRow, Marks, LibKind, Status
<1>6. CASE PutsKey
  BY <1>6, Zenon DEF PutsKey, AtRow, Items, LibKind
<1>7. CASE BinsItem
  <2>1. \A i \in ItemsDue : i \in Hosts
    BY ShelfParts DEF ItemsDue
  <2> QED
    BY <1>7, <2>1, ChildrenAre, Zenon DEF BinsItem, States, Status
<1>8. CASE BinsPart
  <2>1. ASSUME NEW n \in NotesDue, lib' = [lib EXCEPT !.note[NoteKey(n)][1] = "trashed"] PROVE lib' \in LibKind
    <3>1. NoteKey(n) \in NoteKeys /\ lib.note[NoteKey(n)] # <<>>
      BY <2>1, ShelfParts DEF NotesDue
    <3>2. lib.note[NoteKey(n)] \in Seq(Status)
      BY <3>1 DEF LibKind
    <3>3. [lib.note[NoteKey(n)] EXCEPT ![1] = "trashed"] \in Seq(Status)
      BY <3>1, <3>2 DEF Status
    <3>4. [lib.note EXCEPT ![NoteKey(n)] = [@ EXCEPT ![1] = "trashed"]] \in [NoteKeys -> Seq(Status)]
      BY <3>1, <3>3 DEF LibKind
    <3> QED
      BY <2>1, <3>4, Zenon DEF LibKind
  <2>2. ASSUME NEW f \in FilesDue, lib' = [lib EXCEPT !.attachment[Host(f)][Place(f)] = "trashed"] PROVE lib' \in LibKind
    BY <2>2, ShelfParts, Zenon DEF FilesDue, LibKind, Status
  <2>3. ASSUME NEW a \in MarksDue, lib' = [lib EXCEPT !.annotation[a] = "trashed"] PROVE lib' \in LibKind
    BY <2>3, Zenon DEF MarksDue, Marks, LibKind, Status
  <2> QED
    BY <1>8, <2>1, <2>2, <2>3 DEF BinsPart
<1>9. CASE BinsCollection
  <2>1. \A c \in CollectionsDue : c \in Cs
    BY DEF CollectionsDue, Cs
  <2> QED
    BY <1>9, <2>1, BranchIs, Zenon DEF BinsCollection
<1>10. CASE MakesHost
  BY <1>10, ShelfParts, Zenon DEF MakesHost, LibKind, States
<1>11. CASE AddsNote
  <2>1. NoteKey(This) \in NoteKeys
    BY <1>11, ShelfParts DEF AddsNote, AtRow
  <2>2. Append(lib.note[NoteKey(This)], "live") \in Seq(Status)
    BY <2>1 DEF LibKind, Status
  <2> QED
    BY <1>11, <2>1, <2>2, Zenon DEF AddsNote, LibKind
<1>12. CASE FindsNote \/ Notices
  BY <1>12 DEF FindsNote, Notices
<1> QED
  BY <1>1, <1>2, <1>3, <1>4, <1>5, <1>6, <1>7, <1>8, <1>9, <1>10, <1>11, <1>12, <1>13 DEF Works, Shelved, Bins

LEMMA NoteRemoved ==
  ASSUME NEW s \in Seq(Status), NEW m \in DOMAIN s
  PROVE  RemoveAt(s, m) \in Seq(Status) /\ Len(RemoveAt(s, m)) = Len(s) - 1
<1>1. m \in 1 .. Len(s) /\ Len(s) \in Nat
  OBVIOUS
<1>2. SubSeq(s, 1, m - 1) \in Seq(Status) /\ Len(SubSeq(s, 1, m - 1)) = m - 1
  BY <1>1
<1>3. SubSeq(s, m + 1, Len(s)) \in Seq(Status) /\ Len(SubSeq(s, m + 1, Len(s))) = Len(s) - m
  BY <1>1
<1>4. \A a, b \in Seq(Status) : a \o b \in Seq(Status) /\ Len(a \o b) = Len(a) + Len(b)
  OBVIOUS
<1> DEFINE a == SubSeq(s, 1, m - 1)  b == SubSeq(s, m + 1, Len(s))
<1>5. RemoveAt(s, m) = a \o b
  BY DEF RemoveAt
<1> HIDE DEF a, b
<1>6. a \in Seq(Status) /\ b \in Seq(Status) /\ Len(a) = m - 1 /\ Len(b) = Len(s) - m
  BY <1>2, <1>3 DEF a, b
<1> QED
  BY <1>1, <1>4, <1>5, <1>6

\* What people change of the library.
Changed ==
  \/ \E h \in Hosts : lib.item[h] = "live" /\ lib' = WithChildren(h, "trashed", "live", "with")
  \/ \E h \in Hosts : lib.item[h] = "trashed" /\ lib' = WithChildren(h, "live", "with", "live")
  \/ \E k \in NoteKeys : \E m \in DOMAIN lib.note[k] : lib' = [lib EXCEPT !.note[k] = RemoveAt(@, m)]

LEMMA PeopleAre ==
  ASSUME ShelfKinds, People
  PROVE  /\ Changed /\ doing.n = 0 /\ touched' = TRUE /\ settled' = "no" /\ touches' \in 0 .. MaxTouches
         /\ UNCHANGED <<import, doing, log, stops, halved>>
  BY ImportSetup DEF People, Touch, TrashItem, RestoreItem, EditNote, Changed, ShelfKinds, ShelfRow

LEMMA ChangedTyped == ASSUME lib \in LibKind, Changed PROVE lib' \in LibKind
<1>1. CASE \E h \in Hosts : lib' = WithChildren(h, "trashed", "live", "with")
  BY <1>1, ChildrenAre, Zenon DEF States, Status
<1>2. CASE \E h \in Hosts : lib' = WithChildren(h, "live", "with", "live")
  BY <1>2, ChildrenAre, Zenon DEF States, Status
<1>3. CASE \E k \in NoteKeys : \E m \in DOMAIN lib.note[k] : lib' = [lib EXCEPT !.note[k] = RemoveAt(@, m)]
  <2>1. PICK k \in NoteKeys : \E m \in DOMAIN lib.note[k] : lib' = [lib EXCEPT !.note[k] = RemoveAt(@, m)]
    BY <1>3
  <2>2. PICK m \in DOMAIN lib.note[k] : lib' = [lib EXCEPT !.note[k] = RemoveAt(@, m)]
    BY <2>1
  <2>3. RemoveAt(lib.note[k], m) \in Seq(Status)
    BY NoteRemoved DEF LibKind
  <2>4. [lib.note EXCEPT ![k] = RemoveAt(@, m)] \in [NoteKeys -> Seq(Status)]
    BY <2>3 DEF LibKind
  <2> QED
    BY <2>2, <2>4, Zenon DEF LibKind
<1> QED
  BY <1>1, <1>2, <1>3 DEF Changed

Doings == [stage : 0 .. 11, n : Nat, made : BOOLEAN, left : {<<>>} \cup [NoteKeys -> Nat]]

LEMMA IdleIs == Idle \in Doings /\ Idle.stage = 0 /\ Idle.n = 0 /\ Idle.made = FALSE /\ Idle.left = <<>>
  BY DEF Idle, NoCursor, Doings

LEMMA IndexTyped == ASSUME lib \in LibKind PROVE NoteIndex \in [NoteKeys -> Nat]
<1>1. \A k \in NoteKeys : Len(lib.note[k]) \in Nat
  BY DEF LibKind
<1> QED
  BY <1>1 DEF NoteIndex

\* Where each of a run's own steps leads.
LEMMA Itself ==
  ASSUME ShelfKinds, OnShelf, ShelfItself
  PROVE  /\ lib' = lib /\ halved' = halved /\ UNCHANGED <<stops, touches, touched>>
         /\ \/ /\ Start /\ doing = Idle /\ Claim(1) /\ import' = [state |-> "running", cursor |-> Resume]
               /\ Resume \in {0, import.cursor} /\ Resume \in 0 .. 10
               /\ doing' = [Idle EXCEPT !.stage = IF Resume = 0 THEN 1 ELSE Resume]
            \/ /\ BeginStage /\ UNCHANGED <<log, settled>> /\ doing.stage \in 1 .. 10 /\ doing.n = 0
               /\ import' = [import EXCEPT !.cursor = doing.stage]
               /\ doing' = [doing EXCEPT !.n = 1, !.left = IF doing.stage = 6 THEN NoteIndex ELSE <<>>]
            \/ /\ EndStage /\ UNCHANGED <<import, log, settled>> /\ doing.stage \in 1 .. 10
               /\ doing.n > Len(Rows(Stages[doing.stage])) /\ doing' = [Idle EXCEPT !.stage = doing.stage + 1]
            \/ /\ ReportRun /\ UNCHANGED log /\ doing.stage = 11 /\ import' = [import EXCEPT !.state = "succeeded"]
               /\ doing' = Idle /\ settled' = IF settled = "began" THEN "ended" ELSE settled
<1>1. CASE Start
  BY <1>1 DEF Start, Claim, Resume, NoCursor, ShelfKinds, ShelfRow
<1>2. CASE BeginStage
  <2>1. doing.stage \in 1 .. 10 /\ (Stages[doing.stage] = "notes" <=> doing.stage = 6)
    BY <1>2, ShelfStages DEF BeginStage
  <2> QED
    BY <1>2, <2>1, Zenon DEF BeginStage, Checkpoint
<1>3. CASE EndStage
  BY <1>3, ShelfStages DEF EndStage
<1>4. CASE ReportRun
  BY <1>4, ShelfStages DEF ReportRun, Succeed, End
<1> QED
  BY <1>1, <1>2, <1>3, <1>4 DEF ShelfItself

LEMMA ShelfTypesStep == ASSUME ShelfKinds, OnShelf, ZoteroNext PROVE ShelfKinds'
<1>0. /\ doing \in Doings /\ lib \in LibKind /\ halved \subseteq Standing
      /\ import \in [state : {"none", "running", "succeeded", "failed", "cancelled"}, cursor : 0 .. 10]
  BY DEF ShelfKinds, ShelfRow, Doings
<1>1. CASE ShelfItself
  <2>1. lib' = lib /\ halved' = halved /\ UNCHANGED <<stops, touches, touched>>
    BY <1>1, Itself
  <2>2. doing' \in Doings
    <3>1. \A s \in 0 .. 11 : [Idle EXCEPT !.stage = s] \in Doings
      BY IdleIs DEF Doings
    <3>2. CASE doing' = [Idle EXCEPT !.stage = IF Resume = 0 THEN 1 ELSE Resume] /\ Resume \in 0 .. 10
      BY <3>1, <3>2
    <3>3. CASE doing' = [Idle EXCEPT !.stage = doing.stage + 1] /\ doing.stage \in 1 .. 10
      BY <3>1, <3>3
    <3>4. CASE doing' = [doing EXCEPT !.n = 1, !.left = IF doing.stage = 6 THEN NoteIndex ELSE <<>>]
      BY <1>0, <3>4, IndexTyped, Zenon DEF Doings
    <3> QED
      BY <1>1, <3>2, <3>3, <3>4, Itself, IdleIs
  <2>3. import' \in [state : {"none", "running", "succeeded", "failed", "cancelled"}, cursor : 0 .. 10]
    BY <1>0, <1>1, Itself
  <2>4. settled' \in {"no", "began", "ended"} /\ (log' = log \/ log' = {})
    BY <1>1, Itself DEF Claim, ShelfKinds, ShelfRow
  <2> QED
    BY <2>1, <2>2, <2>3, <2>4 DEF ShelfKinds, ShelfRow, Doings
<1>2. CASE Tallied
  <2>1. doing' \in Doings
    <3>1. doing.n + 1 \in Nat
      BY <1>0 DEF Doings
    <3>2. [doing EXCEPT !.n = @ + 1, !.made = FALSE] \in Doings
      BY <1>0, <3>1, Zenon DEF Doings
    <3> QED
      BY <1>2, <3>2, IdleIs DEF Tallied, Tallies
  <2> QED
    BY <1>0, <1>2, <2>1 DEF Tallied, Tallies, ShelfKinds, ShelfRow, Doings
<1>3. CASE Halts
  <2>1. halved' \subseteq Standing
    BY <1>0, <1>3 DEF Halts, Halved
  <2> QED
    BY <1>0, <1>3, <2>1, IdleIs DEF Halts, ShelfKinds, ShelfRow, Doings
<1>4. CASE Works
  <2>1. lib' \in LibKind
    BY <1>0, <1>4, LibTyped
  <2>2. doing' \in Doings
    <3>1. CASE FindsNote
      <4>1. doing.left \in [NoteKeys -> Nat] /\ NoteKey(This) \in NoteKeys
        BY <3>1, ShelfParts DEF FindsNote, OnShelf, AtRow
      <4>2. [doing.left EXCEPT ![NoteKey(This)] = @ - 1] \in [NoteKeys -> Nat]
        BY <3>1, <4>1 DEF FindsNote
      <4> QED
        BY <1>0, <3>1, <4>2, Zenon DEF FindsNote, Doings
    <3> QED
      BY <1>0, <1>4, <3>1, Zenon DEF Works, MakesHost, AddsNote, Notices, Doings
  <2>3. log' \subseteq Files \cup {i \in Items : Drops(i)}
    <3>1. CASE Notices
      BY <3>1 DEF Notices, AtRow, Items, Files, ShelfKinds
    <3> QED
      BY <1>4, <3>1 DEF Works, MakesHost, AddsNote, FindsNote, ShelfKinds
  <2> QED
    BY <1>0, <1>4, <2>1, <2>2, <2>3 DEF Works, ShelfKinds, ShelfRow, Doings
<1>5. CASE People
  <2>1. lib' \in LibKind
    BY <1>0, <1>5, PeopleAre, ChangedTyped
  <2> QED
    BY <1>5, <2>1, PeopleAre, Zenon DEF ShelfKinds, ShelfRow
<1> QED
  BY <1>1, <1>2, <1>3, <1>4, <1>5, ShelfWays DEF ZoteroNext, ShelfStep, ShelfItself

LEMMA WorksAt ==
  ASSUME ShelfKinds, Works
  PROVE  /\ doing'.stage = doing.stage /\ doing'.n = doing.n /\ doing.stage \in 1 .. 10 /\ doing.n # 0
         /\ doing' # Idle /\ doing # Idle
<1>1. doing.stage \in 1 .. 10 /\ doing.n # 0
  BY DEF Works, Shelved, PutsCollection, PutsName, PutsItem, Sorts, PutsFile, PutsMark, PutsKey, Bins,
         MakesHost, FindsNote, AddsNote, Notices, AtRow
<1>2. doing'.stage = doing.stage /\ doing'.n = doing.n
  BY Zenon DEF Works, MakesHost, FindsNote, AddsNote, Notices, ShelfKinds, ShelfRow
<1> QED
  BY <1>1, <1>2, IdleIs

LEMMA TalliedAt ==
  ASSUME Tallied
  PROVE  /\ doing.stage \in 1 .. 10 /\ doing.n # 0 /\ doing # Idle
         /\ doing.n <= Len(Rows(Stages[doing.stage]))
<1>1. doing.stage \in 1 .. 10 /\ doing.n # 0 /\ doing.n \in DOMAIN Rows(Stages[doing.stage])
  BY ShelfStages, ShelfRows DEF Tallied, AtRow
<1>2. \A s \in 1 .. 10 : \A n \in DOMAIN Rows(Stages[s]) : n <= Len(Rows(Stages[s]))
  BY ShelfStages, ShelfRows, ShelfLists DEF Listed
<1> QED
  BY <1>1, <1>2, IdleIs

LEMMA SameRecord ==
  ASSUME doing'.stage = doing.stage, doing'.n = doing.n
  PROVE  /\ This' = This /\ (In("attachments")' <=> In("attachments")) /\ (In("notes")' <=> In("notes"))
         /\ (AtRow(5, Zotero.attachments)' <=> AtRow(5, Zotero.attachments))
  BY DEF This, In, AtRow

\* A run takes nothing away but what it puts in the trash, and brings nothing back.
LEMMA ItemsStay ==
  ASSUME lib \in LibKind, Works
  PROVE  \A h \in Hosts : /\ lib.item[h] # "none" => lib'.item[h] # "none"
                          /\ lib.item[h] # "none" /\ lib'.item[h] = "live" => lib.item[h] = "live"
                          /\ lib.item[h] = "trashed" => lib'.item[h] = "trashed"
                          /\ lib'.item[h] = "trashed" /\ lib.item[h] # "trashed" => BinsItem /\ h \in ItemsDue
<1>0. lib.item \in [Hosts -> States]
  BY DEF LibKind
<1>1. CASE PutsCollection \/ PutsName \/ Sorts \/ PutsFile \/ PutsMark \/ PutsKey \/ BinsPart \/ FindsNote \/ AddsNote \/ Notices
  <2>1. lib'.item = lib.item
    BY <1>1, Zenon DEF PutsCollection, PutsName, Sorts, PutsFile, PutsMark, PutsKey, BinsPart, FindsNote, AddsNote, Notices, LibKind
  <2> QED
    BY <2>1
<1>2. CASE BinsCollection
  <2>1. lib'.item = lib.item
    BY <1>2 DEF BinsCollection, CollectionTrashed, LibKind
  <2> QED
    BY <2>1
<1>3. CASE PutsItem \/ MakesHost
  <2>1. \/ lib'.item = lib.item
        \/ lib.item[This] = "none" /\ lib'.item = [lib.item EXCEPT ![This] = "live"]
    BY <1>3, Zenon DEF PutsItem, MakesHost, LibKind
  <2> QED
    BY <1>0, <2>1 DEF States
<1>4. CASE BinsItem
  <2>1. PICK i \in ItemsDue : lib' = WithChildren(i, "trashed", "live", "with")
    BY <1>4 DEF BinsItem
  <2>2. i \in Hosts /\ lib.item[i] = "live"
    BY ShelfParts DEF ItemsDue
  <2>3. lib'.item = [lib.item EXCEPT ![i] = "trashed"]
    BY <2>1, <2>2, ChildrenAre, Zenon DEF States, Status
  <2> QED
    BY <1>0, <1>4, <2>1, <2>2, <2>3
<1> QED
  BY <1>1, <1>2, <1>3, <1>4 DEF Works, Shelved, Bins

LEMMA StartIs ==
  ASSUME ShelfKinds, Start
  PROVE  /\ UNCHANGED <<lib, halved, stops, touches, touched>> /\ doing = Idle
         /\ Resume \in {0, import.cursor} /\ Resume \in 0 .. 10
         /\ import.state # "succeeded" => Resume = import.cursor
         /\ import'.state = "running" /\ import'.cursor = Resume
         /\ doing'.stage = IF Resume = 0 THEN 1 ELSE Resume
         /\ doing'.n = 0 /\ doing'.made = FALSE /\ doing'.left = <<>>
         /\ log' = IF Resume = 0 THEN {} ELSE log
         /\ settled' = IF settled = "no" /\ Resume = 0 THEN "began" ELSE settled
  BY DEF Start, Claim, Resume, NoCursor, Idle, ShelfKinds, ShelfRow

LEMMA BeginIs ==
  ASSUME ShelfKinds, OnShelf, BeginStage
  PROVE  /\ UNCHANGED <<lib, halved, log, stops, touches, touched, settled>>
         /\ doing.stage \in 1 .. 10 /\ doing.n = 0 /\ doing.made = FALSE
         /\ import'.state = "running" /\ import'.cursor = doing.stage
         /\ doing'.stage = doing.stage /\ doing'.n = 1 /\ doing'.made = FALSE
         /\ doing'.left = IF doing.stage = 6 THEN NoteIndex ELSE <<>>
<1>1. doing.stage \in 1 .. 10 /\ (Stages[doing.stage] = "notes" <=> doing.stage = 6) /\ doing.n = 0
  BY ShelfStages DEF BeginStage
<1>2. import.state = "running" /\ doing.made = FALSE
  BY <1>1, IdleIs DEF OnShelf, ShelfKinds, ShelfRow
<1> QED
  BY <1>1, <1>2 DEF BeginStage, Checkpoint, ShelfKinds, ShelfRow

LEMMA EndIs ==
  ASSUME ShelfKinds, OnShelf, EndStage
  PROVE  /\ UNCHANGED <<lib, halved, log, import, stops, touches, touched, settled>>
         /\ doing.stage \in 1 .. 10 /\ doing.n = Len(Rows(Stages[doing.stage])) + 1 /\ doing.n # 0
         /\ import.cursor = doing.stage /\ import.state = "running"
         /\ doing'.stage = doing.stage + 1 /\ doing'.n = 0 /\ doing'.made = FALSE /\ doing'.left = <<>>
<1>1. doing.stage \in 1 .. 10 /\ doing.n > Len(Rows(Stages[doing.stage]))
  BY ShelfStages DEF EndStage
<1>2. Len(Rows(Stages[doing.stage])) \in Nat
  BY <1>1, ShelfStages, ShelfRows, ShelfLists DEF Listed
<1>3. doing.n = Len(Rows(Stages[doing.stage])) + 1 /\ doing.n # 0
  BY <1>1, <1>2 DEF OnShelf, ShelfKinds, ShelfRow
<1>4. import.cursor = doing.stage /\ import.state = "running"
  BY <1>1, <1>3, IdleIs DEF OnShelf
<1> QED
  BY <1>1, <1>3, <1>4 DEF EndStage, Idle, NoCursor

LEMMA ReportIs ==
  ASSUME ShelfKinds, OnShelf, ReportRun
  PROVE  /\ UNCHANGED <<lib, halved, log, stops, touches, touched>> /\ doing.stage = 11 /\ doing' = Idle
         /\ import.cursor = 10 /\ import'.cursor = 10 /\ import'.state = "succeeded"
         /\ settled' = IF settled = "began" THEN "ended" ELSE settled
<1>1. doing.stage = 11
  BY ShelfStages DEF ReportRun
<1>2. import.cursor \in {10, 11} /\ import.cursor \in 0 .. 10
  BY <1>1, IdleIs DEF OnShelf, ShelfKinds, ShelfRow
<1> QED
  BY <1>1, <1>2 DEF ReportRun, Succeed, End, ShelfKinds, ShelfRow

LEMMA OnShelfBetween ==
  ASSUME doing'.n = 0, doing'.made = FALSE, doing'.stage \in 1 .. 11, import'.state = "running",
         import'.cursor \in {doing'.stage - 1, doing'.stage}
  PROVE  OnShelf'
<1>1. doing' # Idle
  BY IdleIs
<1>2. ASSUME doing'.stage \in 1 .. 10 PROVE doing'.n <= Len(Rows(Stages[doing'.stage])) + 1
  <2>1. Len(Rows(Stages[doing'.stage])) \in Nat
    BY <1>2, ShelfStages, ShelfRows, ShelfLists DEF Listed
  <2> QED
    BY <2>1
<1>3. doing'.stage # 0 /\ import'.state # "succeeded"
  OBVIOUS
<1> QED
  BY <1>1, <1>2, <1>3 DEF OnShelf

LEMMA OnShelfWithin ==
  ASSUME doing'.n # 0, doing'.stage \in 1 .. 10, doing'.n <= Len(Rows(Stages[doing'.stage])) + 1,
         import'.state = "running", import'.cursor = doing'.stage,
         doing'.stage = 6 => doing'.left \in [NoteKeys -> Nat],
         doing'.made => (In("attachments")' /\ This' \in Standing /\ lib'.item[This'] # "none") \/ In("notes")'
  PROVE  OnShelf'
<1>1. doing' # Idle
  BY IdleIs
<1> QED
  BY <1>1 DEF OnShelf

LEMMA OnShelfOver == ASSUME doing' = Idle, import'.state = "succeeded" => import'.cursor = 10 PROVE OnShelf'
  BY IdleIs DEF OnShelf

LEMMA OnShelfStep == ASSUME ShelfKinds, OnShelf, ZoteroNext PROVE OnShelf'
<1>0. /\ doing \in Doings /\ lib \in LibKind
      /\ import \in [state : {"none", "running", "succeeded", "failed", "cancelled"}, cursor : 0 .. 10]
  BY DEF ShelfKinds, ShelfRow, Doings
<1>1. CASE ShelfItself
  <2>1. CASE Start
    <3>1. /\ doing'.stage \in 1 .. 11 /\ doing'.n = 0 /\ doing'.made = FALSE /\ import'.state = "running"
          /\ import'.cursor \in {doing'.stage - 1, doing'.stage}
      <4>1. /\ doing'.n = 0 /\ doing'.made = FALSE /\ import'.state = "running" /\ Resume \in 0 .. 10
            /\ import'.cursor = Resume /\ doing'.stage = IF Resume = 0 THEN 1 ELSE Resume
        BY <2>1, StartIs, Zenon
      <4> QED
        BY <4>1
    <3> QED
      BY <3>1, OnShelfBetween, Zenon
  <2>2. CASE BeginStage
    <3>1. /\ doing'.stage \in 1 .. 10 /\ doing'.n = 1 /\ doing'.made = FALSE /\ import'.state = "running"
          /\ import'.cursor = doing'.stage /\ (doing'.stage = 6 => doing'.left = NoteIndex)
      BY <2>2, BeginIs, Zenon
    <3>2. NoteIndex \in [NoteKeys -> Nat]
      BY <1>0, IndexTyped
    <3>3. Len(Rows(Stages[doing'.stage])) \in Nat
      BY <3>1, ShelfStages, ShelfRows, ShelfLists DEF Listed
    <3> QED
      BY <3>1, <3>2, <3>3, OnShelfWithin
  <2>3. CASE EndStage
    BY <2>3, EndIs, OnShelfBetween
  <2>4. CASE ReportRun
    BY <2>4, ReportIs, OnShelfOver
  <2> QED
    BY <1>1, <2>1, <2>2, <2>3, <2>4 DEF ShelfItself
<1>2. CASE Tallied
  <2>1. doing.stage \in 1 .. 10 /\ doing.n # 0 /\ doing.n <= Len(Rows(Stages[doing.stage])) /\ import.cursor = doing.stage
        /\ import.state = "running"
    BY <1>2, TalliedAt DEF OnShelf
  <2>2. CASE doing' = [doing EXCEPT !.n = @ + 1, !.made = FALSE] /\ import' = import
    <3>1. doing'.stage = doing.stage /\ doing'.n = doing.n + 1 /\ doing'.made = FALSE /\ doing'.left = doing.left
          /\ doing.n \in Nat
      BY <1>0, <2>2 DEF Doings
    <3>2. Len(Rows(Stages[doing.stage])) \in Nat
      BY <2>1, ShelfStages, ShelfRows, ShelfLists DEF Listed
    <3>3. doing.stage = 6 => doing.left \in [NoteKeys -> Nat]
      BY <2>1 DEF OnShelf
    <3> QED
      BY <2>1, <2>2, <3>1, <3>2, <3>3, OnShelfWithin
  <2>3. CASE doing' = Idle /\ import' = [import EXCEPT !.state = "cancelled"]
    <3>1. import'.state = "cancelled"
      BY <1>0, <2>3
    <3> QED
      BY <2>3, <3>1, OnShelfOver
  <2> QED
    BY <1>2, <2>2, <2>3 DEF Tallied, Tallies
<1>3. CASE Halts
  <2>1. doing' = Idle /\ import'.state \in {"failed", "running"}
    BY <1>0, <1>3 DEF Halts
  <2> QED
    BY <2>1, OnShelfOver
<1>4. CASE Works
  <2>1. /\ doing'.stage = doing.stage /\ doing'.n = doing.n /\ doing.stage \in 1 .. 10 /\ doing.n # 0
        /\ doing' # Idle /\ doing # Idle /\ import' = import
    BY <1>4, WorksAt DEF Works
  <2>2. doing.stage = 6 => doing'.left \in [NoteKeys -> Nat]
    <3>1. CASE FindsNote
      <4>1. doing.left \in [NoteKeys -> Nat] /\ NoteKey(This) \in NoteKeys
        BY <3>1, ShelfParts DEF FindsNote, OnShelf, AtRow
      <4>2. [doing.left EXCEPT ![NoteKey(This)] = @ - 1] \in [NoteKeys -> Nat]
        BY <3>1, <4>1 DEF FindsNote
      <4> QED
        BY <1>0, <3>1, <4>2 DEF FindsNote, Doings
    <3>2. CASE ~ FindsNote
      <4>1. doing'.left = doing.left
        BY <1>0, <1>4, <3>2 DEF Works, MakesHost, AddsNote, Notices, Doings
      <4> QED
        BY <2>1, <4>1 DEF OnShelf
    <3> QED
      BY <3>1, <3>2
  <2>3. doing'.made => (In("attachments") /\ This \in Standing /\ lib'.item[This] # "none") \/ In("notes")
    <3>1. CASE MakesHost
      <4>1. In("attachments") /\ This \in Standing
        BY <3>1, AtRecord DEF MakesHost
      <4>2. lib'.item[This] = "live"
        BY <1>0, <3>1, <4>1, ShelfParts DEF MakesHost, LibKind
      <4> QED
        BY <4>1, <4>2
    <3>2. CASE FindsNote \/ AddsNote
      BY <3>2, AtRecord DEF FindsNote, AddsNote
    <3>3. CASE doing' = doing
      BY <1>0, <1>4, <3>3, ItemsStay, ShelfParts DEF OnShelf
    <3> QED
      BY <1>4, <3>1, <3>2, <3>3 DEF Works, Notices
  <2>4. This' = This /\ (In("attachments")' <=> In("attachments")) /\ (In("notes")' <=> In("notes"))
    BY <2>1, SameRecord
  <2>5. import.state = "running" /\ import.cursor = doing.stage /\ doing.n <= Len(Rows(Stages[doing.stage])) + 1
    BY <2>1 DEF OnShelf
  <2> QED
    BY <2>1, <2>2, <2>3, <2>4, <2>5, OnShelfWithin
<1>5. CASE People
  BY <1>5, PeopleAre DEF OnShelf
<1> QED
  BY <1>1, <1>2, <1>3, <1>4, <1>5, ShelfWays DEF ZoteroNext, ShelfStep, ShelfItself

-----------------------------------------------------------------------------
(* Zotero: what holds whatever people do *)

\* Stages that the row or the run has behind it.
Begun(s) == s < import.cursor \/ s < doing.stage

\* Collections are made before anything is put in the trash.
Sunk(d) == /\ ToSet(Zotero.line[d]) \cap Deleted # {}
           /\ \A c \in Cs : /\ lib.collection[c] # "none"
                            /\ d \in ToSet(Zotero.line[c]) => lib.collection[c] # "live"
Shelves ==
  /\ Begun(1) => \A c \in Cs : lib.collection[c] # "none"
  /\ doing.stage = 1 => \A m \in DOMAIN Zotero.collections : m < doing.n => Made(Zotero.collections[m])
  /\ \A d \in Cs : lib.collection[d] = "trashed" => Sunk(d)

\* A value is on the item that keeps it, or on one that is in Zotero's trash; an
\* annotation is of a file.
Keyed == /\ \A i \in Items : /\ lib.key[i] # Nothing => lib.key[i] = Zotero.claim[i] /\ ~ Drops(i)
                             /\ lib.item[i] # "none" /\ Keeps(i) => lib.key[i] = Zotero.claim[i]
         /\ \A a \in Marks : lib.annotation[a] # "none" => Zotero.bytes[Zotero.on[a]] # Nothing

LEMMA BegunStep ==
  ASSUME ShelfKinds, OnShelf, ZoteroNext, NEW s \in 1 .. 10, Begun(s)'
  PROVE  Begun(s) \/ (EndStage /\ s = doing.stage)
<1>0. doing.stage \in 0 .. 11 /\ import.cursor \in 0 .. 10
  BY DEF ShelfKinds, ShelfRow
<1>1. CASE Start
  <2>1. import'.cursor = Resume /\ doing'.stage = (IF Resume = 0 THEN 1 ELSE Resume) /\ Resume \in {0, import.cursor}
    BY <1>1, StartIs
  <2> QED
    BY <1>0, <2>1 DEF Begun
<1>2. CASE BeginStage
  BY <1>0, <1>2, BeginIs DEF Begun
<1>3. CASE EndStage
  BY <1>0, <1>3, EndIs DEF Begun
<1>4. CASE ReportRun
  BY <1>0, <1>4, ReportIs, IdleIs DEF Begun
<1>5. CASE Tallied
  <2>1. import'.cursor = import.cursor /\ doing'.stage \in {doing.stage, 0}
    BY <1>5, IdleIs, Zenon DEF Tallied, Tallies, ShelfKinds, ShelfRow
  <2> QED
    BY <1>0, <2>1 DEF Begun
<1>6. CASE Halts
  <2>1. import'.cursor = import.cursor /\ doing'.stage = 0
    BY <1>6, IdleIs DEF Halts, ShelfKinds, ShelfRow
  <2> QED
    BY <1>0, <2>1 DEF Begun
<1>7. CASE Works
  <2>1. import' = import /\ doing'.stage = doing.stage
    BY <1>7, WorksAt DEF Works
  <2> QED
    BY <2>1 DEF Begun
<1>8. CASE People
  BY <1>8, PeopleAre DEF Begun
<1> QED
  BY <1>1, <1>2, <1>3, <1>4, <1>5, <1>6, <1>7, <1>8, ShelfWays DEF ZoteroNext, ShelfStep, ShelfItself

LEMMA CollectionsBy ==
  ASSUME lib \in LibKind, Works
  PROVE  \/ lib'.collection = lib.collection
         \/ \E c \in Cs : /\ doing.stage = 1 /\ lib.collection[c] = "none"
                          /\ lib'.collection = [lib.collection EXCEPT ![c] = "live"]
         \/ /\ doing.stage = 9
            /\ \E c \in CollectionsDue :
                 LET branch == {d \in Cs : c \in ToSet(Zotero.line[d]) /\ lib.collection[d] = "live"}
                 IN lib'.collection = [d \in Cs |-> IF d \in branch THEN "trashed" ELSE lib.collection[d]]
<1>1. CASE PutsName \/ PutsItem \/ Sorts \/ PutsFile \/ PutsMark \/ PutsKey \/ BinsPart \/ MakesHost \/ FindsNote \/ AddsNote \/ Notices
  BY <1>1, Zenon DEF PutsName, PutsItem, Sorts, PutsFile, PutsMark, PutsKey, BinsPart, MakesHost, FindsNote, AddsNote, Notices, LibKind
<1>2. CASE PutsCollection
  <2>1. PICK c \in Cs : lib.collection[c] = "none" /\ lib' = [lib EXCEPT !.collection[c] = "live"]
    BY <1>2, Zenon DEF PutsCollection
  <2>2. lib'.collection = [lib.collection EXCEPT ![c] = "live"] /\ doing.stage = 1
    BY <1>2, <2>1 DEF LibKind, PutsCollection, AtRow
  <2> QED
    BY <2>1, <2>2, Zenon
<1>3. CASE BinsItem
  <2>1. \A i \in ItemsDue : i \in Hosts
    BY ShelfParts DEF ItemsDue
  <2> QED
    BY <1>3, <2>1, ChildrenAre, Zenon DEF BinsItem, States, Status
<1>4. CASE BinsCollection /\ doing.stage = 9
  <2>1. PICK c \in CollectionsDue : lib' = CollectionTrashed(c)
    BY <1>4 DEF BinsCollection
  <2>2. c \in Cs
    BY DEF CollectionsDue, Cs
  <2> DEFINE branch == {d \in Cs : c \in ToSet(Zotero.line[d]) /\ lib.collection[d] = "live"}
  <2>3. lib' = [lib EXCEPT !.collection = [d \in Cs |-> IF d \in branch THEN "trashed" ELSE lib.collection[d]],
                           !.filed = [h \in Hosts |-> lib.filed[h] \ branch]]
    BY <2>1, <2>2, BranchIs, Zenon
  <2>4. lib'.collection = [d \in Cs |-> IF d \in branch THEN "trashed" ELSE lib.collection[d]]
    BY <2>3 DEF LibKind
  <2> QED
    BY <1>4, <2>4
<1> QED
  BY <1>1, <1>2, <1>3, <1>4, Zenon DEF Works, Shelved, Bins

LEMMA CollectionsStay ==
  ASSUME lib \in LibKind, Works
  PROVE  \A c \in Cs : /\ lib.collection[c] # "none" => lib'.collection[c] # "none"
                       /\ lib.collection[c] = "trashed" => lib'.collection[c] = "trashed"
<1>1. lib.collection \in [Cs -> States]
  BY DEF LibKind
<1> QED
  BY <1>1, CollectionsBy, Zenon

LEMMA LineIs ==
  ASSUME NEW c \in Cs
  PROVE  /\ c \in ToSet(Zotero.line[c]) /\ ToSet(Zotero.line[c]) \subseteq Cs
         /\ \A d \in ToSet(Zotero.line[c]) : ToSet(Zotero.line[d]) \subseteq ToSet(Zotero.line[c])
<1>1. Zotero.line[c] \in Seq(Cs)
  BY ZoteroLibrary DEF Cs
<1>2. ToSet(Zotero.line[c]) \subseteq Cs
  BY <1>1 DEF ToSet
<1> QED
  BY <1>2, ZoteroLibrary, Zenon DEF Cs

LEMMA AllMade ==
  ASSUME Shelves, doing.stage = 1, doing.n = Len(Zotero.collections) + 1
  PROVE  \A c \in Cs : Made(c) /\ lib.collection[c] # "none"
<1>1. ASSUME NEW c \in Cs PROVE Made(c)
  <2>1. PICK m \in DOMAIN Zotero.collections : Zotero.collections[m] = c
    BY ShelfLists DEF Listed, Cs
  <2>2. m < doing.n
    BY ShelfLists DEF Listed
  <2> QED
    BY <2>1, <2>2 DEF Shelves
<1> QED
  BY <1>1, LineIs DEF Made

LEMMA ShelvesStep == ASSUME ShelfKinds, OnShelf, Shelves, ZoteroNext PROVE Shelves'
<1>0. lib \in LibKind /\ doing \in Doings
  BY DEF ShelfKinds, ShelfRow, Doings
<1>1. CASE Works
  <2>1. doing'.stage = doing.stage /\ doing'.n = doing.n /\ import' = import
    BY <1>1, WorksAt DEF Works
  <2>2. \A c \in Cs : lib.collection[c] # "none" => lib'.collection[c] # "none"
    BY <1>0, <1>1, CollectionsStay
  <2>3. Begun(1)' => \A c \in Cs : lib'.collection[c] # "none"
    BY <2>1, <2>2 DEF Begun, Shelves
  <2>4. ASSUME doing'.stage = 1, NEW m \in DOMAIN Zotero.collections, m < doing'.n PROVE Made(Zotero.collections[m])'
    <3>1. Zotero.collections[m] \in Cs /\ Made(Zotero.collections[m])
      BY <2>1, <2>4, ShelfLists, Zenon DEF Shelves, Listed, Cs
    <3> QED
      BY <2>2, <3>1, LineIs DEF Made
  <2>5. ASSUME NEW d \in Cs, lib'.collection[d] = "trashed" PROVE Sunk(d)'
    <3>1. CASE lib'.collection = lib.collection
      BY <2>5, <3>1 DEF Shelves, Sunk
    <3>2. ASSUME NEW c \in Cs, lib.collection[c] = "none", lib'.collection = [lib.collection EXCEPT ![c] = "live"] PROVE FALSE
      <4>1. lib.collection[d] = "trashed"
        BY <1>0, <2>5, <3>2 DEF LibKind
      <4> QED
        BY <3>2, <4>1 DEF Shelves, Sunk
    <3>3. ASSUME doing.stage = 9, NEW c \in CollectionsDue,
                 LET branch == {x \in Cs : c \in ToSet(Zotero.line[x]) /\ lib.collection[x] = "live"}
                 IN lib'.collection = [x \in Cs |-> IF x \in branch THEN "trashed" ELSE lib.collection[x]]
          PROVE  Sunk(d)'
      <4>1. c \in Cs /\ c \in Deleted
        BY DEF CollectionsDue, Cs
      <4>2. \A x \in Cs : lib'.collection[x] = IF c \in ToSet(Zotero.line[x]) /\ lib.collection[x] = "live"
                                               THEN "trashed" ELSE lib.collection[x]
        BY <3>3
      <4>3. \A x \in Cs : lib'.collection[x] # "none"
        BY <2>2, <3>3 DEF Shelves, Begun
      <4>4. CASE lib.collection[d] = "trashed"
        <5>1. Sunk(d)
          BY <4>4 DEF Shelves
        <5>2. ToSet(Zotero.line[d]) \cap Deleted # {}
          BY <5>1 DEF Sunk
        <5>3. \A x \in Cs : d \in ToSet(Zotero.line[x]) => lib'.collection[x] # "live"
          BY <4>2, <5>1 DEF Sunk
        <5> QED
          BY <4>3, <5>2, <5>3 DEF Sunk
      <4>5. CASE lib.collection[d] # "trashed"
        <5>1. c \in ToSet(Zotero.line[d])
          BY <2>5, <4>2, <4>5
        <5>2. \A x \in Cs : d \in ToSet(Zotero.line[x]) => c \in ToSet(Zotero.line[x])
          BY <5>1, LineIs
        <5>3. \A x \in Cs : d \in ToSet(Zotero.line[x]) => lib'.collection[x] # "live"
          BY <4>2, <5>2
        <5> QED
          BY <4>1, <4>3, <5>1, <5>3 DEF Sunk
      <4> QED
        BY <4>4, <4>5
    <3> QED
      BY <1>0, <1>1, <3>1, <3>2, <3>3, CollectionsBy, Zenon
  <2> QED
    BY <2>3, <2>4, <2>5 DEF Shelves
<1>2. CASE lib'.collection = lib.collection
  <2>1. Begun(1)' => \A c \in Cs : lib.collection[c] # "none"
    <3>1. CASE EndStage /\ doing.stage = 1
      <4>1. doing.n = Len(Zotero.collections) + 1
        BY <3>1, EndIs, ShelfStages, ShelfRows
      <4> QED
        BY <3>1, <4>1, AllMade
    <3> QED
      BY <3>1, BegunStep DEF Shelves
  <2>2. ASSUME doing'.stage = 1, NEW m \in DOMAIN Zotero.collections, m < doing'.n PROVE Made(Zotero.collections[m])
    <3>0. m \in Nat /\ m # 0
      BY ShelfLists DEF Listed
    <3>1. CASE doing'.n = doing.n /\ doing'.stage = doing.stage
      BY <2>2, <3>1 DEF Shelves
    <3>2. CASE doing'.n \in {0, 1}
      BY <2>2, <3>0, <3>2
    <3>3. CASE Tallied
      <4>1. CASE doing' = Idle
        BY <2>2, <4>1, IdleIs
      <4>2. CASE doing' = [doing EXCEPT !.n = @ + 1, !.made = FALSE]
        <5>1. doing.stage = 1 /\ doing'.n = doing.n + 1 /\ doing.n \in Nat
          BY <1>0, <2>2, <4>2 DEF Doings
        <5>2. Made(This) /\ This = Zotero.collections[doing.n]
          BY <3>3, <5>1 DEF Tallied, AtRow
        <5>3. m < doing.n \/ m = doing.n
          BY <2>2, <3>0, <5>1
        <5> QED
          BY <5>1, <5>2, <5>3 DEF Shelves
      <4> QED
        BY <3>3, <4>1, <4>2 DEF Tallied, Tallies
    <3>4. CASE Halts
      BY <2>2, <3>4, IdleIs DEF Halts
    <3>5. CASE ShelfItself
      BY <3>2, <3>5, StartIs, BeginIs, EndIs, ReportIs, IdleIs, Zenon DEF ShelfItself
    <3>6. CASE People
      BY <3>1, <3>6, PeopleAre
    <3>7. CASE Works
      BY <3>1, <3>7, WorksAt
    <3> QED
      BY <3>3, <3>4, <3>5, <3>6, <3>7, ShelfWays DEF ZoteroNext, ShelfStep, ShelfItself
  <2>3. \A c \in Cs : Made(c) => Made(c)'
    BY <1>2, LineIs DEF Made
  <2>4. \A m \in DOMAIN Zotero.collections : Zotero.collections[m] \in Cs
    BY ShelfLists DEF Listed, Cs
  <2> QED
    BY <1>2, <2>1, <2>2, <2>3, <2>4 DEF Shelves, Sunk
<1>3. CASE ~ Works
  <2>1. CASE People
    <3>1. lib'.collection = lib.collection
      <4>1. Changed
        BY <2>1, PeopleAre
      <4>2. ASSUME NEW k, NEW m, lib' = [lib EXCEPT !.note[k] = RemoveAt(@, m)] PROVE lib'.collection = lib.collection
        BY <1>0, <4>2 DEF LibKind
      <4> QED
        BY <1>0, <4>1, <4>2, ChildrenAre, Zenon DEF Changed, States, Status
    <3> QED
      BY <1>2, <3>1
  <2>2. CASE ~ People
    <3>1. lib' = lib
      BY <1>3, <2>2, Itself, ShelfWays DEF ZoteroNext, ShelfStep, ShelfItself, Tallied, Tallies, Halts
    <3> QED
      BY <1>2, <3>1
  <2> QED
    BY <2>1, <2>2
<1> QED
  BY <1>1, <1>3

-----------------------------------------------------------------------------
(* Zotero: what each step writes *)

\* The values, and the items they are on.
LEMMA KeysBy ==
  ASSUME lib \in LibKind, Works
  PROVE  \/ lib'.key = lib.key /\ \A i \in Items : lib'.item[i] # "none" => lib.item[i] # "none"
         \/ \E i \in Items : /\ doing.stage = 4 /\ lib.item[i] = "none" /\ lib'.item = [lib.item EXCEPT ![i] = "live"]
                             /\ lib'.key = [lib.key EXCEPT ![i] = IF Keeps(i) THEN Zotero.claim[i] ELSE Nothing]
         \/ \E i \in Items : /\ doing.stage = 10 /\ Defers(i) /\ lib.key[i] # Zotero.claim[i]
                             /\ lib' = [lib EXCEPT !.key[i] = Zotero.claim[i]]
<1>0. lib.item \in [Hosts -> States]
  BY DEF LibKind
<1>1. CASE PutsCollection \/ PutsName \/ Sorts \/ PutsFile \/ PutsMark \/ BinsPart \/ FindsNote \/ AddsNote \/ Notices
  <2>1. lib'.item = lib.item /\ lib'.key = lib.key
    BY <1>1, Zenon DEF PutsCollection, PutsName, Sorts, PutsFile, PutsMark, BinsPart, FindsNote, AddsNote, Notices, LibKind
  <2> QED
    BY <2>1
<1>2. CASE BinsCollection
  BY <1>2, Zenon DEF BinsCollection, CollectionTrashed, LibKind
<1>3. CASE PutsItem
  <2>1. This \in Items /\ doing.stage = 4
    BY <1>3 DEF PutsItem, AtRow, Items
  <2>2. CASE lib.item[This] = "none"
    BY <1>3, <2>1, <2>2, Zenon DEF PutsItem, LibKind
  <2>3. CASE lib.item[This] # "none"
    BY <1>3, <2>3, Zenon DEF PutsItem, LibKind
  <2> QED
    BY <2>2, <2>3, Zenon
<1>4. CASE PutsKey
  BY <1>4, Zenon DEF PutsKey, AtRow, Items, KeyDone
<1>5. CASE BinsItem
  <2>1. PICK i \in ItemsDue : lib' = WithChildren(i, "trashed", "live", "with")
    BY <1>5 DEF BinsItem
  <2>2. i \in Hosts /\ lib.item[i] = "live"
    BY ShelfParts DEF ItemsDue
  <2>3. lib'.item = [lib.item EXCEPT ![i] = "trashed"] /\ lib'.key = lib.key
    BY <2>1, <2>2, ChildrenAre, Zenon DEF States, Status
  <2>4. \A j \in Items : lib'.item[j] # "none" => lib.item[j] # "none"
    BY <1>0, <2>2, <2>3, ShelfParts
  <2> QED
    BY <2>3, <2>4
<1>6. CASE MakesHost
  <2>1. lib'.item = [lib.item EXCEPT ![This] = "live"] /\ lib'.key = lib.key /\ This \in Standing
    BY <1>6 DEF MakesHost, LibKind
  <2>2. \A j \in Items : lib'.item[j] = lib.item[j]
    BY <1>0, <2>1, ShelfParts
  <2> QED
    BY <2>1, <2>2
<1> QED
  BY <1>1, <1>2, <1>3, <1>4, <1>5, <1>6, Zenon DEF Works, Shelved, Bins

LEMMA KeysByPeople ==
  ASSUME lib \in LibKind, Changed
  PROVE  /\ lib'.key = lib.key /\ lib'.collection = lib.collection /\ lib'.tagged = lib.tagged /\ lib'.filed = lib.filed
         /\ \A h \in Hosts : lib'.item[h] = "none" <=> lib.item[h] = "none"
         /\ \A a \in Marks : lib'.annotation[a] = "none" <=> lib.annotation[a] = "none"
         /\ \A k \in NoteKeys : Len(lib'.note[k]) <= Len(lib.note[k])
<1>0. lib.item \in [Hosts -> States] /\ \A k \in NoteKeys : lib.note[k] \in Seq(Status)
  BY DEF LibKind
<1>1. ASSUME NEW h \in Hosts, NEW state \in {"live", "trashed"}, lib.item[h] # "none", NEW from \in {"live", "with"},
             NEW to \in {"live", "with"}, lib' = WithChildren(h, state, from, to)
      PROVE  /\ lib'.key = lib.key /\ lib'.collection = lib.collection /\ lib'.tagged = lib.tagged /\ lib'.filed = lib.filed
             /\ \A g \in Hosts : lib'.item[g] = "none" <=> lib.item[g] = "none"
             /\ \A a \in Marks : lib'.annotation[a] = "none" <=> lib.annotation[a] = "none"
             /\ \A k \in NoteKeys : Len(lib'.note[k]) <= Len(lib.note[k])
  <2>1. state \in States /\ from \in Status /\ to \in Status
    BY DEF States, Status
  <2>2. /\ lib'.item = [lib.item EXCEPT ![h] = state]
        /\ \A k \in NoteKeys : Len(lib'.note[k]) = Len(lib.note[k])
        /\ \A a \in Marks :
              lib'.annotation[a] = IF Host(Zotero.on[a]) = h THEN Flip(lib.annotation[a], from, to) ELSE lib.annotation[a]
        /\ lib'.key = lib.key /\ lib'.collection = lib.collection /\ lib'.tagged = lib.tagged /\ lib'.filed = lib.filed
    BY <1>1, <2>1, ChildrenAre
  <2>3. \A k \in NoteKeys : Len(lib.note[k]) \in Nat
    BY <1>0
  <2> QED
    BY <1>0, <1>1, <2>2, <2>3 DEF Flip
<1>2. ASSUME NEW k \in NoteKeys, NEW m \in DOMAIN lib.note[k], lib' = [lib EXCEPT !.note[k] = RemoveAt(@, m)]
      PROVE  /\ lib'.key = lib.key /\ lib'.collection = lib.collection /\ lib'.tagged = lib.tagged /\ lib'.filed = lib.filed
             /\ \A g \in Hosts : lib'.item[g] = "none" <=> lib.item[g] = "none"
             /\ \A a \in Marks : lib'.annotation[a] = "none" <=> lib.annotation[a] = "none"
             /\ \A j \in NoteKeys : Len(lib'.note[j]) <= Len(lib.note[j])
  <2>1. Len(RemoveAt(lib.note[k], m)) = Len(lib.note[k]) - 1
    BY <1>0, NoteRemoved
  <2>2. lib'.note = [lib.note EXCEPT ![k] = RemoveAt(@, m)] /\ lib'.key = lib.key /\ lib'.collection = lib.collection
        /\ lib'.item = lib.item /\ lib'.annotation = lib.annotation /\ lib'.tagged = lib.tagged /\ lib'.filed = lib.filed
    BY <1>2 DEF LibKind
  <2>3. \A j \in NoteKeys : Len(lib.note[j]) \in Nat
    BY <1>0
  <2>4. \A j \in NoteKeys : lib'.note[j] = IF j = k THEN RemoveAt(lib.note[k], m) ELSE lib.note[j]
    BY <2>2 DEF LibKind
  <2> QED
    BY <2>1, <2>2, <2>3, <2>4
<1> QED
  BY <1>1, <1>2 DEF Changed

\* The annotations.
LEMMA MarksBy ==
  ASSUME lib \in LibKind, Works
  PROVE  \A a \in Marks : /\ lib.annotation[a] # "none" => lib'.annotation[a] # "none"
                          /\ lib.annotation[a] = "none" /\ lib'.annotation[a] # "none" =>
                               Zotero.bytes[Zotero.on[a]] \in lib.documents
<1>0. lib.annotation \in [Marks -> Status]
  BY DEF LibKind
<1>1. CASE PutsCollection \/ PutsName \/ PutsItem \/ Sorts \/ PutsFile \/ PutsKey \/ MakesHost \/ FindsNote \/ AddsNote \/ Notices
  BY <1>1, ZenonT(60) DEF PutsCollection, PutsName, PutsItem, Sorts, PutsFile, PutsKey, MakesHost, FindsNote, AddsNote, Notices, LibKind
<1>2. CASE PutsMark
  <2>1. This \in Marks /\ Zotero.bytes[Zotero.on[This]] \in lib.documents /\ lib.annotation[This] = "none"
        /\ lib'.annotation = [lib.annotation EXCEPT ![This] = "live"]
    BY <1>2 DEF PutsMark, AtRow, Marks, LibKind
  <2> QED
    BY <1>0, <2>1
<1>3. CASE BinsItem
  <2>1. PICK i \in ItemsDue : lib' = WithChildren(i, "trashed", "live", "with")
    BY <1>3 DEF BinsItem
  <2>2. i \in Hosts
    BY ShelfParts DEF ItemsDue
  <2>3. \A a \in Marks :
          lib'.annotation[a] = IF Host(Zotero.on[a]) = i THEN Flip(lib.annotation[a], "live", "with") ELSE lib.annotation[a]
    BY <2>1, <2>2, ChildrenAre, Zenon DEF States, Status
  <2> QED
    BY <2>3 DEF Flip
<1>4. CASE BinsCollection
  BY <1>4 DEF BinsCollection, CollectionTrashed, LibKind
<1>5. CASE BinsPart
  <2>1. \/ lib'.annotation = lib.annotation
        \/ \E a \in MarksDue : lib'.annotation = [lib.annotation EXCEPT ![a] = "trashed"]
    BY <1>5, Zenon DEF BinsPart, LibKind
  <2> QED
    BY <1>0, <2>1, Zenon DEF MarksDue
<1> QED
  BY <1>1, <1>2, <1>3, <1>4, <1>5 DEF Works, Shelved, Bins

LEMMA LibStays ==
  ASSUME ShelfKinds, OnShelf, ShelfStep, ~ Works
  PROVE  lib' = lib
  BY Itself, ShelfWays DEF ShelfStep, ShelfItself, Tallied, Tallies, Halts

LEMMA KeyedStep == ASSUME ShelfKinds, OnShelf, Keyed, ZoteroNext PROVE Keyed'
<1>0. lib \in LibKind
  BY DEF ShelfKinds
<1>1. CASE Works
  <2>1. ASSUME NEW a \in Marks, lib'.annotation[a] # "none" PROVE Zotero.bytes[Zotero.on[a]] # Nothing
    <3>1. lib.annotation[a] # "none" \/ Zotero.bytes[Zotero.on[a]] \in Documents
      BY <1>0, <1>1, <2>1, MarksBy DEF LibKind
    <3> QED
      BY <3>1 DEF Keyed, Documents
  <2>2. ASSUME NEW i \in Items
        PROVE  /\ lib'.key[i] # Nothing => lib'.key[i] = Zotero.claim[i] /\ ~ Drops(i)
               /\ lib'.item[i] # "none" /\ Keeps(i) => lib'.key[i] = Zotero.claim[i]
    <3>0. i \in Hosts /\ lib.key \in [Items -> {Zotero.claim[j] : j \in Items} \cup {Nothing}] /\ lib.item \in [Hosts -> States]
      BY <1>0, ShelfParts DEF LibKind
    <3>1. CASE lib'.key = lib.key /\ (lib'.item[i] # "none" => lib.item[i] # "none")
      BY <3>1 DEF Keyed
    <3>2. ASSUME NEW j \in Items, lib.item[j] = "none", lib'.item = [lib.item EXCEPT ![j] = "live"],
                 lib'.key = [lib.key EXCEPT ![j] = IF Keeps(j) THEN Zotero.claim[j] ELSE Nothing]
          PROVE  /\ lib'.key[i] # Nothing => lib'.key[i] = Zotero.claim[i] /\ ~ Drops(i)
                 /\ lib'.item[i] # "none" /\ Keeps(i) => lib'.key[i] = Zotero.claim[i]
      <4>1. CASE i = j
        BY <3>0, <3>2, <4>1 DEF Keeps, Drops
      <4>2. CASE i # j
        BY <3>0, <3>2, <4>2 DEF Keyed
      <4> QED
        BY <4>1, <4>2
    <3>3. ASSUME NEW j \in Items, Defers(j), lib' = [lib EXCEPT !.key[j] = Zotero.claim[j]]
          PROVE  /\ lib'.key[i] # Nothing => lib'.key[i] = Zotero.claim[i] /\ ~ Drops(i)
                 /\ lib'.item[i] # "none" /\ Keeps(i) => lib'.key[i] = Zotero.claim[i]
      <4>1. lib'.key = [lib.key EXCEPT ![j] = Zotero.claim[j]] /\ lib'.item = lib.item
        BY <1>0, <3>3 DEF LibKind
      <4>2. CASE i = j
        BY <3>0, <3>3, <4>1, <4>2 DEF Defers, Drops
      <4>3. CASE i # j
        BY <3>0, <4>1, <4>3 DEF Keyed
      <4> QED
        BY <4>2, <4>3
    <3> QED
      BY <1>0, <1>1, <3>1, <3>2, <3>3, KeysBy, Zenon
  <2> QED
    BY <2>1, <2>2 DEF Keyed
<1>2. CASE People
  <2>1. /\ lib'.key = lib.key
        /\ \A h \in Hosts : lib'.item[h] = "none" <=> lib.item[h] = "none"
        /\ \A a \in Marks : lib'.annotation[a] = "none" <=> lib.annotation[a] = "none"
    BY <1>0, <1>2, PeopleAre, KeysByPeople
  <2> QED
    BY <2>1, ShelfParts DEF Keyed
<1>3. CASE lib' = lib
  BY <1>3 DEF Keyed
<1> QED
  BY <1>1, <1>2, <1>3, LibStays DEF ZoteroNext, ShelfStep, ShelfItself

\* What a host has of its tags and collections.
Sorting(h) == /\ Zotero.tagged[h] \subseteq lib.tagged[h]
              /\ \A c \in Zotero.filed[h] : lib.collection[c] = "trashed" \/ c \in lib.filed[h]

LEMMA SortsBy ==
  ASSUME lib \in LibKind, Works
  PROVE  \A h \in Hosts : /\ lib.tagged[h] \subseteq lib'.tagged[h]
                          /\ lib'.tagged[h] \subseteq lib.tagged[h] \cup Zotero.tagged[h]
                          /\ \A c \in Cs : c \in lib.filed[h] => c \in lib'.filed[h] \/ lib'.collection[c] = "trashed"
<1>1. CASE lib'.tagged = lib.tagged /\ lib'.filed = lib.filed
  BY <1>1
<1>2. CASE PutsCollection \/ PutsName \/ PutsItem \/ PutsFile \/ PutsMark \/ PutsKey \/ BinsPart \/ MakesHost \/ FindsNote \/ AddsNote \/ Notices
  <2>1. lib'.tagged = lib.tagged /\ lib'.filed = lib.filed
    BY <1>2, Zenon DEF PutsCollection, PutsName, PutsItem, PutsFile, PutsMark, PutsKey, BinsPart, MakesHost, FindsNote, AddsNote, Notices, LibKind
  <2> QED
    BY <1>1, <2>1
<1>3. CASE BinsItem
  <2>1. PICK i \in ItemsDue : lib' = WithChildren(i, "trashed", "live", "with")
    BY <1>3 DEF BinsItem
  <2>2. i \in Hosts
    BY ShelfParts DEF ItemsDue
  <2> QED
    BY <1>1, <2>1, <2>2, ChildrenAre, Zenon DEF States, Status
<1>4. CASE Sorts
  <2>1. This \in Hosts
    BY <1>4 DEF Sorts
  <2>2. CASE \E t \in Zotero.tagged[This] : lib' = [lib EXCEPT !.tagged[This] = @ \cup {t}]
    <3>1. PICK t \in Zotero.tagged[This] : lib' = [lib EXCEPT !.tagged[This] = @ \cup {t}]
      BY <2>2, Zenon
    <3>2. lib'.tagged = [lib.tagged EXCEPT ![This] = @ \cup {t}] /\ lib'.filed = lib.filed
      BY <3>1 DEF LibKind
    <3>3. \A h \in Hosts : lib'.tagged[h] = IF h = This THEN lib.tagged[This] \cup {t} ELSE lib.tagged[h]
      BY <2>1, <3>2 DEF LibKind
    <3> QED
      BY <2>1, <3>2, <3>3
  <2>3. CASE \E c : lib' = [lib EXCEPT !.filed[This] = @ \cup {c}]
    <3>1. PICK c : lib' = [lib EXCEPT !.filed[This] = @ \cup {c}]
      BY <2>3, Zenon
    <3>2. lib'.filed = [lib.filed EXCEPT ![This] = @ \cup {c}] /\ lib'.tagged = lib.tagged
      BY <3>1 DEF LibKind
    <3>3. \A h \in Hosts : lib'.filed[h] = IF h = This THEN lib.filed[This] \cup {c} ELSE lib.filed[h]
      BY <2>1, <3>2 DEF LibKind
    <3> QED
      BY <2>1, <3>2, <3>3
  <2> QED
    BY <1>4, <2>2, <2>3 DEF Sorts
<1>5. CASE BinsCollection
  <2>1. PICK c \in CollectionsDue : lib' = CollectionTrashed(c)
    BY <1>5 DEF BinsCollection
  <2>2. c \in Cs
    BY DEF CollectionsDue, Cs
  <2> DEFINE branch == {d \in Cs : c \in ToSet(Zotero.line[d]) /\ lib.collection[d] = "live"}
  <2>3. lib' = [lib EXCEPT !.collection = [d \in Cs |-> IF d \in branch THEN "trashed" ELSE lib.collection[d]],
                           !.filed = [h \in Hosts |-> lib.filed[h] \ branch]]
    BY <2>1, <2>2, BranchIs, Zenon
  <2> HIDE DEF branch
  <2>4. lib'.collection = [d \in Cs |-> IF d \in branch THEN "trashed" ELSE lib.collection[d]]
        /\ lib'.filed = [h \in Hosts |-> lib.filed[h] \ branch] /\ lib'.tagged = lib.tagged
    BY <2>3 DEF LibKind
  <2> QED
    BY <2>4
<1> QED
  BY <1>2, <1>3, <1>4, <1>5 DEF Works, Shelved, Bins

LEMMA FilesBy ==
  ASSUME lib \in LibKind, Works
  PROVE  /\ lib.documents \subseteq lib'.documents /\ lib.provenance \subseteq lib'.provenance
         /\ lib.tags \subseteq lib'.tags /\ lib.creators \subseteq lib'.creators /\ lib.related \subseteq lib'.related
         /\ \A i \in Items : lib.authors[i] = Zotero.authors[i] => lib'.authors[i] = Zotero.authors[i]
         /\ \A h \in Hosts : \A p \in Places : lib.attachment[h][p] # "none" => lib'.attachment[h][p] # "none"
<1>0. lib.attachment \in [Hosts -> [Places -> Status]] /\ lib.authors \in [Items -> {Zotero.authors[i] : i \in Items} \cup {<<>>}]
  BY DEF LibKind
<1>1. CASE PutsCollection \/ PutsName \/ Sorts \/ PutsMark \/ PutsKey \/ MakesHost \/ FindsNote \/ AddsNote \/ Notices
  <2>1. /\ lib.documents \subseteq lib'.documents /\ lib.provenance \subseteq lib'.provenance
        /\ lib.tags \subseteq lib'.tags /\ lib.creators \subseteq lib'.creators /\ lib.related \subseteq lib'.related
        /\ lib'.authors = lib.authors /\ lib'.attachment = lib.attachment
    BY <1>1, ZenonT(60) DEF PutsCollection, PutsName, Sorts, PutsMark, PutsKey, MakesHost, FindsNote, AddsNote, Notices, LibKind
  <2> QED
    BY <2>1
<1>2. CASE PutsItem
  <2>1. /\ lib'.documents = lib.documents /\ lib'.provenance = lib.provenance
        /\ lib'.tags = lib.tags /\ lib'.creators = lib.creators /\ lib'.related = lib.related /\ lib'.attachment = lib.attachment
        /\ lib'.authors = lib.authors \/ lib'.authors = [lib.authors EXCEPT ![This] = Zotero.authors[This]]
    BY <1>2, Zenon DEF PutsItem, LibKind
  <2> QED
    BY <1>0, <2>1
<1>3. CASE PutsFile
  <2>1. This \in Files /\ Host(This) \in Hosts /\ Place(This) \in Places
    BY <1>3, ShelfParts DEF PutsFile, AtRow, Files
  <2>2. /\ lib.documents \subseteq lib'.documents /\ lib.provenance \subseteq lib'.provenance
        /\ lib'.tags = lib.tags /\ lib'.creators = lib.creators /\ lib'.related = lib.related /\ lib'.authors = lib.authors
        /\ \/ lib'.attachment = lib.attachment
           \/ lib'.attachment = [lib.attachment EXCEPT ![Host(This)][Place(This)] = "live"]
    BY <1>3, Zenon DEF PutsFile, LibKind
  <2> QED
    BY <1>0, <2>1, <2>2
<1>4. CASE BinsItem
  <2>1. PICK i \in ItemsDue : lib' = WithChildren(i, "trashed", "live", "with")
    BY <1>4 DEF BinsItem
  <2>2. i \in Hosts
    BY ShelfParts DEF ItemsDue
  <2>3. /\ \A g \in Hosts : \A p \in Places :
              lib'.attachment[g][p] = IF g = i THEN Flip(lib.attachment[g][p], "live", "with") ELSE lib.attachment[g][p]
        /\ lib'.tags = lib.tags /\ lib'.creators = lib.creators /\ lib'.related = lib.related /\ lib'.authors = lib.authors
        /\ lib'.documents = lib.documents /\ lib'.provenance = lib.provenance
    BY <2>1, <2>2, ChildrenAre, Zenon DEF States, Status
  <2> QED
    BY <2>3 DEF Flip
<1>5. CASE BinsPart
  <2>1. /\ lib'.documents = lib.documents /\ lib'.provenance = lib.provenance
        /\ lib'.tags = lib.tags /\ lib'.creators = lib.creators /\ lib'.related = lib.related /\ lib'.authors = lib.authors
        /\ \/ lib'.attachment = lib.attachment
           \/ \E f \in FilesDue : lib'.attachment = [lib.attachment EXCEPT ![Host(f)][Place(f)] = "trashed"]
    BY <1>5, Zenon DEF BinsPart, LibKind
  <2>2. ASSUME NEW f \in FilesDue, lib'.attachment = [lib.attachment EXCEPT ![Host(f)][Place(f)] = "trashed"],
               NEW h \in Hosts, NEW p \in Places, lib.attachment[h][p] # "none"
        PROVE  lib'.attachment[h][p] # "none"
    <3>1. lib'.attachment[h][p] = IF h = Host(f) /\ p = Place(f) THEN "trashed" ELSE lib.attachment[h][p]
      BY <1>0, <2>2
    <3> QED
      BY <2>2, <3>1
  <2> QED
    BY <2>1, <2>2, Zenon
<1>6. CASE BinsCollection
  BY <1>6 DEF BinsCollection, CollectionTrashed, LibKind
<1> QED
  BY <1>1, <1>2, <1>3, <1>4, <1>5, <1>6 DEF Works, Shelved, Bins

\* Of what is only shelved, no note is new.
LEMMA NotesStay ==
  ASSUME lib \in LibKind, Shelved
  PROVE  \A k \in NoteKeys : Len(lib.note[k]) \in Nat /\ Len(lib'.note[k]) = Len(lib.note[k])
<1>0. lib.note \in [NoteKeys -> Seq(Status)] /\ \A k \in NoteKeys : lib.note[k] \in Seq(Status) /\ Len(lib.note[k]) \in Nat
  BY DEF LibKind
<1>1. CASE PutsCollection \/ PutsName \/ PutsItem \/ Sorts \/ PutsFile \/ PutsMark \/ PutsKey \/ BinsCollection
  <2>1. lib'.note = lib.note
    BY <1>1, Zenon DEF PutsCollection, PutsName, PutsItem, Sorts, PutsFile, PutsMark, PutsKey, BinsCollection, CollectionTrashed, LibKind
  <2> QED
    BY <1>0, <2>1
<1>2. CASE BinsItem
  <2>1. PICK i \in ItemsDue : lib' = WithChildren(i, "trashed", "live", "with")
    BY <1>2 DEF BinsItem
  <2>2. i \in Hosts
    BY ShelfParts DEF ItemsDue
  <2> QED
    BY <1>0, <2>1, <2>2, ChildrenAre, ZenonT(60) DEF States, Status
<1>3. CASE BinsPart
  <2>1. CASE lib'.note = lib.note
    BY <1>0, <2>1
  <2>2. ASSUME NEW n \in NotesDue, lib' = [lib EXCEPT !.note[NoteKey(n)][1] = "trashed"], NEW k \in NoteKeys
        PROVE  Len(lib'.note[k]) = Len(lib.note[k])
    <3>1. NoteKey(n) \in NoteKeys
      BY ShelfParts DEF NotesDue
    <3>2. lib'.note = [lib.note EXCEPT ![NoteKey(n)] = [@ EXCEPT ![1] = "trashed"]]
      BY <2>2 DEF LibKind
    <3>3. lib'.note[k] = IF k = NoteKey(n) THEN [lib.note[k] EXCEPT ![1] = "trashed"] ELSE lib.note[k]
      BY <1>0, <3>1, <3>2
    <3>4. Len([lib.note[k] EXCEPT ![1] = "trashed"]) = Len(lib.note[k])
      BY <1>0
    <3> QED
      BY <3>3, <3>4
  <2>3. ASSUME NEW f, lib' = [lib EXCEPT !.attachment[Host(f)][Place(f)] = "trashed"] PROVE lib'.note = lib.note
    BY <2>3 DEF LibKind
  <2>4. ASSUME NEW a, lib' = [lib EXCEPT !.annotation[a] = "trashed"] PROVE lib'.note = lib.note
    BY <2>4 DEF LibKind
  <2> QED
    BY <1>0, <1>3, <2>1, <2>2, <2>3, <2>4, Zenon DEF BinsPart
<1> QED
  BY <1>1, <1>2, <1>3 DEF Shelved, Bins

LEMMA NoteAdded ==
  ASSUME lib \in LibKind, AddsNote
  PROVE  /\ NoteKey(This) \in NoteKeys
         /\ \A k \in NoteKeys : /\ Len(lib.note[k]) \in Nat
                                /\ lib'.note[k] = IF k = NoteKey(This) THEN Append(lib.note[k], "live") ELSE lib.note[k]
                                /\ Len(lib'.note[k]) = IF k = NoteKey(This) THEN Len(lib.note[k]) + 1 ELSE Len(lib.note[k])
<1>1. NoteKey(This) \in NoteKeys
  BY ShelfParts DEF AddsNote, AtRow
<1>2. lib'.note = [lib.note EXCEPT ![NoteKey(This)] = Append(@, "live")] /\ lib.note \in [NoteKeys -> Seq(Status)]
  BY DEF AddsNote, LibKind
<1>3. \A k \in NoteKeys : lib'.note[k] = IF k = NoteKey(This) THEN Append(lib.note[k], "live") ELSE lib.note[k]
  BY <1>1, <1>2
<1>4. \A k \in NoteKeys : Len(lib.note[k]) \in Nat /\ Len(Append(lib.note[k], "live")) = Len(lib.note[k]) + 1
  BY <1>2 DEF Status
<1> QED
  BY <1>1, <1>3, <1>4, Zenon

-----------------------------------------------------------------------------
(* Zotero: hosts made for files, and how many notes *)

\* A host made for a file has what it is sorted under, or its making was cut short.
Hosting ==
  /\ \A h \in Hosts : lib.tagged[h] \subseteq Zotero.tagged[h]
  /\ \A f \in Standing : \/ lib.item[f] = "none" \/ f \in halved \/ Sorting(f)
                         \/ In("attachments") /\ doing.made /\ This = f

LEMMA SortingStays == ASSUME lib \in LibKind, Works, NEW h \in Hosts, Sorting(h) PROVE Sorting(h)'
  BY SortsBy, CollectionsStay, ShelfParts DEF Sorting

LEMMA HostsBy ==
  ASSUME lib \in LibKind, Works, NEW f \in Standing, lib.item[f] = "none", lib'.item[f] # "none"
  PROVE  MakesHost /\ This = f
<1>0. lib.item \in [Hosts -> States]
  BY DEF LibKind
<1>1. CASE PutsCollection \/ PutsName \/ Sorts \/ PutsFile \/ PutsMark \/ PutsKey \/ BinsPart \/ FindsNote \/ AddsNote \/ Notices
  <2>1. lib'.item = lib.item
    BY <1>1, Zenon DEF PutsCollection, PutsName, Sorts, PutsFile, PutsMark, PutsKey, BinsPart, FindsNote, AddsNote, Notices, LibKind
  <2> QED
    BY <2>1
<1>2. CASE BinsCollection
  BY <1>2 DEF BinsCollection, CollectionTrashed, LibKind
<1>3. CASE PutsItem
  <2>1. This \in Items
    BY <1>3 DEF PutsItem, AtRow, Items
  <2>2. lib'.item = lib.item \/ lib'.item = [lib.item EXCEPT ![This] = "live"]
    BY <1>3, Zenon DEF PutsItem, LibKind
  <2> QED
    BY <1>0, <2>1, <2>2, ShelfParts
<1>4. CASE BinsItem
  <2>1. PICK i \in ItemsDue : lib' = WithChildren(i, "trashed", "live", "with")
    BY <1>4 DEF BinsItem
  <2>2. i \in Hosts /\ lib.item[i] = "live"
    BY ShelfParts DEF ItemsDue
  <2>3. lib'.item = [lib.item EXCEPT ![i] = "trashed"]
    BY <2>1, <2>2, ChildrenAre, Zenon DEF States, Status
  <2> QED
    BY <1>0, <2>2, <2>3
<1>5. CASE MakesHost
  <2>1. lib'.item = [lib.item EXCEPT ![This] = "live"]
    BY <1>5 DEF MakesHost, LibKind
  <2> QED
    BY <1>0, <1>5, <2>1
<1> QED
  BY <1>1, <1>2, <1>3, <1>4, <1>5 DEF Works, Shelved, Bins

LEMMA HostingStep == ASSUME ShelfKinds, OnShelf, Hosting, ZoteroNext PROVE Hosting'
<1>0. lib \in LibKind /\ doing \in Doings
  BY DEF ShelfKinds, ShelfRow, Doings
<1>1. CASE Works
  <2>1. \A h \in Hosts : lib'.tagged[h] \subseteq Zotero.tagged[h]
    BY <1>0, <1>1, SortsBy DEF Hosting
  <2>2. ASSUME NEW f \in Standing
        PROVE  \/ lib'.item[f] = "none" \/ f \in halved' \/ Sorting(f)'
               \/ In("attachments")' /\ doing'.made /\ This' = f
    <3>1. This' = This /\ (In("attachments")' <=> In("attachments")) /\ halved' = halved
      BY <1>1, WorksAt, SameRecord DEF Works
    <3>2. CASE lib.item[f] = "none"
      <4>1. CASE lib'.item[f] # "none"
        <5>1. MakesHost /\ This = f
          BY <1>0, <1>1, <3>2, <4>1, HostsBy
        <5>2. In("attachments") /\ doing'.made
          BY <1>0, <5>1, AtRecord DEF MakesHost, Doings
        <5> QED
          BY <3>1, <5>1, <5>2
      <4> QED
        BY <4>1
    <3>3. CASE Sorting(f)
      BY <1>0, <1>1, <3>3, SortingStays, ShelfParts
    <3>4. CASE In("attachments") /\ doing.made /\ This = f
      <4>1. doing'.made
        BY <1>0, <1>1, <3>4 DEF Works, MakesHost, FindsNote, AddsNote, Notices, Doings
      <4> QED
        BY <3>1, <3>4, <4>1
    <3> QED
      BY <3>1, <3>2, <3>3, <3>4 DEF Hosting
  <2> QED
    BY <2>1, <2>2 DEF Hosting
<1>2. CASE People
  <2>1. ~ In("attachments") /\ halved' = halved
    BY <1>2, PeopleAre, AtRecord DEF AtRow
  <2>2. /\ lib'.tagged = lib.tagged /\ lib'.filed = lib.filed /\ lib'.collection = lib.collection
        /\ \A h \in Hosts : lib'.item[h] = "none" <=> lib.item[h] = "none"
    BY <1>0, <1>2, PeopleAre, KeysByPeople
  <2> QED
    BY <2>1, <2>2, ShelfParts DEF Hosting, Sorting
<1>3. CASE Tallied
  <2>1. lib' = lib /\ halved' = halved
    BY <1>3 DEF Tallied, Tallies
  <2>2. ASSUME In("attachments"), doing.made PROVE Sorting(This)
    <3>1. doing.stage = 5
      BY <2>2, AtRecord DEF AtRow
    <3>2. Sorted(This)
      BY <1>3, <2>2, <3>1 DEF Tallied, AtRow, Placed, Hosted
    <3> QED
      BY <3>2 DEF Sorted, Sorting
  <2> QED
    BY <2>1, <2>2 DEF Hosting, Sorting
<1>4. CASE Halts
  <2>1. lib' = lib /\ halved' = Halved
    BY <1>4 DEF Halts
  <2>2. ASSUME In("attachments"), doing.made, This \in Standing PROVE Sorting(This) \/ This \in halved'
    BY <2>1, <2>2 DEF Sorting, Halved
  <2>3. halved \subseteq halved'
    BY <2>1 DEF Halved
  <2> QED
    BY <2>1, <2>2, <2>3 DEF Hosting, Sorting
<1>5. CASE ShelfItself
  <2>1. lib' = lib /\ halved' = halved
    BY <1>5, Itself
  <2>2. ~ (In("attachments") /\ doing.made)
    <3>1. CASE In("attachments")
      <4>1. doing.stage = 5 /\ doing.n # 0 /\ doing.n \in DOMAIN Zotero.attachments
        BY <3>1, AtRecord DEF AtRow
      <4>2. doing.n <= Len(Rows(Stages[doing.stage])) /\ Len(Rows(Stages[doing.stage])) \in Nat /\ doing.n \in Nat
        BY <1>0, <4>1, ShelfStages, ShelfRows, ShelfLists DEF Listed, Doings
      <4>3. ASSUME Start PROVE FALSE
        BY <4>1, <4>3, StartIs, IdleIs
      <4>5. ASSUME BeginStage PROVE FALSE
        BY <4>1, <4>5, BeginIs
      <4>6. ASSUME ReportRun PROVE FALSE
        BY <4>1, <4>6, ReportIs
      <4>4. ASSUME EndStage PROVE FALSE
        <5>1. doing.n = Len(Rows(Stages[doing.stage])) + 1
          BY <4>4, EndIs
        <5> QED
          BY <4>2, <5>1
      <4> QED
        BY <1>5, <4>3, <4>4, <4>5, <4>6 DEF ShelfItself
    <3> QED
      BY <3>1
  <2> QED
    BY <2>1, <2>2 DEF Hosting, Sorting
<1> QED
  BY <1>1, <1>2, <1>3, <1>4, <1>5, ShelfWays DEF ZoteroNext, ShelfStep, ShelfItself

\* How many notes of a key the source has among its first, and in all.
Upto(k, n) == Cardinality({m \in 1 .. n : NoteKey(Zotero.notes[m]) = k})
All(k) == Upto(k, Len(Zotero.notes))

\* Of the notes of a key, a run uses up those it found there before it makes one.
Reading == doing.stage = 6 /\ doing.n # 0
Noting ==
  \A k \in NoteKeys :
    /\ Len(lib.note[k]) <= All(k)
    /\ Reading => Len(lib.note[k]) = doing.left[k] + Upto(k, IF doing.made THEN doing.n ELSE doing.n - 1)

LEMMA UptoIs ==
  ASSUME NEW k, NEW n \in Nat
  PROVE  /\ Upto(k, n) \in Nat
         /\ Upto(k, 0) = 0
         /\ Upto(k, n + 1) = Upto(k, n) + (IF NoteKey(Zotero.notes[n + 1]) = k THEN 1 ELSE 0)
         /\ \A m \in 0 .. n : Upto(k, m) <= Upto(k, n)
<1> DEFINE Of(m) == {x \in 1 .. m : NoteKey(Zotero.notes[x]) = k}
<1>1. \A m \in Nat : IsFiniteSet(Of(m))
  <2>1. \A m \in Nat : IsFiniteSet(1 .. m)
    BY FirstNumbers
  <2>2. \A m \in Nat : Of(m) \subseteq 1 .. m
    OBVIOUS
  <2> QED
    BY <2>1, <2>2, FS_Subset
<1>2. \A m \in Nat : Upto(k, m) = Cardinality(Of(m)) /\ Cardinality(Of(m)) \in Nat
  BY <1>1, FS_CardinalityType DEF Upto
<1>3. Of(0) = {}
  OBVIOUS
<1>4. Of(n + 1) = IF NoteKey(Zotero.notes[n + 1]) = k THEN Of(n) \cup {n + 1} ELSE Of(n)
  OBVIOUS
<1>5. n + 1 \notin Of(n)
  OBVIOUS
<1>6. \A m \in 0 .. n : Of(m) \subseteq Of(n)
  OBVIOUS
<1> HIDE DEF Of
<1>7. Cardinality(Of(n) \cup {n + 1}) = Cardinality(Of(n)) + 1
  BY <1>1, <1>5, FS_AddElement, Zenon
<1>8. \A m \in 0 .. n : Cardinality(Of(m)) <= Cardinality(Of(n))
  BY <1>1, <1>6, FS_Subset
<1>9. Upto(k, 0) = 0
  BY <1>2, <1>3, FS_EmptySet
<1> QED
  BY <1>2, <1>4, <1>7, <1>8, <1>9

LEMMA NotingStep == ASSUME ShelfKinds, OnShelf, Noting, ZoteroNext PROVE Noting'
<1>0. /\ lib \in LibKind /\ doing \in Doings /\ doing.n \in Nat
      /\ \A k \in NoteKeys : lib.note[k] \in Seq(Status) /\ Len(lib.note[k]) \in Nat
      /\ Len(Zotero.notes) \in Nat
  BY ShelfLists DEF ShelfKinds, ShelfRow, Doings, LibKind, Listed
<1>1. ASSUME Works, NEW k \in NoteKeys
      PROVE  /\ Len(lib'.note[k]) <= All(k)
             /\ Reading' => Len(lib'.note[k]) = doing'.left[k] + Upto(k, IF doing'.made THEN doing'.n ELSE doing'.n - 1)
  <2>1. doing'.n = doing.n /\ doing'.stage = doing.stage /\ (Reading' <=> Reading)
    BY <1>1, WorksAt DEF Reading
  <2>2. CASE Shelved /\ doing' = doing
    <3>1. Len(lib'.note[k]) = Len(lib.note[k])
      BY <1>0, <2>2, NotesStay
    <3> QED
      BY <2>1, <2>2, <3>1 DEF Noting
  <2>3. CASE MakesHost
    <3>1. lib'.note = lib.note /\ ~ Reading
      BY <2>3 DEF MakesHost, LibKind, AtRow, Reading
    <3> QED
      BY <2>1, <3>1 DEF Noting
  <2>4. CASE Notices
    BY <2>1, <2>4 DEF Notices, Noting
  <2>5. ASSUME FindsNote \/ AddsNote
        PROVE  /\ Reading /\ doing.n \in 1 .. Len(Zotero.notes) /\ ~ doing.made
               /\ doing.left \in [NoteKeys -> Nat] /\ NoteKey(This) \in NoteKeys /\ This = Zotero.notes[doing.n]
               /\ Upto(k, doing.n) = Upto(k, doing.n - 1) + (IF NoteKey(This) = k THEN 1 ELSE 0)
               /\ Upto(k, doing.n - 1) \in Nat /\ Upto(k, doing.n) <= All(k)
    <3>1. /\ Reading /\ doing.n \in 1 .. Len(Zotero.notes) /\ ~ doing.made /\ This = Zotero.notes[doing.n]
          /\ doing.left \in [NoteKeys -> Nat] /\ NoteKey(This) \in NoteKeys
      BY <2>5, ShelfParts, ShelfLists, Zenon DEF FindsNote, AddsNote, AtRow, Listed, Reading, OnShelf
    <3>2. doing.n - 1 \in Nat /\ (doing.n - 1) + 1 = doing.n /\ doing.n \in 0 .. Len(Zotero.notes)
      BY <1>0, <3>1
    <3>3. Upto(k, doing.n) = Upto(k, doing.n - 1) + (IF NoteKey(This) = k THEN 1 ELSE 0) /\ Upto(k, doing.n - 1) \in Nat
      <4> DEFINE m == doing.n - 1
      <4>1. m \in Nat /\ doing.n = m + 1
        BY <3>2
      <4> HIDE DEF m
      <4>2. Upto(k, m + 1) = Upto(k, m) + (IF NoteKey(Zotero.notes[m + 1]) = k THEN 1 ELSE 0) /\ Upto(k, m) \in Nat
        BY <4>1, UptoIs
      <4>3. Upto(k, doing.n) = Upto(k, m) + (IF NoteKey(Zotero.notes[doing.n]) = k THEN 1 ELSE 0)
        BY <4>1, <4>2
      <4> QED
        BY <3>1, <4>2, <4>3 DEF m
    <3>4. Upto(k, doing.n) <= All(k)
      BY <1>0, <3>2, UptoIs, Zenon DEF All
    <3> QED
      BY <3>1, <3>3, <3>4
  <2>6. CASE FindsNote
    <3>1. doing'.made = TRUE /\ doing'.left = [doing.left EXCEPT ![NoteKey(This)] = @ - 1] /\ lib' = lib
      BY <1>0, <2>6 DEF FindsNote, Doings
    <3>2. Len(lib.note[k]) = doing.left[k] + Upto(k, doing.n - 1)
      BY <2>5, <2>6 DEF Noting
    <3>3. doing'.left[k] = IF k = NoteKey(This) THEN doing.left[k] - 1 ELSE doing.left[k]
      BY <2>5, <2>6, <3>1
    <3>4. doing.left[k] \in Nat
      BY <2>5, <2>6
    <3>5. Len(lib'.note[k]) = doing'.left[k] + Upto(k, doing'.n)
      BY <2>1, <2>5, <2>6, <3>1, <3>2, <3>3, <3>4
    <3> QED
      BY <3>1, <3>5 DEF Noting
  <2>7. CASE AddsNote
    <3>1. doing'.made = TRUE /\ doing'.left = doing.left
      BY <1>0, <2>7 DEF AddsNote, Doings
    <3>2. Len(lib.note[k]) = doing.left[k] + Upto(k, doing.n - 1)
      BY <2>5, <2>7 DEF Noting
    <3>3. Len(lib'.note[k]) = IF k = NoteKey(This) THEN Len(lib.note[k]) + 1 ELSE Len(lib.note[k])
      BY <1>0, <2>7, NoteAdded
    <3>4. doing.left[k] \in Nat /\ (k = NoteKey(This) => doing.left[k] = 0)
      BY <2>5, <2>7 DEF AddsNote
    <3>5. Len(lib'.note[k]) = doing'.left[k] + Upto(k, doing'.n)
      BY <2>1, <2>5, <2>7, <3>1, <3>2, <3>3, <3>4
    <3>6. Len(lib'.note[k]) <= All(k)
      <4>1. CASE k = NoteKey(This)
        <5>1. Len(lib'.note[k]) = Upto(k, doing.n) /\ Upto(k, doing.n) <= All(k)
          BY <2>5, <2>7, <3>2, <3>3, <3>4, <4>1
        <5> QED
          BY <5>1
      <4>2. CASE k # NoteKey(This)
        BY <3>3, <4>2 DEF Noting
      <4> QED
        BY <4>1, <4>2
    <3> QED
      BY <3>1, <3>5, <3>6
  <2> QED
    BY <1>1, <2>2, <2>3, <2>4, <2>6, <2>7 DEF Works
<1>2. CASE People
  <2>1. doing'.n = 0 /\ \A k \in NoteKeys : Len(lib'.note[k]) <= Len(lib.note[k])
    BY <1>0, <1>2, PeopleAre, KeysByPeople
  <2>2. lib' \in LibKind
    BY <1>0, <1>2, PeopleAre, ChangedTyped
  <2>3. ASSUME NEW k \in NoteKeys PROVE Len(lib'.note[k]) <= All(k)
    <3>1. Len(lib'.note[k]) \in Nat /\ All(k) \in Nat
      BY <1>0, <2>2, UptoIs DEF LibKind, All
    <3> QED
      BY <1>0, <2>1, <3>1 DEF Noting
  <2> QED
    BY <2>1, <2>3 DEF Noting, Reading
<1>3. CASE lib' = lib /\ (doing'.n = 0 \/ doing'.stage # 6)
  BY <1>3 DEF Noting, Reading
<1>4. CASE Tallied
  <2>1. lib' = lib
    BY <1>4 DEF Tallied, Tallies
  <2>2. CASE doing' = Idle
    BY <1>3, <2>1, <2>2, IdleIs
  <2>3. CASE doing' = [doing EXCEPT !.n = @ + 1, !.made = FALSE]
    <3>1. doing'.stage = doing.stage /\ doing'.n = doing.n + 1 /\ doing'.made = FALSE /\ doing'.left = doing.left
      BY <1>0, <2>3 DEF Doings
    <3>2. CASE doing.stage # 6
      BY <1>3, <2>1, <3>1, <3>2
    <3>3. CASE doing.stage = 6
      <4>1. doing.made /\ Reading
        BY <1>4, <3>3 DEF Tallied, AtRow, Reading
      <4>2. doing'.n - 1 = doing.n
        BY <1>0, <3>1
      <4> QED
        BY <2>1, <3>1, <4>1, <4>2 DEF Noting
    <3> QED
      BY <3>2, <3>3
  <2> QED
    BY <1>4, <2>2, <2>3 DEF Tallied, Tallies
<1>5. CASE Halts
  BY <1>3, <1>5, IdleIs DEF Halts
<1>6. CASE BeginStage
  <2>1. CASE doing.stage # 6
    BY <1>3, <1>6, <2>1, BeginIs
  <2>2. CASE doing.stage = 6
    <3>1. lib' = lib /\ doing'.left = NoteIndex /\ doing'.made = FALSE /\ doing'.n = 1
      BY <1>6, <2>2, BeginIs, Zenon
    <3>2. \A k \in NoteKeys : NoteIndex[k] = Len(lib.note[k]) /\ Upto(k, 0) = 0
      BY UptoIs DEF NoteIndex
    <3>3. doing'.n - 1 = 0
      BY <3>1
    <3> QED
      BY <1>0, <3>1, <3>2, <3>3 DEF Noting
  <2> QED
    BY <2>1, <2>2
<1>7. CASE Start \/ EndStage \/ ReportRun
  BY <1>3, <1>7, StartIs, EndIs, ReportIs, IdleIs, Zenon
<1>8. CASE Works
  BY <1>1, <1>8 DEF Noting
<1> QED
  BY <1>2, <1>4, <1>5, <1>6, <1>7, <1>8, ShelfWays DEF ZoteroNext, ShelfStep, ShelfItself

-----------------------------------------------------------------------------
(* Zotero: what a run has done, that began with nothing done, while people *)
(* leave the copy alone                                                    *)

ItemDone(i) == lib.item[i] # "none" /\ (lib.item[i] = "live" => lib.authors[i] = Zotero.authors[i] /\ Sorting(i))
FileDone(f) == /\ lib.item[Host(f)] # "none" /\ lib.attachment[Host(f)][Place(f)] # "none"
               /\ Zotero.bytes[f] # Nothing => Zotero.bytes[f] \in lib.documents /\ f \in lib.provenance
MarkDone(a) == Zotero.bytes[Zotero.on[a]] # Nothing => lib.annotation[a] # "none"

\* A stage's record is dealt with.
Dealt(s, m) ==
  /\ s = 1 => Made(Zotero.collections[m])
  /\ s = 2 => Zotero.tags[m] \in lib.tags
  /\ s = 3 => Zotero.creators[m] \in lib.creators
  /\ s = 4 => ItemDone(Zotero.items[m])
  /\ s = 5 => FileDone(Zotero.attachments[m])
  /\ s = 7 => MarkDone(Zotero.annotations[m])
  /\ s = 8 => Zotero.relations[m] \in lib.related
  /\ s = 9 => TrashDone
  /\ s = 10 => KeyDone(Zotero.items[m])

\* The notes are dealt with together.
ShelfDone ==
  settled # "no" =>
    /\ \A s \in 1 .. 10 : \A m \in 1 .. Len(Rows(Stages[s])) : Through(s, m) => Dealt(s, m)
    /\ Past(6) => \A k \in NoteKeys : Len(lib.note[k]) >= All(k)

\* A host is made for a file while not all is done.
Making == In("attachments") /\ doing.made => settled # "ended"

LEMMA ShelfLength == \A s \in 1 .. 10 : Len(Rows(Stages[s])) \in Nat /\ DOMAIN Rows(Stages[s]) = 1 .. Len(Rows(Stages[s]))
<1>1. \A s \in {1, 2, 3, 4, 5, 6, 7, 8, 10} : Listed(Rows(Stages[s]))
  BY ShelfStages, ShelfRows, ShelfLists
<1>2. Rows(Stages[9]) = <<"all">>
  BY ShelfStages, ShelfRows
<1>3. Len(Rows(Stages[9])) = 1 /\ DOMAIN Rows(Stages[9]) = 1 .. 1
  BY <1>2
<1>4. \A s \in 1 .. 10 : s \in {1, 2, 3, 4, 5, 6, 7, 8, 10} \/ s = 9
  OBVIOUS
<1>5. SUFFICES ASSUME NEW s \in 1 .. 10
               PROVE  Len(Rows(Stages[s])) \in Nat /\ DOMAIN Rows(Stages[s]) = 1 .. Len(Rows(Stages[s]))
  OBVIOUS
<1>6. CASE s \in {1, 2, 3, 4, 5, 6, 7, 8, 10}
  <2>1. Listed(Rows(Stages[s]))
    BY <1>1, <1>6
  <2> QED
    BY <2>1, ZenonT(30) DEF Listed
<1>7. CASE s = 9
  <2>1. Len(Rows(Stages[s])) = 1 /\ DOMAIN Rows(Stages[s]) = 1 .. 1
    BY <1>3, <1>7
  <2>2. 1 \in Nat
    OBVIOUS
  <2> QED
    BY <2>1, <2>2, ZenonT(30)
<1> QED
  BY <1>4, <1>6, <1>7, ZenonT(30)

LEMMA SettledIs ==
  ASSUME ShelfKinds, OnShelf, ShelfStep, settled' # "no"
  PROVE  \/ settled = "no" /\ Start /\ Resume = 0 /\ settled' = "began"
         \/ settled = "began" /\ ReportRun /\ settled' = "ended"
         \/ settled' = settled
  BY Itself, StartIs, ReportIs, ShelfWays, Zenon DEF ShelfStep, ShelfItself, Tallied, Tallies, Halts, Works

LEMMA ShelfBegan == ASSUME ShelfKinds, OnShelf, Began, ZoteroNext PROVE Began'
<1>1. CASE Start
  BY <1>1, StartIs DEF Began
<1>2. CASE BeginStage
  BY <1>2, BeginIs, Zenon DEF Began, ShelfKinds, ShelfRow
<1>3. CASE EndStage
  BY <1>3, EndIs DEF Began
<1>4. CASE ReportRun
  BY <1>4, ReportIs DEF Began, ShelfKinds, ShelfRow
<1>5. CASE Tallied
  <2>1. settled' = settled /\ (import' = import \/ import'.state = "cancelled")
    BY <1>5 DEF Tallied, Tallies, ShelfKinds, ShelfRow
  <2> QED
    BY <2>1 DEF Began
<1>6. CASE Halts
  <2>1. settled' = settled /\ import'.state \in {"failed", "running"}
    BY <1>6 DEF Halts, ShelfKinds, ShelfRow
  <2> QED
    BY <2>1 DEF Began
<1>7. CASE Works
  BY <1>7 DEF Works, Began
<1>8. CASE People
  BY <1>8, PeopleAre DEF Began
<1> QED
  BY <1>1, <1>2, <1>3, <1>4, <1>5, <1>6, <1>7, <1>8, ShelfWays DEF ZoteroNext, ShelfStep, ShelfItself

LEMMA ShelfPast ==
  ASSUME ShelfKinds, OnShelf, Began, ShelfStep, settled' # "no", NEW s \in 1 .. 10, Past(s)'
  PROVE  settled # "no" /\ (Past(s) \/ (EndStage /\ doing.stage = s))
<1>1. CASE settled = "no"
  <2>1. Start /\ Resume = 0 /\ settled' = "began"
    BY <1>1, SettledIs
  <2>2. import'.cursor = 0 /\ doing'.stage = 1
    BY <2>1, StartIs
  <2> QED
    BY <2>1, <2>2 DEF Past
<1>2. CASE settled = "ended"
  BY <1>2 DEF Past
<1>3. CASE settled = "began"
  <2>1. CASE settled' = "ended"
    <3>1. ReportRun
      BY <1>3, <2>1, SettledIs
    <3>2. doing.stage = 11
      BY <3>1, ReportIs
    <3> QED
      BY <1>3, <3>2 DEF Past
  <2>2. CASE settled' # "ended"
    <3>1. Begun(s)'
      BY <2>2 DEF Past, Begun
    <3>2. ZoteroNext
      BY DEF ShelfStep, ShelfItself, ZoteroNext
    <3>3. Begun(s) \/ (EndStage /\ s = doing.stage)
      BY <3>1, <3>2, BegunStep
    <3> QED
      BY <1>3, <3>3 DEF Past, Begun
  <2> QED
    BY <2>1, <2>2
<1> QED
  BY <1>1, <1>2, <1>3 DEF ShelfKinds, ShelfRow

LEMMA ShelfThrough ==
  ASSUME ShelfKinds, OnShelf, Began, ShelfStep, settled' # "no", NEW s \in 1 .. 10,
         NEW m \in 1 .. Len(Rows(Stages[s])), Through(s, m)'
  PROVE  settled # "no" /\ (Through(s, m) \/ (Tallied /\ doing.stage = s /\ doing.n = m))
<1>a. doing.n \in Nat /\ doing \in Doings
  BY DEF ShelfKinds, ShelfRow, Doings
<1>b. Len(Rows(Stages[s])) \in Nat
  BY ShelfLength
<1>0. doing.n \in Nat /\ m \in Nat /\ m # 0 /\ Len(Rows(Stages[s])) \in Nat /\ doing \in Doings
  BY <1>a, <1>b
<1>1. CASE Past(s)'
  <2>1. settled # "no" /\ (Past(s) \/ (EndStage /\ doing.stage = s))
    BY <1>1, ShelfPast, Zenon
  <2>2. CASE EndStage /\ doing.stage = s
    <3>1. doing.n = Len(Rows(Stages[s])) + 1
      BY <2>2, EndIs
    <3>2. m < doing.n
      BY <1>0, <3>1
    <3> QED
      BY <2>1, <2>2, <3>2 DEF Through
  <2> QED
    BY <2>1, <2>2 DEF Through
<1>2. CASE ~ Past(s)'
  <2>1. doing'.stage = s /\ m < doing'.n
    BY <1>2 DEF Through
  <2>2. CASE ShelfItself \/ Halts
    <3>1. doing'.n \in {0, 1}
      BY <2>2, StartIs, BeginIs, EndIs, ReportIs, IdleIs, Zenon DEF ShelfItself, Halts
    <3> QED
      BY <1>0, <2>1, <3>1
  <2>3. CASE Works
    BY <2>1, <2>3, WorksAt DEF Works, Through
  <2>4. CASE Tallied
    <3>1. doing' = [doing EXCEPT !.n = @ + 1, !.made = FALSE] /\ settled' = settled
      BY <2>1, <2>4, IdleIs DEF Tallied, Tallies
    <3>2. doing.stage = s /\ doing'.n = doing.n + 1
      BY <1>0, <2>1, <3>1 DEF Doings
    <3>3. m < doing.n \/ m = doing.n
      BY <1>0, <2>1, <3>2
    <3> QED
      BY <2>4, <3>1, <3>2, <3>3 DEF Through
  <2> QED
    BY <2>2, <2>3, <2>4, ShelfWays
<1> QED
  BY <1>1, <1>2

\* A stage that is over has dealt with all its records.
LEMMA StageDone ==
  ASSUME ShelfDone, settled # "no", NEW s \in 1 .. 10, Past(s)
  PROVE  /\ s = 1 => \A c \in Cs : Made(c)
         /\ s = 2 => ToSet(Zotero.tags) \subseteq lib.tags
         /\ s = 3 => ToSet(Zotero.creators) \subseteq lib.creators
         /\ s = 4 => \A i \in Items : ItemDone(i)
         /\ s = 5 => \A f \in Files : FileDone(f)
         /\ s = 6 => \A k \in NoteKeys : Len(lib.note[k]) >= All(k)
         /\ s = 7 => \A a \in Marks : MarkDone(a)
         /\ s = 8 => ToSet(Zotero.relations) \subseteq lib.related
         /\ s = 9 => TrashDone
         /\ s = 10 => \A i \in Items : KeyDone(i)
<1>1. \A m \in 1 .. Len(Rows(Stages[s])) : Dealt(s, m)
  BY Zenon DEF ShelfDone, Through
<1>2. CASE s \in {1, 2, 3, 4, 5, 7, 8, 10}
  <2>1. Listed(Rows(Stages[s]))
    BY <1>2, ShelfStages, ShelfRows, ShelfLists
  <2>2. \A x \in ToSet(Rows(Stages[s])) : \E m \in 1 .. Len(Rows(Stages[s])) : Rows(Stages[s])[m] = x /\ Dealt(s, m)
    BY <1>1, <2>1 DEF Listed
  <2>3. CASE s = 1
    BY <2>2, <2>3, ShelfStages, ShelfRows DEF Dealt, Cs
  <2>4. CASE s = 2
    BY <2>2, <2>4, ShelfStages, ShelfRows DEF Dealt
  <2>5. CASE s = 3
    BY <2>2, <2>5, ShelfStages, ShelfRows DEF Dealt
  <2>6. CASE s = 4
    BY <2>2, <2>6, ShelfStages, ShelfRows DEF Dealt, Items
  <2>7. CASE s = 5
    BY <2>2, <2>7, ShelfStages, ShelfRows DEF Dealt, Files
  <2>8. CASE s = 7
    BY <2>2, <2>8, ShelfStages, ShelfRows DEF Dealt, Marks
  <2>9. CASE s = 8
    BY <2>2, <2>9, ShelfStages, ShelfRows DEF Dealt
  <2>10. CASE s = 10
    BY <2>2, <2>10, ShelfStages, ShelfRows DEF Dealt, Items
  <2> QED
    BY <1>2, <2>3, <2>4, <2>5, <2>6, <2>7, <2>8, <2>9, <2>10
<1>3. CASE s = 6
  BY <1>3 DEF ShelfDone
<1>4. CASE s = 9
  <2>1. Rows(Stages[9]) = <<"all">>
    BY ShelfStages, ShelfRows
  <2>2. 1 \in 1 .. Len(Rows(Stages[9]))
    BY <2>1
  <2>3. Dealt(9, 1)
    BY <1>1, <1>4, <2>2
  <2> QED
    BY <1>4, <2>3 DEF Dealt
<1>5. s \in {1, 2, 3, 4, 5, 7, 8, 10} \/ s = 6 \/ s = 9
  OBVIOUS
<1> QED
  BY <1>2, <1>3, <1>4, <1>5

LEMMA AllDone ==
  ASSUME ShelfDone, settled = "ended"
  PROVE  /\ \A c \in Cs : Made(c)
         /\ ToSet(Zotero.tags) \subseteq lib.tags /\ ToSet(Zotero.creators) \subseteq lib.creators
         /\ ToSet(Zotero.relations) \subseteq lib.related
         /\ \A i \in Items : ItemDone(i) /\ KeyDone(i)
         /\ \A f \in Files : FileDone(f)
         /\ \A k \in NoteKeys : Len(lib.note[k]) >= All(k)
         /\ \A a \in Marks : MarkDone(a)
         /\ TrashDone
<1>1. \A s \in 1 .. 10 : Past(s)
  BY DEF Past
<1> QED
  BY <1>1, StageDone

\* A run of a library that has everything writes nothing, but for files in
\* collections of the trash.
LEMMA QuietOnce ==
  ASSUME ShelfKinds, OnShelf, ShelfDone, Noting, Making, settled = "ended", Works
  PROVE  \/ lib' = lib /\ ~ MakesHost
         \/ \E h \in Hosts : \E c \in Zotero.filed[h] :
              /\ lib.collection[c] = "trashed" /\ ~ MakesHost
              /\ lib' = [lib EXCEPT !.filed[h] = @ \cup {c}]
<1>0. lib \in LibKind
  BY DEF ShelfKinds
<1>1. ~ PutsCollection
  <2>1. \A c \in Cs : lib.collection[c] # "none"
    BY AllDone, LineIs DEF Made
  <2> QED
    BY <2>1 DEF PutsCollection
<1>2. ASSUME PutsName PROVE lib' = lib
  <2>1. CASE AtRow(2, Zotero.tags) /\ lib' = [lib EXCEPT !.tags = @ \cup {This}]
    <3>1. lib.tags \cup {This} = lib.tags
      BY <2>1, AllDone DEF AtRow
    <3> QED
      BY <1>0, <2>1, <3>1 DEF LibKind
  <2>2. CASE AtRow(3, Zotero.creators) /\ lib' = [lib EXCEPT !.creators = @ \cup {This}]
    <3>1. lib.creators \cup {This} = lib.creators
      BY <2>2, AllDone DEF AtRow
    <3> QED
      BY <1>0, <2>2, <3>1 DEF LibKind
  <2>3. CASE AtRow(8, Zotero.relations) /\ lib' = [lib EXCEPT !.related = @ \cup {This}]
    <3>1. lib.related \cup {This} = lib.related
      BY <2>3, AllDone DEF AtRow
    <3> QED
      BY <1>0, <2>3, <3>1 DEF LibKind
  <2> QED
    BY <1>2, <2>1, <2>2, <2>3 DEF PutsName
<1>3. ~ PutsItem
  <2>1. This \in Items => ItemDone(This)
    BY AllDone
  <2> QED
    BY <2>1 DEF PutsItem, AtRow, Items, ItemDone
<1>4. ASSUME Sorts
      PROVE  \E h \in Hosts : \E c \in Zotero.filed[h] :
                lib.collection[c] = "trashed" /\ lib' = [lib EXCEPT !.filed[h] = @ \cup {c}]
  <2>1. AtRow(4, Zotero.items) /\ lib.item[This] = "live" /\ This \in Hosts
    BY <1>4, AtRecord DEF Sorts, Making
  <2>2. Sorting(This)
    <3>1. ItemDone(This)
      BY <2>1, AllDone DEF AtRow, Items
    <3> QED
      BY <2>1, <3>1 DEF ItemDone
  <2>3. PICK c \in Zotero.filed[This] \ lib.filed[This] : lib' = [lib EXCEPT !.filed[This] = @ \cup {c}]
    BY <1>4, <2>2 DEF Sorts, Sorting
  <2>4. lib.collection[c] = "trashed"
    BY <2>2 DEF Sorting
  <2> QED
    BY <2>1, <2>3, <2>4, Zenon
<1>5. ~ PutsFile /\ ~ MakesHost
  <2>1. AtRow(5, Zotero.attachments) => FileDone(This)
    BY AllDone DEF AtRow, Files
  <2> QED
    BY <2>1, ShelfParts DEF PutsFile, MakesHost, FileDone, Stored
<1>6. ~ PutsMark
  <2>1. AtRow(7, Zotero.annotations) => This \in Marks /\ MarkDone(This)
    BY AllDone DEF AtRow, Marks
  <2>2. Nothing \notin lib.documents
    BY <1>0 DEF LibKind, Documents
  <2> QED
    BY <2>1, <2>2 DEF PutsMark, MarkDone
<1>7. ~ PutsKey
  BY AllDone DEF PutsKey, AtRow, Items
<1>8. ~ Bins
  BY AllDone DEF Bins, BinsItem, BinsPart, BinsCollection, TrashDone
<1>9. ~ AddsNote
  <2>1. ASSUME AddsNote PROVE FALSE
    <3> DEFINE k == NoteKey(This)  m == doing.n - 1
    <3>1. /\ Reading /\ doing.n \in 1 .. Len(Zotero.notes) /\ k \in NoteKeys /\ This = Zotero.notes[doing.n]
          /\ doing.left[k] = 0 /\ ~ doing.made
      BY <2>1, ShelfParts, ShelfLists DEF AddsNote, AtRow, Reading, Listed
    <3>2. m \in Nat /\ doing.n = m + 1 /\ Len(Zotero.notes) \in Nat /\ doing.n \in 0 .. Len(Zotero.notes)
      BY <3>1, ShelfLists DEF Listed
    <3>3. Len(lib.note[k]) = 0 + Upto(k, m) /\ Len(lib.note[k]) >= All(k)
      BY <3>1, AllDone DEF Noting
    <3> HIDE DEF k, m
    <3>4. Upto(k, m + 1) = Upto(k, m) + (IF NoteKey(Zotero.notes[m + 1]) = k THEN 1 ELSE 0) /\ Upto(k, m) \in Nat
      BY <3>2, UptoIs, Zenon
    <3>5. NoteKey(Zotero.notes[m + 1]) = k
      BY <3>1, <3>2 DEF k
    <3>6. Upto(k, m + 1) <= All(k) /\ All(k) \in Nat
      BY <3>2, UptoIs DEF All
    <3> QED
      BY <3>3, <3>4, <3>5, <3>6
  <2> QED
    BY <2>1
<1> QED
  BY <1>1, <1>2, <1>3, <1>4, <1>5, <1>6, <1>7, <1>8, <1>9 DEF Works, Shelved, FindsNote, Notices

LEMMA MakingStep == ASSUME ShelfKinds, OnShelf, ShelfDone, Noting, Making, ZoteroNext PROVE Making'
<1>0. doing \in Doings
  BY DEF ShelfKinds, ShelfRow, Doings
<1>1. CASE Works
  <2>1. (In("attachments")' <=> In("attachments")) /\ settled' = settled
    BY <1>1, WorksAt, SameRecord DEF Works
  <2>2. CASE MakesHost
    BY <1>1, <2>1, <2>2, QuietOnce DEF Making
  <2>3. CASE ~ MakesHost /\ In("attachments")
    <3>1. doing' = doing
      <4>1. ~ AtRow(6, Zotero.notes)
        BY <2>3, AtRecord DEF AtRow
      <4> QED
        BY <1>1, <2>3, <4>1 DEF Works, FindsNote, AddsNote, Notices
    <3> QED
      BY <2>1, <2>3, <3>1 DEF Making
  <2> QED
    BY <2>1, <2>2, <2>3 DEF Making
<1>2. CASE Tallied
  <2>1. doing'.made = FALSE
    BY <1>0, <1>2, IdleIs, Zenon DEF Tallied, Tallies, Doings
  <2> QED
    BY <2>1 DEF Making
<1>3. CASE Halts \/ ShelfItself
  BY <1>3, StartIs, BeginIs, EndIs, ReportIs, IdleIs DEF Halts, ShelfItself, Making
<1>4. CASE People
  BY <1>4, PeopleAre DEF Making
<1> QED
  BY <1>1, <1>2, <1>3, <1>4, ShelfWays DEF ZoteroNext, ShelfStep, ShelfItself

\* A record is counted when it is dealt with.
LEMMA TalliedDeals ==
  ASSUME ShelfKinds, OnShelf, ShelfDone, settled # "no", Tallied
  PROVE  Dealt(doing.stage, doing.n)
<1>0. lib \in LibKind /\ lib.item \in [Hosts -> States]
  BY DEF ShelfKinds, LibKind
<1>1. CASE doing.stage \in {1, 2, 3, 6, 8, 9, 10}
  BY <1>1 DEF Tallied, AtRow, Dealt
<1>2. CASE doing.stage = 4
  BY <1>2 DEF Tallied, AtRow, Dealt, ItemDone, Sorted, Sorting
<1>3. CASE doing.stage = 5
  BY <1>3 DEF Tallied, AtRow, Dealt, FileDone, Placed, Hosted, Stored
<1>4. CASE doing.stage = 7
  <2>1. This = Zotero.annotations[doing.n]
        /\ (Zotero.bytes[Zotero.on[This]] \notin lib.documents \/ lib.annotation[This] # "none")
    BY <1>4 DEF Tallied, AtRow
  <2>2. Zotero.on[This] \in Files
    BY <1>4, ShelfParts DEF Tallied, AtRow, Marks
  <2>3. Past(5)
    BY <1>4 DEF Past
  <2>4. FileDone(Zotero.on[This])
    BY <2>2, <2>3, StageDone
  <2> QED
    BY <1>4, <2>1, <2>4 DEF Dealt, MarkDone, FileDone
<1> QED
  BY <1>1, <1>2, <1>3, <1>4 DEF Tallied, AtRow

\* What is dealt with stays so.
LEMMA DealtStays ==
  ASSUME ShelfKinds, OnShelf, ShelfDone, Noting, Making, settled # "no", Works,
         NEW s \in 1 .. 10, NEW m \in 1 .. Len(Rows(Stages[s])), Through(s, m)
  PROVE  Dealt(s, m)'
<1>0. lib \in LibKind /\ Dealt(s, m) /\ doing.n # 0 /\ import.cursor = doing.stage /\ doing.stage \in 1 .. 10
  BY WorksAt, Zenon DEF ShelfKinds, ShelfDone, OnShelf
<1>a. m \in DOMAIN Rows(Stages[s])
  BY ShelfLength, Zenon
<1>1. CASE s \in {1, 2, 3, 7, 8}
  <2>1. CASE s = 1
    <3>1. Zotero.collections[m] \in Cs /\ Made(Zotero.collections[m])
      BY <1>0, <1>a, <2>1, ShelfStages, ShelfRows, ShelfLists, ZenonT(60) DEF Dealt, Listed, Cs
    <3> QED
      BY <1>0, <2>1, <3>1, CollectionsStay, LineIs DEF Dealt, Made
  <2>2. CASE s = 2 \/ s = 3 \/ s = 8
    BY <1>0, <2>2, FilesBy DEF Dealt
  <2>3. CASE s = 7
    <3>1. Zotero.annotations[m] \in Marks
      BY <1>a, <2>3, ShelfStages, ShelfRows, ShelfLists DEF Listed, Marks
    <3> QED
      BY <1>0, <2>3, <3>1, MarksBy DEF Dealt, MarkDone
  <2> QED
    BY <1>1, <2>1, <2>2, <2>3
<1>2. CASE s = 4
  <2>1. Zotero.items[m] \in Items /\ Zotero.items[m] \in Hosts
    BY <1>a, <1>2, ShelfStages, ShelfRows, ShelfLists, ShelfParts, ZenonT(60) DEF Listed, Items
  <2>2. ItemDone(Zotero.items[m])
    BY <1>0, <1>2 DEF Dealt
  <2>3. ItemDone(Zotero.items[m])'
    BY <1>0, <2>1, <2>2, ItemsStay, SortingStays, FilesBy DEF ItemDone
  <2> QED
    BY <1>2, <2>3 DEF Dealt
<1>3. CASE s = 5
  <2> DEFINE f == Zotero.attachments[m]
  <2>1. f \in Files /\ Host(f) \in Hosts /\ Place(f) \in Places
    <3>1. f \in Files
      BY <1>a, <1>3, ShelfStages, ShelfRows, ShelfLists, ZenonT(60) DEF Listed, Files
    <3> QED
      BY <3>1, ShelfParts
  <2>2. FileDone(f)
    BY <1>0, <1>3 DEF Dealt
  <2> HIDE DEF f
  <2>3. FileDone(f)'
    BY <1>0, <2>1, <2>2, ItemsStay, FilesBy DEF FileDone
  <2> QED
    BY <1>3, <2>3 DEF Dealt, f
<1>4. CASE s = 6
  BY <1>4 DEF Dealt
<1>5. CASE settled = "ended" /\ s \in {9, 10}
  <2>1. TrashDone /\ \A i \in Items : KeyDone(i)
    BY <1>5, AllDone
  <2>2. lib' = lib \/ \E h, x : lib' = [lib EXCEPT !.filed[h] = x]
    BY <1>5, QuietOnce, Zenon
  <2>3. /\ lib'.item = lib.item /\ lib'.note = lib.note /\ lib'.attachment = lib.attachment
        /\ lib'.annotation = lib.annotation /\ lib'.collection = lib.collection /\ lib'.key = lib.key
    BY <1>0, <2>2 DEF LibKind
  <2>4. TrashDone'
    BY <2>1, <2>3 DEF TrashDone, ItemsDue, NotesDue, FilesDue, MarksDue, CollectionsDue
  <2>5. KeyDone(Zotero.items[m])' <=> KeyDone(Zotero.items[m])
    BY <2>3 DEF KeyDone
  <2> QED
    BY <1>0, <1>5, <2>4, <2>5 DEF Dealt
<1>6. CASE settled # "ended" /\ s \in {9, 10}
  <2>1. s = 9 => TrashDone
    BY <1>0 DEF Dealt
  <2>2. PutsKey
    <3>1. doing.stage = 10 \/ (doing.stage = 9 /\ s = 9 /\ doing.n # 1)
      <4>1. s < doing.stage \/ (doing.stage = s /\ m < doing.n)
        BY <1>0, <1>6 DEF Through, Past
      <4> QED
        BY <1>0, <1>6, <4>1
    <3> QED
      BY <3>1 DEF Works, Shelved, PutsCollection, PutsName, PutsItem, Sorts, PutsFile, PutsMark, Bins,
                  MakesHost, FindsNote, AddsNote, Notices, AtRow
  <2>3. This \in Items /\ lib' = [lib EXCEPT !.key[This] = Zotero.claim[This]]
    BY <2>2 DEF PutsKey, AtRow, Items
  <2>4. /\ lib'.item = lib.item /\ lib'.note = lib.note /\ lib'.attachment = lib.attachment
        /\ lib'.annotation = lib.annotation /\ lib'.collection = lib.collection
        /\ lib'.key = [lib.key EXCEPT ![This] = Zotero.claim[This]]
    BY <1>0, <2>3 DEF LibKind
  <2>5. TrashDone => TrashDone'
    BY <2>4 DEF TrashDone, ItemsDue, NotesDue, FilesDue, MarksDue, CollectionsDue
  <2>6. s = 10 => KeyDone(Zotero.items[m])'
    <3>1. ASSUME s = 10 PROVE Zotero.items[m] \in Items /\ KeyDone(Zotero.items[m])
      BY <1>0, <1>a, <3>1, ShelfStages, ShelfRows, ShelfLists, ZenonT(60) DEF Listed, Items, Dealt
    <3>2. \A i \in Items : KeyDone(i) => KeyDone(i)'
      BY <1>0, <2>3, <2>4 DEF KeyDone, LibKind
    <3> QED
      BY <3>1, <3>2
  <2> QED
    BY <1>6, <2>1, <2>5, <2>6 DEF Dealt
<1> QED
  BY <1>1, <1>2, <1>3, <1>4, <1>5, <1>6

LEMMA ShelfDoneStep ==
  ASSUME ShelfKinds, OnShelf, Began, ShelfDone, Noting, Making, ZoteroNext
  PROVE  ShelfDone'
<1>0. lib \in LibKind
  BY DEF ShelfKinds
<1>1. CASE settled' = "no"
  BY <1>1 DEF ShelfDone
<1>2. CASE settled' # "no"
  <2>1. ShelfStep
    BY <1>2, PeopleAre, Zenon DEF ZoteroNext, ShelfStep, ShelfItself
  <2>2. ASSUME NEW s \in 1 .. 10, NEW m \in 1 .. Len(Rows(Stages[s])), Through(s, m)' PROVE Dealt(s, m)'
    <3>1. settled # "no" /\ (Through(s, m) \/ (Tallied /\ doing.stage = s /\ doing.n = m))
      BY <1>2, <2>1, <2>2, ShelfThrough, Zenon
    <3>2. CASE lib' = lib
      <4>1. Dealt(s, m)
        BY <3>1, TalliedDeals, Zenon DEF ShelfDone
      <4> QED
        BY <3>2, <4>1 DEF Dealt, Made, ItemDone, Sorting, FileDone, MarkDone, KeyDone, TrashDone,
                          ItemsDue, NotesDue, FilesDue, MarksDue, CollectionsDue
    <3>3. CASE Works /\ ~ Tallied
      BY <3>1, <3>3, DealtStays, Zenon
    <3> QED
      BY <2>1, <3>2, <3>3, LibStays DEF Tallied, Tallies
  <2>3. ASSUME Past(6)', NEW k \in NoteKeys PROVE Len(lib'.note[k]) >= All(k)
    <3>1. settled # "no" /\ (Past(6) \/ (EndStage /\ doing.stage = 6))
      BY <1>2, <2>1, <2>3, ShelfPast
    <3>2. Len(lib.note[k]) \in Nat /\ All(k) \in Nat
      BY <1>0, UptoIs, ShelfLists DEF LibKind, Listed, All
    <3>3. CASE Past(6)
      <4>1. Len(lib.note[k]) >= All(k)
        BY <3>1, <3>3 DEF ShelfDone
      <4>2. Len(lib'.note[k]) >= Len(lib.note[k])
        <5>1. CASE lib' = lib
          BY <3>2, <5>1
        <5>2. CASE Works
          <6>1. CASE Shelved
            BY <1>0, <3>2, <6>1, NotesStay
          <6>2. CASE AddsNote
            BY <1>0, <3>2, <6>2, NoteAdded
          <6>3. CASE MakesHost
            <7>1. lib'.note = lib.note
              BY <1>0, <6>3 DEF MakesHost, LibKind
            <7> QED
              BY <3>2, <7>1
          <6>4. CASE FindsNote \/ Notices
            BY <5>1, <6>4 DEF FindsNote, Notices
          <6> QED
            BY <5>2, <6>1, <6>2, <6>3, <6>4 DEF Works
        <5> QED
          BY <2>1, <5>1, <5>2, LibStays
      <4>3. Len(lib'.note[k]) \in Nat
        <5>1. lib' \in LibKind
          BY ShelfTypesStep DEF ShelfKinds
        <5> QED
          BY <5>1 DEF LibKind
      <4> QED
        BY <3>2, <4>1, <4>2, <4>3
    <3>4. CASE EndStage /\ doing.stage = 6
      <4>1. lib' = lib /\ doing.n = Len(Zotero.notes) + 1 /\ Len(Zotero.notes) \in Nat
        <5>1. Rows(Stages[6]) = Zotero.notes /\ Len(Zotero.notes) \in Nat
          BY ShelfStages, ShelfRows, ShelfLists DEF Listed
        <5> QED
          BY <3>4, <5>1, EndIs
      <4>2. doing.left \in [NoteKeys -> Nat] /\ Reading
        BY <3>4, <4>1 DEF OnShelf, Reading
      <4>3. ~ doing.made
        <5>1. ~ AtRow(6, Zotero.notes) /\ ~ AtRow(5, Zotero.attachments)
          BY <3>4, <4>1, ShelfLists DEF AtRow, Listed
        <5> QED
          BY <5>1, AtRecord DEF OnShelf
      <4>4. Len(lib.note[k]) = doing.left[k] + Upto(k, doing.n - 1)
        BY <4>2, <4>3 DEF Noting
      <4>5. doing.n - 1 = Len(Zotero.notes)
        BY <4>1
      <4>6. doing.left[k] \in Nat
        BY <4>2
      <4> QED
        BY <3>2, <4>1, <4>4, <4>5, <4>6 DEF All
    <3> QED
      BY <3>1, <3>3, <3>4
  <2> QED
    BY <2>2, <2>3 DEF ShelfDone
<1> QED
  BY <1>1, <1>2

LEMMA ShelfRerun ==
  ASSUME ShelfKinds, OnShelf, ShelfDone, Noting, Making, ZoteroNext
  PROVE  ZoteroRerunHarmless
<1> SUFFICES ASSUME settled = "ended", settled' = "ended" PROVE Visible' = Visible
  BY DEF ZoteroRerunHarmless
<1>0. lib \in LibKind
  BY DEF ShelfKinds
<1>1. ShelfStep
  BY PeopleAre DEF ZoteroNext, ShelfStep, ShelfItself
<1>2. CASE lib' = lib
  BY <1>2 DEF Visible
<1>3. ASSUME NEW h \in Hosts, NEW c \in Zotero.filed[h], lib.collection[c] = "trashed",
             lib' = [lib EXCEPT !.filed[h] = @ \cup {c}]
      PROVE  Visible' = Visible
  <2> DEFINE Seen(filed) == [g \in Hosts |-> {d \in filed[g] : lib.collection[d] = "live"}]
  <2>1. lib'.filed = [lib.filed EXCEPT ![h] = @ \cup {c}] /\ lib'.collection = lib.collection
    BY <1>0, <1>3 DEF LibKind
  <2>2. \A g \in Hosts : {d \in lib'.filed[g] : lib.collection[d] = "live"} = {d \in lib.filed[g] : lib.collection[d] = "live"}
    BY <1>0, <1>3, <2>1 DEF LibKind
  <2>3. Seen(lib'.filed) = Seen(lib.filed)
    BY <2>2
  <2>4. Visible = [lib EXCEPT !.filed = Seen(lib.filed)]
    BY DEF Visible
  <2>5. Visible' = [lib' EXCEPT !.filed = Seen(lib'.filed)]
    BY <2>1 DEF Visible
  <2> HIDE DEF Seen
  <2>6. [lib' EXCEPT !.filed = Seen(lib.filed)] = [lib EXCEPT !.filed = Seen(lib.filed)]
    BY <1>0, <1>3, Zenon DEF LibKind
  <2> QED
    BY <2>3, <2>4, <2>5, <2>6
<1>4. CASE Works
  BY <1>2, <1>3, <1>4, QuietOnce
<1> QED
  BY <1>1, <1>2, <1>4, LibStays

-----------------------------------------------------------------------------
(* Zotero: what is in the trash, while people leave the copy alone *)

\* Nothing is.
Unfallen == /\ \A h \in Hosts : lib.item[h] # "trashed" /\ \A p \in Places : lib.attachment[h][p] \in {"none", "live"}
            /\ \A k \in NoteKeys : \A m \in DOMAIN lib.note[k] : lib.note[k][m] = "live"
            /\ \A a \in Marks : lib.annotation[a] \in {"none", "live"}

\* What is, is there because it is in Zotero's, or its item is.
FellHost(h) == lib.item[h] = "trashed" => Gone(h) /\ lib.authors[h] = Zotero.authors[h] /\ Sorting(h)
FellFile(h, p) ==
  /\ lib.item[h] = "trashed" => lib.attachment[h][p] \in {"none", "with"}
  /\ lib.item[h] # "trashed" => lib.attachment[h][p] # "with"
  /\ lib.attachment[h][p] = "trashed" => ~ Gone(h) /\ \E f \in Files \cap Deleted : Host(f) = h /\ Place(f) = p
FellMark(a) ==
  LET h == Host(Zotero.on[a])
  IN /\ lib.item[h] = "trashed" => lib.annotation[a] \in {"none", "with"}
     /\ lib.item[h] # "trashed" => lib.annotation[a] # "with"
     /\ lib.annotation[a] = "trashed" => ~ Gone(h) /\ a \in Deleted
FellNote(k) ==
  \/ k[1] \in Items /\ lib.item[k[1]] = "trashed"
  \/ \A m \in DOMAIN lib.note[k] :
       \/ lib.note[k][m] = "live"
       \/ lib.note[k][m] = "trashed" /\ m = 1 /\ \E n \in ToSet(Zotero.notes) \cap Deleted : NoteKey(n) = k
Fallen == /\ \A h \in Hosts : FellHost(h) /\ \A p \in Places : FellFile(h, p)
          /\ \A a \in Marks : FellMark(a)
          /\ \A k \in NoteKeys : FellNote(k)

\* What a run passes, its log tells of.
Noticed ==
  /\ \A m \in DOMAIN Zotero.items : Passed(4, m) /\ Drops(Zotero.items[m]) => Zotero.items[m] \in log
  /\ \A m \in DOMAIN Zotero.attachments : Passed(5, m) => Zotero.attachments[m] \in log

UntouchedShelf ==
  ~ touched =>
    /\ settled = "no" => import.state = "none" /\ import.cursor = 0 /\ doing = Idle
    /\ Unfallen \/ (settled # "no" /\ (settled = "ended" \/ 8 < import.cursor))
    /\ Fallen /\ Noticed

LEMMA UnfallenStays == ASSUME lib \in LibKind, Works, ~ Bins, Unfallen PROVE Unfallen'
<1>0. /\ lib.item \in [Hosts -> States] /\ lib.attachment \in [Hosts -> [Places -> Status]]
      /\ lib.note \in [NoteKeys -> Seq(Status)] /\ lib.annotation \in [Marks -> Status]
  BY DEF LibKind
<1>1. CASE PutsCollection \/ PutsName \/ Sorts \/ PutsKey \/ FindsNote \/ Notices
  <2>1. lib'.item = lib.item /\ lib'.attachment = lib.attachment /\ lib'.note = lib.note /\ lib'.annotation = lib.annotation
    BY <1>1 DEF PutsCollection, PutsName, Sorts, PutsKey, FindsNote, Notices, LibKind
  <2> QED
    BY <2>1 DEF Unfallen
<1>2. CASE PutsItem \/ MakesHost
  <2>1. /\ lib'.attachment = lib.attachment /\ lib'.note = lib.note /\ lib'.annotation = lib.annotation
        /\ lib'.item = lib.item \/ lib'.item = [lib.item EXCEPT ![This] = "live"]
    BY <1>2, Zenon DEF PutsItem, MakesHost, LibKind
  <2>2. \A h \in Hosts : lib'.item[h] # "trashed"
    BY <1>0, <2>1 DEF Unfallen
  <2> QED
    BY <2>1, <2>2 DEF Unfallen
<1>3. CASE PutsFile
  <2>1. This \in Files /\ Host(This) \in Hosts /\ Place(This) \in Places
    BY <1>3, ShelfParts DEF PutsFile, AtRow, Files
  <2>2. /\ lib'.item = lib.item /\ lib'.note = lib.note /\ lib'.annotation = lib.annotation
        /\ \/ lib'.attachment = lib.attachment
           \/ lib'.attachment = [lib.attachment EXCEPT ![Host(This)][Place(This)] = "live"]
    BY <1>3, Zenon DEF PutsFile, LibKind
  <2>3. \A h \in Hosts : \A p \in Places : lib'.attachment[h][p] \in {lib.attachment[h][p], "live"}
    BY <1>0, <2>1, <2>2
  <2> QED
    BY <2>2, <2>3 DEF Unfallen
<1>4. CASE PutsMark
  <2>1. /\ lib'.item = lib.item /\ lib'.attachment = lib.attachment /\ lib'.note = lib.note
        /\ lib'.annotation = [lib.annotation EXCEPT ![This] = "live"]
    BY <1>4 DEF PutsMark, LibKind
  <2>2. \A a \in Marks : lib'.annotation[a] \in {lib.annotation[a], "live"}
    BY <1>0, <2>1
  <2> QED
    BY <2>1, <2>2 DEF Unfallen
<1>5. CASE AddsNote
  <2>1. lib'.item = lib.item /\ lib'.attachment = lib.attachment /\ lib'.annotation = lib.annotation
    BY <1>5 DEF AddsNote, LibKind
  <2>2. ASSUME NEW k \in NoteKeys, NEW m \in DOMAIN lib'.note[k] PROVE lib'.note[k][m] = "live"
    <3>1. lib.note[k] \in Seq(Status) /\ "live" \in Status /\ \A x \in DOMAIN lib.note[k] : lib.note[k][x] = "live"
      BY <1>0 DEF Status, Unfallen
    <3>2. lib'.note[k] = Append(lib.note[k], "live") \/ lib'.note[k] = lib.note[k]
      BY <1>5, NoteAdded, Zenon
    <3>3. CASE lib'.note[k] = Append(lib.note[k], "live")
      <4>1. m \in 1 .. Len(lib.note[k]) + 1 /\ Len(lib.note[k]) \in Nat
        BY <2>2, <3>1, <3>3
      <4>2. CASE m = Len(lib.note[k]) + 1
        BY <3>1, <3>3, <4>2
      <4>3. CASE m \in 1 .. Len(lib.note[k])
        BY <3>1, <3>3, <4>3
      <4> QED
        BY <4>1, <4>2, <4>3
    <3> QED
      BY <2>2, <3>1, <3>2, <3>3, Zenon
  <2> QED
    BY <2>1, <2>2 DEF Unfallen
<1> QED
  BY <1>1, <1>2, <1>3, <1>4, <1>5 DEF Works, Shelved

LEMMA FallenSame ==
  ASSUME Fallen, lib'.item = lib.item, lib'.attachment = lib.attachment, lib'.note = lib.note,
         lib'.annotation = lib.annotation, lib'.authors = lib.authors, \A h \in Hosts : Sorting(h) => Sorting(h)'
  PROVE  Fallen'
<1>1. ASSUME NEW h \in Hosts PROVE FellHost(h)'
  <2>1. FellHost(h)
    BY DEF Fallen
  <2> QED
    BY <2>1 DEF FellHost
<1>2. ASSUME NEW h \in Hosts, NEW p \in Places PROVE FellFile(h, p)'
  <2>1. FellFile(h, p)
    BY DEF Fallen
  <2> QED
    BY <2>1 DEF FellFile
<1>3. ASSUME NEW a \in Marks PROVE FellMark(a)'
  <2>1. FellMark(a)
    BY DEF Fallen
  <2> QED
    BY <2>1 DEF FellMark
<1>4. ASSUME NEW k \in NoteKeys PROVE FellNote(k)'
  <2>1. FellNote(k)
    BY DEF Fallen
  <2> QED
    BY <2>1 DEF FellNote
<1> QED
  BY <1>1, <1>2, <1>3, <1>4 DEF Fallen

\* What the run itself puts there, and what goes with it.
LEMMA FallenItem ==
  ASSUME lib \in LibKind, Fallen, Works, \A i \in Items : ItemDone(i),
         NEW i \in ItemsDue, lib' = WithChildren(i, "trashed", "live", "with")
  PROVE  Fallen'
<1>0. i \in Items /\ i \in Hosts /\ i \in Deleted /\ lib.item[i] = "live" /\ Gone(i)
  BY ShelfParts DEF ItemsDue, Gone
<1>1. /\ lib'.item = [lib.item EXCEPT ![i] = "trashed"]
      /\ \A g \in Hosts : \A p \in Places :
           lib'.attachment[g][p] = IF g = i THEN Flip(lib.attachment[g][p], "live", "with") ELSE lib.attachment[g][p]
      /\ \A k \in NoteKeys : DOMAIN lib'.note[k] = DOMAIN lib.note[k]
      /\ \A k \in NoteKeys : \A m \in DOMAIN lib.note[k] :
           lib'.note[k][m] = IF k[1] = i THEN Flip(lib.note[k][m], "live", "with") ELSE lib.note[k][m]
      /\ \A a \in Marks :
           lib'.annotation[a] = IF Host(Zotero.on[a]) = i THEN Flip(lib.annotation[a], "live", "with") ELSE lib.annotation[a]
      /\ lib'.authors = lib.authors
  <2>1. "trashed" \in States /\ "live" \in Status /\ "with" \in Status
    BY DEF States, Status
  <2> QED
    BY <1>0, <2>1, ChildrenAre
<1>2. \A h \in Hosts : lib'.item[h] = IF h = i THEN "trashed" ELSE lib.item[h]
  BY <1>1 DEF LibKind
<1>3. lib.attachment \in [Hosts -> [Places -> Status]] /\ lib.annotation \in [Marks -> Status]
  BY DEF LibKind
<1>4. ASSUME NEW h \in Hosts PROVE FellHost(h)'
  <2>1. FellHost(h)
    BY DEF Fallen
  <2>2. Sorting(h) => Sorting(h)'
    BY SortingStays
  <2>3. h = i => lib.authors[h] = Zotero.authors[h] /\ Sorting(h)
    BY <1>0 DEF ItemDone
  <2>4. Gone(h)' <=> Gone(h)
    BY DEF Gone
  <2> QED
    BY <1>0, <1>1, <1>2, <2>1, <2>2, <2>3, <2>4 DEF FellHost
<1>5. ASSUME NEW h \in Hosts, NEW p \in Places PROVE FellFile(h, p)'
  <2>1. FellFile(h, p) /\ lib.attachment[h][p] \in Status
    BY <1>3 DEF Fallen
  <2>2. CASE h # i
    BY <1>1, <1>2, <2>1, <2>2 DEF FellFile
  <2>3. CASE h = i
    <3>1. lib.attachment[h][p] \in {"none", "live"}
      BY <1>0, <2>1, <2>3 DEF FellFile, Status
    <3>2. lib'.attachment[h][p] \in {"none", "with"} /\ lib'.item[h] = "trashed"
      BY <1>1, <1>2, <2>3, <3>1 DEF Flip
    <3> QED
      BY <3>2 DEF FellFile
  <2> QED
    BY <2>2, <2>3
<1>6. ASSUME NEW a \in Marks PROVE FellMark(a)'
  <2> DEFINE h == Host(Zotero.on[a])
  <2>1. FellMark(a) /\ lib.annotation[a] \in Status /\ h \in Hosts
    BY <1>3, ShelfParts DEF Fallen
  <2>2. CASE h # i
    <3>1. lib'.annotation[a] = lib.annotation[a] /\ lib'.item[h] = lib.item[h]
      BY <1>1, <1>2, <2>1, <2>2
    <3> QED
      BY <2>1, <3>1 DEF FellMark
  <2>3. CASE h = i
    <3>1. lib.annotation[a] \in {"none", "live"}
      BY <1>0, <2>1, <2>3 DEF FellMark, Status
    <3>2. lib'.annotation[a] \in {"none", "with"} /\ lib'.item[h] = "trashed"
      BY <1>1, <1>2, <2>1, <2>3, <3>1 DEF Flip
    <3> QED
      BY <3>2 DEF FellMark
  <2> QED
    BY <2>2, <2>3
<1>7. ASSUME NEW k \in NoteKeys PROVE FellNote(k)'
  <2>1. FellNote(k) /\ (k[1] \in Items => k[1] \in Hosts)
    BY ShelfParts DEF Fallen
  <2>2. CASE k[1] = i
    BY <1>0, <1>2, <2>2 DEF FellNote
  <2>3. CASE k[1] # i
    <3>1. /\ k[1] \in Items => lib'.item[k[1]] = lib.item[k[1]]
          /\ DOMAIN lib'.note[k] = DOMAIN lib.note[k]
          /\ \A m \in DOMAIN lib.note[k] : lib'.note[k][m] = lib.note[k][m]
      BY <1>1, <1>2, <2>1, <2>3
    <3> QED
      BY <2>1, <3>1 DEF FellNote
  <2> QED
    BY <2>2, <2>3
<1> QED
  BY <1>4, <1>5, <1>6, <1>7 DEF Fallen

LEMMA FallenPart ==
  ASSUME lib \in LibKind, Fallen, Works, \A i \in Items : ItemDone(i), BinsPart
  PROVE  Fallen'
<1>0. /\ lib.attachment \in [Hosts -> [Places -> Status]] /\ lib.annotation \in [Marks -> Status]
      /\ lib.item \in [Hosts -> States] /\ lib.note \in [NoteKeys -> Seq(Status)]
  BY DEF LibKind
<1>1. lib'.item = lib.item /\ lib'.authors = lib.authors
  BY DEF BinsPart, LibKind
\* An item of the source's trash is there by now, and in the trash.
<1>2. ASSUME NEW h \in Hosts, lib.item[h] # "trashed" PROVE ~ Gone(h)
  <2>1. ASSUME Gone(h) PROVE FALSE
    <3>1. h \in Items /\ lib.item[h] # "none" /\ lib.item[h] # "live"
      BY <2>1 DEF Gone, ItemDone, BinsPart, ItemsDue
    <3> QED
      BY <1>0, <1>2, <3>1 DEF States
  <2> QED
    BY <2>1
<1>3. \A h \in Hosts : FellHost(h)'
  <2>1. \A h \in Hosts : FellHost(h) /\ (Sorting(h) => Sorting(h)')
    BY SortingStays DEF Fallen
  <2> QED
    BY <1>1, <2>1 DEF FellHost
<1>4. CASE lib'.attachment = lib.attachment /\ lib'.annotation = lib.annotation
           /\ \E n \in NotesDue : lib'.note = [lib.note EXCEPT ![NoteKey(n)][1] = "trashed"]
  <2>1. PICK n \in NotesDue : lib'.note = [lib.note EXCEPT ![NoteKey(n)][1] = "trashed"]
    BY <1>4
  <2>2. NoteKey(n) \in NoteKeys /\ n \in ToSet(Zotero.notes) \cap Deleted
    BY ShelfParts DEF NotesDue
  <2>3. ASSUME NEW k \in NoteKeys PROVE FellNote(k)'
    <3>1. FellNote(k) /\ lib.note[k] \in Seq(Status)
      BY <1>0 DEF Fallen
    <3>2. CASE k # NoteKey(n)
      <4>1. lib'.note[k] = lib.note[k]
        BY <1>0, <2>1, <2>2, <3>2
      <4> QED
        BY <1>1, <3>1, <4>1 DEF FellNote
    <3>3. CASE k = NoteKey(n)
      <4>1. lib'.note[k] = [lib.note[k] EXCEPT ![1] = "trashed"]
        BY <1>0, <2>1, <2>2, <3>3
      <4>2. DOMAIN lib'.note[k] = DOMAIN lib.note[k]
        BY <4>1
      <4>3. \A m \in DOMAIN lib.note[k] : lib'.note[k][m] = IF m = 1 THEN "trashed" ELSE lib.note[k][m]
        BY <4>1
      <4> QED
        BY <1>1, <2>2, <3>1, <3>3, <4>2, <4>3 DEF FellNote
    <3> QED
      BY <3>2, <3>3
  <2>4. \A h \in Hosts : \A p \in Places : FellFile(h, p)'
    BY <1>1, <1>4 DEF Fallen, FellFile
  <2>5. \A a \in Marks : FellMark(a)'
    BY <1>1, <1>4 DEF Fallen, FellMark
  <2> QED
    BY <1>3, <2>3, <2>4, <2>5 DEF Fallen
<1>5. CASE lib'.note = lib.note /\ lib'.annotation = lib.annotation
           /\ \E f \in FilesDue : lib'.attachment = [lib.attachment EXCEPT ![Host(f)][Place(f)] = "trashed"]
  <2>1. PICK f \in FilesDue : lib'.attachment = [lib.attachment EXCEPT ![Host(f)][Place(f)] = "trashed"]
    BY <1>5
  <2>2. f \in Files \cap Deleted /\ Host(f) \in Hosts /\ Place(f) \in Places /\ lib.attachment[Host(f)][Place(f)] = "live"
    BY ShelfParts DEF FilesDue
  <2>3. lib.item[Host(f)] # "trashed" /\ ~ Gone(Host(f))
    <3>1. FellFile(Host(f), Place(f))
      BY <2>2 DEF Fallen
    <3> QED
      BY <1>2, <2>2, <3>1 DEF FellFile
  <2>4. ASSUME NEW h \in Hosts, NEW p \in Places PROVE FellFile(h, p)'
    <3>1. lib'.attachment[h][p] = IF h = Host(f) /\ p = Place(f) THEN "trashed" ELSE lib.attachment[h][p]
      BY <1>0, <2>1, <2>2
    <3>2. FellFile(h, p)
      BY DEF Fallen
    <3> QED
      BY <1>1, <2>2, <2>3, <3>1, <3>2 DEF FellFile, Gone
  <2>5. \A k \in NoteKeys : FellNote(k)'
    BY <1>1, <1>5 DEF Fallen, FellNote
  <2>6. \A a \in Marks : FellMark(a)'
    BY <1>1, <1>5 DEF Fallen, FellMark
  <2> QED
    BY <1>3, <2>4, <2>5, <2>6 DEF Fallen
<1>6. CASE lib'.note = lib.note /\ lib'.attachment = lib.attachment
           /\ \E a \in MarksDue : lib'.annotation = [lib.annotation EXCEPT ![a] = "trashed"]
  <2>1. PICK a \in MarksDue : lib'.annotation = [lib.annotation EXCEPT ![a] = "trashed"]
    BY <1>6
  <2>2. a \in Marks /\ a \in Deleted /\ lib.annotation[a] = "live" /\ Host(Zotero.on[a]) \in Hosts
    BY ShelfParts DEF MarksDue, Marks
  <2>3. lib.item[Host(Zotero.on[a])] # "trashed" /\ ~ Gone(Host(Zotero.on[a]))
    <3>1. FellMark(a)
      BY <2>2 DEF Fallen
    <3> QED
      BY <1>2, <2>2, <3>1 DEF FellMark
  <2>4. ASSUME NEW b \in Marks PROVE FellMark(b)'
    <3>1. lib'.annotation[b] = IF b = a THEN "trashed" ELSE lib.annotation[b]
      BY <1>0, <2>1, <2>2
    <3>2. FellMark(b)
      BY DEF Fallen
    <3> QED
      BY <1>1, <2>2, <2>3, <3>1, <3>2 DEF FellMark, Gone
  <2>5. \A k \in NoteKeys : FellNote(k)'
    BY <1>1, <1>6 DEF Fallen, FellNote
  <2>6. \A h \in Hosts : \A p \in Places : FellFile(h, p)'
    BY <1>1, <1>6 DEF Fallen, FellFile
  <2> QED
    BY <1>3, <2>4, <2>5, <2>6 DEF Fallen
<1>7. ASSUME NEW n \in NotesDue, lib' = [lib EXCEPT !.note[NoteKey(n)][1] = "trashed"]
      PROVE  lib'.attachment = lib.attachment /\ lib'.annotation = lib.annotation
             /\ lib'.note = [lib.note EXCEPT ![NoteKey(n)][1] = "trashed"]
  BY <1>7 DEF LibKind
<1>8. ASSUME NEW f \in FilesDue, lib' = [lib EXCEPT !.attachment[Host(f)][Place(f)] = "trashed"]
      PROVE  lib'.note = lib.note /\ lib'.annotation = lib.annotation
             /\ lib'.attachment = [lib.attachment EXCEPT ![Host(f)][Place(f)] = "trashed"]
  BY <1>8 DEF LibKind
<1>9. ASSUME NEW a \in MarksDue, lib' = [lib EXCEPT !.annotation[a] = "trashed"]
      PROVE  lib'.note = lib.note /\ lib'.attachment = lib.attachment
             /\ lib'.annotation = [lib.annotation EXCEPT ![a] = "trashed"]
  BY <1>9 DEF LibKind
<1> QED
  BY <1>4, <1>5, <1>6, <1>7, <1>8, <1>9, Zenon DEF BinsPart

LEMMA ShelfPassed ==
  ASSUME ShelfKinds, OnShelf, ShelfStep, NEW s \in 1 .. 10, NEW m \in 1 .. Len(Rows(Stages[s])), Passed(s, m)'
  PROVE  log \subseteq log' /\ (Passed(s, m) \/ (Tallied /\ doing.stage = s /\ doing.n = m))
<1>a. doing.n \in Nat /\ doing \in Doings
  BY DEF ShelfKinds, ShelfRow, Doings
<1>b. Len(Rows(Stages[s])) \in Nat
  BY ShelfLength
<1>0. doing.n \in Nat /\ m \in Nat /\ m # 0 /\ Len(Rows(Stages[s])) \in Nat /\ doing \in Doings /\ ZoteroNext
  BY <1>a, <1>b DEF ShelfStep, ShelfItself, ZoteroNext
<1>1. log \subseteq log'
  <2>1. CASE Start
    <3>1. Resume # 0
      <4>1. ASSUME Resume = 0 PROVE FALSE
        <5>1. import'.cursor = 0 /\ doing'.stage = 1 /\ doing'.n = 0
          BY <2>1, <4>1, StartIs
        <5> QED
          BY <1>0, <5>1 DEF Passed
      <4> QED
        BY <4>1
    <3> QED
      BY <2>1, <3>1, StartIs
  <2>2. CASE BeginStage \/ EndStage \/ ReportRun
    BY <2>2, BeginIs, EndIs, ReportIs, Zenon
  <2>3. CASE Tallied \/ Halts
    BY <2>3 DEF Tallied, Tallies, Halts
  <2>4. CASE Works
    BY <2>4 DEF Works, MakesHost, FindsNote, AddsNote, Notices
  <2> QED
    BY <2>1, <2>2, <2>3, <2>4, ShelfWays DEF ShelfItself
<1>2. CASE Begun(s)'
  <2>1. Begun(s) \/ (EndStage /\ s = doing.stage)
    BY <1>0, <1>2, BegunStep, Zenon
  <2>2. CASE EndStage /\ s = doing.stage
    <3>1. doing.n = Len(Rows(Stages[s])) + 1
      BY <2>2, EndIs
    <3>2. m < doing.n
      BY <1>0, <3>1
    <3> QED
      BY <1>1, <2>2, <3>2 DEF Passed
  <2> QED
    BY <1>1, <2>1, <2>2 DEF Passed, Begun
<1>3. CASE ~ Begun(s)'
  <2>1. doing'.stage = s /\ m < doing'.n
    BY <1>3 DEF Passed, Begun
  <2>2. CASE ShelfItself \/ Halts
    <3>1. doing'.n \in {0, 1}
      BY <2>2, StartIs, BeginIs, EndIs, ReportIs, IdleIs, Zenon DEF ShelfItself, Halts
    <3> QED
      BY <1>0, <2>1, <3>1
  <2>3. CASE Works
    BY <1>1, <2>1, <2>3, WorksAt DEF Works, Passed
  <2>4. CASE Tallied
    <3>1. doing' = [doing EXCEPT !.n = @ + 1, !.made = FALSE]
      BY <2>1, <2>4, IdleIs DEF Tallied, Tallies
    <3>2. doing.stage = s /\ doing'.n = doing.n + 1
      BY <1>0, <2>1, <3>1 DEF Doings
    <3>3. m < doing.n \/ m = doing.n
      BY <1>0, <2>1, <3>2
    <3> QED
      BY <1>1, <2>4, <3>2, <3>3 DEF Passed
  <2> QED
    BY <2>2, <2>3, <2>4, ShelfWays
<1> QED
  BY <1>2, <1>3

LEMMA NoticedStep ==
  ASSUME ShelfKinds, OnShelf, Fallen, Noticed, ShelfStep
  PROVE  Noticed'
<1>0. /\ DOMAIN Zotero.items = 1 .. Len(Rows(Stages[4])) /\ DOMAIN Zotero.attachments = 1 .. Len(Rows(Stages[5]))
  BY ShelfStages, ShelfRows, ShelfLists DEF Listed
<1>1. ASSUME NEW m \in DOMAIN Zotero.items, Passed(4, m)', Drops(Zotero.items[m]) PROVE Zotero.items[m] \in log'
  <2>1. log \subseteq log' /\ (Passed(4, m) \/ (Tallied /\ doing.stage = 4 /\ doing.n = m))
    BY <1>0, <1>1, ShelfPassed
  <2>2. CASE Tallied /\ doing.stage = 4 /\ doing.n = m
    <3>1. /\ This = Zotero.items[m] /\ This \in Items
          /\ lib.item[This] = "trashed" \/ This \in log
      BY <1>1, <2>2 DEF Tallied, AtRow, Items
    <3>2. lib.item[This] # "trashed"
      BY <1>1, <3>1, ShelfParts DEF Fallen, FellHost, Gone, Drops
    <3> QED
      BY <2>1, <3>1, <3>2
  <2> QED
    BY <1>1, <2>1, <2>2 DEF Noticed
<1>2. ASSUME NEW m \in DOMAIN Zotero.attachments, Passed(5, m)' PROVE Zotero.attachments[m] \in log'
  <2>1. log \subseteq log' /\ (Passed(5, m) \/ (Tallied /\ doing.stage = 5 /\ doing.n = m))
    BY <1>0, <1>2, ShelfPassed
  <2>2. CASE Tallied /\ doing.stage = 5 /\ doing.n = m
    BY <2>1, <2>2 DEF Tallied, AtRow
  <2> QED
    BY <1>2, <2>1, <2>2 DEF Noticed
<1> QED
  BY <1>1, <1>2 DEF Noticed

LEMMA UntouchedShelfStep ==
  ASSUME ShelfKinds, OnShelf, Began, ShelfDone, Noting, Making, UntouchedShelf, ZoteroNext
  PROVE  UntouchedShelf'
<1>0. lib \in LibKind
  BY DEF ShelfKinds
<1> SUFFICES ASSUME ~ touched' PROVE UntouchedShelf'
  BY DEF UntouchedShelf
<1>1. ShelfStep /\ ~ touched
  <2>1. ShelfStep
    BY PeopleAre, Zenon DEF ZoteroNext, ShelfStep, ShelfItself
  <2>2. touched' = touched
    BY <2>1, Itself, ShelfWays DEF Tallied, Tallies, Halts, Works
  <2> QED
    BY <2>1, <2>2
<1>2. /\ settled = "no" => import.state = "none" /\ import.cursor = 0 /\ doing = Idle
      /\ Unfallen \/ (settled # "no" /\ (settled = "ended" \/ 8 < import.cursor))
      /\ Fallen /\ Noticed
  BY <1>1 DEF UntouchedShelf
<1>3. settled' # "no"
  <2>1. CASE settled # "no"
    BY <1>1, <2>1, Itself, StartIs, ShelfWays, Zenon DEF Tallied, Tallies, Halts, Works
  <2>2. CASE settled = "no"
    <3>1. doing = Idle /\ doing.stage = 0 /\ doing.n = 0
      BY <1>2, <2>2, IdleIs
    <3>2. Start
      BY <1>1, <3>1, BeginIs, EndIs, ReportIs, TalliedAt, WorksAt, ShelfWays DEF ShelfItself, Halts
    <3>3. Resume = 0
      BY <1>2, <2>2, <3>2, StartIs
    <3> QED
      BY <2>2, <3>2, <3>3, StartIs
  <2> QED
    BY <2>1, <2>2
<1>4. Noticed'
  BY <1>1, <1>2, NoticedStep
<1>5. ASSUME settled # "no", settled = "ended" \/ 8 < import.cursor
      PROVE  settled' = "ended" \/ 8 < import'.cursor
  <2>1. CASE Start
    <3>1. settled' = settled
      BY <1>5, <2>1, StartIs
    <3>2. CASE settled = "ended"
      BY <3>1, <3>2
    <3>3. CASE settled # "ended"
      <4>1. import.state # "succeeded"
        BY <1>5, <3>3 DEF Began, ShelfKinds, ShelfRow
      <4> QED
        BY <1>5, <2>1, <3>3, <4>1, StartIs
    <3> QED
      BY <3>2, <3>3
  <2>2. CASE BeginStage
    <3>1. settled' = settled /\ import'.cursor = doing.stage /\ doing.stage \in 1 .. 10 /\ doing # Idle
      BY <2>2, BeginIs, IdleIs
    <3>2. import.cursor \in {doing.stage - 1, doing.stage} /\ import.cursor \in 0 .. 10
      BY <3>1 DEF OnShelf, ShelfKinds, ShelfRow
    <3> QED
      BY <1>5, <3>1, <3>2
  <2>3. CASE EndStage
    BY <1>5, <2>3, EndIs
  <2>4. CASE ReportRun
    BY <2>4, ReportIs
  <2>5. CASE Tallied
    <3>1. settled' = settled /\ import'.cursor = import.cursor
      BY <2>5 DEF Tallied, Tallies, ShelfKinds, ShelfRow
    <3> QED
      BY <1>5, <3>1
  <2>6. CASE Halts
    <3>1. settled' = settled /\ import'.cursor = import.cursor
      BY <2>6 DEF Halts, ShelfKinds, ShelfRow
    <3> QED
      BY <1>5, <3>1
  <2>7. CASE Works
    BY <1>5, <2>7 DEF Works
  <2> QED
    BY <1>1, <2>1, <2>2, <2>3, <2>4, <2>5, <2>6, <2>7, ShelfWays DEF ShelfItself
<1>6. CASE lib' = lib
  <2>1. Fallen' /\ (Unfallen => Unfallen')
    <3>1. Fallen'
      BY <1>2, <1>6, FallenSame DEF Sorting
    <3> QED
      BY <1>6, <3>1 DEF Unfallen
  <2> QED
    BY <1>2, <1>3, <1>4, <1>5, <2>1 DEF UntouchedShelf
<1>7. CASE Works /\ settled # "no"
  <2>0. import' = import /\ settled' = settled /\ doing.n # 0 /\ import.cursor = doing.stage /\ doing.stage \in 1 .. 10
    BY <1>7, WorksAt DEF Works, OnShelf
  <2>1. CASE Bins
    <3>1. doing.stage = 9
      BY <2>1 DEF Bins
    <3>2. \A i \in Items : ItemDone(i)
      <4>1. Past(4)
        BY <3>1 DEF Past
      <4> QED
        BY <1>7, <4>1, StageDone
    <3>3. Fallen'
      <4>1. CASE BinsItem
        BY <1>0, <1>2, <1>7, <3>2, <4>1, FallenItem DEF BinsItem
      <4>2. CASE BinsPart
        BY <1>0, <1>2, <1>7, <3>2, <4>2, FallenPart
      <4>3. CASE BinsCollection
        <5>1. /\ lib'.item = lib.item /\ lib'.attachment = lib.attachment /\ lib'.note = lib.note
              /\ lib'.annotation = lib.annotation /\ lib'.authors = lib.authors
          BY <1>0, <4>3 DEF BinsCollection, CollectionTrashed, LibKind
        <5> QED
          BY <1>0, <1>2, <1>7, <5>1, SortingStays, FallenSame
      <4> QED
        BY <2>1, <4>1, <4>2, <4>3 DEF Bins
    <3> QED
      BY <1>3, <1>4, <2>0, <3>1, <3>3 DEF UntouchedShelf
  <2>2. CASE ~ Bins /\ Unfallen
    <3>1. Unfallen'
      BY <1>0, <1>7, <2>2, UnfallenStays
    <3>2. Fallen'
      BY <3>1, ShelfParts DEF Unfallen, Fallen, FellHost, FellFile, FellMark, FellNote
    <3> QED
      BY <1>3, <1>4, <3>1, <3>2 DEF UntouchedShelf
  <2>3. CASE ~ Bins /\ ~ Unfallen
    <3>1. settled = "ended" \/ PutsKey
      <4>1. CASE settled # "ended"
        <5>1. doing.stage \in {9, 10}
          BY <1>2, <2>0, <2>3, <4>1
        <5> QED
          BY <1>7, <2>3, <5>1 DEF Works, Shelved, PutsCollection, PutsName, PutsItem, Sorts, PutsFile, PutsMark, Bins,
                            MakesHost, FindsNote, AddsNote, Notices, AtRow
      <4> QED
        BY <4>1
    <3>2. \/ lib' = lib \/ (\E h, x : lib' = [lib EXCEPT !.filed[h] = x]) \/ (\E h, x : lib' = [lib EXCEPT !.key[h] = x])
      BY <1>7, <3>1, QuietOnce, Zenon DEF PutsKey
    <3>3. /\ lib'.item = lib.item /\ lib'.attachment = lib.attachment /\ lib'.note = lib.note
          /\ lib'.annotation = lib.annotation /\ lib'.authors = lib.authors
      BY <1>0, <3>2 DEF LibKind
    <3>4. Fallen'
      BY <1>0, <1>2, <1>7, <3>3, SortingStays, FallenSame
    <3>5. settled = "ended" \/ 8 < import.cursor
      BY <1>2, <2>3
    <3> QED
      BY <1>3, <1>4, <1>5, <1>7, <3>4, <3>5 DEF UntouchedShelf
  <2> QED
    BY <2>1, <2>2, <2>3
<1>8. ASSUME Works PROVE settled # "no"
  BY <1>2, <1>8, WorksAt
<1> QED
  BY <1>1, <1>6, <1>7, <1>8, LibStays

-----------------------------------------------------------------------------
(* Zotero: the invariant *)

ZoteroInv == /\ ShelfKinds /\ OnShelf /\ Began /\ Shelves /\ Keyed /\ Hosting /\ Noting /\ Making
             /\ ShelfDone /\ UntouchedShelf

LEMMA ZoteroInvInit == ZoteroInit => ZoteroInv
<1> SUFFICES ASSUME ZoteroInit PROVE ZoteroInv
  OBVIOUS
<1>1. /\ import = [state |-> "none", cursor |-> 0] /\ doing = Idle /\ log = {} /\ stops = 0 /\ touches = 0
      /\ touched = FALSE /\ settled = "no" /\ halved = {}
  BY DEF ZoteroInit, JobInit, NoCursor
<1>2. lib = [collection |-> [c \in ToSet(Zotero.collections) |-> "none"],
             tags |-> {}, creators |-> {},
             item |-> [h \in Hosts |-> "none"],
             authors |-> [i \in Items |-> <<>>],
             key |-> [i \in Items |-> Nothing],
             tagged |-> [h \in Hosts |-> {}], filed |-> [h \in Hosts |-> {}],
             documents |-> {}, provenance |-> {},
             attachment |-> [h \in Hosts |-> [p \in {Place(f) : f \in Files} |-> "none"]],
             note |-> [k \in NoteKeys |-> <<>>],
             annotation |-> [a \in ToSet(Zotero.annotations) |-> "none"], related |-> {}]
  BY DEF ZoteroInit
<1>3. /\ \A c \in Cs : lib.collection[c] = "none"
      /\ \A h \in Hosts : lib.item[h] = "none" /\ lib.tagged[h] = {} /\ \A p \in Places : lib.attachment[h][p] = "none"
      /\ \A i \in Items : lib.key[i] = Nothing
      /\ \A k \in NoteKeys : lib.note[k] = <<>>
      /\ \A a \in Marks : lib.annotation[a] = "none"
  BY <1>2 DEF Cs, Places, Marks
<1>4. doing.stage = 0 /\ doing.n = 0 /\ doing.made = FALSE /\ doing.left = <<>> /\ doing \in Doings
  BY <1>1, IdleIs
<1>5. ShelfKinds
  <2>1. ShelfRow
    <3>1. 0 \in 0 .. MaxStops /\ 0 \in 0 .. MaxTouches
      BY ImportSetup
    <3>2. import \in [state : {"none", "running", "succeeded", "failed", "cancelled"}, cursor : 0 .. 10]
      BY <1>1
    <3>3. touched \in BOOLEAN /\ settled \in {"no", "began", "ended"}
      BY <1>1, Zenon
    <3> QED
      BY <1>1, <1>4, <3>1, <3>2, <3>3 DEF ShelfRow, Doings
  <2>2. /\ [c \in ToSet(Zotero.collections) |-> "none"] \in [Cs -> States]
        /\ [h \in Hosts |-> "none"] \in [Hosts -> States]
        /\ [i \in Items |-> <<>>] \in [Items -> {Zotero.authors[i] : i \in Items} \cup {<<>>}]
        /\ [i \in Items |-> Nothing] \in [Items -> {Zotero.claim[i] : i \in Items} \cup {Nothing}]
        /\ [h \in Hosts |-> {}] \in [Hosts -> SUBSET ToSet(Zotero.tags)]
        /\ [h \in Hosts |-> {}] \in [Hosts -> SUBSET Cs]
    BY DEF Cs, States
  <2>3. /\ [h \in Hosts |-> [p \in {Place(f) : f \in Files} |-> "none"]] \in [Hosts -> [Places -> Status]]
        /\ [k \in NoteKeys |-> <<>>] \in [NoteKeys -> Seq(Status)]
        /\ [a \in ToSet(Zotero.annotations) |-> "none"] \in [Marks -> Status]
    BY DEF Places, Marks, Status
  <2>4. lib \in LibKind
    BY <1>2, <2>2, <2>3 DEF LibKind
  <2> QED
    BY <1>1, <2>1, <2>4 DEF ShelfKinds
<1>6. OnShelf
  BY <1>1, <1>4 DEF OnShelf
<1>7. Shelves /\ Keyed
  <2>1. ~ Begun(1)
    BY <1>1, <1>4 DEF Begun
  <2>2. Shelves
    BY <1>3, <1>4, <2>1 DEF Shelves
  <2>3. Keyed
    BY <1>3, ShelfParts DEF Keyed
  <2> QED
    BY <2>2, <2>3
<1>8. Hosting /\ Making
  BY <1>3, <1>4, ShelfParts DEF Hosting, Making
<1>9. Noting
  <2>1. \A k \in NoteKeys : Len(lib.note[k]) = 0
    BY <1>3
  <2>2. \A k \in NoteKeys : All(k) \in Nat
    BY UptoIs, ShelfLists DEF All, Listed
  <2> QED
    BY <1>4, <2>1, <2>2 DEF Noting, Reading
<1>10. UntouchedShelf
  <2>1. Unfallen
    BY <1>3 DEF Unfallen
  <2>2. Fallen
    BY <2>1, ShelfParts DEF Unfallen, Fallen, FellHost, FellFile, FellMark, FellNote
  <2>3. Noticed
    BY <1>1, <1>4, ShelfLists DEF Noticed, Passed, Listed
  <2> QED
    BY <1>1, <2>1, <2>2, <2>3 DEF UntouchedShelf
<1> QED
  BY <1>1, <1>5, <1>6, <1>7, <1>8, <1>9, <1>10 DEF ZoteroInv, Began, ShelfDone

LEMMA ZoteroInvStep == ASSUME ZoteroInv, [ZoteroNext]_zoteroVars PROVE ZoteroInv'
<1>1. CASE ZoteroNext
  <2>1. ShelfKinds' /\ OnShelf' /\ Began' /\ Shelves' /\ Keyed'
    BY <1>1, ShelfTypesStep, OnShelfStep, ShelfBegan, ShelvesStep, KeyedStep DEF ZoteroInv
  <2>2. Hosting' /\ Noting' /\ Making'
    BY <1>1, HostingStep, NotingStep, MakingStep DEF ZoteroInv
  <2>3. ShelfDone' /\ UntouchedShelf'
    BY <1>1, ShelfDoneStep, UntouchedShelfStep DEF ZoteroInv
  <2> QED
    BY <2>1, <2>2, <2>3 DEF ZoteroInv
<1>2. CASE UNCHANGED zoteroVars
  <2>1. /\ UNCHANGED <<import, doing, log, stops, touches, touched, settled, lib, halved>>
    BY <1>2 DEF zoteroVars, jobVars
  <2>2. ShelfKinds' /\ OnShelf' /\ Began' /\ Shelves' /\ Keyed'
    BY <2>1 DEF ZoteroInv, ShelfKinds, ShelfRow, OnShelf, In, This, Began, Shelves, Begun, Made, Sunk, Keyed
  <2>3. Hosting' /\ Noting' /\ Making'
    BY <2>1 DEF ZoteroInv, Hosting, Sorting, In, This, Noting, Reading, Making
  <2>4. ShelfDone'
    <3>1. \A s, m : Dealt(s, m) => Dealt(s, m)'
      BY <2>1 DEF Dealt, Made, ItemDone, Sorting, FileDone, MarkDone, KeyDone, TrashDone,
                  ItemsDue, NotesDue, FilesDue, MarksDue, CollectionsDue
    <3>2. \A s, m : (Through(s, m)' <=> Through(s, m)) /\ (Past(s)' <=> Past(s))
      BY <2>1 DEF Through, Past
    <3> QED
      BY <2>1, <3>1, <3>2, Zenon DEF ZoteroInv, ShelfDone
  <2>5. UntouchedShelf'
    BY <2>1 DEF ZoteroInv, UntouchedShelf, Unfallen, Fallen, FellHost, FellFile, FellMark, FellNote, Sorting, Noticed, Passed
  <2> QED
    BY <2>2, <2>3, <2>4, <2>5 DEF ZoteroInv
<1> QED
  BY <1>1, <1>2

-----------------------------------------------------------------------------
(* Zotero: what a run that succeeded has copied *)

\* The notes of a key are as many as the numbers they have.
LEMMA NotesOfKey ==
  ASSUME NEW k
  PROVE  LET of == {n \in ToSet(Zotero.notes) : NoteKey(n) = k}
         IN IsFiniteSet(of) /\ Cardinality(of) = All(k)
<1> DEFINE of == {n \in ToSet(Zotero.notes) : NoteKey(n) = k}
           numbers == {m \in 1 .. Len(Zotero.notes) : NoteKey(Zotero.notes[m]) = k}
           f == [m \in numbers |-> Zotero.notes[m]]
<1>0. /\ DOMAIN Zotero.notes = 1 .. Len(Zotero.notes) /\ Len(Zotero.notes) \in Nat
      /\ \A m \in DOMAIN Zotero.notes : Zotero.notes[m] \in ToSet(Zotero.notes)
      /\ \A x \in ToSet(Zotero.notes) : \E m \in DOMAIN Zotero.notes : Zotero.notes[m] = x
  BY ShelfLists DEF Listed
<1>1. IsFiniteSet(numbers)
  <2>1. IsFiniteSet(1 .. Len(Zotero.notes)) /\ numbers \subseteq 1 .. Len(Zotero.notes)
    BY <1>0, FirstNumbers
  <2> QED
    BY <2>1, FS_Subset
<1>2. f \in [numbers -> of]
  BY <1>0
<1>3. \A n \in of : \E m \in numbers : f[m] = n
  BY <1>0
<1>4. \A m, n \in numbers : f[m] = f[n] => m = n
  BY <1>0, ZoteroLibrary, Zenon
<1>5. DOMAIN f = numbers
  OBVIOUS
<1> HIDE DEF numbers, of, f
<1>6. f \in Surjection(numbers, of)
  BY <1>2, <1>3 DEF Surjection
<1>7. f \in Injection(numbers, of)
  BY <1>2, <1>4, <1>5 DEF Injection, IsInjective
<1>8. ExistsBijection(numbers, of)
  BY <1>6, <1>7 DEF Bijection, ExistsBijection
<1>9. IsFiniteSet(of) /\ Cardinality(of) = Cardinality(numbers)
  BY <1>1, <1>8, FS_Bijection
<1> QED
  BY <1>9 DEF All, Upto, of, numbers

LEMMA NotesWhole ==
  ASSUME lib \in LibKind, Noting, Fallen, TrashDone, NEW k \in NoteKeys, Len(lib.note[k]) >= All(k),
         k[1] \in Items /\ lib.item[k[1]] = "trashed" => Gone(k[1])
  PROVE  LET of == {n \in ToSet(Zotero.notes) : NoteKey(n) = k}
         IN /\ Len(lib.note[k]) = Cardinality(of)
            /\ \/ Cardinality(of \cap Deleted) > 1 \/ Gone(k[1])
               \/ Cardinality({m \in DOMAIN lib.note[k] : lib.note[k][m] = "live"}) = Cardinality(of \ Deleted)
<1> DEFINE of == {n \in ToSet(Zotero.notes) : NoteKey(n) = k}
           there == {m \in DOMAIN lib.note[k] : lib.note[k][m] = "live"}
<1>1. lib.note[k] \in Seq(Status) /\ Len(lib.note[k]) \in Nat /\ DOMAIN lib.note[k] = 1 .. Len(lib.note[k])
  BY DEF LibKind
<1>2. IsFiniteSet(of) /\ Cardinality(of) = All(k) /\ All(k) \in Nat
  <2>1. IsFiniteSet(of) /\ Cardinality(of) = All(k)
    BY NotesOfKey
  <2> HIDE DEF of
  <2>2. Cardinality(of) \in Nat
    BY <2>1, FS_CardinalityType
  <2> QED
    BY <2>1, <2>2
<1>3. Len(lib.note[k]) = Cardinality(of)
  BY <1>1, <1>2 DEF Noting
<1>4. /\ IsFiniteSet(of \cap Deleted) /\ Cardinality(of \cap Deleted) \in Nat
      /\ Cardinality(of \ Deleted) = Cardinality(of) - Cardinality(of \cap Deleted)
  <2> HIDE DEF of
  <2>1. IsFiniteSet(of \cap Deleted)
    BY <1>2, FS_Subset
  <2>2. Cardinality(of \ Deleted) = Cardinality(of) - Cardinality(of \cap Deleted)
    BY <1>2, FS_Difference, Zenon
  <2> QED
    BY <2>1, <2>2, FS_CardinalityType
<1>5. IsFiniteSet(DOMAIN lib.note[k]) /\ Cardinality(DOMAIN lib.note[k]) = Len(lib.note[k])
  BY <1>1, FirstNumbers, Zenon
<1>6. ASSUME ~ Gone(k[1]), Cardinality(of \cap Deleted) <= 1
      PROVE  Cardinality(there) = Cardinality(of \ Deleted)
  <2>1. \A m \in DOMAIN lib.note[k] :
          \/ lib.note[k][m] = "live"
          \/ lib.note[k][m] = "trashed" /\ m = 1 /\ \E n \in ToSet(Zotero.notes) \cap Deleted : NoteKey(n) = k
    <3>1. FellNote(k)
      BY DEF Fallen
    <3> QED
      BY <1>6, <3>1 DEF FellNote
  <2>2. CASE of \cap Deleted = {}
    <3>1. there = DOMAIN lib.note[k]
      BY <2>1, <2>2
    <3>2. Cardinality(of \cap Deleted) = 0
      BY <2>2, FS_EmptySet, Zenon
    <3> HIDE DEF of, there
    <3> QED
      BY <1>2, <1>3, <1>4, <1>5, <3>1, <3>2
  <2>3. CASE of \cap Deleted # {}
    <3>1. PICK n \in of \cap Deleted : TRUE
      BY <2>3
    <3>2. Cardinality(of \cap Deleted) = 1
      <4>1. Cardinality(of \cap Deleted) # 0
        BY <1>4, <2>3, FS_EmptySet
      <4> HIDE DEF of
      <4> QED
        BY <1>4, <1>6, <4>1
    <3>3. Cardinality(of) # 0
      <4>1. of # {}
        BY <2>3
      <4> HIDE DEF of
      <4> QED
        BY <1>2, <4>1, FS_EmptySet
    <3>4. lib.note[k] # <<>> /\ 1 \in DOMAIN lib.note[k] /\ Head(lib.note[k]) = lib.note[k][1]
      BY <1>1, <1>3, <3>3
    <3>5. lib.note[k][1] # "live"
      BY <3>1, <3>4 DEF TrashDone, NotesDue
    <3>6. there = DOMAIN lib.note[k] \ {1}
      BY <1>1, <2>1, <3>4, <3>5
    <3>7. Cardinality(DOMAIN lib.note[k] \ {1}) = Cardinality(DOMAIN lib.note[k]) - 1
      BY <1>5, <3>4, FS_RemoveElement, Zenon
    <3> HIDE DEF of, there
    <3> QED
      BY <1>2, <1>3, <1>4, <1>5, <3>2, <3>6, <3>7
  <2> QED
    BY <2>2, <2>3
<1>7. Cardinality(of \cap Deleted) > 1 \/ Cardinality(of \cap Deleted) <= 1
  <2> HIDE DEF of
  <2> QED
    BY <1>4
<1> QED
  BY <1>3, <1>6, <1>7

\* Of a library that has everything and where nothing is left to put in the trash.
LEMMA ShelfMirrors ==
  ASSUME lib \in LibKind, Shelves, Keyed, Hosting, Noting, Fallen, ShelfDone, settled = "ended", doing = Idle
  PROVE  Mirrors
<1>0. /\ lib.item \in [Hosts -> States] /\ lib.attachment \in [Hosts -> [Places -> Status]]
      /\ lib.annotation \in [Marks -> Status] /\ lib.collection \in [Cs -> States]
      /\ lib.tags \subseteq ToSet(Zotero.tags) /\ lib.creators \subseteq ToSet(Zotero.creators)
      /\ lib.related \subseteq ToSet(Zotero.relations)
  BY DEF LibKind
<1>1. TrashDone /\ \A i \in Items : ItemDone(i)
  BY AllDone
<1>2. \A h \in Hosts : lib.item[h] # "none"
  <2>1. \A i \in Items : lib.item[i] # "none"
    BY <1>1 DEF ItemDone
  <2>2. \A f \in Standing : lib.item[f] # "none"
    BY AllDone, ShelfParts DEF FileDone
  <2> QED
    BY <2>1, <2>2 DEF Hosts
<1>3. \A h \in Hosts : (lib.item[h] = "trashed" <=> Gone(h)) /\ (lib.item[h] = "live" <=> ~ Gone(h))
  <2>1. ASSUME NEW h \in Hosts, Gone(h) PROVE lib.item[h] # "live"
    BY <1>1, <2>1 DEF TrashDone, ItemsDue, Gone
  <2>2. \A h \in Hosts : lib.item[h] = "trashed" => Gone(h)
    BY DEF Fallen, FellHost
  <2> QED
    BY <1>0, <1>2, <2>1, <2>2 DEF States
<1>4. lib.tags = ToSet(Zotero.tags) /\ lib.creators = ToSet(Zotero.creators) /\ lib.related = ToSet(Zotero.relations)
  BY <1>0, AllDone, Zenon
<1>5. ASSUME NEW c \in Cs
      PROVE  lib.collection[c] = IF ToSet(Zotero.line[c]) \cap Deleted = {} THEN "live" ELSE "trashed"
  <2>1. \A d \in Cs : lib.collection[d] \in {"live", "trashed"}
    BY <1>0, AllDone, LineIs DEF Made, States
  <2>2. CASE ToSet(Zotero.line[c]) \cap Deleted = {}
    BY <2>1, <2>2 DEF Shelves, Sunk
  <2>3. CASE ToSet(Zotero.line[c]) \cap Deleted # {}
    <3>1. PICK d \in ToSet(Zotero.line[c]) \cap Deleted : TRUE
      BY <2>3
    <3>2. d \in Cs
      BY <3>1, LineIs
    <3>3. lib.collection[d] # "live"
      BY <1>1, <3>1, <3>2 DEF TrashDone, CollectionsDue, Cs
    <3>4. Sunk(d)
      BY <2>1, <3>2, <3>3 DEF Shelves
    <3> QED
      BY <2>1, <2>3, <3>1, <3>4 DEF Sunk
  <2> QED
    BY <2>2, <2>3
<1>6. ASSUME NEW i \in Items
      PROVE  /\ lib.item[i] = IF i \in Deleted THEN "trashed" ELSE "live"
             /\ lib.authors[i] = Zotero.authors[i]
             /\ lib.key[i] = IF Drops(i) THEN Nothing ELSE Zotero.claim[i]
             /\ Sorting(i)
  <2>1. i \in Hosts /\ ItemDone(i) /\ KeyDone(i)
    BY ShelfParts, AllDone
  <2>2. lib.item[i] = IF i \in Deleted THEN "trashed" ELSE "live"
    BY <1>3, <2>1 DEF Gone
  <2>3. lib.authors[i] = Zotero.authors[i] /\ Sorting(i)
    <3>1. FellHost(i)
      BY <2>1 DEF Fallen
    <3> QED
      BY <2>1, <2>2, <3>1 DEF ItemDone, FellHost
  <2>4. lib.key[i] = IF Drops(i) THEN Nothing ELSE Zotero.claim[i]
    <3>1. /\ lib.key[i] # Nothing => lib.key[i] = Zotero.claim[i] /\ ~ Drops(i)
          /\ Keeps(i) => lib.key[i] = Zotero.claim[i]
      BY <1>2, <2>1 DEF Keyed
    <3> QED
      BY <2>1, <3>1 DEF KeyDone, Keeps, Defers, Drops
  <2> QED
    BY <2>2, <2>3, <2>4
<1>7. \A f \in Standing : lib.item[f] = "live"
  BY <1>3, ShelfParts DEF Gone
<1>8. ASSUME NEW h \in Hosts \ halved
      PROVE  /\ lib.tagged[h] = Zotero.tagged[h]
             /\ {c \in Zotero.filed[h] : lib.collection[c] = "live"} \subseteq lib.filed[h]
  <2>1. Sorting(h)
    <3>1. ASSUME h \in Standing PROVE Sorting(h)
      <4>1. ~ AtRow(5, Zotero.attachments)
        BY IdleIs DEF AtRow
      <4> QED
        BY <1>7, <1>8, <3>1, <4>1, AtRecord DEF Hosting
    <3> QED
      BY <1>6, <3>1 DEF Hosts
  <2> QED
    BY <2>1, Zenon DEF Sorting, Hosting
<1>9. ASSUME NEW f \in Files
      PROVE  lib.attachment[Host(f)][Place(f)] =
               IF Gone(Host(f)) THEN "with" ELSE IF Unfiled(f) THEN "trashed" ELSE "live"
  <2> DEFINE h == Host(f)  p == Place(f)
  <2>1. h \in Hosts /\ p \in Places
    BY ShelfParts
  <2>2. lib.attachment[h][p] # "none" /\ lib.attachment[h][p] \in Status /\ FellFile(h, p)
    BY <1>0, <2>1, AllDone DEF FileDone, Fallen
  <2>3. CASE Gone(h)
    BY <1>3, <2>1, <2>2, <2>3 DEF FellFile
  <2>4. CASE ~ Gone(h) /\ Unfiled(f)
    <3>1. lib.attachment[h][p] # "live"
      BY <1>1, <2>4 DEF Unfiled, TrashDone, FilesDue
    <3> QED
      BY <1>3, <2>1, <2>2, <2>4, <3>1 DEF FellFile, Status
  <2>5. CASE ~ Gone(h) /\ ~ Unfiled(f)
    BY <1>3, <2>1, <2>2, <2>5 DEF FellFile, Status, Unfiled
  <2> QED
    BY <2>3, <2>4, <2>5
<1>10. ASSUME NEW a \in Marks
       PROVE  lib.annotation[a] = IF Zotero.bytes[Zotero.on[a]] = Nothing THEN "none"
                                  ELSE IF Gone(Host(Zotero.on[a])) THEN "with"
                                  ELSE IF a \in Deleted THEN "trashed" ELSE "live"
  <2> DEFINE h == Host(Zotero.on[a])
  <2>1. h \in Hosts /\ FellMark(a) /\ lib.annotation[a] \in Status
    BY <1>0, ShelfParts DEF Fallen
  <2>2. CASE Zotero.bytes[Zotero.on[a]] = Nothing
    BY <2>2 DEF Keyed
  <2>3. CASE Zotero.bytes[Zotero.on[a]] # Nothing
    <3>1. lib.annotation[a] # "none"
      BY <2>3, AllDone DEF MarkDone
    <3>2. a \in Deleted => lib.annotation[a] # "live"
      BY <1>1 DEF TrashDone, MarksDue, Marks
    <3> QED
      BY <1>3, <2>1, <2>3, <3>1, <3>2 DEF FellMark, Status
  <2> QED
    BY <2>2, <2>3
<1>11. ASSUME NEW k \in NoteKeys
       PROVE  LET of == {n \in ToSet(Zotero.notes) : NoteKey(n) = k}
              IN /\ Len(lib.note[k]) = Cardinality(of)
                 /\ \/ Cardinality(of \cap Deleted) > 1 \/ Gone(k[1])
                    \/ Cardinality({m \in DOMAIN lib.note[k] : lib.note[k][m] = "live"}) = Cardinality(of \ Deleted)
  <2>1. Len(lib.note[k]) >= All(k)
    BY AllDone
  <2>2. k[1] \in Items /\ lib.item[k[1]] = "trashed" => Gone(k[1])
    BY <1>3, ShelfParts
  <2> QED
    BY <1>1, <2>1, <2>2, NotesWhole, Zenon
<1> QED
  BY <1>4, <1>5, <1>6, <1>7, <1>8, <1>9, <1>10, <1>11, Zenon DEF Mirrors, Cs, Marks

LEMMA ZoteroInvImpliesWhole == ASSUME ZoteroInv PROVE ZoteroWhole
<1> SUFFICES ASSUME import.state = "succeeded", ~ touched
             PROVE  Mirrors /\ log = Files \cup {i \in Items : Drops(i)}
  BY DEF ZoteroWhole
<1>1. settled = "ended" /\ doing = Idle /\ import.cursor = 10
  BY DEF ZoteroInv, UntouchedShelf, Began, OnShelf, ShelfKinds, ShelfRow
<1>2. Mirrors
  BY <1>1, ShelfMirrors DEF ZoteroInv, UntouchedShelf, ShelfKinds
<1>3. \A m \in DOMAIN Zotero.items : Drops(Zotero.items[m]) => Zotero.items[m] \in log
  BY <1>1 DEF ZoteroInv, UntouchedShelf, Noticed, Passed
<1>4. \A m \in DOMAIN Zotero.attachments : Zotero.attachments[m] \in log
  BY <1>1 DEF ZoteroInv, UntouchedShelf, Noticed, Passed
<1>5. Files \cup {i \in Items : Drops(i)} \subseteq log
  <2>1. \A f \in Files : f \in log
    <3> SUFFICES ASSUME NEW f \in Files PROVE f \in log
      OBVIOUS
    <3>1. PICK m \in DOMAIN Zotero.attachments : Zotero.attachments[m] = f
      BY ShelfLists DEF Listed, Files
    <3> QED
      BY <3>1, <1>4
  <2>2. \A i \in Items : Drops(i) => i \in log
    <3> SUFFICES ASSUME NEW i \in Items, Drops(i) PROVE i \in log
      OBVIOUS
    <3>1. PICK m \in DOMAIN Zotero.items : Zotero.items[m] = i
      BY ShelfLists DEF Listed, Items
    <3> QED
      BY <3>1, <1>3
  <2> QED
    BY <2>1, <2>2
<1> QED
  BY <1>2, <1>5 DEF ZoteroInv, ShelfKinds

LEMMA ShelfKindsAreTypes == ASSUME ShelfKinds PROVE ZoteroTypeOK
<1>1. import \in [state : {"none", "running", "succeeded", "failed", "cancelled"}, cursor : 0 .. 10] /\ doing \in Doings
  BY DEF ShelfKinds, ShelfRow, Doings
<1>2. JobTypeOK
  <2>1. import.state \in {"none", "running", "succeeded", "failed", "cancelled"} /\ import.cursor \in Nat
    BY <1>1
  <2>2. doing.stage \in Nat /\ doing.n \in Nat
    BY <1>1 DEF Doings
  <2>3. doing.made \in BOOLEAN
    BY <1>1, Zenon DEF Doings
  <2> QED
    BY <2>1, <2>2, <2>3 DEF ShelfKinds, ShelfRow, JobTypeOK
<1>3. doing.stage \in 0 .. Len(Stages) + 1
  BY <1>1, ShelfStages DEF Doings
<1>4. \A s : s \in States => s \in Status
  BY DEF States, Status
<1>5. lib \in LibKind /\ halved \subseteq Standing /\ log \subseteq Files \cup Items
  BY DEF ShelfKinds
<1>6. lib.collection \in [ToSet(Zotero.collections) -> Status] /\ lib.item \in [Hosts -> Status]
  BY <1>4, <1>5 DEF LibKind, Cs
<1>7. /\ lib.annotation \in [ToSet(Zotero.annotations) -> Status]
      /\ \A k \in NoteKeys : lib.note[k] \in Seq(Status)
      /\ lib.attachment \in [Hosts -> [{Place(f) : f \in Files} -> Status]]
  BY <1>5, Zenon DEF LibKind, Marks, Places
<1> QED
  BY <1>2, <1>3, <1>5, <1>6, <1>7, Zenon DEF ZoteroTypeOK

-----------------------------------------------------------------------------
(* The theorems of all imports *)

\* Of an import from Zotero, whatever cuts its runs short and whatever people do
\* between them and their stages, the invariant holds.
THEOREM ZoteroInvHolds == Spec => [](kind = "zotero" => ZoteroInv)
<1>1. Init => (kind = "zotero" => ZoteroInv)
  BY ZoteroInvInit DEF Init
<1>2. (kind = "zotero" => ZoteroInv) /\ [Next]_vars => (kind = "zotero" => ZoteroInv)'
  <2>1. ASSUME [Next]_vars, kind' = "zotero"
        PROVE  kind = "zotero" /\ [ZoteroNext]_zoteroVars
    BY <2>1 DEF Next, vars
  <2> QED
    BY <2>1, ZoteroInvStep
<1> QED
  BY <1>1, <1>2, PTL DEF Spec

\* An import that has succeeded, whatever cut it short and resumed it before, has
\* copied the source whole if people left the copy alone: from Zotero, with a report
\* on every attachment and every refused value (import.ts: an interrupted stage is
\* repeated from its start); from Paperless, and the report passes unless a file was
\* missed or a number is held elsewhere (resume.test.ts).
THEOREM ImportedIsWholeHolds == Spec => []ImportedIsWhole
<1>1. (kind = "zotero" => ZoteroInv) /\ (kind = "paperless" => PaperInv) => ImportedIsWhole
  BY ZoteroInvImpliesWhole, PaperInvImpliesWhole DEF ImportedIsWhole
<1> QED
  BY <1>1, ZoteroInvHolds, PaperInvHolds, PTL

\* An import may be repeated: after one that succeeded, runs change nothing of what the
\* library shows until people do (idempotency.test.ts: "running the same import twice"); what people
\* binned does not stop the next import from Paperless, unless it is a file
\* (trashed-reimport.test.ts); and while one thing that people did is all that came in
\* between, its report passes only where what it counts is there (report/build.ts).
THEOREM RerunIsSafeHolds == Spec => RerunIsSafe
<1>1. /\ (kind = "zotero" => ZoteroInv) /\ (kind = "paperless" => PaperKnown) /\ [Next]_vars
      => [/\ kind = "zotero" => ZoteroRerunHarmless
          /\ kind = "paperless" => PaperlessRerunHarmless /\ PaperlessGoesThrough /\ PaperlessReportHolds]_vars
  <2>1. ASSUME PaperKnown, kind = "paperless", [Next]_vars
        PROVE  PaperlessRerunHarmless /\ PaperlessGoesThrough /\ PaperlessReportHolds
    <3>1. PaperlessNext \/ UNCHANGED paperVars
      BY <2>1 DEF Next, vars
    <3> QED
      BY <2>1, <3>1, RerunStep, GoesThroughStep, ReportStep DEF PaperKnown
  <2>2. ASSUME ZoteroInv, kind = "zotero", Next, ~ UNCHANGED vars
        PROVE  ZoteroRerunHarmless
    <3>1. ZoteroNext
      BY <2>2 DEF Next
    <3> QED
      BY <2>2, <3>1, ShelfRerun DEF ZoteroInv
  <2> QED
    BY <2>1, <2>2
<1> QED
  BY <1>1, ZoteroInvHolds, PaperKnownHolds, PTL DEF Spec, RerunIsSafe

\* Whatever a behaviour is about, a row of a source's run says running exactly
\* while an execution of the label is at it (routes/ingestion-queue.ts: "Cancel is
\* honest about reach"), and what each variable holds is what the code can put there.
THEOREM JobsAreTrueHolds == Spec => []JobsAreTrue
<1>1. Spec => [](kind \in {"source", "zotero", "paperless"})
  <2>1. Init => kind \in {"source", "zotero", "paperless"}
    BY DEF Init
  <2>2. kind \in {"source", "zotero", "paperless"} /\ [Next]_vars => (kind \in {"source", "zotero", "paperless"})'
    BY DEF Next, vars
  <2> QED
    BY <2>1, <2>2, PTL DEF Spec
<1>2. /\ SourceInv /\ kind \in {"source", "zotero", "paperless"}
      /\ (kind = "zotero" => ZoteroInv) /\ (kind = "paperless" => PaperInv)
      => JobsAreTrue
  BY ShelfKindsAreTypes, PaperKindsAreTypes DEF SourceInv, JobsAreTrue, TypeOK, ZoteroInv, PaperInv
<1> QED
  BY <1>1, <1>2, SourceInvHolds, ZoteroInvHolds, PaperInvHolds, PTL
=============================================================================

----------------------------- MODULE SourceJobs -----------------------------
(***************************************************************************)
(* The server's runs of one configured source: the ingest.source rows that *)
(* operators start, retry and cancel, the executions behind them, and the  *)
(* ingest.run rows their pipelines claim.  apps/server: ingestion/runner,  *)
(* ingestion/queue, routes/ingestion-queue; packages/ingest-sources        *)
(* runner.ts runOnce; packages/ingest pipeline.ts run, db/journal.ts.      *)
(*                                                                         *)
(* Node runs one thing at a time: a step here is what happens between two  *)
(* awaits.  A job is a run label of the source.  An execution polls the    *)
(* source, claims a pipeline run (the one left open, or one of its own),   *)
(* works the candidates off with Width workers, records them, lets go of   *)
(* the source, and closes its job.  A cancel reaches it through `active`.  *)
(***************************************************************************)
EXTENDS Integers, FiniteSets

CONSTANTS Jobs,
          Candidates,   \* what the source has to offer
          Width,        \* IngestConfig.concurrency
          MaxStarts,    \* bound: executions
          MaxTogether,  \* bound: executions at work at one time, once in a behaviour
          MaxTroubles   \* bound: calls that throw for a reason of their own, and crashes

ASSUME JobSetup == /\ Width \in Nat \ {0} /\ MaxStarts \in Nat /\ MaxTogether \in Nat
                   /\ MaxTroubles \in Nat

VARIABLES
  row,       \* row[j]: state of the ingest.source row
  active,    \* active[j]: the execution a cancel of j is delivered to
  job, at,   \* job[e], at[e]: what execution e is for, and its step
  page,      \* page[e]: candidates polled and not yet recorded
  label,     \* label[e]: the pipeline run it claimed
  todo, busy,      \* candidates its workers have yet to take, and have in hand
  missed,    \* missed[e]: a candidate failed for good
  bad,       \* bad[e]: its report names a poll or an acknowledgement that failed
  aborted,   \* aborted[e]: its controllers are aborted
  heard,     \* heard[e]: the pipeline's own controller is
  open,      \* open_run_label of the source
  run,       \* run[l]: state of the ingest.run row labelled by the execution l
  done,      \* done[l]: its terminal checkpoints
  recorded,  \* candidates with a row in ingest_source_state: not offered again
  draining,
  lapped,    \* history: jobs started again while an execution of theirs was not over
  met,       \* history: whether two executions were ever at work at once
  orphans,   \* history: jobs whose row a dead process left running
  troubles

past == <<lapped, met>>
table == <<open, run, done, recorded>>
work == <<page, label, todo, busy, missed, bad>>
sourceVars == <<row, active, job, at, work, aborted, heard, table, draining, past, orphans, troubles>>

Execs == 1 .. MaxStarts
None == 0

Listening == "working"
Working == {"opening", "polling", "claimed", "working", "finished", "recording", "leaving"}
AtWork(e) == at[e] \in Working \cup {"stopping"} \/ busy[e] # {}

SourceTypeOK ==
  /\ row \in [Jobs -> {"none", "running", "cancelled", "failed", "succeeded"}]
  /\ active \in [Jobs -> Execs \cup {None}]
  /\ job \in [Execs -> Jobs \cup {None}]
  /\ at \in [Execs -> Working \cup {"none", "stopping", "ended", "dead"}]
  /\ page \in [Execs -> SUBSET Candidates]
  /\ label \in [Execs -> Execs \cup {None}]
  /\ todo \in [Execs -> SUBSET Candidates]
  /\ busy \in [Execs -> SUBSET Candidates]
  /\ missed \in [Execs -> BOOLEAN] /\ bad \in [Execs -> BOOLEAN]
  /\ aborted \in [Execs -> BOOLEAN] /\ heard \in [Execs -> BOOLEAN]
  /\ open \in Execs \cup {None}
  /\ run \in [Execs -> {"none", "running", "succeeded", "waiting_review", "failed"}]
  /\ done \in [Execs -> SUBSET Candidates]
  /\ recorded \subseteq Candidates
  /\ draining \in BOOLEAN
  /\ lapped \subseteq Jobs /\ met \in BOOLEAN
  /\ orphans \subseteq Jobs
  /\ troubles \in 0 .. MaxTroubles

SourceInit ==
  /\ row = [j \in Jobs |-> "none"]
  /\ active = [j \in Jobs |-> None]
  /\ job = [e \in Execs |-> None]
  /\ at = [e \in Execs |-> "none"]
  /\ page = [e \in Execs |-> {}]
  /\ label = [e \in Execs |-> None]
  /\ todo = [e \in Execs |-> {}]
  /\ busy = [e \in Execs |-> {}]
  /\ missed = [e \in Execs |-> FALSE] /\ bad = [e \in Execs |-> FALSE]
  /\ aborted = [e \in Execs |-> FALSE] /\ heard = [e \in Execs |-> FALSE]
  /\ open = None
  /\ run = [e \in Execs |-> "none"]
  /\ done = [e \in Execs |-> {}]
  /\ recorded = {}
  /\ draining = FALSE
  /\ lapped = {} /\ met = FALSE
  /\ orphans = {}
  /\ troubles = 0

Go(e, step) == at' = [at EXCEPT ![e] = step]

\* Something throws that nothing made throw, or the process dies.
Trouble == troubles < MaxTroubles /\ troubles' = troubles + 1

-----------------------------------------------------------------------------
(* What the API does *)

\* startSourceRun: one synchronous piece, up to the await of the source's start.
\* It refuses a label whose row is running, and asks nothing else.
StartSourceRun(j) ==
  /\ ~ draining
  /\ row[j] # "running"
  /\ LET others == Cardinality({x \in Execs : AtWork(x)})
     IN others < MaxTogether /\ (met => others = 0)
  /\ row' = [row EXCEPT ![j] = "running"]
  /\ \E e \in Execs :
       /\ at[e] = "none" /\ \A x \in Execs : x < e => at[x] # "none"
       /\ active' = [active EXCEPT ![j] = e]
       /\ job' = [job EXCEPT ![e] = j]
       /\ Go(e, "opening")
  /\ lapped' = IF \E x \in Execs : job[x] = j /\ at[x] \in Working \cup {"stopping"}
                 THEN lapped \cup {j} ELSE lapped \ {j}
  /\ met' = (met \/ \E x \in Execs : AtWork(x))
  /\ orphans' = orphans \ {j}
  /\ UNCHANGED <<work, aborted, heard, table, draining, troubles>>

\* POST /sources/{id}/run, with a label of its own or one that was used before.
Run(j) == StartSourceRun(j)

\* POST /queue/{id}/retry.
Retry(j) == row[j] \notin {"none", "running"} /\ StartSourceRun(j)

\* The source cannot be built (a secret that does not open): the row is closed,
\* and the entry taken out again, before anybody can look.
StartUnbuilt(j) ==
  /\ ~ draining
  /\ row[j] # "running"
  /\ Trouble
  /\ row' = [row EXCEPT ![j] = "failed"]
  /\ active' = [active EXCEPT ![j] = None]
  /\ orphans' = orphans \ {j}
  /\ UNCHANGED <<job, at, work, aborted, heard, table, draining, past>>

\* IngestionRunner.cancel: both controllers; the pipeline's own follows only if
\* it has put its listener on the signal, and an aborted signal calls nobody.
Abort(E) ==
  /\ aborted' = [e \in Execs |-> aborted[e] \/ e \in E]
  /\ heard' = [e \in Execs |-> heard[e] \/ (e \in E /\ at[e] = Listening /\ ~ aborted[e])]

\* Mutant: the row of a delivered cancel is closed at once.
CancelClosing(j) ==
  /\ ~ draining
  /\ row[j] = "running"
  /\ Abort({active[j]} \ {None})
  /\ row' = [row EXCEPT ![j] = "cancelled"] /\ orphans' = orphans \ {j}
  /\ UNCHANGED <<active, job, at, work, table, draining, past, troubles>>

\* POST /queue/{id}/cancel: delivered to the execution in `active`; a row with
\* none is closed on the spot (markCancelled).
Cancel(j) ==
  /\ ~ draining
  /\ row[j] = "running"
  /\ IF active[j] # None THEN Abort({active[j]}) /\ UNCHANGED <<row, orphans>>
     ELSE /\ row' = [row EXCEPT ![j] = "cancelled"] /\ orphans' = orphans \ {j}
          /\ UNCHANGED <<aborted, heard>>
  /\ UNCHANGED <<active, job, at, work, table, draining, past, troubles>>

\* onClose: the server takes no more requests, aborts its runs and waits.
Drain ==
  /\ ~ draining
  /\ draining' = TRUE
  /\ Abort({active[j] : j \in Jobs})
  /\ UNCHANGED <<row, active, job, at, work, table, past, orphans, troubles>>

\* Promise.allSettled over inFlight is through: the process ends, with whatever
\* a worker still had in hand, and another is started.
Exit ==
  /\ draining
  /\ \A e \in Execs : at[e] \notin Working \cup {"stopping"}
  /\ draining' = FALSE
  /\ busy' = [e \in Execs |-> {}]
  /\ active' = [j \in Jobs |-> None]
  /\ UNCHANGED <<row, job, at, page, label, todo, missed, bad, aborted, heard, table,
                 past, orphans, troubles>>

Crash ==
  /\ Trouble
  /\ at' = [e \in Execs |-> IF at[e] \in Working \cup {"stopping"} THEN "dead" ELSE at[e]]
  /\ busy' = [e \in Execs |-> {}]
  /\ active' = [j \in Jobs |-> None]
  /\ orphans' = {j \in Jobs : row[j] = "running"}
  /\ draining' = FALSE
  /\ page' = [e \in Execs |-> {}] /\ todo' = [e \in Execs |-> {}]
  /\ label' = [e \in Execs |-> None]
  /\ missed' = [e \in Execs |-> FALSE] /\ bad' = [e \in Execs |-> FALSE]
  /\ aborted' = [e \in Execs |-> FALSE] /\ heard' = [e \in Execs |-> FALSE]
  /\ UNCHANGED <<row, job, table, past>>

-----------------------------------------------------------------------------
(* An execution, await by await *)

execOnly == <<job, draining, past, orphans>>

\* catch: the row is closed first, and then, in `finally`, the source is let go.
Stop(e) ==
  /\ row' = [row EXCEPT ![job[e]] = IF aborted[e] THEN "cancelled" ELSE "failed"]
  /\ Go(e, "stopping")

\* An execution that is over keeps only what a worker still has in hand.
Over(e) ==
  /\ Go(e, "ended")
  /\ page' = [page EXCEPT ![e] = {}]
  /\ todo' = [todo EXCEPT ![e] = {}]
  /\ missed' = [missed EXCEPT ![e] = FALSE]
  /\ bad' = [bad EXCEPT ![e] = FALSE]
  /\ aborted' = [aborted EXCEPT ![e] = FALSE]
  /\ heard' = [heard EXCEPT ![e] = FALSE]
  /\ label' = [label EXCEPT ![e] = IF busy[e] = {} THEN None ELSE @]
  /\ UNCHANGED busy

\* The end of the promise: whatever entry the job has in `active` is deleted.
LetGo(e) ==
  /\ at[e] = "stopping"
  /\ active' = [active EXCEPT ![job[e]] = None]
  /\ Over(e)
  /\ UNCHANGED <<row, table, troubles>>

Opened(e) ==
  /\ at[e] = "opening"
  /\ Go(e, "polling")
  /\ UNCHANGED <<row, active, work, table, troubles>>

\* Mutant: every poll has a run of its own.
PollAnew(e) ==
  LET offered == Candidates \ recorded
  IN /\ at[e] = "polling"
     /\ offered # {}
     /\ page' = [page EXCEPT ![e] = offered]
     /\ label' = [label EXCEPT ![e] = e]
     /\ todo' = [todo EXCEPT ![e] = offered]
     /\ open' = e
     /\ run' = [run EXCEPT ![e] = "running"]
     /\ Go(e, "claimed")
     /\ UNCHANGED <<row, active, busy, missed, bad, done, recorded, troubles>>

\* runOnce: what the poll offers is claimed as the run that is open, or as a new
\* one.  claimRun asks nobody whether that run is being executed; one that
\* succeeded starts over, any other goes on from its terminal checkpoints.
Poll(e) ==
  LET offered == Candidates \ recorded
      l == IF open # None THEN open ELSE e
      kept == IF run[l] = "succeeded" THEN {} ELSE done[l]
  IN /\ at[e] = "polling"
     /\ offered # {}
     /\ page' = [page EXCEPT ![e] = offered]
     /\ label' = [label EXCEPT ![e] = l]
     /\ todo' = [todo EXCEPT ![e] = offered \ kept]
     /\ open' = l
     /\ run' = [run EXCEPT ![l] = "running"]
     /\ done' = [done EXCEPT ![l] = kept]
     /\ Go(e, "claimed")
     /\ UNCHANGED <<row, active, busy, missed, bad, recorded, troubles>>

PollEmpty(e) ==
  /\ at[e] = "polling"
  /\ recorded = Candidates
  /\ Go(e, "leaving")
  /\ UNCHANGED <<row, active, work, table, troubles>>

\* A poll that throws is a report, not an exception: also when a cancel took the
\* source away from under it.
PollFails(e) ==
  /\ at[e] = "polling"
  /\ IF aborted[e] THEN UNCHANGED troubles ELSE Trouble
  /\ bad' = [bad EXCEPT ![e] = TRUE]
  /\ Go(e, "leaving")
  /\ UNCHANGED <<row, active, page, label, todo, busy, missed, table>>

\* pipeline.run has swept the scratch directory and puts its listener on the signal.
Listen(e) ==
  /\ at[e] = "claimed"
  /\ Go(e, Listening)
  /\ UNCHANGED <<row, active, work, table, troubles>>

\* A free worker takes the next candidate, if the pipeline was not told to stop.
Begin(e, c) ==
  /\ at[e] = "working"
  /\ ~ heard[e]
  /\ c \in todo[e] /\ Cardinality(busy[e]) < Width
  /\ todo' = [todo EXCEPT ![e] = @ \ {c}]
  /\ busy' = [busy EXCEPT ![e] = @ \cup {c}]
  /\ UNCHANGED <<row, active, at, page, label, missed, bad, table, troubles>>

\* A candidate in hand is finished and checkpointed, also after the pipeline's
\* promise was rejected: nobody waits for the other workers.
Commit(e, c) ==
  /\ c \in busy[e]
  /\ busy' = [busy EXCEPT ![e] = @ \ {c}]
  /\ done' = [done EXCEPT ![label[e]] = @ \cup {c}]
  /\ UNCHANGED <<row, active, at, page, label, todo, missed, bad, open, run, recorded, troubles>>

\* Its last attempt throws: an outcome, and no terminal checkpoint.
Miss(e, c) ==
  /\ c \in busy[e]
  /\ Trouble
  /\ busy' = [busy EXCEPT ![e] = @ \ {c}]
  /\ missed' = [missed EXCEPT ![e] = TRUE]
  /\ UNCHANGED <<row, active, at, page, label, todo, bad, table>>

\* A worker meets the aborted signal, between candidates or between the attempts
\* of one: the run is rejected and stays open.
Cancelled(e) ==
  /\ at[e] = "working" /\ heard[e]
  /\ \/ todo[e] # {} /\ Cardinality(busy[e]) < Width /\ UNCHANGED busy
     \/ \E c \in busy[e] : busy' = [busy EXCEPT ![e] = @ \ {c}]
  /\ Stop(e)
  /\ UNCHANGED <<active, page, label, todo, missed, bad, table, troubles>>

\* Something else throws outside the candidates.
Breaks(e) ==
  /\ at[e] \in {"opening", "claimed", "working"}
  /\ Trouble
  /\ Stop(e)
  /\ UNCHANGED <<active, work, table>>

\* finishRun writes the row, whoever else is in the run.
FinishRun(e) ==
  /\ at[e] = "working"
  /\ todo[e] = {} /\ busy[e] = {}
  /\ \E state \in IF missed[e] THEN {"failed"} ELSE {"succeeded", "waiting_review"} :
        run' = [run EXCEPT ![label[e]] = state]
  /\ Go(e, "finished")
  /\ UNCHANGED <<row, active, work, open, done, recorded, troubles>>

ForgetRun(e) ==
  /\ at[e] = "finished"
  /\ open' = None
  /\ Go(e, "recording")
  /\ UNCHANGED <<row, active, work, run, done, recorded, troubles>>

\* recordOutcome, and the await of the acknowledgement, which may be refused.
Record(e) ==
  /\ at[e] = "recording"
  /\ \E c \in page[e] :
       /\ recorded' = recorded \cup {c}
       /\ page' = [page EXCEPT ![e] = @ \ {c}]
  /\ \/ UNCHANGED <<bad, troubles>>
     \/ Trouble /\ bad' = [bad EXCEPT ![e] = TRUE]
  /\ UNCHANGED <<row, active, at, label, todo, busy, missed, open, run, done>>

Leave(e) ==
  /\ at[e] = "recording" /\ page[e] = {}
  /\ Go(e, "leaving")
  /\ UNCHANGED <<row, active, work, table, troubles>>

\* The source has been let go: recordRun, finishSourceJob and the end of the
\* promise, in one piece.  It does not ask whether a cancel was delivered.
Close(e) ==
  /\ at[e] = "leaving"
  /\ row' = [row EXCEPT ![job[e]] = IF bad[e] THEN "failed" ELSE "succeeded"]
  /\ active' = [active EXCEPT ![job[e]] = None]
  /\ Over(e)
  /\ UNCHANGED <<table, troubles>>

ExecStep(e) ==
  /\ \/ LetGo(e) \/ Close(e)
     \/ /\ UNCHANGED <<aborted, heard>>
        /\ \/ Opened(e) \/ Poll(e) \/ PollEmpty(e) \/ PollFails(e) \/ Listen(e)
           \/ \E c \in Candidates : Begin(e, c) \/ Commit(e, c) \/ Miss(e, c)
           \/ Cancelled(e) \/ Breaks(e) \/ FinishRun(e) \/ ForgetRun(e) \/ Record(e) \/ Leave(e)
  /\ UNCHANGED execOnly

SourceNext ==
  \/ \E j \in Jobs : Run(j) \/ Retry(j) \/ StartUnbuilt(j) \/ Cancel(j)
  \/ \E e \in Execs : ExecStep(e)
  \/ Drain \/ Exit \/ Crash

-----------------------------------------------------------------------------
(* Properties *)

\* A row says running exactly while an execution of the job is at it, and a job
\* closed or cancelled is not being executed; save a row that a dead process
\* left, and a job retried while its cancelled execution was letting go of the
\* source: that one's end takes the new one's entry out of `active`
\* (routes/ingestion-queue.ts: "Cancel is honest about reach").
RowIsTrue ==
  \A j \in Jobs :
    LET of == {e \in Execs : job[e] = j /\ at[e] \in Working}
    IN \/ row[j] = "running" <=> of # {}
       \/ j \in lapped
       \/ row[j] = "running" /\ j \in orphans

\* While polls of the source do not meet, what an unfinished run has committed is
\* not paid for again, through cancels, crashes, retries under other labels and
\* workers that outlive their run (data-model.md IK4).
CommittedIsNotRedone ==
  [][~ met =>
       \A e \in Execs : \A c \in busy'[e] \ busy[e] :
          \A l \in Execs : run[l] = "running" => c \notin done[l]]_sourceVars
=============================================================================

----------------------------- MODULE ImportJob ------------------------------
(***************************************************************************)
(* The jobs row of an import and the run at work on it: job.ts of          *)
(* packages/import-zotero and packages/import-paperless, which are alike.  *)
(* The row's cursor is where the next run begins, unless this one ended    *)
(* well.  A run that dies leaves the row saying that it is running.        *)
(***************************************************************************)
EXTENDS Naturals, Sequences, FiniteSets

CONSTANTS MaxStops,    \* bound: runs that are cut short
          MaxTouches   \* bound: things people do to the library

ASSUME ImportSetup == MaxStops \in Nat /\ MaxTouches \in Nat

VARIABLES
  import,    \* the row: its state, and the stage its cursor names
  doing,     \* the run at work: its stage, its record, what it knows of its own
  log,       \* what job_logs holds of the run's observations
  stops, touches,
  touched,   \* history: whether people ever changed what was imported
  settled    \* history: a run "began", or began and "ended" well, and people have
             \* changed nothing since it began

jobVars == <<import, doing, log, stops, touches, touched, settled>>

NoCursor == 0
Idle == [stage |-> NoCursor, n |-> 0, made |-> FALSE, left |-> <<>>]

JobTypeOK ==
  /\ import.state \in {"none", "running", "succeeded", "failed", "cancelled"}
  /\ import.cursor \in Nat
  /\ doing.stage \in Nat /\ doing.n \in Nat /\ doing.made \in BOOLEAN
  /\ stops \in 0 .. MaxStops /\ touches \in 0 .. MaxTouches
  /\ touched \in BOOLEAN /\ settled \in {"no", "began", "ended"}

JobInit ==
  /\ import = [state |-> "none", cursor |-> NoCursor]
  /\ doing = Idle
  /\ log = {}
  /\ stops = 0 /\ touches = 0
  /\ touched = FALSE /\ settled = "no"

\* Mutant: a run goes on with the stage after the one that was cut short.
ResumePast == IF import.state = "succeeded" THEN NoCursor
              ELSE IF import.cursor = NoCursor THEN NoCursor ELSE import.cursor + 1

\* Where a run that claims the row begins.
Resume == IF import.state = "succeeded" THEN NoCursor ELSE import.cursor

\* claimImportJob, and clearJobLog for a run from the start.
Claim(first) ==
  /\ doing = Idle
  /\ import' = [state |-> "running", cursor |-> Resume]
  /\ log' = IF Resume = NoCursor THEN {} ELSE log
  /\ doing' = [Idle EXCEPT !.stage = IF Resume = NoCursor THEN first ELSE Resume]
  /\ settled' = IF settled = "no" /\ Resume = NoCursor THEN "began" ELSE settled
  /\ UNCHANGED <<stops, touches, touched>>

Checkpoint(stage) == import' = [import EXCEPT !.cursor = stage]

\* The run ends in the given state, which a run that dies does not write.
End(state) ==
  /\ import' = [import EXCEPT !.state = state]
  /\ doing' = Idle
  /\ UNCHANGED <<log, touches, touched>>

Succeed == /\ End("succeeded")
           /\ settled' = IF settled = "began" THEN "ended" ELSE settled
           /\ UNCHANGED stops

\* It throws of itself.
Throw == End("failed") /\ UNCHANGED <<stops, settled>>

\* Something else throws, or the process dies.
Cut == /\ doing # Idle
       /\ stops < MaxStops /\ stops' = stops + 1
       /\ \E state \in {"failed", "running"} : End(state)
       /\ UNCHANGED settled

\* abortAfter, asked after every record.
AbortRun == /\ stops < MaxStops /\ stops' = stops + 1
         /\ End("cancelled")
         /\ UNCHANGED settled

\* A person changes what was imported.
Touch == /\ touches < MaxTouches /\ touches' = touches + 1
         /\ touched' = TRUE /\ settled' = "no"
         /\ UNCHANGED <<import, doing, log, stops>>
=============================================================================

----------------------------- MODULE MailSource -----------------------------
(***************************************************************************)
(* A mailbox polled for messages.  packages/ingest-sources: imap/source.ts *)
(* over imap/client.ts, run by runner.ts; the pool of the ingest pipeline  *)
(* reads the messages of a page.                                           *)
(*                                                                         *)
(* A UID names a message only under the UIDVALIDITY it was issued under:   *)
(* a mailbox that is recreated numbers everything anew.  The source has    *)
(* one connection, which carries one command at a time and may drop at any *)
(* of them.  A message keeps its reference while the UIDVALIDITY lasts, so *)
(* what a resumed run finds in its journal is what it would read again,    *)
(* and the journal is left out.                                            *)
(***************************************************************************)
EXTENDS Integers, FiniteSets

CONSTANTS Arrivals,       \* bound: messages that arrive
          Configs,        \* [policy, mark, server] in use; a server "move" has MOVE and UIDPLUS,
                          \* "uidplus" UIDPLUS only, "plain" neither
          BatchSize, Width,
          MaxEpoch,       \* bound: UIDVALIDITY values
          MaxMishaps      \* bound: dropped connections, commands refused or unanswered, failures
                          \* of the pipeline or the store, crashes, and what the owner does

ASSUME MailSetup == /\ Arrivals \in Nat
                    /\ Configs \subseteq [policy : {"leave", "move", "delete"}, mark : BOOLEAN,
                                           server : {"move", "uidplus", "plain"}]
                    /\ BatchSize \in Nat \ {0} /\ Width \in Nat \ {0} /\ MaxEpoch \in Nat \ {0}
                    /\ MaxMishaps \in Nat

VARIABLES
  config,     \* the consume policy, whether messages are marked, what the server can do
  epoch,      \* UIDVALIDITY
  box,        \* box[u]: the message, and its \Seen and \Deleted
  sent,       \* messages that have arrived
  uidNext,
  archive,    \* messages in the mailbox they are moved to, once or more
  denied,     \* history: the flags, by reference, that the server last answered NO to
  up,         \* the client is connected
  row,        \* row[r]: ingest_source_state
  step,       \* of the runner
  todo,       \* pending rows this run has yet to replay
  ref,        \* the message being acknowledged
  batch,      \* batch[r]: the candidate in the pipeline
  held,       \* digests in the content store with their documents rows
  mishaps

server == <<epoch, box, sent, uidNext, archive, denied>>
mailVars == <<config, server, up, row, step, todo, ref, batch, held, mishaps>>

Mails == 1 .. Arrivals             \* numbered as they arrive; also their digests
Nothing == 0
Uids == 1 .. Arrivals
Refs == (1 .. MaxEpoch) \X Uids    \* externalId: "<uidvalidity>/<uid>"

Empty == [mail |-> Nothing, seen |-> FALSE, deleted |-> FALSE]
NoRow == [mail |-> Nothing, failed |-> FALSE, ack |-> "none"]
NotOffered == [at |-> "no", mail |-> Nothing]
Offered == [at |-> "offered", mail |-> Nothing]
NoRef == <<>>

Acks == {"none", "pending", "left", "marked", "moved", "deleted", "refused", "vanished"}
AckSteps == {"evidence", "identify", "flag", "act", "doom", "expunge"}

MailTypeOK ==
  /\ config \in Configs
  /\ epoch \in 1 .. MaxEpoch
  /\ box \in [Uids -> [mail : Mails \cup {Nothing}, seen : BOOLEAN, deleted : BOOLEAN]]
  /\ sent \in 0 .. Arrivals
  /\ uidNext \in 1 .. Arrivals + 1
  /\ archive \subseteq Mails
  /\ denied \subseteq Refs \X {"seen", "deleted"}
  /\ up \in BOOLEAN
  /\ row \in [Refs -> [mail : Mails \cup {Nothing}, failed : BOOLEAN, ack : Acks]]
  /\ step \in {"off", "start", "recover", "run", "record"} \cup AckSteps
  /\ todo \subseteq Refs
  /\ ref \in Refs \cup {NoRef}
  /\ batch \in [Refs -> [at : {"no", "offered", "reading", "filed", "failed"},
                         mail : Mails \cup {Nothing}]]
  /\ held \subseteq Mails
  /\ mishaps \in 0 .. MaxMishaps

MailInit ==
  /\ config \in Configs
  /\ epoch = 1
  /\ box = [u \in Uids |-> Empty]
  /\ sent = 0
  /\ uidNext = 1
  /\ archive = {}
  /\ denied = {}
  /\ up = FALSE
  /\ row = [r \in Refs |-> NoRow]
  /\ step = "start" /\ todo = {} /\ ref = NoRef
  /\ batch = [r \in Refs |-> NotOffered]
  /\ held = {}
  /\ mishaps = 0

Mishap == mishaps < MaxMishaps /\ mishaps' = mishaps + 1

-----------------------------------------------------------------------------
(* The mailbox and the network *)

Present == {u \in Uids : box[u].mail # Nothing}
InBox(m) == \E u \in Uids : box[u].mail = m

\* A message arrives under the next UID of this UIDVALIDITY.
Arrive ==
  /\ sent < Arrivals
  /\ sent' = sent + 1
  /\ box' = [box EXCEPT ![uidNext] = [Empty EXCEPT !.mail = sent']]
  /\ uidNext' = uidNext + 1
  /\ UNCHANGED <<config, epoch, archive, denied, up, row, step, todo, ref, batch, held, mishaps>>

\* The owner reads a message, or marks it unread; or takes it away.
Read(u) == /\ u \in Present /\ Mishap
           /\ box' = [box EXCEPT ![u].seen = ~@]
           /\ UNCHANGED <<config, epoch, sent, uidNext, archive, denied, up, row, step, todo, ref, batch, held>>

TakeAway(u) == /\ u \in Present /\ Mishap
               /\ box' = [box EXCEPT ![u] = Empty]
               /\ UNCHANGED <<config, epoch, sent, uidNext, archive, denied, up, row, step, todo, ref, batch, held>>

\* The command in flight is rejected; its reader tries again.
Interrupted == [r \in Refs |-> IF batch[r].at = "reading" THEN Offered ELSE batch[r]]

\* The mailbox is recreated: its sessions end, and the messages are numbered in another order.
Renumber ==
  /\ epoch < MaxEpoch
  /\ epoch' = epoch + 1
  /\ \E number \in [Present -> 1 .. Cardinality(Present)] :
       /\ \A u, v \in Present : u # v => number[u] # number[v]
       /\ box' = [n \in Uids |-> IF \E u \in Present : number[u] = n
                                   THEN box[CHOOSE u \in Present : number[u] = n] ELSE Empty]
  /\ uidNext' = Cardinality(Present) + 1
  /\ up' = FALSE
  /\ batch' = Interrupted
  /\ UNCHANGED <<config, sent, archive, denied, row, step, todo, ref, held, mishaps>>

Drop == /\ up /\ Mishap
        /\ up' = FALSE
        /\ batch' = Interrupted
        /\ UNCHANGED <<config, server, row, step, todo, ref, held>>

Crash == /\ step # "off" /\ Mishap
         /\ step' = "off" /\ todo' = {} /\ ref' = NoRef /\ up' = FALSE
         /\ batch' = [r \in Refs |-> NotOffered]
         /\ UNCHANGED <<config, server, row, held>>

-----------------------------------------------------------------------------
(* A run: replay, poll, pipeline *)

\* A process starts, or the timer of watch() fires.
Begin == /\ step \in {"off", "start"}
         /\ step' = "recover"
         /\ todo' = {r \in Refs : row[r].ack = "pending"}
         /\ UNCHANGED <<config, server, up, row, ref, batch, held, mishaps>>

Replay(r) == /\ step = "recover" /\ r \in todo
             /\ step' = "evidence"
             /\ ref' = r
             /\ UNCHANGED <<config, server, up, row, todo, batch, held, mishaps>>

\* isHandled; a message has one size for ever.
Handled(r) == row[r].ack \notin {"none", "pending", "refused"}

\* UID SEARCH UNSEEN, of which the first BatchSize: those the state table knows take their
\* places too.
Unseen == {u \in Present : ~box[u].seen}
Page == {u \in Unseen : /\ Cardinality({v \in Unseen : v < u}) < BatchSize
                        /\ ~Handled(<<epoch, u>>)}

\* ensure() reconnects and asks for the UIDVALIDITY again.
Poll == /\ step = "recover" /\ todo = {}
        /\ up' = TRUE
        /\ step' = IF Page = {} THEN "start" ELSE "run"
        /\ batch' = [r \in Refs |-> IF r[1] = epoch /\ r[2] \in Page THEN Offered ELSE NotOffered]
        /\ UNCHANGED <<config, server, row, todo, ref, held, mishaps>>

PollFails == /\ step = "recover" /\ todo = {} /\ Mishap
             /\ up' = FALSE
             /\ step' = "start"
             /\ UNCHANGED <<config, server, row, todo, ref, batch, held>>

Reading == {r \in Refs : batch[r].at = "reading"}
Busy == Reading # {}
Move(r, to) == batch' = [batch EXCEPT ![r].at = to]

\* A worker of the pool sends UID FETCH.
FetchStarts(r) ==
  /\ batch[r].at = "offered" /\ Cardinality(Reading) < Width
  /\ r[1] = epoch /\ ~Busy
  /\ up' = TRUE
  /\ Move(r, "reading")
  /\ UNCHANGED <<config, server, row, step, todo, ref, held, mishaps>>

\* The reference is of another UIDVALIDITY, or a command is in flight on the connection: so it
\* is for all three attempts, which follow each other at once.
FetchRefused(r) ==
  /\ batch[r].at = "offered" /\ Cardinality(Reading) < Width
  /\ r[1] # epoch \/ Busy
  /\ up' = TRUE
  /\ Move(r, "failed")
  /\ UNCHANGED <<config, server, row, step, todo, ref, held, mishaps>>

\* The answer: nothing if the message is gone.  What was read the pipeline files; that the store
\* may not hold what it took is what verifyOutcome is for.
FetchEnds(r) ==
  LET m == box[r[2]].mail
  IN /\ batch[r].at = "reading"
     /\ batch' = [batch EXCEPT ![r] = [at |-> IF m = Nothing THEN "failed" ELSE "filed", mail |-> m]]
     /\ \/ held' = held \cup ({m} \ {Nothing}) /\ UNCHANGED mishaps
        \/ m # Nothing /\ UNCHANGED held /\ Mishap
     /\ UNCHANGED <<config, server, up, row, step, todo, ref>>

PipelineFails(r) == /\ batch[r].at = "reading" /\ Mishap
                    /\ Move(r, "failed")
                    /\ UNCHANGED <<config, server, up, row, step, todo, ref, held>>

FinishRun == /\ step = "run" /\ \A r \in Refs : batch[r].at \in {"no", "filed", "failed"}
             /\ step' = "record"
             /\ UNCHANGED <<config, server, up, row, todo, ref, batch, held, mishaps>>

\* recordOutcome, before the mailbox is touched.
Record(r) == /\ step = "record" /\ batch[r].at \in {"filed", "failed"}
             /\ row' = [row EXCEPT ![r] = [mail |-> batch[r].mail,
                                           failed |-> batch[r].at = "failed", ack |-> "pending"]]
             /\ batch' = [batch EXCEPT ![r] = NotOffered]
             /\ step' = "evidence"
             /\ ref' = r
             /\ UNCHANGED <<config, server, up, todo, held, mishaps>>

EndRun == /\ step = "record" /\ \A r \in Refs : batch[r] = NotOffered
          /\ step' = "start"
          /\ UNCHANGED <<config, server, up, row, todo, ref, batch, held, mishaps>>

-----------------------------------------------------------------------------
(* Acknowledgement *)

Go(to) == step' = to /\ UNCHANGED <<row, todo, ref>>

\* On to the next row or outcome.
Return == /\ step' = IF ref \in todo THEN "recover" ELSE "record"
          /\ todo' = todo \ {ref}
          /\ ref' = NoRef

Close(ack) == row' = [row EXCEPT ![ref].ack = ack] /\ Return

\* acknowledge throws: the row stays pending for the next run to replay.
Throw == UNCHANGED row /\ Return

\* evidenceForConsume
Evidence ==
  /\ step = "evidence"
  /\ IF row[ref].failed THEN Close("left")
     ELSE IF row[ref].mail \notin held THEN Close("refused")
     ELSE Go("identify")
  /\ UNCHANGED <<config, server, up, batch, held, mishaps>>

IdentifyAnyway ==
  /\ step = "identify"
  /\ up' = TRUE
  /\ Go(IF config.mark THEN "flag" ELSE "act")
  /\ UNCHANGED <<config, server, batch, held, mishaps>>

IdentifyThrowing ==
  /\ step = "identify"
  /\ up' = TRUE
  /\ IF ref[1] # epoch THEN Throw ELSE Go(IF config.mark THEN "flag" ELSE "act")
  /\ UNCHANGED <<config, server, batch, held, mishaps>>

\* ensure(), then uidOf: a reference of another UIDVALIDITY is refused for good.
Identify ==
  /\ step = "identify"
  /\ up' = TRUE
  /\ IF ref[1] # epoch THEN Close("refused") ELSE Go(IF config.mark THEN "flag" ELSE "act")
  /\ UNCHANGED <<config, server, batch, held, mishaps>>

EnsureFails == /\ step = "identify" /\ Mishap
               /\ up' = FALSE
               /\ Throw
               /\ UNCHANGED <<config, server, batch, held>>

\* A command of the acknowledgement is answered OK or NO, or takes effect without an answer, or
\* finds the connection dropped.
Answered == UNCHANGED <<up, mishaps>>
Unanswered == /\ Mishap
              /\ up' = FALSE
              /\ Throw

Uid == ref[2]
Gone == box[Uid].mail = Nothing
Flagged(flag) == IF Gone THEN box
                 ELSE [box EXCEPT ![Uid] = IF flag = "seen" THEN [@ EXCEPT !.seen = TRUE]
                                           ELSE [@ EXCEPT !.deleted = TRUE]]
Copied == archive \cup ({box[Uid].mail} \ {Nothing})

\* UID STORE +FLAGS.  A NO is returned as false, and the acknowledgement goes on.
AddFlag(flag, to) ==
  /\ up
  /\ \/ /\ box' = Flagged(flag)
        /\ denied' = denied \ {<<ref, flag>>}
        /\ (Answered /\ Go(to)) \/ Unanswered
     \/ /\ denied' = denied \cup {<<ref, flag>>}
        /\ Mishap /\ Go(to)
        /\ UNCHANGED <<box, up>>
  /\ UNCHANGED <<config, epoch, sent, uidNext, archive, batch, held>>

FlagSeen == step = "flag" /\ AddFlag("seen", "act")

\* What the policy asks, and the server can do.
Leave == /\ step = "act" /\ config.policy = "leave"
         /\ Close(IF config.mark /\ <<ref, "seen">> \notin denied THEN "marked" ELSE "left")
         /\ UNCHANGED <<config, server, up, batch, held, mishaps>>

\* UID MOVE: servers differ on a message that is not there.
MoveAway == /\ step = "act" /\ config.policy = "move" /\ config.server = "move" /\ up
            /\ archive' = Copied
            /\ box' = [box EXCEPT ![Uid] = Empty]
            /\ \/ Answered /\ (Close("moved") \/ (Gone /\ Close("vanished")))
               \/ Unanswered
            /\ UNCHANGED <<config, epoch, sent, uidNext, denied, batch, held>>

\* Without MOVE: UID COPY, \Deleted, UID EXPUNGE.
CopyAway == /\ step = "act" /\ config.policy = "move" /\ config.server = "uidplus" /\ up
            /\ archive' = Copied
            /\ \/ Answered /\ (Go("doom") \/ (Gone /\ Close("vanished")))
               \/ Unanswered
            /\ UNCHANGED <<config, epoch, box, sent, uidNext, denied, batch, held>>

\* Without UIDPLUS a move throws, for ever, and a delete is refused.
CannotMove == /\ step = "act" /\ config.policy = "move" /\ config.server = "plain"
              /\ Throw
              /\ UNCHANGED <<config, server, up, batch, held, mishaps>>

CannotDelete == /\ step = "act" /\ config.policy = "delete" /\ config.server = "plain"
                /\ Close("refused")
                /\ UNCHANGED <<config, server, up, batch, held, mishaps>>

StartDelete == /\ step = "act" /\ config.policy = "delete" /\ config.server # "plain"
               /\ Go("doom")
               /\ UNCHANGED <<config, server, up, batch, held, mishaps>>

\* Nothing asks whether the flag took.
FlagDeleted == step = "doom" /\ AddFlag("deleted", "expunge")

Expunge == /\ step = "expunge" /\ up
           /\ box' = [box EXCEPT ![Uid] = IF @.deleted THEN Empty ELSE @]
           /\ \/ Answered /\ Close(IF config.policy = "move" THEN "moved" ELSE "deleted")
              \/ Unanswered
           /\ UNCHANGED <<config, epoch, sent, uidNext, archive, denied, batch, held>>

\* NO to a MOVE, COPY or EXPUNGE throws.
SaidNo == /\ step = "expunge" \/ (step = "act" /\ config.policy = "move" /\ config.server # "plain")
          /\ up /\ Mishap /\ Throw
          /\ UNCHANGED <<config, server, up, batch, held>>

NotConnectedVanished ==
  /\ ~up
  /\ \/ step \in {"flag", "doom", "expunge"}
     \/ step = "act" /\ config.policy = "move" /\ config.server # "plain"
  /\ Close("vanished")
  /\ UNCHANGED <<config, server, up, batch, held, mishaps>>

NotConnected == /\ ~up
                /\ \/ step \in {"flag", "doom", "expunge"}
                   \/ step = "act" /\ config.policy = "move" /\ config.server # "plain"
                /\ Throw
                /\ UNCHANGED <<config, server, up, batch, held, mishaps>>

Acknowledge == \/ Evidence \/ Identify \/ EnsureFails \/ FlagSeen \/ Leave \/ MoveAway \/ CopyAway
               \/ CannotMove \/ CannotDelete \/ StartDelete \/ FlagDeleted \/ Expunge \/ SaidNo
               \/ NotConnected

MailRunner == \/ Begin \/ Poll \/ PollFails \/ FinishRun \/ EndRun \/ Acknowledge
              \/ \E r \in Refs : Replay(r) \/ Record(r)

Ingest(r) == FetchStarts(r) \/ FetchRefused(r) \/ FetchEnds(r) \/ PipelineFails(r)

MailOutside == \/ Arrive
               \/ \E u \in Uids : Read(u) \/ TakeAway(u)
               \/ Renumber \/ Drop \/ Crash

MailNext == MailRunner \/ (\E r \in Refs : Ingest(r)) \/ MailOutside

-----------------------------------------------------------------------------
(* Properties *)

\* The runner flags, moves and expunges only messages whose bytes are in the store, and what a
\* move takes out of the mailbox is in the other one: through renumbering, lost answers and
\* replays.
TouchedOnlyWhenFiled ==
  [][\A u \in Uids : step \in AckSteps /\ step' # step /\ box[u] # box'[u] =>
       /\ box[u].mail \in held
       /\ config.policy = "move" /\ box'[u] = Empty => box[u].mail \in archive']_mailVars

\* A row closes as moved or deleted when the EXPUNGE was answered OK, which it is as well when
\* the flag before it was refused and nothing was expunged.
ClosedAnyway(r) == row[r].ack \in {"moved", "deleted"} /\ <<r, "deleted">> \in denied

\* A row that says the message went is about a message that is not in the mailbox under any
\* number; except one that closed anyway.
GoneIsGone == \A r \in Refs : row[r].ack \in {"moved", "deleted", "vanished"} /\ ~ClosedAnyway(r) =>
                               ~InBox(row[r].mail)

\* Every interrupted acknowledgement is brought to an end, except a move on a server that cannot.
EveryRowCloses ==
  []<>((\A r \in Refs : row[r].ack # "pending")
       \/ (config.policy = "move" /\ config.server = "plain"))

=============================================================================

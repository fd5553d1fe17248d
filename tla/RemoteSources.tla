---------------------------- MODULE RemoteSources ----------------------------
(***************************************************************************)
(* A source that is not on this machine is a mailbox or a share:           *)
(* apps/server/src/ingestion/sources.ts makes the one its row names, for   *)
(* the life of the source.                                                 *)
(***************************************************************************)
EXTENDS MailSource, ShareSource

VARIABLE source

vars == <<source, mailVars, shareVars>>

TypeOK == source \in {"mail", "share"} /\ MailTypeOK /\ ShareTypeOK

\* The one there is not stays as it was made, whatever it was given.
Init == /\ MailInit /\ ShareInit
        /\ \/ source = "mail" /\ conf = CHOOSE c \in Shares : TRUE
           \/ source = "share" /\ config = CHOOSE c \in Configs : TRUE

Next == /\ UNCHANGED source
        /\ \/ source = "mail" /\ MailNext /\ UNCHANGED shareVars
           \/ source = "share" /\ ShareNext /\ UNCHANGED mailVars

Mail(step_) == source = "mail" /\ step_ /\ UNCHANGED <<source, shareVars>>
Share(step_) == source = "share" /\ step_ /\ UNCHANGED <<source, mailVars>>

\* The timer of watch() begins the next run, and a request is answered or given up.
Spec == /\ Init /\ [][Next]_vars
        /\ WF_vars(Mail(MailRunner)) /\ WF_vars(Share(ShareRunner))
        /\ \A r \in Refs : WF_vars(Mail(Ingest(r)))
        /\ \A p \in Paths : WF_vars(Share(IngestFile(p)))

-----------------------------------------------------------------------------
(* Properties *)

\* The state is well typed, and no row says of a message that is in the mailbox
\* that it went, but one it was refused to doom (GoneIsGone).
RowsAreTrue == TypeOK /\ GoneIsGone

\* What a source takes away has been filed: TouchedOnlyWhenFiled of a mailbox,
\* LostOnlyUnguarded, which says what the server may not guard, of a share.
FiledBeforeItGoes == TouchedOnlyWhenFiled /\ LostOnlyUnguarded

\* Whatever is interrupted is brought to an end: EveryRowCloses of a mailbox,
\* EveryFileConcluded of a share.
EverythingConcluded == EveryRowCloses /\ EveryFileConcluded
=============================================================================

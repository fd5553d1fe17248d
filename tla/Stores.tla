------------------------------- MODULE Stores -------------------------------
(***************************************************************************)
(* Where the bytes of a library are kept.  Its store is one backend for    *)
(* the life of the process: packages/core/src/index.ts openRecueil takes   *)
(* the one it is given and otherwise the local one, of which snapshots are *)
(* made.  The backends are looked at call by call; a library in use, its   *)
(* snapshots and their restoration over a store that does what BlobStore   *)
(* says, which ContractKept shows of the backends.                         *)
(***************************************************************************)
EXTENDS LocalStore, RemoteStore, Backup

VARIABLE view   \* what is looked at: the calls of a backend, or the snapshots

vars == <<view, storeVars, remoteVars, backupVars>>

TypeOK == /\ view \in {"local", "remote", "snapshots"}
          /\ StoreTypeOK /\ RemoteTypeOK /\ BackupTypeOK

\* What is not looked at stays as it was made, whatever it was given.
IdleLocal == /\ want = (CHOOSE w \in Wants : TRUE)
             /\ thorough = [p \in Puts |-> FALSE]
IdleRemote == /\ sum = (CHOOSE s \in Sums : TRUE)
              /\ exact = [p \in Puts |-> FALSE]
              /\ strategy = (CHOOSE s \in Strategies : TRUE) /\ checked

Init == /\ StoreInit /\ RemoteInit /\ BackupInit
        /\ \/ view = "local" /\ IdleRemote
           \/ view = "remote" /\ IdleLocal
           \/ view = "snapshots" /\ IdleLocal /\ IdleRemote

Next == /\ UNCHANGED view
        /\ \/ view = "local" /\ StoreNext /\ UNCHANGED <<remoteVars, backupVars>>
           \/ view = "remote" /\ RemoteNext /\ UNCHANGED <<storeVars, backupVars>>
           \/ view = "snapshots" /\ BackupNext /\ UNCHANGED <<storeVars, remoteVars>>

Spec == Init /\ [][Next]_vars /\ RemoteFairness

-----------------------------------------------------------------------------
(* Properties: what a backend owes its callers, whichever it is *)

\* A put that answers has its bytes in the store: AnsweredIsStored says when,
\* and what excuses it, of the local backend, RemoteAnswerIsTrue of the others.
AnswersAreTrue == AnsweredIsStored /\ RemoteAnswerIsTrue

\* No put, failed, interrupted, repeated or racing, leaves other bytes under a
\* digest or touches a blob that is whole (ADR-0004; ImplementsContract,
\* NamesAreHonest).
ContractKept == ImplementsContract /\ NamesAreHonest

\* The state is well typed, and what a put leaves beside the blobs is accounted
\* for: nothing on the local disk unless the process died, and elsewhere only
\* what LeftoversExcused names.
NoLeftovers == TypeOK /\ NoPartOutlivesItsPut /\ LeftoversExcused
=============================================================================

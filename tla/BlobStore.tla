----------------------------- MODULE BlobStore ------------------------------
(***************************************************************************)
(* What a storage backend promises (packages/core/src/storage/backend.ts): *)
(* bytes are addressed by their digest, a put makes the name hold exactly  *)
(* them or changes nothing, and nothing but a delete of the name or the    *)
(* medium itself takes them away again.                                    *)
(***************************************************************************)
CONSTANTS Digests,
          Probed   \* digests whose caller deletes them again

VARIABLE file      \* file[d]: what is stored under the name d

Init == file = [d \in Digests |-> "none"]

Put(d) == file' = [file EXCEPT ![d] = "whole"]

Delete(d) == d \in Probed /\ file' = [file EXCEPT ![d] = "none"]

Damage(d) == /\ file[d] = "whole"
             /\ \E harm \in {"rotten", "short"} : file' = [file EXCEPT ![d] = harm]

Next == \E d \in Digests : Put(d) \/ Delete(d) \/ Damage(d)

Spec == Init /\ [][Next]_file
=============================================================================

------------------------------ MODULE FileOnce ------------------------------
(***************************************************************************)
(* What ingestion promises of a document while nobody else edits the       *)
(* library: the bytes arrive once, whatever number of candidates carries   *)
(* them, and are filed under one item that never changes.                  *)
(***************************************************************************)
CONSTANTS Digests, Items

VARIABLES known,    \* the documents the library has a row for
          itemsOf   \* itemsOf[d]: the items document d is filed under

Init == /\ known = {}
        /\ itemsOf = [d \in Digests |-> {}]

Arrive(d) == /\ known' = known \cup {d}
             /\ UNCHANGED itemsOf

FileAs(d, i) == /\ d \in known
                /\ itemsOf[d] = {}
                /\ \A e \in Digests : i \notin itemsOf[e]
                /\ itemsOf' = [itemsOf EXCEPT ![d] = {i}]
                /\ UNCHANGED known

Next == \E d \in Digests : Arrive(d) \/ \E i \in Items : FileAs(d, i)

Spec == Init /\ [][Next]_<<known, itemsOf>>
=============================================================================

---------------------------- MODULE DigestLease -----------------------------
(***************************************************************************)
(* What the digest gate promises: at any moment at most one line of        *)
(* descent owns the lease on a digest.  The gate's queue, its time-outs    *)
(* and its counters are invisible at this level.                           *)
(***************************************************************************)
CONSTANTS Callers, Keys, Nobody

VARIABLE owner      \* owner[k]: who may run stages 2 to 10 on the bytes k

Init == owner = [k \in Keys |-> Nobody]

Take(c, k) == /\ owner[k] = Nobody
              /\ owner' = [owner EXCEPT ![k] = c]

Drop(c, k) == /\ owner[k] = c
              /\ owner' = [owner EXCEPT ![k] = Nobody]

Next == \E c \in Callers, k \in Keys : Take(c, k) \/ Drop(c, k)

Spec == Init /\ [][Next]_owner
=============================================================================

------------------------------ MODULE MCStores ------------------------------
(***************************************************************************)
(* Instances of Stores for TLC: two put calls, of one probe, or of a       *)
(* document and a probe, in one shard; snapshots of a library of these     *)
(* two.                                                                    *)
(***************************************************************************)
EXTENDS Stores, TLC

CONSTANTS p1, p2, paper, probe, shard

OneShard(d) == shard

\* A caller may delete a probe again or leave it, so two puts of a probe do all that two puts of
\* a paper do.  Objects of different digests have nothing in common on a server; files may have a
\* directory, and which of the two puts is given which of two digests makes no difference.
OneDigest == {[p \in Puts |-> probe]}
OneOrTwo == OneDigest \cup {p1 :> paper @@ p2 :> probe}
=============================================================================

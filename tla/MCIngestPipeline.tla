-------------------------- MODULE MCIngestPipeline --------------------------
(***************************************************************************)
(* Instances of IngestPipeline for TLC.                                    *)
(***************************************************************************)
EXTENDS IngestPipeline, TLC

CONSTANTS r1, r2, p1, p2, c1, c2, d1

\* c1 and c2 carry the same bytes in different runs.
RunsOfPair == (c1 :> r1) @@ (c2 :> r2)
PairSameBytes == (c1 :> d1) @@ (c2 :> d1)

OwnPipelines == (r1 :> p1) @@ (r2 :> p2)
SharedPipeline == (r1 :> p1) @@ (r2 :> p1)

Everywhere == Active \ {"wait"}

Symmetry == Permutations(Items)
=============================================================================

----------------------------- MODULE StoreCalls -----------------------------
(***************************************************************************)
(* What the storage backends have in common: the calls made of them and    *)
(* the digests those calls are about.                                      *)
(***************************************************************************)
EXTENDS Naturals, FiniteSets

CONSTANTS Puts,      \* calls of put()
          Digests,
          Probed,    \* digests whose caller deletes them again
          MaxRots    \* bound: blobs the medium damages

ASSUME CallSetup == Probed \subseteq Digests /\ MaxRots \in Nat
=============================================================================

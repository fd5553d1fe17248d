---------------------------- MODULE MCDigestGate ----------------------------
(***************************************************************************)
(* Instance of DigestGate for TLC: zip holds inner and doc, and inner      *)
(* holds zip again, so two lines of descent can wait on each other in a    *)
(* circle that only the depth limit and the time-out bound.                *)
(***************************************************************************)
EXTENDS DigestGate

CONSTANTS zip, inner, doc

Knot == [k \in {zip, inner, doc} |->
           CASE k = zip -> {inner, doc} [] k = inner -> {zip} [] OTHER -> {}]
=============================================================================

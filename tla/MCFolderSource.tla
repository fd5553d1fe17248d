--------------------------- MODULE MCFolderSource ---------------------------
(***************************************************************************)
(* Instances of FolderSource for TLC: two sources that move into one       *)
(* directory, and one source with two files and a page of one.             *)
(***************************************************************************)
EXTENDS FolderSource, TLC

CONSTANTS inbox, scanner, a, b

Alike == Permutations({inbox, scanner}) \cup Permutations({a, b})
=============================================================================

----------------------------- MODULE MCJobRows -----------------------------
(***************************************************************************)
(* Instances of JobRows for TLC: two run labels of a source that offers    *)
(* two candidates, two workers; and a Zotero library with a collection in  *)
(* the trash that is not empty, three items that claim one DOI, the first  *)
(* of them in the trash, files with the same bytes on two items and on     *)
(* their own, one that is lost, notes of the same text, one on no item,    *)
(* and annotations and a note in the trash of an item that is not; and a   *)
(* Paperless server with three documents, two under one archive serial     *)
(* number, the third's held by an item from elsewhere, links both ways,    *)
(* and a file that is not always to be had.                                *)
(***************************************************************************)
EXTENDS JobRows

CONSTANTS j1, j2, c1, c2

Alike == Permutations({j1, j2}) \cup Permutations({c1, c2})

CONSTANTS nothing, root, sub, tag, who, paper, old, copy, file, lone, same, lost,
          n1, n2, n3, mark, scrawl, pdf, doi, txt

Shelf ==
  [collections |-> <<sub, root>>, line |-> (root :> <<root>>) @@ (sub :> <<root, sub>>),
   tags |-> <<tag>>, creators |-> <<who>>, items |-> <<old, paper, copy>>,
   attachments |-> <<file, lone, same, lost>>, notes |-> <<n1, n2, n3>>, annotations |-> <<mark, scrawl>>,
   relations |-> <<paper>>,
   deleted |-> {old, n2, sub, lost, mark},
   parent |-> (file :> paper) @@ (lone :> nothing) @@ (same :> old) @@ (lost :> paper)
                @@ (n1 :> paper) @@ (n2 :> paper) @@ (n3 :> nothing),
   bytes |-> (file :> pdf) @@ (lone :> pdf) @@ (same :> pdf) @@ (lost :> nothing),
   text |-> (n1 :> txt) @@ (n2 :> txt) @@ (n3 :> txt),
   on |-> (mark :> file) @@ (scrawl :> same),
   authors |-> (paper :> <<who>>) @@ (old :> <<>>) @@ (copy :> <<>>),
   claim |-> (paper :> doi) @@ (old :> doi) @@ (copy :> doi),
   tagged |-> (paper :> {tag}) @@ (old :> {}) @@ (copy :> {}) @@ (lone :> {tag}),
   filed |-> (paper :> {sub, root}) @@ (old :> {}) @@ (copy :> {}) @@ (lone :> {root})]

CONSTANTS bill, f1, w1

Server ==
  [count |-> 3, tags |-> <<bill>>, fields |-> <<f1>>,
   tagged |-> <<{bill}, {}, {bill}>>, notes |-> <<<<w1, w1>>, <<>>, <<>>>>,
   asn |-> <<{1}, {1}, {2}>>, taken |-> {2}, bytes |-> <<1, 2, 3>>,
   links |-> <<<<2, 3>>, <<>>, <<1>>>>, shaky |-> {2}]
=============================================================================

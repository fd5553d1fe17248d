------------------------------ MODULE JobRows ------------------------------
(***************************************************************************)
(* What works behind a row of the jobs table: the server's runs of a       *)
(* source, or an import of the command line.  None looks at the rows of    *)
(* another.                                                                *)
(***************************************************************************)
EXTENDS SourceJobs, ZoteroImport, PaperlessImport

CONSTANT Kinds   \* what a behaviour may be about

VARIABLE kind    \* what it is about; the variables of the others are not used

vars == <<kind, sourceVars, zoteroVars, paperVars>>

TypeOK == \/ kind = "source" /\ SourceTypeOK
          \/ kind = "zotero" /\ ZoteroTypeOK
          \/ kind = "paperless" /\ PaperlessTypeOK

NoZotero == lib = <<>> /\ halved = {}
NoPaperless == papers = <<>> /\ reach = 0 /\ errand = <<>> /\ edits = 0

Init == /\ kind \in Kinds
        /\ SourceInit
        /\ \/ kind = "source" /\ JobInit /\ NoZotero /\ NoPaperless
           \/ kind = "zotero" /\ ZoteroInit /\ NoPaperless
           \/ kind = "paperless" /\ PaperlessInit /\ NoZotero

Next == /\ UNCHANGED kind
        /\ \/ kind = "source" /\ SourceNext /\ UNCHANGED <<zoteroVars, paperVars>>
           \/ kind = "zotero" /\ ZoteroNext /\ UNCHANGED <<sourceVars, papers, reach, errand, edits>>
           \/ kind = "paperless" /\ PaperlessNext /\ UNCHANGED <<sourceVars, lib, halved>>

Spec == Init /\ [][Next]_vars

-----------------------------------------------------------------------------
(* Properties *)

\* The state is well typed, and a row says running while something runs (RowIsTrue).
JobsAreTrue == TypeOK /\ RowIsTrue

\* An import that has succeeded has everything (ZoteroWhole, PaperlessWhole).
ImportedIsWhole == /\ kind = "zotero" => ZoteroWhole
                   /\ kind = "paperless" => PaperlessWhole

\* An import may be repeated (import.ts, job.ts): after one that succeeded, runs
\* change nothing of what the library shows until people do, what people binned
\* does not stop the next, and its report says what is there.
RerunIsSafe ==
  [][/\ kind = "zotero" => ZoteroRerunHarmless
     /\ kind = "paperless" => PaperlessRerunHarmless /\ PaperlessGoesThrough /\ PaperlessReportHolds]_vars

\* import.ts, at its head: importing the same library twice "produces the same
\* library, not a doubled one", of every row.
TwiceIsOnce == [][ZoteroTwiceIsOnce]_vars
=============================================================================

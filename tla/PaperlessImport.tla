-------------------------- MODULE PaperlessImport --------------------------
(***************************************************************************)
(* packages/import-paperless: the documents of a Paperless server are      *)
(* copied into the library, a document after the other by their ids, and a *)
(* report says whether all of it arrived.  The cursor also names the last  *)
(* document that is done, which a run that resumes passes over.  People    *)
(* work in the library at any moment: the import is a process of its own.  *)
(***************************************************************************)
EXTENDS ImportJob, SequencesExt, Functions

CONSTANTS
  Paperless,  \* the server: how many documents, and what each carries
  MaxEdits    \* bound: things people do to the copy

ASSUME PaperlessSetup == MaxEdits \in Nat /\ Paperless.count \in Nat

VARIABLES
  papers,    \* the library
  reach,     \* the row: the last document that is done
  errand,    \* the run: what it passes over, what is done, where its document is, what
             \* it knows (tags, items), and how much people had done when it began
  edits

paperVars == <<jobVars, papers, reach, errand, edits>>

Docs == 1 .. Paperless.count
Labels == ToSet(Paperless.tags)
Fields == ToSet(Paperless.fields)
Numbers == UNION {Paperless.asn[d] : d \in Docs}   \* a document has one ASN, or none
Bytes == {Paperless.bytes[d] : d \in Docs}
\* Two notes of one text collapse.
Texts(d) == ToSet(Paperless.notes[d])

\* A snapshot of a server: every document has all of its parts, and links to documents.
ASSUME PaperlessSnapshot ==
  /\ Paperless.tags \in Seq(Labels) /\ Paperless.fields \in Seq(Fields)
  /\ Paperless.tagged \in [Docs -> SUBSET Labels]
  /\ \A d \in Docs : /\ Paperless.notes[d] \in Seq(Texts(d)) /\ Paperless.links[d] \in Seq(Docs)
                     /\ Cardinality(Paperless.asn[d]) <= 1
  /\ Paperless.taken \subseteq Numbers /\ Paperless.shaky \subseteq Docs

PaperStages == <<"vocabularies", "custom_fields", "documents", "links", "finalise">>

PaperRows(stage) == CASE stage = "vocabularies" -> Paperless.tags
                      [] stage = "custom_fields" -> Paperless.fields
                      [] OTHER -> [d \in Docs |-> d]

Off == [after |-> 0, last |-> 0, step |-> "off", labels |-> {}, items |-> {}, since |-> 0]

PaperlessTypeOK ==
  /\ JobTypeOK
  /\ papers.tags \subseteq Labels /\ papers.fields \subseteq Fields
  /\ papers.item \in [Docs -> {"none", "live", "trashed"}]
  /\ papers.tagged \in [Docs -> SUBSET Labels]
  /\ papers.asn \in [Docs -> SUBSET Numbers] /\ papers.kept \in [Docs -> SUBSET Numbers]
  /\ papers.file \in [Bytes -> {"none", "live", "trashed"}]
  /\ papers.attached \in [Docs -> {"none", "live", "detached"}]
  /\ papers.provenance \subseteq Docs /\ papers.own \subseteq Docs /\ papers.dated \subseteq Docs
  /\ papers.taken \subseteq Numbers
  /\ reach \in 0 .. Paperless.count /\ errand.last \in 0 .. Paperless.count
  /\ edits \in 0 .. MaxEdits

PaperlessInit ==
  /\ JobInit
  /\ papers = [tags |-> {}, fields |-> {}, item |-> [d \in Docs |-> "none"],
               tagged |-> [d \in Docs |-> {}], note |-> [d \in Docs |-> {}],
               asn |-> [d \in Docs |-> {}], kept |-> [d \in Docs |-> {}],
               link |-> [d \in Docs |-> <<>>], file |-> [b \in Bytes |-> "none"],
               attached |-> [d \in Docs |-> "none"], provenance |-> {}, dated |-> {},
               own |-> {}, taken |-> Paperless.taken]
  /\ reach = 0 /\ errand = Off /\ edits = 0

Live == {d \in Docs : papers.item[d] = "live"}

-----------------------------------------------------------------------------
(* A run and its stages *)

OnStage(stage) == /\ doing.stage \in DOMAIN PaperStages /\ PaperStages[doing.stage] = stage
                  /\ doing.n \in DOMAIN PaperRows(stage) /\ errand.step # "fetch"
Row == PaperRows(PaperStages[doing.stage])[doing.n]

ClaimPaper ==
  /\ Claim(1)
  /\ reach' = IF Resume = NoCursor THEN 0 ELSE reach
  /\ errand' = [Off EXCEPT !.after = reach', !.last = reach', !.step = "fetch", !.since = edits]
  /\ UNCHANGED <<papers, edits>>

\* fetchSnapshot, and rehydrate for each stage an earlier run has finished.
FetchSnapshot ==
  /\ errand.step = "fetch"
  /\ errand' = [errand EXCEPT !.step = "look",
                          !.labels = IF doing.stage > 1 THEN papers.tags ELSE {},
                          !.items = IF doing.stage > 3 THEN Live ELSE {}]
  /\ UNCHANGED <<jobVars, papers, reach, edits>>

BeginPaperStage ==
  /\ doing.stage \in DOMAIN PaperStages /\ doing.n = 0 /\ errand.step # "fetch"
  /\ Checkpoint(doing.stage)
  /\ doing' = [doing EXCEPT !.n = 1]
  /\ UNCHANGED <<log, stops, touches, touched, settled, papers, reach, errand, edits>>

\* advance, with the run's record as it is by then.
AdvanceAs(w) ==
  /\ reach' = w.last
  /\ \/ /\ doing' = [doing EXCEPT !.n = @ + 1]
        /\ errand' = [w EXCEPT !.step = "look"]
        /\ UNCHANGED <<import, log, stops, touches, touched, settled>>
     \/ AbortRun /\ errand' = Off
  /\ UNCHANGED <<papers, edits>>

EndPaperStage ==
  /\ doing.stage \in DOMAIN PaperStages /\ doing.n > Len(PaperRows(PaperStages[doing.stage]))
  /\ doing' = [Idle EXCEPT !.stage = doing.stage + 1]
  /\ UNCHANGED <<import, log, stops, touches, touched, settled, papers, reach, errand, edits>>

FinishPaper == /\ doing.stage = Len(PaperStages) + 1
               /\ Succeed /\ errand' = Off
               /\ UNCHANGED <<papers, reach, edits>>

CutPaper == Cut /\ errand' = Off /\ UNCHANGED <<papers, reach, edits>>

\* A transaction of the importer, after which its document is at the next step.
Wrote(l, step) == /\ papers' = l /\ errand' = [errand EXCEPT !.step = step]
                  /\ UNCHANGED <<jobVars, reach, edits>>

Observe(entries, step) ==
  /\ log' = entries /\ errand' = [errand EXCEPT !.step = step]
  /\ UNCHANGED <<import, doing, stops, touches, touched, settled, papers, reach, edits>>

Refused == Throw /\ errand' = Off /\ UNCHANGED <<papers, reach, edits>>

-----------------------------------------------------------------------------
(* Vocabularies and fields *)

ImportPaperTag ==
  /\ OnStage("vocabularies")
  /\ IF Row \in papers.tags THEN AdvanceAs([errand EXCEPT !.labels = @ \cup {Row}])
     ELSE Wrote([papers EXCEPT !.tags = @ \cup {Row}], "look")

DefineCustomField ==
  /\ OnStage("custom_fields")
  /\ IF Row \in papers.fields THEN AdvanceAs(errand)
     ELSE Wrote([papers EXCEPT !.fields = @ \cup {Row}], "look")

-----------------------------------------------------------------------------
(* Documents *)

OnDocument(step) == OnStage("documents") /\ errand.step = step

PassOver ==
  /\ OnDocument("look") /\ Row <= errand.after
  /\ AdvanceAs([errand EXCEPT !.items = @ \cup ({Row} \cap Live)])

\* Mutant: a document is written whether or not its item is in the trash.
LeftAloneNever(d) == FALSE

\* leaveTrashedItemAlone
LeftAlone(d) == papers.item[d] = "trashed"

LeaveTrashedItemAlone ==
  \/ /\ OnDocument("look") /\ Row > errand.after
     /\ IF LeftAlone(Row) THEN Observe(log \cup {<<"trash", Row>>}, "left")
        ELSE Observe(log, "upsert")
  \/ OnDocument("left") /\ AdvanceAs([errand EXCEPT !.last = Row])

\* asnOwners: the first document that carries the number.
AsnOwner(x) == CHOOSE d \in Docs : x \in Paperless.asn[d] /\ \A e \in 1 .. d - 1 : x \notin Paperless.asn[e]

Held(x, d) == x \in papers.taken \/ \E e \in Live \ {d} : x \in papers.asn[e]

\* allocateAsn: the number, if it is this document's and nothing else live holds it.
Allocated(d) == {x \in Paperless.asn[d] : AsnOwner(x) = d /\ ~ Held(x, d)}

\* upsertItem, which writes what differs; the services refuse an item in the trash.
UpsertItem ==
  /\ OnDocument("upsert")
  /\ IF papers.item[Row] = "trashed" /\ papers.asn[Row] # Allocated(Row)
     THEN Refused
     ELSE /\ papers' = IF papers.item[Row] # "none" /\ papers.asn[Row] = Allocated(Row) THEN papers
                       ELSE [papers EXCEPT !.item[Row] = "live", !.asn[Row] = Allocated(Row),
                                           !.dated = @ \ {Row}]
          /\ log' = IF Allocated(Row) = Paperless.asn[Row] THEN log
                    ELSE log \cup {<<"asn", Row>>}
          /\ errand' = [errand EXCEPT !.step = "tags", !.items = @ \cup {Row}]
          /\ UNCHANGED <<import, doing, stops, touches, touched, settled, reach, edits>>

\* applyTags: those the run knows; a tag that went to the trash meanwhile refuses.
ApplyTags ==
  /\ OnDocument("tags")
  /\ LET known == Paperless.tagged[Row] \cap errand.labels
     IN IF known \subseteq papers.tags
        THEN Wrote([papers EXCEPT !.tagged[Row] = @ \cup known], "notes")
        ELSE Refused

\* applyNotes: those whose text no live note of the item has.
ApplyNotes ==
  /\ OnDocument("notes")
  /\ IF papers.item[Row] = "trashed" /\ ~ (Texts(Row) \subseteq papers.note[Row])
     THEN Refused
     ELSE Wrote([papers EXCEPT !.note[Row] = @ \cup Texts(Row)], "values")

\* applyHelperFields: the number again, refused or not.  Links wait for their stage.
ApplyValues ==
  /\ OnDocument("values")
  /\ Wrote([papers EXCEPT !.kept[Row] = @ \cup Paperless.asn[Row]], "original")

\* A later observation of the same document replaces an earlier one.
Originals(d, said) == (log \ {<<"missing", d>>, <<"stored", d>>}) \cup {<<said, d>>}

\* importOriginal: the download fails, or the bytes are stored with a record of their
\* arrival, and attached where no live attachment is; a file in the trash refuses (D4).
ImportOriginal ==
  \/ /\ OnDocument("original") /\ Row \in Paperless.shaky
     /\ Observe(Originals(Row, "missing"), "done")
  \/ /\ OnDocument("original")
     /\ IF papers.file[Paperless.bytes[Row]] = "trashed" THEN Refused
        ELSE Wrote([papers EXCEPT !.file[Paperless.bytes[Row]] = "live",
                                  !.provenance = @ \cup {Row},
                                  !.attached[Row] = "live"], "observe")
  \/ OnDocument("observe") /\ Observe(Originals(Row, "stored"), "done")
  \/ OnDocument("done") /\ AdvanceAs([errand EXCEPT !.last = Row])

-----------------------------------------------------------------------------
(* Links, dates *)

\* The links that lead to an item.
Leading(links, items) ==
  FoldLeft(LAMBDA to, e : IF e \in items THEN Append(to, e) ELSE to, <<>>, links)

\* They are written from the first slot on; slots behind them keep what they have.
Slots(d) ==
  LET to == Leading(Paperless.links[d], errand.items)
  IN to \o SubSeq(papers.link[d], Len(to) + 1, Len(papers.link[d]))

ImportDocumentLinks ==
  /\ OnStage("links")
  /\ IF Row \notin errand.items \/ papers.link[Row] = Slots(Row) THEN AdvanceAs(errand)
     ELSE Wrote([papers EXCEPT !.link[Row] = Slots(Row)], "look")

FinaliseDocument ==
  /\ OnStage("finalise")
  /\ IF Row \notin errand.items \/ Row \in papers.dated THEN AdvanceAs(errand)
     ELSE Wrote([papers EXCEPT !.dated = @ \cup {Row}], "look")

-----------------------------------------------------------------------------
(* buildReport *)

\* A document whose item is in the trash is out of every count.
Active == {d \in Docs : papers.item[d] # "trashed"}

Missing == {d \in Docs : <<"missing", d>> \in log}

\* attachment_records_carried and originals_accounted_for: an attachment counts even
\* when it is in the trash.
FilesCarried ==
  /\ \A d \in Live \cap papers.provenance : papers.attached[d] # "none"
  /\ Live \ papers.provenance \subseteq Missing
  /\ Active \cap papers.provenance \cap Missing = {}

\* asn_preserved and asn_carried_to_facet.
NumbersCarried ==
  \A d \in Active : \A x \in Paperless.asn[d] :
    x \notin papers.asn[d] => AsnOwner(x) # d /\ x \in papers.kept[d]

\* The checks that decide: sums on either side, notes and tags of people's own included.
ReportPasses ==
  /\ Active = Live
  /\ Labels \subseteq papers.tags /\ Fields \subseteq papers.fields
  /\ LET due(d) == Cardinality(Paperless.tagged[d])
         got(d) == Cardinality(papers.tagged[d])
     IN MapThenSumSet(due, Active) = MapThenSumSet(got, Live)
  /\ LET due(d) == Cardinality(Texts(d))
         got(d) == Cardinality(papers.note[d]) + Cardinality({d} \cap papers.own)
     IN MapThenSumSet(due, Active) = MapThenSumSet(got, Live)
  /\ Cardinality({d \in Active : Paperless.links[d] # <<>>}) = Cardinality({d \in Live : papers.link[d] # <<>>})
  /\ FilesCarried
  /\ NumbersCarried

-----------------------------------------------------------------------------
(* People *)

BinPaper(d) == papers.item[d] = "live" /\ papers' = [papers EXCEPT !.item[d] = "trashed", !.dated = @ \ {d}]

\* restoreItem refuses when the number is taken by then.
RestorePaper(d) == /\ papers.item[d] = "trashed"
                   /\ \A x \in papers.asn[d] : ~ Held(x, d)
                   /\ papers' = [papers EXCEPT !.item[d] = "live", !.dated = @ \ {d}]

RemoveNote(d) == \E x \in papers.note[d] : papers' = [papers EXCEPT !.note[d] = @ \ {x}]
AddNote(d) == d \in Live \ papers.own /\ papers' = [papers EXCEPT !.own = @ \cup {d}]
DetachFile(d) == papers.attached[d] = "live" /\ papers' = [papers EXCEPT !.attached[d] = "detached"]

\* A file is taken off its only item and put in the trash.
BinFile(d) == /\ papers.file[Paperless.bytes[d]] = "live"
              /\ \A e \in Docs \ {d} : Paperless.bytes[e] = Paperless.bytes[d] => papers.attached[e] # "live"
              /\ papers' = [papers EXCEPT !.file[Paperless.bytes[d]] = "trashed",
                                          !.attached[d] = IF @ = "live" THEN "detached" ELSE @]
RestoreFile(b) == papers.file[b] = "trashed" /\ papers' = [papers EXCEPT !.file[b] = "live"]

\* tags.trash takes the tag off its items.
BinTag(t) == /\ t \in papers.tags
             /\ papers' = [papers EXCEPT !.tags = @ \ {t}, !.tagged = [d \in Docs |-> @[d] \ {t}]]

\* An item that is not from Paperless takes a number, or gives it up.
OtherAsn(x) ==
  \/ x \in papers.taken /\ papers' = [papers EXCEPT !.taken = @ \ {x}]
  \/ /\ x \notin papers.taken /\ \A e \in Live : x \notin papers.asn[e]
     /\ papers' = [papers EXCEPT !.taken = @ \cup {x}]

PeopleEdit ==
  /\ \/ \E d \in Docs : \/ BinPaper(d) \/ RestorePaper(d) \/ RemoveNote(d) \/ AddNote(d)
                        \/ DetachFile(d) \/ BinFile(d)
     \/ \E b \in Bytes : RestoreFile(b)
     \/ \E t \in Labels : BinTag(t)
     \/ \E x \in Numbers : OtherAsn(x)
  /\ edits < MaxEdits /\ edits' = edits + 1
  /\ touched' = TRUE /\ settled' = "no"
  /\ UNCHANGED <<import, doing, log, stops, touches, reach, errand>>

PaperlessNext ==
  \/ ClaimPaper \/ FetchSnapshot \/ BeginPaperStage \/ EndPaperStage \/ FinishPaper \/ CutPaper
  \/ ImportPaperTag \/ DefineCustomField
  \/ PassOver \/ LeaveTrashedItemAlone \/ UpsertItem \/ ApplyTags \/ ApplyNotes \/ ApplyValues
  \/ ImportOriginal
  \/ ImportDocumentLinks \/ FinaliseDocument
  \/ PeopleEdit

-----------------------------------------------------------------------------
(* Properties *)

\* What each document carries is on its item, its file too unless it could not be
\* fetched, and its number unless an earlier document or another item holds it.
PaperlessMirrors ==
  /\ papers.tags = Labels /\ papers.fields = Fields
  /\ \A d \in Docs :
       /\ papers.item[d] = "live" /\ papers.tagged[d] = Paperless.tagged[d]
       /\ papers.note[d] = Texts(d) /\ papers.link[d] = Paperless.links[d]
       /\ papers.kept[d] = Paperless.asn[d] /\ d \in papers.dated
       /\ papers.asn[d] = {x \in Paperless.asn[d] : AsnOwner(x) = d /\ x \notin papers.taken}
       /\ papers.asn[d] = Paperless.asn[d] <=> <<"asn", d>> \notin log
       /\ papers.attached[d] = "live" <=> d \in papers.provenance
       /\ d \notin papers.provenance => d \in Missing

\* A run that succeeds has copied the server whole, however often it was cut short and
\* resumed before (resume.test.ts: the library an uninterrupted run would have made),
\* while people leave the copy alone; and then the report passes unless a file was
\* missed or a number is held by an item from elsewhere.
PaperlessWhole ==
  import.state = "succeeded" /\ ~ touched =>
    /\ PaperlessMirrors
    /\ ReportPasses <=> papers.provenance \cap Missing = {} /\ Numbers \cap papers.taken = {}

Concludes == doing # Idle /\ doing' = Idle /\ stops' = stops

\* Whatever people put in the trash, an import goes through again once they are done
\* (trashed-reimport.test.ts), unless it is a file.
PaperlessGoesThrough ==
  Concludes /\ import'.state = "failed" =>
    edits > errand.since \/ \E b \in Bytes : papers.file[b] = "trashed"

\* The report is the evidence on which Paperless is given up (report/build.ts): when it
\* passes, one thing that people did at whatever moment has not hidden a loss.
PaperlessReportHolds ==
  Concludes /\ import'.state = "succeeded" /\ ReportPasses /\ edits <= 1 =>
    \A d \in Live :
      /\ Paperless.tagged[d] \subseteq papers.tagged[d] /\ Texts(d) \subseteq papers.note[d]
      /\ ToSet(Paperless.links[d]) \cap Live \subseteq ToSet(papers.link[d])
      /\ papers.attached[d] # "none" \/ d \in Missing

\* Once a run has succeeded, other runs add nothing but records of arrival until people
\* change something, and files that could not be had before.
PaperlessRerunHarmless ==
  settled = "ended" /\ settled' = "ended" =>
    papers' = [papers EXCEPT !.file = papers'.file, !.provenance = papers'.provenance,
                             !.attached = papers'.attached]
      /\ \A d \in Docs \ Paperless.shaky : papers'.attached[d] = papers.attached[d]
=============================================================================

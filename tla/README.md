# Verification of recueil

TLA+ specifications of the parts of recueil whose correctness depends on the order in which things
happen, the TLC configurations that check them on small instances, and TLAPS proofs of what matters
most for every instance. Paths below are relative to the repository.

Contents: [Inventory](#inventory) · [Plan](#plan) · [Modules](#modules) · [Runs](#runs) ·
[Fairness](#fairness) · [Proofs](#proofs) · [Findings](#findings) · [Observations](#observations) ·
[Not modelled](#not-modelled)

## Inventory

### How the system fits together

A *source* (watched folder, mailbox, WebDAV directory, command line) lists **candidates**. The
**pipeline** takes each candidate through ten stages, journalled in the `jobs` database so that a
later run with the same label resumes it, and ends by filing a **document** under an **item** of the
**library** or by putting a question in the **review queue**. Afterwards the source is *acknowledged*:
the file is moved or deleted. People edit the same library through the server's routes while runs are
on. Everything of record is one SQLite database and one blob store; several processes (a server, CLI
commands) may have both open. A service method is one synchronous transaction, so processes and runs
interleave between transactions and at every `await`, and nowhere else.

```
 folder / mailbox / WebDAV ──poll──▶ runner ──candidates──▶ pipeline ──commit──▶ library + blobs
        ▲                               │  ▲                  │   ▲                  ▲
        └────────acknowledge────────────┘  └── outcomes ──────┘   └ digest gate      │ people, routes
                                                              └── review queue ◀─────┘
```

### Components

| component | state it keeps | operations | hard behaviours | what makes it correct |
|---|---|---|---|---|
| Digest gate (`ingest/src/pipeline.ts` 329–420) | per digest a chain of promises and a counter; per line of descent the digests it holds | `acquire`, `release`, time-out | re-entrance through nested archives, circular waits, forgetting a key | exclusion, arrival order, no leak, an end to every wait |
| Pipeline (`ingest/src/pipeline.ts`, `commit.ts`, `db/journal.ts`) | `jobs`, `ingest_checkpoints`, `review_queue`, `documents`, `document_provenance`, `attachments`; in memory the candidate's attempt | claim, ten stages, retry, give up, finish, resume | two runs on the same bytes, crashes between a write and its checkpoint, retries | filed once, nothing forgotten, checkpoints true, every run ends |
| Archive expansion (`ingest/src/archive`, `budgets.ts`) | member files in a scratch directory, a ledger per container, checkpoints per path | extract, ingest members, close, refuse | shared budget, colliding names, failure of one member deep down, resume in the middle | no more than the budget, a success that is whole, nothing skipped that is not finished |
| Review queue (`ingest/src/db/review-queue.ts`, `server/src/ingestion/review.ts`) | `review_queue` rows by dedupe key | raise, accept, reject, dismiss, supersede | a row refreshed by another run | an open question is answered, not lost |
| Documents, items and trash (`core/src/services/documents.ts`, `library.ts`, `provenance.ts`, `trash.ts`) | `items` with facets, `field_provenance`, `documents`, `attachments`, `trash` | attach, detach, create, update, lock, trash, restore, purge | long sequences of legal calls; people, resolvers and forms at one item | records match trash, restore is exact, no live attachment of a trashed document, nobody is written over unread |
| Source runner and folder (`ingest-sources/src/runner.ts`, `state.ts`, `consume.ts`, `folder/`) | `ingest_source_state`, the open run, files on disk | poll, record, acknowledge, recover | people write between any two system calls, crashes, two sources on one target | nothing unfiled is destroyed, nothing archived is overwritten, every file settles |
| Mailbox and WebDAV sources (`ingest-sources/src/imap`, `webdav`) | the state table by UID or path; flags and messages on the server; one connection | poll, fetch, acknowledge | mailboxes renumbered, commands that go unanswered, shares that ignore `If-Match` | nothing unfiled is taken away, rows tell the truth, every row closes |
| Blob storage (`core/src/storage`, `storage-backends`) | files or objects by digest; temporary files, uploads | put, delete, sweep | delete while the same bytes are put, requests repeated after a lost answer | a digest that is there has its bytes, an answer is true, nothing is left behind |
| Backup and restore (`core/src/backup`) | a snapshot directory: database, blobs, manifest | create, verify, restore | the library is written while it is copied; an older snapshot is replaced in place; both are cut short | what verifies is whole, what is restored is one snapshot |
| Server: runs of a source (`apps/server/src/ingestion`) | `jobs` rows, the executions behind them, `active` | start, retry, cancel, drain | a cancel between two awaits, two labels at once, workers that outlive a run | a row tells the truth, what is committed is not paid for again |
| Server: routes, keys, events (`apps/server/src`) | idempotency keys, event streams | request, replay | the same request twice | one effect per key |
| Collections, tags, creators, notes, custom fields (`core/src/services`) | a tree; ordered author lists; assignments; notes; typed values; the search index; trash records | move, merge, rename, edit, trash, restore, purge | cascades restored in another order, merges undone after other merges, edits by what was read | a tree stays a tree, nobody twice on a list, what the trash took it gives back, the index says what the rows say |
| Rule engine (`packages/rules`, `ingest/src/rules`, the adapters in `apps`) | none beyond one evaluation | match, evaluate, route | patterns that would backtrack, limits reached deep in a condition, rules that disagree | what is matched is what the pattern means, at linear cost; nothing is concluded from what was not decided |
| Importers (`import-zotero`, `import-paperless`) | a `jobs` row with a cursor; no table of what was imported | import, abort, resume, repeat, report | a cut between the rows of one record, people editing the copy between and during runs | a success has everything, repeating changes nothing, the report is true |
| Formats, schemas, extraction stages, CLI, web application | none of record | text in, text out | – | – |

The hazards each of these is exposed to, with the line where each bites and the properties that would
catch it, are listed in `PROJECT.json` under `hazards`.

## Plan

Written, in this order: `DigestGate`, `IngestPipeline`, `DocumentTrash`, `ArchiveExpansion`,
`FolderSource` with their proofs where the proofs section says so; then `LocalStore`, `RemoteStore`
and `Backup` over the contract `BlobStore`; `Collections`, `Authors` and `Tags`; `SourceJobs`;
`MailSource` and `ShareSource`; `ZoteroImport` and `PaperlessImport`; `RegexMachine` and `RuleStage`;
`Notes`, `ItemRecord` and `CustomFields`.

What is left, most important first:

1. **`verifyRun`** and the review queue's dismissals, bulk decisions and edits.
2. **The trigger queue and the watcher** of a source.
3. **The event stream and idempotency keys** of the server.
4. Further pure parts (member paths, normalisation, citation keys, cursors of lists) as operators
   checked against reference definitions.

No proof is planned that is not there; what is only model-checked is said below with its reason.

## Modules

Every definition that stands for code is listed with its lines in `PROJECT.json` under `map`. A
definition whose comment begins with "Mutant of" is not part of a specification: it is a plausible
mistake in the code, and each property is shown to reject one.

### DigestGate, DigestLease

`DigestGate` is the class of that name with the callers that nest. The code chains a promise per
caller on the key's tail; here a promise counts until it resolves, so `tail[k]` is the set of callers
of `k` with an unresolved promise and `ahead[c]` what is left of the tail that `c` displaced.
`path[c]` is the stack of candidates a line of descent is inside of: `Held(c)` is its `heldDigests`.
`earlier[c]` is history: who waited for the same digest when `c` began to, kept apart from the chain, so
that `ArrivalOrder` says something of the chain.
`acquire` is split at its one `await`: `Join` before, `Enter` after, or `TimeOut`. `Leave` is the
`finally`. `DigestLease` is what a caller relies on: one owner per digest.

### IngestPipeline, FileOnce

One action per transaction or awaited section of `ingestHashedCandidate`, in the order of the code:
`StoreBytes`, `RecordArrival`, `NoteStage2` (three steps, so a crash can fall between any two),
`AskFiled`, the stages in between by the ways they end, `RouteToReview` or `PassGate`, `Commit` or
`CommitRefused`, `Supersede`, `Settle`. `Throws` is an attempt that throws at any point, and
`ingestWithRetries` around it; `GiveUp` the blocker after the last one. `ClaimRun`, `FinishRun` and
`Crash` are `claimRun`, `finishRun` and the death of a process. Runs are assigned to pipeline
instances by `PipeOf`: the server makes an instance per run, so two runs of one process have two
gates. The gate appears by its promise, as an instance of `DigestLease`. `PeopleStep` is what routes
do meanwhile: accept, reject, attach, detach and re-attach, trash and restore an item with its
attachment (`TrashItem`, `RestoreItem`) or a document. `restoreItem` does not ask about the document
(the finding `trash_d4`); `revived` remembers the live items it left over a document in the trash, and
`TrashedFilingsAreRevived` says that nothing else makes one, the commit in particular. A run is
executed once at a time here: that `claimRun` also takes a run over from a live execution is modelled in `SourceJobs`. `FileOnce` is the promise: bytes arrive, and are filed under one item that never
changes.

### DocumentTrash

Items, documents and attachments with their `trashed_at`, and the trash records with the restore
payload. Each service method is one transaction and one action; a method that refuses is not enabled.
Both unique indexes of the attachments table are guards (`Unique`).

### ArchiveExpansion

One top-level file as a tree: `Inside` says what is in what. Members are extracted together
(`Expand`), ingested one by one in order (`Begin` … `Settle`), and close their container
(`CloseMembers`), which is checkpointed or not. `Paths` is the rule that names a member's scratch
file, as a function on the archive's entries; `Reads` and `Key` say what follows from it: the bytes
under a path are the last writer's and the journal rows are the path's. `KeepsOff(p)` says that no
entry of `p` has the name another is moved to, which the code does not look at; `ArchivesAreHonest`
asks nothing of a file in an archive where it fails (`Apart`) and everything of all others. A message
goes on after its members: `Commit` and `Settle` are its commit and the checkpoint after it, and
`EndAlone` an end that says nothing of the members (linked at stage 2, stopped by a rule, filed by
another writer). `Charge` is `BudgetLedger.spend` up the chain of parents.

### FolderSource

A runner and its folder: `Recover`, `Poll`, the pipeline's two reads of the file and its answer,
`FinishRun`, `Record`, and then an action per system call of the acknowledgement: decide, open, hash,
claim, last look, delete / rename / copy, check of the copy, unlink, release, close. Between any two
of them people may put, replace or remove a file, or rewrite it with its mtime put back
(`Disguise`). A file has bytes, a revision (mtime, size, inode) and a ctime, because the code compares
exactly these at different moments. `archived[p][i]` is the i-th name tried in the processed
directory for path `p`, shared by the sources.

### StoreCalls, BlobStore, LocalStore, RemoteStore, Stores

`BlobStore` is the promise of `backend.ts` and ADR-0004: a put makes the name of a digest hold exactly
its bytes or changes nothing. `LocalStore` has an action per system call of `put` (open the temporary
file, write, stat or hash what is there, drop or `mkdir`, rename, and the cleanup of a failed put),
`delete` with its attempts to remove empty shard directories, and `sweepTempFiles`, which lists,
looks again and removes. A `.part` carries its revision and whether an hour has passed. `RemoteStore`
has an action per request, in the three ways the WebDAV backend writes and the two of S3 (one object,
or parts); every request may be lost before or after it takes effect, and is repeated, or is never
answered (`Hangs`): neither client sets a time-out, so such a put waits for ever. `undone`, `spoilt`, `overtaken` and `spoiled`
are history: the puts whose digest was deleted, or damaged after they had found it sound.
`Stores` looks at one backend, or at `Backup`, per behaviour.

### Backup

`createBackup`, `verifyBackup` and `restoreBackup` over a store that does what `BlobStore` says:
`prepareTarget`, the copy of the database, the blobs one by one with their verification, the manifest;
each step may be the last. The library is in use meanwhile: rows are committed after their bytes are
put, bytes are deleted, media decay.

### Collections, Authors, Tags, Notes, ItemRecord, CustomFields, Library

One action per service method, each one transaction. `Collections` keeps parents, depths, membership
and the group of a trash record; `Authors` ordered author lists, merges, the lists a merge recorded and
the names a creator goes by; `Tags` assignments, names and merges. `Notes` keeps notes on items or on
none, and what somebody is editing of one (`draft`, by the version they read). `ItemRecord` is an
item's title, its bibliographic facet (the title it mirrors and one more field), the provenance rows of
the facet as `stamp`, and the version; `form` is what somebody is editing, `typed` is history: what a
person last wrote or locked. `CustomFields` has one field under its key, its values by slot, and the
types of the items they are on.

The search index is in each of them as the part of an entry it feeds: `printed`, `marks`, `noteIndex`,
`entry`. An entry is written where the code calls `indexItem`, `indexNote` or `removeEntity`, and for
the items the code calls it for. `Library` adds `DocumentTrash` and looks at one of the seven per
behaviour: they meet in items, each with rows of its own.

### MailSource, ShareSource, RemoteSources

`MailSource` is `imap/source.ts` on one connection over a mailbox: select, search, fetch, the
pipeline's reads (which share the connection), and the acknowledgement command by command (`\Seen`,
MOVE, or COPY, `\Deleted` and UID EXPUNGE, as the server offers). A command may be answered, refused,
dropped with its connection before or after it took effect, or unanswered. A refused flag (`denied`)
is passed over, any other refusal throws (`SaidNo`). The mailbox may be recreated under
a new UIDVALIDITY. `ShareSource` is `webdav/source.ts`: PROPFIND, GET, the second sighting, the
re-reading and re-hashing before MOVE or DELETE, with shares that send strong, weak or no ETags and
that honour `If-Match` or not.

### SourceJobs

The `ingest.source` rows and the executions behind them, a step per stretch between two awaits:
start, poll, claim of a run, a pool of `Width` workers, recording, settling, closing. A cancel reaches
an execution through `active`. `done[l]` is what the pipeline's journal holds of run `l`.

### ImportJob, ZoteroImport, PaperlessImport, JobRows

`ImportJob` is the row, its cursor and the run at work, alike in both packages. `ZoteroImport` takes
the ten stages in their order and the records of a stage in theirs, with one action per record and a cut
between the transactions a record takes; a record is found again by what it is (name and parent, DOI,
digest, text), as the code finds it. `PaperlessImport` goes document by document, with its cursor
inside the stage, and then writes the links, finalises and reports; the checks of the report that
block are operators over the library. `JobRows` looks at a source or at one of the importers.

### RegexMachine, RuleStage, Stages

`RegexMachine` has the compiler of patterns as operators (`Emit` lays the code of a node at an
address, as the patching of `compile.ts` does) and the machine of `vm.ts` as a state: `BeginMatch`
compiles and adds the first thread, `Advance` is one turn of its loop, `Expire` the clock. `Ends` and
`Ways` say what a pattern means, without a machine. `RuleStage` evaluates rule by rule (`Consider`)
and routes the document (`Dispatch`, stage 9), for `packages/rules` behind either adapter and for the
engine built into `packages/ingest`; a matcher answers yes, no, or that it does not know. `Stages`
looks at one of these or at `ArchiveExpansion` per behaviour.

### Proof modules

`DigestGateProofs`, `IngestPipelineProofs`, `ArchiveExpansionProofs`, `FolderSourceProofs`,
`LibraryProofs`, `StoresProofs`, `JobRowsProofs` and `RemoteSourcesProofs` extend the modules they are about; what is proved of
`DocumentTrash` by itself is at the head of `LibraryProofs`. `MC…` modules hold the instances TLC
checks where a constant is more than a set of model values; elsewhere the `.cfg` instantiates the module itself.

## Runs

| run | instance | what it shows |
|---|---|---|
| `gate` | 3 callers; `zip` ∋ `inner`, `doc`; `inner` ∋ `zip`; depth 3; time-outs | exclusion, service in the order of arrival, no wait for ever although two archives contain each other, refinement of `DigestLease`. Deadlock is checked: with time-outs nobody is stuck. |
| `ingest_two_pipelines` | 2 runs with a gate each, 1 candidate each with the same bytes, 2 attempts, 2 claims, throws at every point | one filing, nothing forgotten, failures asked about, checkpoints true, refinement of `FileOnce`, without the gate's help and across crashes and resumption |
| `ingest_shared_gate` | 2 runs on one gate, 2 candidates with the same bytes, 1 attempt, people at work, fair | behind one gate filings do not overtake each other; only a restored item can hang over a trashed document; every run ends |
| `library` | 2 items, 2 documents, 2 attachment rows; or 3 collections; or 3 creators by 2 names each on a list of 2; or 3 tags; or 2 notes, an item, 2 texts, 3 writes to each; or a facet of 2 fields with 2 values, 4 writes; or a field of 3 types with 2 choices or target types on 2 items with 2 ordinals | records, cascades and exact restoration; the tree; merges and their undoing; nothing the trash took is forgotten; the search index says what the rows say; nobody is written over unread, nor what a person typed by a resolver; a value is read as it was written |
| `stages` | zip with two entries of one name (`x`, `./x`), a message with an attachment, a zip with a file; budget 6 where the tree takes 7; depth 2; 2 attempts; 2 claims; 12 patterns on every text of up to 3 characters and two of 5, line mode on and off, budgets of 25 and 200 steps; 4 rule sets for `packages/rules` in every mode that is used, 6 for the built-in engine, 3 matchers with every verdict | the budget holds across the tree and retries, a run that ends without failure is whole or asked, a checkpointed container leaves no file of its own behind; what is matched is leftmost, ends where it may, and has the groups a backtracking matcher would give, within linear work; a verdict on a rule is certain, and nothing is filed that a rule objects to |
| `folder_shared` | 2 sources moving `1` into one directory with 2 names, 3 writes, a failure, a crash | an archived original stays |
| `folder_alone` | 1 source, 2 files, a page of one, policies leave / delete / copy / move, fair | only the gap loses a file, handled means filed, every file settles once people stop |
| `stores` | 2 puts of one digest the caller may delete again, or of that and another, on each backend; 1 damage; requests sent twice, one of which may hang; or 2 backups and a restore | an answered put is there, and only a put that compares lengths answers over bytes that rotted; the backends implement `BlobStore`, leftovers are accounted for, every put that is not left hanging ends; a snapshot that verifies is whole, a restored library is one snapshot, a refused restore leaves none |
| `remote` | 2 messages, 2 UIDVALIDITYs, pages and a pool of 2, six combinations of policy and server, six kinds of share, 2 mishaps; or 2 paths, 3 writes, pages of one, 1 trouble | the runner touches only what is filed, rows are true, a file goes unfiled only where the share does not guard it, everything interrupted is concluded |
| `jobs` | 2 labels, 2 candidates, 2 workers, 3 executions, 1 trouble; or the Zotero library and the Paperless server of `MCJobRows`, 1 run cut short, 1 resp. 2 edits by people | rows of runs are true, committed work is not redone; a successful import is whole, and repeating it changes nothing |
| `trash_d4`, `import_twice` | smallest instances | the findings below |

A run may look at one of several components per behaviour (`kind`, `view`, `source`): these do not
interact in the program, or only through what the properties already say of the others.

**Why the bounds are enough.** A race on a document needs two candidates with the same bytes; rows and
gates of another digest are untouched by them, which the proofs have for any number of digests. Two
attempts show one retry and one give-up; two claims show one resumption of an interrupted and of a
finished run, and a third claim starts from a state the second could have started from. In
`ingest_shared_gate` an attempt that throws is the last one, so what retries do is seen in `ingest_two_pipelines`;
that retries come to an end is seen in neither, though a retry only uses up an attempt
(the mutant `ThrowsUncounted`, which does not, is found). A circular
wait needs two callers, and a third to queue behind them. `Wants` and `Sums` are what the puts are given; a caller may leave a
probe where it is, so two puts of a probe do all that two puts of a document do, and which of two puts
is given which of two digests makes no difference. Exactness of a restoration takes
two attachments, one that went with its item and another that was detached before or added after, or
is another item's; that no third changes this is proved. Two writes suffice for a rewrite
between two looks; the third makes the first file reappear. Two names suffice for two sources to
compete, and for all names to be taken. `MaxWrites`, `MaxFailures`, `MaxCrashes`, `MaxClaims`, `Names`
and `Rows` bound what is unbounded in the program, as do `MaxRots`, `MaxChunks`, `Attempts`, `MaxBackups`,
`MaxRestores`, `MaxDecays`, `MaxHung`, `Arrivals`, `MaxEpoch`, `MaxMishaps`, `MaxTroubles`, `MaxStarts`,
`MaxTogether`, `MaxStops`, `MaxTouches`, `MaxEdits`, `MaxNoteVersion`, `MaxItemVersion` and `MaxForms`. Two puts are what it takes to race for a name,
and a delete and a sweep act between any of their calls. A second UIDVALIDITY reuses the numbers of
the first. One run of an import cut short leaves behind every prefix of its work; what a second cut
leaves is a prefix the first could have left, so one is enough; two edits let people undo what they
did or do it to two records. Two executions may overlap once in a behaviour: a third would overlap
one that has already met another. A form or a draft needs one read, one write by somebody else and its
own: three versions after the first; one role is enough to be twice on a list in it.

`CHECK_DEADLOCK FALSE` is set where the bounds (claims, writes) let the system come to rest:
everything is done and nobody may start anything. Symmetry is declared for runs of safety properties
only, over sets no definition chooses from; `RunOf` and the like keep runs and candidates distinct,
so `IngestPipeline` is symmetric in items only.

## Fairness

Liveness is claimed in five runs.

- `gate`: `Enter`, `Leave` and `TimeOut` of every caller are weakly fair. A resolved promise's
  continuation is run by the event loop; a candidate ends because each stage's external call has a
  time-out; an armed `setTimeout` fires. Nothing is assumed about `Join`.
- `ingest_shared_gate`: `Progress(c)` and `FinishRun(r)` are weakly fair: a process that is alive goes
  on executing its pool. Nothing says a run is claimed, and a crash needs no help. A candidate that
  waits for the gate may also time out, so it makes progress either way.
- `folder_alone`: `RunnerStep` and the pipeline's answer are weakly fair: the event loop goes on and
  the timer of `watch()` polls again after a crash restarts the runner. People and failures are not
  fair; they are bounded, which is how "once people leave the folder alone" is said.

- `stores`: the next request of a remote put is weakly fair while it does not hang: it is answered or its
  connection fails, and the attempts are counted. Nothing is assumed of a request that hangs
  (`webdav/client.ts:184` gives `fetch` no signal, `s3/backend.ts:170` its client no time-out), and
  `EveryPutEnds` says nothing of its put.
- `remote`: the runner's next step and the pipeline's answer about each candidate are weakly fair, as
  above. The clients of the sources, unlike those of the stores, have a time-out of their own for each
  request (`ingest-sources/src/imap/client.ts:402`, `ingest-sources/src/webdav/client.ts:456`). What the owner of the mailbox or share does, and what fails, is bounded and not fair.

## Proofs

All theorems hold for every value of the constants that satisfies the assumptions named in the
modules; TLC evaluates each of these in the runs. They say that nulls (`Nobody`, `NoKey`, `NoWord`, `NoTag`,
`Alone`, `Top`) are not values, that bounds are numbers, that the sets that are counted (callers,
folders) are finite, that kinds of things do not overlap (`Disjoint`, and `"db"` is no
digest), that a first version can be written (`MaxItemVersion` is at least 1), and which
capabilities a server or strategy can have. `PaperlessSnapshot` says that a snapshot of a server has
all parts of every document, and links to documents of the snapshot; `ZoteroLibrary` that a library's
records refer to records of it (a note to an item or to none, an attachment to an item or to none, an
annotation to an attachment), that no note is listed twice and that lines of ancestors nest, as the keys
of Zotero's database and the reader's queries have it. `Tree` and
`Numbered` say that what is inside what is a tree of archives whose members are numbered. Two are about
what is modelled rather than typed, and each theorem that needs one has it as a hypothesis: that nobody
edits the library (`~People`), and moves within one filesystem.

**DigestGateProofs.** `MutualExclusion` is not inductive: that nobody is inside besides a caller with
`ahead[c] = {}` needs `WaitersAreBehind` (whoever is inside is ahead of every waiter, and of two
waiters one is ahead of the other), and that this survives a newcomer needs `CountMatchesChain`, since
the newcomer waits for the tail only. Together with types these are `Inv`. `GateImplementsLease` maps
the owner of a digest to the caller inside; `Enter` and `Leave` of an outermost lease are the lease's
steps and every other step a stutter. It shows why giving up a place in the queue is safe: the chain
that follows still waits for everything before it. `ArrivalOrderHolds` needs that the chain knows the order of arrival
(`ChainKeepsOrder`): whoever was waiting when a caller came, and still is, is ahead of it in the chain. A newcomer
has all of them ahead because the tail is everybody who waits or is inside (`CountMatchesChain`), and
nobody is taken out of a chain but by getting the lease, giving it back or giving up.

**IngestPipelineProofs.** Types; `LiveFilings` (a live attachment that `restoreItem` did not bring back refers to
a live document, and what went with its item still names one), from which
`TrashedFilingsHold`; `Vouchers` (each program point and checkpoint implies what it has behind it in
the store and the tables), from which `CheckpointsHold`. With nobody editing the library:
`OnceHolds` and `PipelineImplementsFileOnce`, from the single fact that the commit's transaction asks
before it files; `AccountsHold` and `FailuresHold`, from `Answers`, which follows a question about
a document through refreshes by other runs until the document is filed. `FilingsApart` rests on
`Guarded`: a candidate between stage 2 and the commit holds the lease of its bytes on its instance's
gate, so no other behind the same gate is there with the same bytes.

**ArchiveExpansionProofs.** The budget: the archives whose members count are charged to the top ledger, so
`Spent` bounds the bytes of all of them by what that ledger spent, and that by its ceiling. It is
inductive with types and `NotYet` (a candidate that is not begun has no ledger, one that is not done no
outcome): when an archive expands, its members are new to the sum, what was inside it is not counted
any more, and what remains to it is no more than what any ledger above it has left. Sums over sets
of members, least indices and the climb from a candidate to the archive around it would be inductions
on data; each is proved by the least counterexample, a set of fewest elements for which it fails.
`ArchivesAreHonest` is not inductive: that a success is whole needs the wholeness of every checkpoint
and outcome without failures in it (`Wholes`), carried up member by member (`WholeByMembers`), with what
a candidate at work may have in its journal (`AtStage`, `Linked`, `Noted`, `Own`). No name is assumed to
be harmless: the statement is made file by file, for those around which no archive has an entry of the
name `extractZip` gives another (`Apart`), and for these it is proved that nobody shares their path
(`ApartPaths`), whatever the entries beside other archives are called.

**LibraryProofs, DocumentTrash.** `Inv` splits `OpenRecordIsAboutTrash` by what a record is about and adds that
the payload of an open record names at least the group it would restore: detachments and purges only
shrink the group, so `RestoreIsExact` holds of every restoring step.

**FolderSourceProofs.** Types need `Cursor` (the file being acknowledged is the source's own) and `Chosen`
(which program points have a claimed name). `LostHolds` adds `Times` (no file has a ctime that is still
to come, so a rewrite never has the ctime that was seen), `Stored` (from the decision on, the store
holds what the row says) and `Looked` (from the rehash on, a file with the ctime that was seen has
the bytes of the row): then the removing call, whichever it is, removes stored bytes or meets a ctime
other than the one looked at. `HandledHolds` follows the bytes from the pipeline's reads to the row (`WhatWasRead`, `WhatWasFiled`): an
answer's digest is the file's while the file has the answer's revision and was not disguised, and it
stays so because a revision or a ctime that a step gives is new (`Dated`); between the two reads a
ctime other than the first one's means a disguise. `ArchivedHolds` assumes moves within one filesystem and rests on
`Held` and `Apart`: a source between claim and use owns a name that is marked and nobody else's.
The assumption is needed: see the observation on failed copies.

**LibraryProofs, Library.** `LibraryInv` is one invariant per service; a step of the library is a step of one of
them and leaves the others alone.

- `TreeInv`: that depths are right is not inductive, because moving a subtree rewrites the depths of what
  the code finds below it. The proof shows that on a forest with true depths the subtree the code
  collects is what is above whom (`SubtreeParts`), that no chain of parents is longer than there are
  folders (`DepthIsBounded`, by the pigeonhole principle), and that moving a subtree by a constant keeps
  a forest. The one induction on numbers is `Counting`, a statement about a set of numbers and its
  least element. A folder in the trash files nothing and each record of a cascade names a whole subtree.
- `AuthorsInv`: `NobodyTwice` needs what dropping repetitions and renumbering do to a list
  (`DensifyDistinct`, `MergedDistinct`, `ReinstatedDistinct`); `UnmergeIsExact` what a merge recorded of
  the lists it touched.
- `TagsInv`, `NotesInv`, `ItemInv`, `FieldsInv`: the part of the search index each service writes is what
  its rows say, for every item, trashed ones included; versions in a form or draft are at
  most the current one, and equal to it only if nobody wrote since.

From these follow `RowsAgree`, `IndexIsCurrent`, `NothingForgotten`, `ListsAreKept` and
`NobodyOverwritten`.

**StoresProofs.** `LocalInv` relates each put's program point to its temporary file: what was written, that
nobody else's file has its name, and that what is renamed is whole. `LocalRefines` then maps `rename` and
`delete` to the steps of `BlobStore` and all else to stutters. `RemoteInv` does the same per request, for
requests that may be executed twice and answered never: what lies under a put's temporary name or
in its upload is its own, and an object under a digest is whole when the strategy verifies and does not
write in place. `AnswersAreTrueHolds` follows what a put has found under its name from the look to the answer: unless
the digest is deleted or damaged in between it stays as it was found, so only a put that compares
lengths (`~thorough`, or a server's size instead of its checksum) answers over bytes that rotted. `BackupInv` follows the snapshot through its writing: what the manifest will list has been
copied and verified, the old manifest is gone before the first blob is replaced, and a restore that is
past its copy has what the manifest it read promised.

**JobRowsProofs.** `RowIsTrue` is not inductive: a row is closed by the execution that finds itself in
`active`, so `OneOfAJob` says that a job has one execution unless a retry lapped a cancelled one, and
`active` points to it. `CommittedIsNotRedone` needs, as long as no two polls of the source have met,
that one execution is at work (`OneAtWork`), that it holds what its workers have in hand (`Hired`, `InHand`), and
that the run left open is the only one running and what is still to do is not in its journal
(`OneOpen`). `JobsAreTrueHolds` has `RowIsTrue` and the types for every kind of job.

*Paperless.* `ImportedIsWhole` speaks of the end of a run that succeeds, and a run may have been cut at any
write and resumed inside a stage; so `PaperInv` says at each place of a run what is behind it. Types
(`PaperKinds`); where a run is, and that the row's cursor names the same place or the one before
(`Whereabouts`); what the step at hand has written already (`AtStep`); and that all documents before
the cursor are done (`DocsDone`, `LinksDone`, `TagsDone`), so that what a resumed run passes over is
there. These hold of a run that began with nothing done for as long
as people change nothing after (`settled`), with whatever they did before; `Untouched` says that what is
there came from the server unless they changed something at all, and with it
`ImportedIsWholeHolds` follows at the end of the last stage. `RerunIsSafeHolds` needs `PaperKnown`: what a run
relies on while nobody changes anything under it (`Undisturbed`), and what one change by a person leaves
(`Partial`, `NotesKept`, `LinksKept`), because the report is promised to see through one. A step of a run
writes one part of the library (`WritesOf`), so that a repeated run is harmless is shown part by part:
what it would write is there. That the counts of the report agree only if every document's do is a statement about
a sum, proved by the least document at which it fails (`TagsArrived`, `NotesArrived`).

*Zotero.* There is no table of what was copied, and the cursor names a stage only: what was done must be
read off the library, and a resumed run goes through its stage again. `ZoteroInv` has types and
whereabouts (`ShelfKinds`, `OnShelf`). For any library, whatever people did to it: the collections before
the run's place are made, and one is in the trash only with its reason (`Shelves`); a disputed value is
where it belongs (`Keyed`); a host is sorted unless its making was cut short, or it is the one at hand
(`Hosting`); and of equal notes there are no more than records, and a run has used up exactly as many of
those it found as it has passed (`Noting`), without which a resumed run could make one twice. `ShelfDone`
is about what people have not touched since a run began with nothing done (`settled`): every record
the run is past is such that a run passes it by (`Dealt`). `UntouchedShelf` is about people who never touched the
copy: nothing is in the trash before the trash stage, whatever is there after is there because Zotero says
so, or with its item (`Fallen`), and the log tells of all that was passed (`Noticed`). A success
is then the end of the last stage, and `Mirrors` follows. For repetition, `ShelfRerun` goes through the writes a
run has (`Works`) and shows of each that its guard fails where all is dealt with, or that it files something
in a collection that is in the trash, which nobody sees.

**RemoteSourcesProofs.** Of a mailbox: messages have numbers below UIDNEXT and one each (`BoxHolds`), and a
reference taken under the present UIDVALIDITY names its message or nothing (`Names`), so a row that was
made before the mailbox was recreated names nothing that can be touched. `AckHolds` follows an
acknowledgement command by command: past the look at the evidence its bytes are in the store; past the
identification the connection selects the UIDVALIDITY of its reference; it marks `\Deleted` only what was
copied and expunges only what it marked or was refused to mark (`denied`); each command may have been executed
without an answer. With `GoneIsGone` this is inductive. Of a share: no file has a time that is still to come, so what was re-read
is still the file while its time is the same.

**Only model-checked.** Liveness (fairness and ENABLED are beyond the prover): `EveryWaitEnds`,
`EveryRunEnds`, `EveryFileSettles`, `EveryPutEnds`, `EverythingConcluded`. Safety: `MatchIsRightInTime`
and `RulesAreHeeded` are about RECURSIVE operators (patterns and conditions are trees), which the prover
does not take; what the machine of the patterns computes for every pattern needs induction over data,
which the installed provers cannot instantiate. `ArchivedStays` with moves to another mount is not claimed: see the observation on failed
copies.

## Findings

Two runs end in a counterexample to a sentence of the repository.

- `trash_d4` — data-model.md's D4 is to be enforced "from both ends"; `restoreItem` restores
  attachments without asking about their documents.
- `import_twice` — importing the same Zotero library twice "produces the same library, not a doubled
  one" (import-zotero/src/import.ts, at its head). Memberships of a collection that is in Zotero's
  trash are inserted again by each run, because trashing the collection took its rows away and the
  importer looks only at the rows.

## Observations

Things met while modelling. Where a model contains the behaviour, its properties name it as an
exception or leave it outside what they claim.

**Pipeline.**

- *Gates.* pipeline.ts:1616 says that within one process the gate makes a second filing impossible.
  The server builds a pipeline, hence a gate, per run (`apps/server/src/ingestion/runner.ts`), so two
  runs of one server meet only at the commit. Harmless: `ingest_two_pipelines` shows the commit
  suffices.
- *Superseding* (pipeline.ts:1648). A crash between the commit and `supersedeOpenEntries` leaves the
  document's open questions open: the resumed run finds the document filed at stage 2 and stops there.
- *A run that still owes.* `raise` gives a refreshed row to the run that refreshed it
  (review-queue.ts:119), so the run that asked first may finish as `succeeded` while its question is open
  under another run. `Raise` and `FinishRun` have this; no property asks more than that the question is open.
- *A half-imported archive.* A nested zip whose member failed has status `container`, so the outer zip
  is checkpointed (pipeline.ts:1872, "a container is only *finished* when all of its members are") and
  a resumed run does not reach the failed member. `SucceededMeansWhole` (of `ArchivesAreHonest`) asks for the question instead.
- *Clashing members* (extract.ts:150). A member whose path is taken gets a positional directory, but
  the positional path itself is not looked up: `3/x`, `x`, `x` share a scratch file and a journal key, and one of the
  files is lost. `ArchivesAreHonest` says nothing of the files of such an archive.
- *A message that forgets its members.* A message is committed although a member of it failed, so that the
  failure is in its outcome. If the process dies, or the attempt throws, between the commit (pipeline.ts:1598) and the checkpoint
  (1676), the next attempt finds the message filed at stage 2 and ends as a duplicate, with no
  members in the outcome; likewise when a rule stops it or another writer files it. The failed member is
  never tried again, and the run ends as `succeeded` or `waiting_review`; what remains is the question asked when
  the member was given up (`Unnamed`). The comments at pipeline.ts:1011 and 1868 say it would be retried.
- *A message retried after its expansion* charges its parent's budget again.
- *Bytes of a trashed document* that arrive again fail three times and end as a blocker.

**Sources.**

- *Failed once.* The row of a candidate that could not be fetched is written as handled at its
  revision (state.ts:175); hooks.md:634 and folder/source.ts:361 say it is offered again.
- *Failed copies.* A copy to another mount that differs is removed by `completeMove` and once more by
  the handler of the error it throws. Between the two another process may claim the freed name and put
  an original there.
- *A kept copy with its original.* When the original of a verified copy cannot be removed, the row
  says `moved`; the comment in folder/source.ts:710 says the next poll offers the file again, which it
  does not do at the same revision.
- *Starvation.* Files that can never be consumed stay at the head of a folder's listing; with at least
  `limit` of them those behind are never offered. Likewise messages the state table knows take places
  in a mailbox's batch.
- *One connection, one command.* The IMAP client refuses a second command while one is in flight
  (client.ts:394), the pipeline's default concurrency is 2 (ingest/src/config.ts:59), and hooks.md:630
  allows concurrent fetches: of a page of messages all but one fail three times at once and are
  recorded as left. Two concurrent `ensure()` open two connections, of which one is dropped unclosed.
- *Refused flags.* `addFlags` answers whether the server took the flag (imap/client.ts:308), and the callers
  that doom a message do not look (client.ts:352, imap/source.ts:328). The EXPUNGE that follows is answered OK with nothing
  expunged, and the row says `moved` or `deleted` of a message that is still in the mailbox, in the
  first case besides its copy. `GoneIsGone` excepts exactly these rows (`ClosedAnyway`).
- *Servers with less.* Without UIDPLUS the delete policy flags `\Seen` and then reports that nothing
  was flagged; without MOVE and UIDPLUS a move throws at every poll. A COPY repeated after a lost
  answer leaves a second copy. MOVE of a UID that is gone answers OK and is recorded as moved.
- *Shares.* A share without HEAD refuses each file at each poll. A MOVE answered 412 may have been
  made by another client.

**Runs of the server.**

- A cancel delivered before the pipeline registers its listener (pipeline.ts:504, after an await) is
  lost; one during a poll ends the job as failed. A job's row is closed before `runner.stop` has
  finished; a retry in that window loses its entry in `active` (runner.ts:363).
- Two requests with different labels poll one source at once, and the second may claim the run the
  first is executing (runner.ts:289; hooks.md:629 says a source is polled by one at a time).
  `claimRun` takes over a run whatever its heartbeat, which nothing reads (journal.ts:118). From then on two executions
  work on one run and may do a candidate twice; `CommittedIsNotRedone` claims nothing once two have met.
- Workers of a pool go on after their run was rejected or aborted, and commit.
- A row left `running` by a dead process refuses to start until it is cancelled. An `ingest.run` row
  stays `running` after an abort until it is resumed.
- *Idempotency keys* (`idempotency.ts`). The work runs before the key's row is written, in a
  transaction of its own: a crash in between makes the retry do the work again (data-model.md IK2). A
  client's key `a#2` replays a forced re-run of `a`.

**Storage and backup.**

- `sweepTempFiles` is called by tests and operators only; between its second look and its `rm` a slow
  put may write again.
- No request of the WebDAV and S3 stores has a time-out: a server that accepts one and says nothing leaves the
  put, and the candidate behind it, waiting until its connection breaks.
- The WebDAV PUT of a temporary name is outside the `try` that cleans up (backend.ts:329), so an
  unanswered one leaks; a MOVE repeated after a lost answer gets 404 and fails the put although the
  blob is stored; an S3 upload opened with a lost answer is unknown to the client; a
  CompleteMultipartUpload repeated fails to abort and reports the upload as abandoned although the
  object is stored. The sweep of remote leftovers is left to operators.
- A first backup cut short leaves a directory without manifest that later backups refuse
  (create.ts:152). A failed `restore --force` removes the files it overwrote, and checks made after
  the copy throw without removing what was written.
- In production the remote backends are built by the storage probe or given to `openRecueil`.

**Library.**

- *Purging* closes a record and leaves `trashed_at`: the entity is in the trash with no record, and
  only a purge tool of its own could bring it up again; restoring it throws.
- *Attaching to a trashed item* is allowed (documents.ts:552); restoring an item whose DOI or citation
  key was taken meanwhile fails on the unique index.
- *Undoing a merge* that dropped a shared appearance, or after the list was edited, deletes by
  position: of `[W, L, C]` the restore of `L` after a merge into `W` leaves `[W, L]`. `UnmergeIsExact`
  claims the rest. Restored places lose their roles and affiliation, the winner keeps the loser's
  names. Merging a creator with an ORCID into one
  without fails on an index.
- *Undoing a merge of tags.* tags.ts:479 says that reversing a merge "removes exactly those" assignments the merge made,
  and the record lists them, but `restore` does not read the list: the winner keeps what it got.
  `NothingUntagged` says what the code does: undoing a merge takes no tag off an item.
- A creator trashed while an item is in the trash stays on it when the item returns, as does a tree's
  collection restored on its own under a parent in the trash.
- *Names taken over.* Merging creators adds the loser's names to the winner's variants and indexes the
  loser's items only (creators.ts:667): the winner's other items are not found by them, where
  search.ts:27 says that whoever changes what an item's document is built from calls `indexItem`.
  Undoing the merge leaves them with the winner. `FoundByName` claims each author's own name.
- *Notes.* A note that went into the trash with its item may be restored by itself while the item is
  there (an attachment may not: I4), and a live note may be moved onto an item in the trash; a search
  then names the item, and `listItems` drops it. Trashing or restoring an item with its notes does not
  raise their versions (data-model.md §1.7: on every write).
- *Mirrored titles.* Clearing the title of the facet leaves `items.title` as it was. An item created with
  a facet without a title gets a provenance row for the title, locked if a person made it: no resolver
  ever fills it.
- *Narrowed fields.* `updateField` may drop a choice, or the types a field applies to, under values that
  have them; `updateItem` may change an item's type likewise. `ReadsAsWritten` says the values are still
  read as they were written, not that they would be accepted today.
- *Text of documents.* `indexDocumentText` has no caller, and `rebuild` would drop what it wrote.
- *Conditional writes.* The ETag of an item is `items.version`, which changes of its tags, collections,
  creators and custom fields do not raise: two PATCHes of its tags with one `If-Match` both succeed
  (routes/items.ts:22 says stale writes get 412). A PATCH commits the item before its associations;
  when these fail, a retry with the same `If-Match` gets 412. A bulk update of the title of an item
  with a bibliographic facet is dropped and reported as made.

**Importers.**

- *Zotero.* The host of a standalone attachment that was cut before its tags and collections never
  gets them; two attachments of the same bytes on one item share a row, so that one in Zotero's trash
  detaches it; of two equal notes in Zotero's trash one is trashed; a note edited with markdown is
  made again; an item trashed by people between an interrupted run and its resumption makes each
  resumption fail (the Paperless importer has been changed for this); items people restored are
  trashed again; authors people edited are overwritten, and so is the field that holds an item's relations. A running import may be taken over by another.
- *Paperless.* The checks that block compare counts: a note or a tag a person adds to an imported item
  fails them for ever, and a removed one is made up for by an added one. Attachments in the trash
  count as carried. A document link list is rewritten from its start over the links that resolve, so
  a shorter list leaves the tail of the longer one. A document (file) in the trash stops every run at
  that document (D4). A number (ASN) moved between documents takes a second run to follow. A skipped
  document is not tried again by a resumed run, a full one does.

**Rules.**

- *Undecided is filed.* A matcher that hits its limit makes its rule `error`, "and the subject needs a
  human" (engine.ts, rules/README.md: treating it as false "would silently file documents by a rule
  that never ran"). The built-in engine reports refusals and stage 9 asks about them; the server's
  `StoredRuleEvaluator` and the command line's adapter hand on neither refusals nor trace errors, so
  such a document is filed. `FiledUnopposed` claims this of the built-in engine only.
- *Questions that vanish.* A `route-to-review` whose explanation names a capture nothing captured is
  skipped, and the document is filed. Captures of a member that matched inside an `all` that did not
  stay and reach the actions.
- *Precedence.* In `packages/rules` the later rule, of lower priority, overwrites a scalar; the built-in
  engine keeps the first. Both report the disagreement, and the command line drops the report (its
  comment says so). `RuleStore.list` orders by rising priority and says it is the engine's order.
- *Groups of empty rounds.* Of a repetition whose body matched nothing the machine keeps other groups
  than a JavaScript engine, and `(|a)+` matches nothing of `a`; `MatchIsRight` (of `MatchIsRightInTime`) compares groups only
  where no endless repetition has a body that may be empty.
- A collection a rule creates stays when the document then goes to review. rules/README.md says nothing
  in the evaluation reads a clock; the matcher's time limit does.

## Not modelled

Parsers and serialisers, OCR, text and metadata extraction (computations on one file; only how they
end matters, and that is in `IngestPipeline`), generated validators, the command line's argument
handling, the web application, placeholders without code. Everything else that is missing is in the
plan. Inside the modelled parts: `verifyRun`, plugin hooks, dismissals and bulk decisions of the
review queue, the trigger queue and the watcher of a source, scan filters, entry-count and ratio limits
of archives, the office facet and the identifiers of an item, queries of the search index, the collections and capability probe of remote
stores, mail rules, the parts of a name, positions and ORCIDs, patterns and ranges of custom fields, the reading of Zotero's
database and the mapping of its fields, what a relation of an item is resolved to (each item's are one write of one field), attachments of Zotero's notes (the importer skips them), the checks of the reports that do not block.

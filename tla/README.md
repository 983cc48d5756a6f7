# Procrastinator: a TLA+ model of the backend

Procrastinator turns uploaded documents (invoices, receipts, warranties) into
a register of assets and bank statements into a ledger. The backend
(`src/procrastinator-backend`) is a Go HTTP server over PostgreSQL. Each request
is a goroutine; there is no other coordination than the database, which runs
at READ COMMITTED, with no row lock taken by a read and no version column. That
is where its hard behaviour is: a handler reads a row, works (sometimes for as
long as a language model takes), and writes back the *entity it read*.

The paths below are relative to `src/procrastinator-backend`.

## 1. Inventory

| Component | State | Operations | Interacts with | Module |
|---|---|---|---|---|
| Identity resolution, `core/identity` | rows of `assets` | `Resolve`, `Match`, `CommitCandidate` | called by the pipeline and by reviews inside their transactions | `Identity` |
| Document pipeline, `core/processing` | `sources`, `documents`, stored bytes | `StoreSource`, `Process`, `Reprocess`, `DedupeSource` | workers, identity, `Hold` | `Ingest`, `Extractor` |
| Worker pool and consensus, `core/processing` | goroutines and slots of one request | fan out, deadlines, vote, decision | language models | `Extractor`, `Description` |
| Warranty dates, `commons/dates.go` | none | end of a warranty | pipeline | `Warranty` |
| Uploads, `api/add` | none of its own | `POST /documents`, `POST /add`, duplicate upload | pipeline, statements | `Ingest`, `PendingChoice` |
| Review queue, `core/review` | `ingest_reviews` | `Hold`, `Approve`, `Reject` | identity, documents | `Ingest` |
| Documents, `api/documents` | `documents`, the pending choice in their payload | reprocess, keep, delete, lazy guard | pipeline | `Ingest`, `PendingChoice` |
| Pending-choice sweeper | the same payloads | a ticker that resolves expired choices | beside every request | `PendingChoice` |
| Asset lifecycle, `core/lifecycle`, `api/assets` | `assets`, `documents.asset_id` | patch, soft-delete, restore, merge, purge | beside everything above | `Lifecycle`, `Ingest` |
| Statement import, `core/statement` | `import_batches`, `import_lines`, `money_movements` | `Upload`, `Commit`, `Discard`, automatic links | ledger, documents | `Statement`, `Classify` |
| Statement parsing, `core/statement/parse.go` | none | rows of a file to lines | import | `StatementFile` |
| Ledger, `core/ledger` | `money_movements`, accounts | create, patch, delete, link, unlink | documents by id, without a foreign key | `Ledger` |
| Households, `core/household`, `infra/postgres` | households, members, the scope of every row | create, add member, visibility | every query | `Tenancy` |
| Search, `core/search` | none | five queries, pages | visibility | `Search` |
| Repository and codecs, `infra/postgres` | the tables | `Create`, `Update`, `Delete`, `List`, `InTx` | everything | in all of them |
| Accounts and balances, storage, LLM and PDF clients, HTTP, seed, UI | - | input, output, formatting, one sum | - | section 6 |

What makes each part correct, and what is hard in it:

* **Identity**: one unit (one serial) is one live asset, although every
  request looks before it writes; a soft-deleted match is never merged into
  silently. Hard: two lookups before either write; the lookup's limit counts
  deleted rows; a deletion between load and update; white space as a serial.
* **Pipeline**: an upload has one outcome, and what a dead request leaves behind
  is only a source row. Hard: two transactions and a long external call.
* **Workers**: one that fails or is late changes nothing for the others, and a
  commit nobody sees has two agreeing answers behind it. Hard: three
  nested deadlines, partial answers, a vote over lists with gaps.
* **Reviews**: a review is decided once, an approval is all or nothing. Hard:
  two decisions that both read `pending`; a source that has a document already.
* **Documents**: a document's asset exists; a pending choice is its owner's until
  its window closes, and then it ends. Hard: three writers of one JSON payload,
  each writing more than it changes.
* **Lifecycle**: an asset lives once, and only a purge takes documents from it. Hard: a
  merge reads two assets and a list of documents before it writes any of them, a purge
  lists assets and documents and then writes what it listed, wherever that is by then.
* **Statements**: every valid line is booked once, a preview books nothing, and
  what is booked is the line. Hard: the state is read outside the transaction.
* **Ledger**: a document proves one movement, a link is whole, an imported
  movement stays. Hard: lost updates, links that look before they write.
* **Tenancy**: the rule of visibility stands three times (the application's
  condition, row policies, a trigger) and the three agree. Hard: a request
  reads memberships by one statement and uses them in another.
* **Search**: turning pages by offset shows what was there. Hard: every page is a new
  search, between inserts, shares and deletions.

`PROJECT.json` lists each hazard at its line with the properties aimed at it.

## 2. Modules

| Module | Models | Composes |
|---|---|---|
| `AssetRegister` | the abstract register: lives of assets, the serial key, links of documents | - |
| `Identity` | the lookup and the rows it and a merge produce: operators only | - |
| `Ingest` | pipeline, uploads, reviews, reprocess, delete, restore, purge | extends `Identity` |
| `IngestRegister` | the refinement mapping of `Ingest` to the register | extends `Ingest`, instantiates `AssetRegister` |
| `Lifecycle` | patch, delete, restore, merge, purge and the pipeline's enrichment, as reads and commits | instantiates `AssetRegister` |
| `PendingChoice` | duplicates, keep, reprocess, delete, lazy guard, sweeper | - |
| `Description` | brand, model and name out of a description: operators only | - |
| `Warranty` | the calendar and the end of a warranty: operators only | - |
| `Extractor` | workers, deadlines, consensus, category, decision of one request | extends `Description`, `Warranty` |
| `Classify` | duplicate detection of statement lines: operators only | - |
| `StatementFile` | the parser of a statement: operators only | - |
| `Ledger` | movements and the requests that edit them | - |
| `Statement` | imports over the ledger | extends `Ledger`, instantiates `Classify`, `StatementFile` |
| `Tenancy` | households, members, scopes, policies, trigger | - |
| `Search` | search and paging over the rows of `Tenancy`, and the deletion of movements | extends `Tenancy` |
| `Ranks` | a list cut down to some of its places: operators only | used by `Extractor`, `StatementFile` |
| `*Proofs` | theorems about the module of that name (table in section 4) | extend it and `TLAPS` |
| `MC*` | instances for TLC | extend the module of that name |

### How the state corresponds to the code

A table is a function from a finite set of primary keys to rows, `NoVal` where
there is no row. A request is a record in `handler` (`edit`, `import`,
`request`): `pc` says which statement is next, the other fields are the local
variables the handler still uses. A transaction is its reads, one action each,
and one action for its commit, which is where unique indexes and foreign keys
decide. `Abort` is any early end: a crash, a failed statement, a refused index, a
lost client, an extraction that failed. It is enabled wherever the request is.

* `Ingest`: `source`, `document`, `asset`, `review` are the four tables.
  `Upload(h)` -> `StoreSource` -> `Extract` -> `MatchAsset` -> (`LoadTarget` ->
  `FetchPayload` ->) `CommitProcess`, or `HoldForReview`, is `Process`.
  `ReprocessDocument` -> `WriteDirective` -> the same pipeline ->
  `CommitReprocess` -> `RelinkDocument` is the reprocess handler.
  `LoadForApprove` -> ... -> `CommitApproval` and `LoadForReject` ->
  `CommitRejection` are the decisions. `purge` are the purge transactions:
  `ListExpired`, `ListAttached` for each asset listed, and the commit `PurgeExpired`, which
  detaches the listed documents by id (`Detached`), clears what else points at the deleted
  rows, as the foreign key does, and deletes them. A purged asset leaves a tombstone, so
  that its key is not used again.
* `Lifecycle`: `asset` is the table with the key of the serial index and the
  time of deletion, `now` the clock in retention windows. A generic write is
  three steps: the entity is loaded, `Update` fetches the stored payload
  (`FetchPayload`), and `WriteAsset` writes the one laid over the other;
  `deleted_at` is a column written only when the entity has it. `MergeAsset` is
  `ReadSurvivor` (in the handler, before the transaction), `ReadDuplicate`,
  `ListDocuments`, `CommitMerge`. `PurgeExpired` is `ListExpired`, `ListAttached`
  (`repo.DetachDocumentsByAsset` lists the documents of one asset) and `CommitPurge`, whose
  updates are by document id. `RelinkDocument` stands for the handler of a reprocess, which
  gives a document another asset at any time.
* `PendingChoice`: `document` holds choice, directive, asset and deletion;
  `due` are the documents whose window has closed, which is all of the clock the
  code looks at; `sweeper` is its loop: the rows of its query, and the payload it
  read last. `faults` counts crashes and failing writes.
* `Extractor`: `result` is the slice of slots, `ctx` and `late` are the request's
  and the workers' contexts; `agreed` is the `ConsensusResult`, `outcome` the answer.
* `Ledger`: `movement` is the table. `Link` is load, look for another
  movement with the document, save; the others are load, save.
* `Statement`: `batch` holds a batch with its lines and their statuses. A commit
  is the look at the state, the transaction, the list of unlinked movements and,
  for each, a look for its candidate and a save.
* `Tenancy`: `row` is every owned table at once: an owner, perhaps a household,
  for documents the owner of their source. Policies and trigger are evaluated in the
  state of the statement, the application's condition with what an earlier
  statement read.
* `Search`: `removed` are the movements deleted, `client` is one user turning pages: `missed`
  are the rows that could be read when the search began and were not shown yet, `gone` the rows
  in sight that were deleted since. Both serve the property and decide no step.

### Abstractions

* `Ingest`, `Lifecycle`, `PendingChoice`, `Ledger` and `Statement` have one owner and
  one scope; `Tenancy` has many and leaves out what the rows say. Rows of others
  are invisible to the former, which is what the latter is about.
* An identity field is its normal form, `Blank` the empty one. Amounts, dates and
  descriptions of a statement are values that are equal or not. A description in
  `Extractor` is a sequence of words and white space: what separates two words matters,
  because `reconcileIdentity` looks for a space character and the other helpers for any
  white space. Extraction returns any member
  of `Extractions` to `Ingest`; `Extractor` says where one comes from.
* Reads that no concurrent write can tell apart are one action: the stages of
  one lookup see one snapshot; `HoldForReview` matches and inserts in one step.
* In `Ingest` delete and restore are one step each; `Lifecycle` splits them. `Ingest` has no
  clock: a purge there lists any of the deleted assets, at most `MaxPurged`.
* The writes of one transaction are its commit: nobody reads them before. A purge reads the
  documents of an asset after it wrote those of the one before; it wrote only detachments of
  documents it had listed, so what the later list adds is the same.
* The lazy guard and the pending choice are left out of `Ingest`: they change only
  the payload's choice, which nothing there reads. `PendingChoice` leaves out how
  the pipeline finds the asset a reprocess ends in.
* In the ledger, documents and their prices do not change; a movement's
  direction, account and currency are fixed, and matching does not use direction.
* `Extractor` counts confidence in tenths; price, currency and seller are voted
  as the other plain fields are and are left out.

## 3. What the runs check

All runs check deadlock: a request that is not idle can always abort, and an
upload can be followed by another. Seven runs pass; the other five each show
a place where the code does not do what a comment or a spec says.

| Run | Instance | Shows |
|---|---|---|
| `uploads` | 2 requests, 2 sources of the same bytes, 2 assets, lookup limit 1, an extraction with a serial and one that is blank | `LiveSerialUnique`, `AssetsAppearWithTheirDocument` |
| `sequence` | 1 request beside 1 purge of one asset, 2 sources of different bytes, 1 review, 2 assets, limit 2, an extraction without a serial | `TypeOK`, `OneOutcomePerUpload`, `ApprovedReviewHasItsDocument`, `DocumentTargetsExist`, `ApprovalKeepsItsMatch`, `OnlyRestoreUndeletes`, `ImplementsRegister` |
| `lifecycle` | 2 requests, 3 assets, 2 documents, 1 serial, 2 ticks of the clock | `LifecycleTypeOK`, `ImplementsRegister`, `OnlyPurgesDetach` |
| `choice` | 2 requests, 1 document, 1 asset, 1 directive, 1 fault, a role that bypasses row security | `ChoiceTypeOK`, `ResolvedForAReason`, `DeletedStaysDeleted`, `ChoicesEnd` |
| `extract` | 3 workers, 7 answers, threshold 0.7 | `NothingHeardIsLost`, `CommitHasTwoWitnesses`, `LateIsHeld`, `ModelIsNoDescription`, `OrderDoesNotDecide`, `WarrantyEndsOnTime`, `CategoryIsHeard`, `RequestsEnd` |
| `books` | 2 importers, 1 editor, 1 batch, 6 files of which 3 become batches, 1 document, 3 movements | `TypeOK`, `OneMovementPerDocument`, `LinkIsWhole`, `BooksMatchBatches`, `PreviewIsTheStatement` |
| `tenancy` | 2 requests beside 1 searcher, 2 users and an unregistered name, 1 household, 1 movement that may be deleted, 1 document, pages of one | `TenancyTypeOK`, `AnswersNameTheRequester`, `NothingIsRefused`, `JoinHidesNothing`, `PagingSkipsOnePerDeletion`, `PolicyHidesNothing`, `MembersAreInvited` |
| `decision` | 2 requests, 1 source, 1 review, with or without a serial | violated: `DecisionIsFinal` |
| `reprocess` | as `decision` | violated: `PendingReviewIsApprovable` |
| `commit` | 2 importers, 1 file of three lines, 4 movements | violated: `BatchesAreDecidedOnce` |
| `links` | 2 editors, 2 documents | violated: `LinksAreNotReplaced` |
| `sweep` | as `choice`, 1 request, no fault, the role row security binds | violated: `ChoicesEnd` |

The properties:

* `ImplementsRegister` (twice): what a reader of assets and documents sees is a
  step of `AssetRegister`, the same promise for the pipeline and for the
  operations on assets: an asset is created once, lives, is deleted and restored,
  and is gone for good; no write, however stale, brings one back, gives a live
  asset a serial that another has, or points a document at a row that is gone.
* `LiveSerialUnique`: two lookups that both find nothing do not make two live
  assets with one serial; nor does a restore after the serial was taken.
* `DocumentTargetsExist`: purges race relinks, pending documents and
  approvals, which link what the purge has not listed; hidden documents count too.
* `AssetsAppearWithTheirDocument`: an asset appears only in the commit that
  documents it, a reprocess excepted.
* `ApprovedReviewHasItsDocument`: approved means that this review wrote the
  document of its source, whatever else took the source meanwhile.
* `OneOutcomePerUpload`: a document or one review, never both, although the
  commit path falls through to the hold path.
* `ApprovalKeepsItsMatch`: an approval lands on the match the reviewer was shown
  for as long as that row is stored, deleted or not.
* `OnlyRestoreUndeletes`: a stale entity, loaded live, does not undo a deletion.
* `OnlyPurgesDetach`: a merge repoints what it listed, and no merge, relink or write of a
  stale entity takes a document's asset: that is left to a purge, of the asset it leads to or
  led to when it was listed; the second does happen (section 5).
* `ResolvedForAReason`, `DeletedStaysDeleted`, `ChoicesEnd`: whichever stale
  copy is written back, a choice ends for a reason, a deleted document stays hidden,
  and no choice is pending for ever.
* `NothingHeardIsLost`: from the vote to the answer to the client, what any worker read of
  the identity is the field's value or the field is open, however its siblings failed or
  were late; and a field is open only for two different readings.
* `LateIsHeld`, `RequestsEnd`: deadlines and failures.
* `CommitHasTwoWitnesses`, `OrderDoesNotDecide`, `ModelIsNoDescription`,
  `CategoryIsHeard`, `WarrantyEndsOnTime`: what the vote and the derivations make of
  the answers, each against a statement of its own rather than the algorithm.
* `BooksMatchBatches`: a preview has no bookings, valid lines of one batch have
  equally many (all or none), other lines have none, and a booking is its line.
  It allows that a batch is booked twice and that a discarded batch has bookings: the
  code does both, by the race of the run `commit`.
* `PreviewIsTheStatement`: every readable row of the file is a line, once and in order,
  whatever headers, blanks and unreadable rows are around it.
* `OneMovementPerDocument`, `LinkIsWhole`: links under lost updates.
* `NothingIsRefused`, `PolicyHidesNothing`, `JoinHidesNothing`,
  `AnswersNameTheRequester`: the application's rule, with memberships read
  earlier, never asks for what the database hides or refuses.
* `MembersAreInvited`: the membership of the inviter is checked in one transaction and the
  member inserted in another, beside a second request.
* `PagingSkipsOnePerDeletion`: of the rows that could be seen when a search began and still
  exist, its pages miss one at most for each row deleted meanwhile, though every
  page searches again. Without deletions they miss none.

Every property of a passing run is shown able to fail: `PROJECT.json` pairs
it with a mutated definition (such as an insert that ignores a conflict, an
asset committed before its document, an index over a NULL household, a sweep that
stops at its first failure, a vote that stops at the first worker that failed) under which TLC
finds a violation.

### Bounds, and why they are enough for these questions

Two requests are the least that race; the schedules above need two handlers and
the environment (delete, restore, purge, sweeper, clock, pipeline), which acts
between any two steps. Two assets let one be deleted while the other takes its
serial; two rows with the lookup limit at 1 let a deleted row hide a live one,
with the limit at 2 a match can be ambiguous. A second source is what makes a held
extraction match an asset that another upload created, so that an approval merges.
Three assets in `lifecycle` are two to merge and one more that holds their serial; `MaxNow`
at 2 lets the retention window close once. Documents of `PendingChoice` do not
interact but through the sweeper's list, whose elements may fail one at a time
(`faults`), so one document and one fault reach every case; the theorems cover any number.
Three workers are the least for a conflict with a gap between; the answers
are a unit told apart, the same wholesale in the model, in the name and with white space
that is no space, another unit, a bank statement, and text that is no object. `MaxMovements` bounds
the movements ever created: three let a batch of two valid lines be booked beside
a manual movement, four let it be booked twice. One purge of
one asset (`MaxPurged`) beside one request lets a document be linked before and after each
of its steps; `lifecycle` has purges of several assets and two at once. Two requests
let a membership change between the statements of a request. Two rows of two kinds and pages of one
row let a search end on either page, and a deletion pull the second row over the edge of the
first; the theorems count any number of rows, kinds and deletions. Keys are never reused; when they run
out, creation is disabled and the rest goes on.

### Fairness

Handlers of requests have none: the code retries nothing by itself and a
request may die at any step. Two parts are scheduled by the code:

* the sweeper's goroutine (`Sweeper.Start`, a ticker in a loop for as long as
  the process lives): weak fairness of its steps (`Start`), and of the closing of a window,
  which is the passing of time. Restarts and failing writes are not fair
  and bounded by `MaxFaults`. `ChoicesEnd` follows for a role that sees the rows,
  and fails for the role the repository creates (`sweep`).
* the goroutines of an upload (`Code`) and its timers (`Time`): weak fairness of
  each group. Providers owe no answer: `RequestsEnd` holds because a worker whose
  context ends returns, which is `ChatTimesOut`.

## 4. What is proved

Every safety property of a passing run is also a theorem of its specification:
36 properties are checked, 34 of them proved; the two that are not are
liveness. The theorems hold for every value of the constants that satisfies the
named assumptions of the modules: `IdentityAssumption`, `IngestAssumption`,
`LifecycleAssumption`, `ChoiceAssumption`, `TenancyAssumption`, `SearchAssumption`,
`LedgerAssumption`, `StatementAssumption`, `ExtractorAssumption`,
`DescriptionAssumption`. They say that vocabularies and markers are told apart,
that limits are numbers, that a file is a list of rows, that an answer has
fields of the kinds the parser yields. TLC evaluates them on the instances of
the runs. Specifications with fairness are proved safe without using it.

| Module | About |
|---|---|
| `IngestProofs` | `Ingest`, `Identity`, and the refinement `IngestRegister` |
| `RegisterProofs` | `AssetRegister` |
| `LifecycleProofs` | `Lifecycle` and its refinement |
| `ChoiceProofs` | `PendingChoice` |
| `TenancyProofs` | `Tenancy` and `Search` |
| `StatementProofs` | `Ledger`, `Classify`, `StatementFile`, `Statement` |
| `ExtractorProofs` | `Warranty`, `Description`, `Extractor` |
| `RanksProofs` | `Ranks`, lemmas the last two use |

`IngestProofs`:

* `TypeCorrect`: `Spec => []TypeOK`. `TypeOK` contains `RequestOK`, which ties a request's
  `pc` to what it holds: it is inductive, one step of the proof for each action.
* `SerialsStayUnique`: `Spec => []LiveSerialUnique`. The rows a write may leave
  pass `SerialIndexAllows`, the others keep or lose their liveness.
* `NothingElseUndeletes`: `Spec => OnlyRestoreUndeletes`. `WriteAsset` keeps the
  stored state of a row unless the entity says deleted.
* `ApprovalsHaveTheirDocuments`: `Spec => []ApprovedReviewHasItsDocument`. The
  document's `by` never changes once it is there, and a review's source never does; a request
  that approves works on the source of its review (`RequestOK`).
* `TargetsExist`: `Spec => []DocumentTargetsExist`. No action removes a row but
  the purge, which detaches whatever leads there at its commit, listed or not, and every writer
  of `asset_id` names a stored row.
* `AssetsHaveTheirDocuments`: `Spec => AssetsAppearWithTheirDocument`. Three
  commits make assets; two of them insert the document, the third relinks next.
* `UploadsHaveOneOutcome`: `Spec => []OneOutcomePerUpload`. Not inductive: the
  invariant (`OutcomeOK`) adds that one upload works on a source, that the source
  has no outcome while it does, and that a key that is not stored has neither.
* `ApprovalsKeepTheirMatch`: `Spec => ApprovalKeepsItsMatch`. The invariant
  (`ApprovalInv`) adds that an approval has the match of its review as its target,
  or none because it is purged, and that a match was stored once: a purged
  row stays a tombstone, so the second case cannot become false.
* `IngestImplementsRegister`: `Spec => ImplementsRegister`. A commit
  is `Create` or `Write` of the register by whether the request has a target; that
  a row to be inserted is live (`NewRowsLive`) is the strengthening it needs. A purge is
  `Purge`, also when the documents it detaches lead elsewhere by then.

`RegisterProofs`: the abstract register keeps its three promises
(`RegisterSerials`, `RegisterLinks`, `RegisterGone`).

`LifecycleProofs`: `LifecycleTypeCorrect`; `LifecycleImplementsRegister`, that every
action maps to a step of the register or to a stutter, by cases over the actions;
`PurgesAloneDetach`, by the writers of `document`: a merge and a relink name a stored asset; and
`LiveSerialsUnique`, which is the refinement and `RegisterSerials` together. A purge of
documents listed long before is a `Purge` of the register, which lets any
link end: the register promises that links lead to stored rows, not that they stay.
What a request remembers may be stale, so the invariant beside the types says little of it: a merge past its reads has a
duplicate other than the survivor, and a copy of it with a deletion time; a restore
carries no documents.

`ChoiceProofs`: `ChoiceTypeCorrect`, `ReasonsAreGiven` (the strengthening: every copy
in memory, of a request or of the sweeper, that says resolved is of a document that is due or kept)
and `DeletedIsFinal`.

`TenancyProofs`, of households:

* `TenancyTypeCorrect`, `RequestersAreNamed`, `NeverRefused`,
  `JoinIsWhole`, `InvitationOnly`. The strengthening is that memberships only
  grow, so that what a request has read (`mine`, `todo`, `answer`, a checked
  inviter) is still true, and that an uploader of a document shares its household.

and of search:

* `SearchIsTenancy`: `Spec => TenancySpec`. A search changes nothing, so the five
  theorems above hold beside it.
* `OneSkippedPerDeletion`: `Spec => []PagingSkipsOnePerDeletion`. That few rows are missed at
  the end says nothing of the way there. `SearchInv` says, in the middle of any page, that
  a row still missed is found by this search too (`MissedOK`), and counts (`CountOK`): the
  missed rows that slipped over the edge of a page shown (`Skipped`: the rows `Ahead`, those
  read already that precede it and those that will be, no longer fill the pages shown) and
  the hits deleted since they were read (`Due`) are together no more than the deletions. An
  insertion, whenever its transaction began, only adds to the rows ahead; two
  missed rows have different numbers of rows ahead (`AheadDiffers`), so that a deletion lets one slip
  at most (`DeleteMovementOK`), and when a page is shown no row slips that the page has not made room for.
* `ThePolicyHidesNothing`: `Spec => []PolicyHidesNothing`. Memberships read by an earlier
  statement are still held.

`StatementProofs`, for the edits of `Ledger` and the imports of `Statement` together:

* `DocumentsProveOneMovement`, `LinksAreWhole`. The invariant
  (`LinkInv`) says of every stored row, and of every copy a request or an
  import will write over one, however old, that its link, creator and flag agree;
  and that no two rows have one document. Rows an import is about to look at have
  no link; a row it links has an exact amount, so it is no conflict.
* `StatementTypes`, `TheBooksMatch`: `Spec => []BooksMatchBatches`. The invariant
  (`BooksInv`) says that a row in memory shares with the stored row it is a copy of all that no
  request may change (date, amount, reference, origin: `Agree`), so that a stale save
  cannot tear a booking from its line; that a batch is what its file was parsed to; that ids are
  given out without a gap, which makes a commit's new rows as many as its valid
  lines; and that the lines of one batch have been booked together. Of the ledger the
  proof uses that an edit changes nothing of these fields and that an imported movement
  is never deleted.
* `ThePreviewIsTheStatement`: `Spec => []PreviewIsTheStatement`, for files of any length. The
  readable rows of the file and the lines without an error are two sets of places;
  the proof gives the growing map between them and cites `RanksMatch`.

`ExtractorProofs`, for any number of workers, whatever they answer:

* The invariant (`IInv`) has three parts: a slot holds what its worker made of an
  answer, or a failure with its reason (`SlotsOK`); past the deadline a request is
  on its way to a reviewer (`DeadlineOK`); what is agreed is the consensus of the slots,
  with what is derived of it from the commit on (`AgreedOK`). `TheLateAreHeld`
  is the second part.
* `NothingIsLost`: of the third, `NothingHeardIsLost`: the vote of a field is one that somebody
  gave or open, an open field has two readings, and what is derived later (the warranty's
  end, the category) leaves the identity as it is.
* `NobodyCommitsAlone`: a confidence above the cap of one witness has two answers behind it,
  and with a field on which two differ the confidence is below that cap.
* `OrderIsIrrelevant`: the vote is stated over the set of those heard. An order
  is an injection of a finite set into itself, so it is onto, and both orders hear the same
  set of readings; a value all agree on is any one's.
* `NoDescriptionIsAModel`: a text with a space and a model word in it is split, and what is split off as a model
  is one word. Its premise `PlainLexicon` (no brand is spelt with a
  word that has a digit) is true of the list in `core/processing/brands.go`;
  `PROCRASTINATOR_BRAND_LEXICON` could name a list of which it is not.
* `WarrantiesEndOnTime`: for every date of the calendar, by the arithmetic of months, the
  lengths of the months and the leap years. `AddDays` of no days is the date itself, which needs that
  the number of a day determines its date.
* `CategoriesAreHeard`: the first given category is one that a worker read, and the four cases of
  `InferCategory` keep it.

`RanksProofs`: what a loop that appends the elements it likes leaves behind.
`LeastNumber` is the well-foundedness of the numbers; `RankOnto`, `NthProperties` and
`RanksMatch` rest on it.

What the proofs changed in the model: the decision of a request was a `CASE` with
overlapping guards, whose value TLA+ leaves open although TLC takes the first; it is
now a disjunction that follows the order of the early returns in
`Process` (`Decision`, `Decide`). Recursive helpers became sets of places
(`Kept`, `Heard`), about which one can reason.

What rests on TLC alone: liveness (`ChoicesEnd`, `RequestsEnd`), which the
prover cannot reach, and the five violations, which are counterexamples.
A theorem over a recursively defined operator is not attempted anywhere; where a list
had to be argued about for every length, the argument is a minimal counterexample
(`LeastNumber`) or a bijection in place of an induction.

## 5. Where the code and its documents disagree

Shown by a run:

1. `decision`: Approve and Reject are not kept from racing
   (`core/review/service.go:86`).
2. `reprocess`: a held reprocess leaves a review no approval can commit.
3. `commit`: a batch is decided twice. Commit and discard both go through when both read the
   preview: the batch ends discarded with its movements booked, or committed although a
   discard was answered with success; two commits book every line twice
   (`core/statement/service.go:275`, `286`, `400-409`; `openspec/specs/statement-import/spec.md:128-131`,
   `139-140`, `147-150`, which promise a 409 and no movements of a discarded batch).
4. `links`: a link can be replaced by a concurrent one
   (`core/ledger/service.go:277`).
5. `sweep`: row level security hides every document from the sweeper
   (`api/documents/sweeper.go:49`).

Met while modelling, without a run of their own:

* A committed statement imported again: a line without a bank reference is
  `possible-duplicate` (`core/statement/classify.go:112`), and `valid` once the
  movement's description was edited; `classify.go:24` calls every line a duplicate.
* The first data row of a CSV whose day cannot be read is taken for a header and
  dropped (`core/statement/parse.go:88`). `PreviewIsTheStatement` speaks of
  readable rows for that reason.
* `infra/postgres/finance_queries.go:225` says that a document and its source share
  `owner_id`; a document approved by another member has the approver's.
  `JoinHidesNothing` shows that the join loses nothing by it.
* Two crossed merges can delete both assets; a merge of a survivor without a serial
  with a duplicate that has one is always refused by the index, as the survivor is
  written first (`core/lifecycle/merge.go:54`); a merge across scopes can
  leave a household document on a private asset.
* A purge takes from its asset a document that it listed under an expired one and that a merge
  or a reprocess has moved since: the update is by the document's id
  (`commons/repo/document.go:17-27`), and its comment speaks of the documents "currently
  linked" (`:9-12`). `OnlyPurgesDetach` says how far that goes. A purge may also take an
  asset that was restored since it was listed (`core/lifecycle/service.go:117`). Nothing calls
  the purge in production yet.
* Two reprocesses of one document may run at once: the guard looks at pending reviews only
  (`api/documents/documents.go:195`), and `openspec/specs/document-ingestion/spec.md:122-129`
  promises a 409 for the second while the first is in flight.
* A reprocess that dies between its commit and the relink leaves an asset without a document
  (`api/documents/documents.go:212`), and the one that wins two reprocesses leaves the other's;
  `openspec/specs/document-ingestion/spec.md:136-139` promises no orphan asset.
* A movement deleted between two pages of a search pulls the rows after it forward, and one
  of them is on neither page (`core/search/service.go:73`); no document promises otherwise.
* A stale whole-entity write may restore an older serial, erase `merged_into`, or
  delete a restored asset again; a patch of an identity field leaves its normalised copy
  as it was (`infra/postgres/payload_codec.go:384`).
* `ListDocuments` does not apply the lazy guard, and its comment that an expired
  pending document has an asset is not true of the duplicate of an upload without one.
* An upload whose time budget is over is held without the warranty end and the
  category derived for others, and its approval does not derive them
  (`core/processing/service.go:186`); with no answer at all it ends in an error of the hold.
* A date of nothing but spaces is read as the zero date and, from the first worker,
  wins over a later worker's date (`commons/dates.go:11`).
* A combined description without a word with a digit stays whole in the model
  (`core/processing/consensus.go:171`), and so does one whose words are separated by
  tabs, newlines or no-break spaces, as the test is for a space character (`:180`, `:193`);
  `core/processing/split.go:38` says that the raw string is never returned as model.
  `ModelIsNoDescription` names both exceptions.
* Search shows soft-deleted assets (`infra/postgres/repos.go:35`).

## 6. Not modelled

* Accounts and balances: an account is written once; a balance is one SQL sum
  over the movements the reader may see, so two members of a household may read
  different balances of a shared account. Kinds, accounts and currencies of
  movements are checked before any write and fixed afterwards.
* Storage, PDF text and the LLM clients: input and output. Their failures are the
  `Abort` of a request or the failure of a worker.
* HTTP server, DTOs, generated code, auth middleware, configuration, seed: wiring and
  formatting. The web UI keeps no state the backend relies on.
* SQL assembly and JSON encoding of the repository; spellings of durations, layouts
  of dates and digits of amounts; the price, the currency and the seller of an asset.

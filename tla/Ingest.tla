------------------------------- MODULE Ingest -------------------------------
(***************************************************************************)
(* The document pipeline: upload, de-duplication, extraction, identity     *)
(* resolution, commit or hold for review, the review decision, reprocess,  *)
(* and the asset operations that run beside them.  One owner, one scope    *)
(* (personal, or one household): rows of other scopes are invisible to it. *)
(*                                                                         *)
(* Request handlers run concurrently over a READ COMMITTED database with   *)
(* neither row locks taken by reads nor version columns.  A transaction is *)
(* a sequence of reads, one action each, whose results live in the         *)
(* handler's record, and one action that commits its writes.  Reads that   *)
(* no write of another handler can tell apart are one action: what a later *)
(* step of the handler uses is what this step saw.  Unique indexes and     *)
(* foreign keys are decided at the commit.                                 *)
(***************************************************************************)
EXTENDS Identity

CONSTANTS
    Handlers,     \* concurrent requests
    Purgers,      \* concurrent purges
    MaxPurged,    \* bound of the assets one purge deletes
    Contents,     \* the bytes that are uploaded (their SHA-256)
    SourceIds,    \* primary keys of sources, ordered as ORDER BY id does
    ReviewIds,    \* primary keys of ingest reviews
    Extractions   \* what the extraction workers' consensus may return

IdentityTexts == UNION {{e.serial, e.brand, e.model, e.name} : e \in Extractions}

VARIABLES
    source,     \* SourceIds -> the content of the source, NoVal when no row
    document,   \* SourceIds -> the document of the source (source_id is UNIQUE)
    asset,      \* AssetIds -> the row, with a "purged" tombstone
    review,     \* ReviewIds -> the review
    handler,    \* Handlers -> where the request is and what it holds in memory
    purge       \* Purgers -> the assets and documents it has listed

vars == <<source, document, asset, review, handler, purge>>

-----------------------------------------------------------------------------

Values     == IdentityTexts \cup {NoVal}
Candidates == [serial : Values, brand : Values, model : Values, name : Values]
StoredRow  == [serial : Values, brand : Values, model : Values, name : Values,
               state : {"live", "deleted"}]
Tombstone  == [serial |-> NoVal, brand |-> NoVal, model |-> NoVal, name |-> NoVal,
               state |-> "purged"]
AssetRow   == StoredRow \cup {Tombstone}
Document   == [asset : AssetIds \cup {NoVal},
               by : {"process", "duplicate"} \cup ReviewIds,
               deleted : BOOLEAN]
Review     == [src : SourceIds, ext : Candidates, best : AssetIds \cup {NoVal},
               state : {"pending", "approved", "rejected"},
               from : {"process", "reprocess"}]
Handler    == [pc : {"idle", "store", "storedup", "pendingdoc", "directive",
                     "extract", "match", "load", "fetch", "write", "hold",
                     "relink", "reject"},
               op : {NoVal, "process", "duplicate", "reprocess", "approve", "reject"},
               content : Contents \cup {NoVal},
               src : SourceIds \cup {NoVal},
               ext : Candidates \cup {NoVal},
               target : AssetIds \cup {NoVal},
               row : StoredRow \cup {NoVal},
               rev : ReviewIds \cup {NoVal}]
Purge      == [assets : SUBSET AssetIds, left : SUBSET AssetIds, docs : SUBSET SourceIds]

ASSUME IngestAssumption ==
    /\ SourceIds \subseteq Nat
    /\ Extractions \subseteq Candidates
    /\ NoVal \notin Contents \cup SourceIds \cup ReviewIds
    /\ NoVal \notin Candidates \cup AssetRow \cup Document \cup Review
    /\ ReviewIds \cap {"process", "duplicate"} = {}

Idle == [pc |-> "idle", op |-> NoVal, content |-> NoVal, src |-> NoVal,
         ext |-> NoVal, target |-> NoVal, row |-> NoVal, rev |-> NoVal]
NoPurge == [assets |-> {}, left |-> {}, docs |-> {}]

Init ==
    /\ source   = [s \in SourceIds |-> NoVal]
    /\ document = [s \in SourceIds |-> NoVal]
    /\ asset    = [a \in AssetIds |-> NoVal]
    /\ review   = [r \in ReviewIds |-> NoVal]
    /\ handler  = [h \in Handlers |-> Idle]
    /\ purge    = [p \in Purgers |-> NoPurge]

At(h, pc)   == handler[h].pc = pc
Finish(h)   == handler' = [handler EXCEPT ![h] = Idle]
Continue(h, state) == handler' = [handler EXCEPT ![h] = state]

-----------------------------------------------------------------------------
(* Upload: de-duplicate by content, store the bytes, or store a duplicate. *)

SourcesWith(c) == {s \in SourceIds : source[s] = c}

(* The asset the first source with these bytes is documented by, if any.   *)
DuplicateAsset(c) ==
    LET src == SetMin(SourcesWith(c))
    IN  IF document[src] = NoVal THEN NoVal ELSE document[src].asset

(* New bytes: Process runs.  POST /documents checks for a duplicate once   *)
(* more before it calls Process; a duplicate that Process itself finds is  *)
(* reported (POST /add) or answered 500 (POST /documents): no step.        *)
UploadDocument(h, c) ==
    /\ At(h, "idle")
    /\ SourcesWith(c) = {}
    /\ Continue(h, [Idle EXCEPT !.pc = "store", !.op = "process", !.content = c])
    /\ UNCHANGED <<source, document, asset, review>>

(* POST /documents, known bytes: the handler of a duplicate upload.        *)
UploadDuplicate(h, c) ==
    /\ At(h, "idle")
    /\ SourcesWith(c) # {}
    /\ Continue(h, [Idle EXCEPT !.pc = "storedup", !.op = "duplicate", !.content = c,
                                !.target = DuplicateAsset(c)])
    /\ UNCHANGED <<source, document, asset, review>>

(* The source row is written outside any transaction and survives.         *)
StoreSource(h) ==
    /\ handler[h].pc \in {"store", "storedup"}
    /\ \E s \in SourceIds :
          /\ source[s] = NoVal
          /\ source' = [source EXCEPT ![s] = handler[h].content]
          /\ Continue(h, [handler[h] EXCEPT
                !.pc = IF @ = "store" THEN "extract" ELSE "pendingdoc",
                !.content = NoVal, !.src = s])
    /\ UNCHANGED <<document, asset, review>>

(* A document in the asset of the upload it duplicates, awaiting a choice. *)
CreatePendingDocument(h) ==
    /\ At(h, "pendingdoc")
    /\ document[handler[h].src] = NoVal
    /\ handler[h].target # NoVal => Stored(asset, handler[h].target)
    /\ document' = [document EXCEPT ![handler[h].src] =
          [asset |-> handler[h].target, by |-> "duplicate", deleted |-> FALSE]]
    /\ Finish(h)
    /\ UNCHANGED <<source, asset, review>>

-----------------------------------------------------------------------------
(* Reprocess: the guard, the directive, then the pipeline again.           *)

PendingReviews(s) ==
    {r \in ReviewIds : review[r] # NoVal /\ review[r].src = s /\ review[r].state = "pending"}

(* The document is loaded and the in-flight guard passes.                  *)
ReprocessDocument(h, s) ==
    /\ At(h, "idle")
    /\ document[s] # NoVal
    /\ ~document[s].deleted
    /\ PendingReviews(s) = {}
    /\ Continue(h, [Idle EXCEPT !.pc = "directive", !.op = "reprocess", !.src = s,
                                !.target = document[s].asset])
    /\ UNCHANGED <<source, document, asset, review>>

(* The directive is saved with the whole loaded entity: its asset_id too,  *)
(* unless that is empty, which the codec leaves out.                       *)
WriteDirective(h) ==
    LET s == handler[h].src
    IN  /\ At(h, "directive")
        /\ handler[h].target # NoVal => Stored(asset, handler[h].target)
        /\ document' = [document EXCEPT ![s].asset =
              IF handler[h].target = NoVal THEN @ ELSE handler[h].target]
        /\ Continue(h, [handler[h] EXCEPT !.pc = "extract", !.target = NoVal])
        /\ UNCHANGED <<source, asset, review>>

(* A mutant: the link is not a foreign key.                                *)
RelinkDocumentUnchecked(h) ==
    LET s == handler[h].src
    IN  /\ At(h, "relink")
        /\ document' = [document EXCEPT ![s].asset = handler[h].target]
        /\ Finish(h)
        /\ UNCHANGED <<source, asset, review>>

(* The document is pointed at the asset the pipeline resolved, on an       *)
(* entity loaded before the extraction.                                    *)
RelinkDocument(h) ==
    LET s == handler[h].src
    IN  /\ At(h, "relink")
        /\ Stored(asset, handler[h].target)
        /\ document' = [document EXCEPT ![s].asset = handler[h].target]
        /\ Finish(h)
        /\ UNCHANGED <<source, asset, review>>

-----------------------------------------------------------------------------
(* Extraction and identity resolution, shared by Process and Reprocess.    *)

(* The workers answered: with enough confidence the commit path follows,   *)
(* below the threshold or past the time budget the extraction is held.     *)
(* When every worker failed or the bytes are a bank statement the request  *)
(* ends and changes nothing, which is Abort.                               *)
Extract(h, e, confMet) ==
    /\ At(h, "extract")
    /\ Continue(h, [handler[h] EXCEPT !.pc = IF confMet THEN "match" ELSE "hold",
                                      !.ext = e])
    /\ UNCHANGED <<source, document, asset, review>>

(* Resolve: the lookup, in the transaction that will write.                *)
MatchAsset(h) ==
    LET m == matchExtraction(asset, handler[h].ext, CandidateLimit)
    IN  /\ At(h, "match")
        /\ CASE m.kind = "noidentity" -> Finish(h)
             [] m.kind = "merge" ->
                  Continue(h, [handler[h] EXCEPT !.pc = "load", !.target = m.asset])
             [] m.kind = "unresolved" ->
                  Continue(h, [handler[h] EXCEPT !.pc = "write", !.ext = NoVal,
                                                 !.row = newAsset(handler[h].ext)])
             [] OTHER -> Continue(h, [handler[h] EXCEPT !.pc = "hold"])
        /\ UNCHANGED <<source, document, asset, review>>

(* A mutant: a soft-deleted match is not loaded either.                    *)
LoadLiveTarget(h) ==
    LET a == handler[h].target
    IN  /\ At(h, "load")
        /\ IF IsLive(asset, a)
           THEN Continue(h, [handler[h] EXCEPT !.pc = "fetch", !.ext = NoVal,
                                !.row = mergeInto(asset[a], handler[h].ext)])
           ELSE Continue(h, [handler[h] EXCEPT !.pc = "write", !.ext = NoVal,
                                !.target = NoVal, !.row = newAsset(handler[h].ext)])
        /\ UNCHANGED <<source, document, asset, review>>

(* The matched asset is loaded again; a soft-deleted one is still visible, *)
(* a purged one is not and a new asset is created instead.                 *)
LoadTarget(h) ==
    LET a == handler[h].target
    IN  /\ At(h, "load")
        /\ IF Stored(asset, a)
           THEN Continue(h, [handler[h] EXCEPT !.pc = "fetch", !.ext = NoVal,
                                !.row = mergeInto(asset[a], handler[h].ext)])
           ELSE Continue(h, [handler[h] EXCEPT !.pc = "write", !.ext = NoVal,
                                !.target = NoVal, !.row = newAsset(handler[h].ext)])
        /\ UNCHANGED <<source, document, asset, review>>

(* Update reads the stored payload again and lays the entity over it.      *)
FetchPayload(h) ==
    /\ At(h, "fetch")
    /\ Stored(asset, handler[h].target)
    /\ Continue(h, [handler[h] EXCEPT !.pc = "write",
                        !.row = OverlayPayload(asset[handler[h].target], @)])
    /\ UNCHANGED <<source, document, asset, review>>

(* A mutant: the UPDATE sets deleted_at to what the loaded entity has.     *)
EntityState(stored, entity) == entity

(* The row an update leaves: deleted_at is written when the entity has one *)
(* and left alone when it has none.                                        *)
UpdatedRow(stored, entity) ==
    [entity EXCEPT !.state = IF @ = "deleted" THEN "deleted" ELSE stored.state]

(* The asset write of a transaction: the INSERT of a new row under a fresh *)
(* key, or the UPDATE of the target, each subject to the serial index.     *)
WriteAsset(h, a) ==
    LET row == IF handler[h].target = NoVal THEN handler[h].row
               ELSE UpdatedRow(asset[a], handler[h].row)
    IN  /\ IF handler[h].target = NoVal THEN asset[a] = NoVal
           ELSE a = handler[h].target /\ Stored(asset, a)
        /\ SerialIndexAllows(asset, a, row)
        /\ asset' = [asset EXCEPT ![a] = row]

(* A mutant: the INSERT is ON CONFLICT DO NOTHING.                         *)
InsertDocumentIfNone(s, a, by) ==
    document' = [document EXCEPT ![s] =
        IF @ = NoVal THEN [asset |-> a, by |-> by, deleted |-> FALSE] ELSE @]

(* The INSERT of a document: at most one per source, ever.                 *)
InsertDocument(s, a, by) ==
    /\ document[s] = NoVal
    /\ document' = [document EXCEPT ![s] = [asset |-> a, by |-> by, deleted |-> FALSE]]

(* Two mutants: the document is inserted in a transaction of its own, and  *)
(* the commit path does not return before the hold path.                   *)
CommitAssetFirst(h, a) ==
    /\ At(h, "write") /\ handler[h].op = "process"
    /\ WriteAsset(h, a)
    /\ Continue(h, [handler[h] EXCEPT !.pc = "pendingdoc", !.row = NoVal, !.target = a])
    /\ UNCHANGED <<source, document, review>>

CommitAndHold(h, a) ==
    /\ At(h, "write") /\ handler[h].op = "process"
    /\ WriteAsset(h, a)
    /\ InsertDocument(handler[h].src, a, "process")
    /\ Continue(h, [handler[h] EXCEPT !.pc = "hold", !.row = NoVal, !.target = NoVal,
                        !.ext = [f \in IdentityFields |-> handler[h].row[f]]])
    /\ UNCHANGED <<source, review>>

(* Process commits the asset and its document together.                    *)
CommitProcess(h, a) ==
    /\ At(h, "write") /\ handler[h].op = "process"
    /\ WriteAsset(h, a)
    /\ InsertDocument(handler[h].src, a, "process")
    /\ Finish(h)
    /\ UNCHANGED <<source, review>>

(* Reprocess commits the asset alone; the caller relinks the document.     *)
CommitReprocess(h, a) ==
    /\ At(h, "write") /\ handler[h].op = "reprocess"
    /\ WriteAsset(h, a)
    /\ Continue(h, [handler[h] EXCEPT !.pc = "relink", !.row = NoVal, !.target = a])
    /\ UNCHANGED <<source, document, review>>

-----------------------------------------------------------------------------
(* Review: hold, approve, reject.                                          *)

(* A mutant: the candidate has no name field at all.                       *)
candidateFieldsNoName(ext) == [f \in IdentityFields \ {"name"} |-> ext[f]]

(* The fields kept on a review: the name is not among them.                *)
candidateFields(ext) == [ext EXCEPT !.name = NoVal]

(* Hold matches and inserts in one transaction; nothing but the pending    *)
(* reviews depends on when between the two another handler commits.  The   *)
(* review service does not know the configured limit.                      *)
HoldForReview(h) ==
    LET m == matchExtraction(asset, handler[h].ext, DefaultCandidateLimit)
    IN  /\ At(h, "hold")
        /\ IF m.kind = "noidentity" THEN UNCHANGED review
           ELSE \E r \in ReviewIds :
                  /\ review[r] = NoVal
                  /\ review' = [review EXCEPT ![r] =
                        [src |-> handler[h].src, ext |-> candidateFields(handler[h].ext),
                         best |-> m.asset, state |-> "pending", from |-> handler[h].op]]
        /\ Finish(h)
        /\ UNCHANGED <<source, document, asset>>

IsPending(r) == review[r] # NoVal /\ review[r].state = "pending"

(* Approve and Reject read the review and check that it is pending.        *)
LoadForApprove(h, r) ==
    /\ At(h, "idle")
    /\ IsPending(r)
    /\ Continue(h, IF review[r].best = NoVal
                   THEN [Idle EXCEPT !.pc = "write", !.op = "approve", !.rev = r,
                                     !.src = review[r].src, !.row = newAsset(review[r].ext)]
                   ELSE [Idle EXCEPT !.pc = "load", !.op = "approve", !.rev = r,
                                     !.src = review[r].src, !.ext = review[r].ext,
                                     !.target = review[r].best])
    /\ UNCHANGED <<source, document, asset, review>>

LoadForReject(h, r) ==
    /\ At(h, "idle")
    /\ IsPending(r)
    /\ Continue(h, [Idle EXCEPT !.pc = "reject", !.op = "reject", !.rev = r])
    /\ UNCHANGED <<source, document, asset, review>>

(* The approval: asset, document and decision in one commit.  The update   *)
(* of the review is by its id: the state it had then is not looked at.     *)
CommitApproval(h, a) ==
    /\ At(h, "write") /\ handler[h].op = "approve"
    /\ WriteAsset(h, a)
    /\ InsertDocument(handler[h].src, a, handler[h].rev)
    /\ review' = [review EXCEPT ![handler[h].rev].state = "approved"]
    /\ Finish(h)
    /\ UNCHANGED source

CommitRejection(h) ==
    /\ At(h, "reject")
    /\ review' = [review EXCEPT ![handler[h].rev].state = "rejected"]
    /\ Finish(h)
    /\ UNCHANGED <<source, document, asset>>

-----------------------------------------------------------------------------
(* What else happens to a request, to assets and to documents.             *)

(* The process crashes, the client leaves, a statement fails, an index or  *)
(* a foreign key refuses the commit, the extraction fails: the transaction *)
(* under way is rolled back, what was committed before it stays.           *)
Abort(h) ==
    /\ ~At(h, "idle")
    /\ Finish(h)
    /\ UNCHANGED <<source, document, asset, review>>

(* The asset lifecycle, one transaction per action.                        *)
SoftDelete(a) ==
    /\ IsLive(asset, a)
    /\ asset' = [asset EXCEPT ![a].state = "deleted"]
    /\ UNCHANGED <<source, document, review, handler>>

Restore(a) ==
    /\ asset[a] # NoVal /\ asset[a].state = "deleted"
    /\ SerialIndexAllows(asset, a, [asset[a] EXCEPT !.state = "live"])
    /\ asset' = [asset EXCEPT ![a].state = "live"]
    /\ UNCHANGED <<source, document, review, handler>>

(* Purge: the assets past the retention window are listed, which no clock  *)
(* here tells from the other deleted ones, and then the documents of each. *)
ListExpired(p, S) ==
    /\ purge[p] = NoPurge
    /\ S # {} /\ Cardinality(S) <= MaxPurged
    /\ \A a \in S : asset[a] # NoVal /\ asset[a].state = "deleted"
    /\ purge' = [purge EXCEPT ![p] = [NoPurge EXCEPT !.assets = S, !.left = S]]
    /\ UNCHANGED <<source, document, asset, review, handler>>

ListAttached(p, a) ==
    /\ a \in purge[p].left
    /\ purge' = [purge EXCEPT ![p].left = @ \ {a},
          ![p].docs = @ \cup {s \in SourceIds : document[s] # NoVal /\ document[s].asset = a}]
    /\ UNCHANGED <<source, document, asset, review, handler>>

(* The listed documents are detached by id, wherever they lead by now, and *)
(* the rows deleted, restored meanwhile or not; a link made since the list *)
(* is cleared by the foreign key, ON DELETE SET NULL.                      *)
Detached(p, cleared) ==
    [s \in SourceIds |->
        IF document[s] # NoVal /\ (s \in purge[p].docs \/ document[s].asset \in cleared)
        THEN [document[s] EXCEPT !.asset = NoVal] ELSE document[s]]

PurgedRows(S) == [a \in AssetIds |-> IF a \in S THEN Tombstone ELSE asset[a]]

(* A mutant: no foreign key clears what was linked after the list.         *)
PurgeListedDocuments(p) ==
    /\ purge[p] # NoPurge /\ purge[p].left = {}
    /\ document' = Detached(p, {})
    /\ asset' = PurgedRows({a \in purge[p].assets : Stored(asset, a)})
    /\ purge' = [purge EXCEPT ![p] = NoPurge]
    /\ UNCHANGED <<source, review, handler>>

PurgeExpired(p) ==
    LET purged == {a \in purge[p].assets : Stored(asset, a)}
    IN  /\ purge[p] # NoPurge /\ purge[p].left = {}
        /\ document' = Detached(p, purged)
        /\ asset' = PurgedRows(purged)
        /\ purge' = [purge EXCEPT ![p] = NoPurge]
        /\ UNCHANGED <<source, review, handler>>

AbortPurge(p) ==
    /\ purge[p] # NoPurge
    /\ purge' = [purge EXCEPT ![p] = NoPurge]
    /\ UNCHANGED <<source, document, asset, review, handler>>

(* The document is hidden and detached; its source stays taken.            *)
DeleteDocument(s) ==
    /\ document[s] # NoVal /\ ~document[s].deleted
    /\ document' = [document EXCEPT ![s].deleted = TRUE, ![s].asset = NoVal]
    /\ UNCHANGED <<source, asset, review, handler>>

Upload(h)    == \E c \in Contents : UploadDocument(h, c) \/ UploadDuplicate(h, c)
Pipeline(h)  == \/ \E e \in Extractions, confMet \in BOOLEAN : Extract(h, e, confMet)
                \/ \E a \in AssetIds : CommitProcess(h, a) \/ CommitReprocess(h, a)
                \/ MatchAsset(h) \/ LoadTarget(h) \/ FetchPayload(h) \/ HoldForReview(h)
Reprocess(h) == \/ \E s \in SourceIds : ReprocessDocument(h, s)
                \/ WriteDirective(h) \/ RelinkDocument(h)
Decide(h)    == \/ \E r \in ReviewIds : LoadForApprove(h, r) \/ LoadForReject(h, r)
                \/ \E a \in AssetIds : CommitApproval(h, a)
                \/ CommitRejection(h)

PipelineNext ==
    \/ \E h \in Handlers :
          \/ Upload(h) \/ StoreSource(h) \/ CreatePendingDocument(h)
          \/ Reprocess(h) \/ Pipeline(h) \/ Decide(h) \/ Abort(h)
    \/ \E a \in AssetIds : SoftDelete(a) \/ Restore(a)
    \/ \E s \in SourceIds : DeleteDocument(s)

Next ==
    \/ PipelineNext /\ UNCHANGED purge
    \/ \E p \in Purgers :
          \/ \E S \in SUBSET AssetIds : ListExpired(p, S)
          \/ \E a \in AssetIds : ListAttached(p, a)
          \/ PurgeExpired(p) \/ AbortPurge(p)

Spec == Init /\ [][Next]_vars

-----------------------------------------------------------------------------
(* Properties.                                                             *)

(* What a request has in memory at each point: what the next step uses is  *)
(* there, the document a reprocess works on and the review a decision is   *)
(* about still exist.                                                      *)
RequestOK(q, documents, reviews) ==
    /\ q.pc \in {"store", "storedup"} => q.content \in Contents
    /\ q.pc = "store" => q.op = "process"
    /\ q.pc = "storedup" => q.op = "duplicate"
    /\ q.pc \in {"extract", "match", "hold"} => q.op \in {"process", "reprocess"}
    /\ q.pc \in {"directive", "relink"} => q.op = "reprocess"
    /\ q.pc \notin {"idle", "store", "storedup", "reject"} => q.src \in SourceIds
    /\ q.pc \in {"match", "load", "hold"} => q.ext \in Candidates
    /\ q.pc \in {"load", "fetch", "relink"} => q.target \in AssetIds
    /\ q.pc \in {"fetch", "write"} => q.row \in StoredRow
    /\ q.pc # "idle" /\ q.op = "reprocess" =>
          q.src \in SourceIds /\ documents[q.src] # NoVal
    /\ q.pc # "idle" /\ q.op \in {"approve", "reject"} =>
          q.rev \in ReviewIds /\ reviews[q.rev] # NoVal
    /\ q.pc # "idle" /\ q.op = "approve" => q.src = reviews[q.rev].src
    /\ q.pc = "reject" => q.op = "reject"

TablesOK ==
    /\ source   \in [SourceIds -> Contents \cup {NoVal}]
    /\ document \in [SourceIds -> Document \cup {NoVal}]
    /\ asset    \in [AssetIds -> AssetRow \cup {NoVal}]
    /\ review   \in [ReviewIds -> Review \cup {NoVal}]
    /\ handler  \in [Handlers -> Handler]
    /\ \A h \in Handlers : RequestOK(handler[h], document, review)

(* Every variable keeps its type, and every request has in memory what its *)
(* next step uses: keys that exist and rows the codec can produce.         *)
TypeOK == TablesOK /\ purge \in [Purgers -> Purge]

(* At most one live asset of an owner has a given serial, whatever uploads, *)
(* approvals and restores commit concurrently: the code's lookups only see  *)
(* what was committed, the index behind WriteAsset and Restore decides.     *)
LiveSerialUnique ==
    \A a, b \in AssetIds :
        /\ a # b
        /\ IsLive(asset, a) /\ IsLive(asset, b)
        /\ asset[a].serial # NoVal
        => asset[a].serial # asset[b].serial

(* A review is approved only by the commit that wrote its document: with   *)
(* two approvals racing, or another document taking the source, no review  *)
(* is left approved without the document it stands for (Approve is         *)
(* all-or-nothing).                                                        *)
ApprovedReviewHasItsDocument ==
    \A r \in ReviewIds :
        review[r] # NoVal /\ review[r].state = "approved" =>
            /\ document[review[r].src] # NoVal
            /\ document[review[r].src].by = r

(* An upload has one outcome: Process commits a document or holds the      *)
(* extraction, never both and neither twice, although a commit that finds  *)
(* an ambiguous match falls through to the hold path.                      *)
UploadReviews(s) ==
    {r \in ReviewIds : review[r] # NoVal /\ review[r].src = s /\ review[r].from = "process"}

OneOutcomePerUpload ==
    \A s \in SourceIds :
        /\ Cardinality(UploadReviews(s)) <= 1
        /\ document[s] # NoVal /\ document[s].by = "process" => UploadReviews(s) = {}

(* A document never points at a row that is gone: the asset of a document  *)
(* is stored, through purges that race a relink, a duplicate's pending     *)
(* document or an approval: the purge detaches, the foreign key refuses    *)
(* what comes later, and it holds for hidden documents as for shown ones.  *)
DocumentTargetsExist ==
    \A s \in SourceIds :
        document[s] # NoVal /\ document[s].asset # NoVal =>
            Stored(asset, document[s].asset)

(* A soft-deleted asset becomes live again through Restore alone: no merge *)
(* that loaded it live, before the deletion, brings it back.               *)
OnlyRestoreUndeletes ==
    [][\A a \in AssetIds :
          asset[a] # NoVal /\ ~IsLive(asset, a) /\ IsLive(asset', a) => Restore(a)]_vars

(* An approval lands on the asset the reviewer was shown: as long as the   *)
(* best match of the review is stored when the approval commits, deleted   *)
(* or restored meanwhile or not, the new document belongs to it, and no    *)
(* second asset is made beside it (CommitCandidate).                       *)
ApprovalKeepsItsMatch ==
    [][\A r \in ReviewIds :
          /\ IsPending(r) /\ review'[r].state = "approved"
          /\ review[r].best # NoVal /\ Stored(asset, review[r].best)
          => document'[review[r].src].asset = review[r].best]_vars

(* Outside a reprocess an asset appears only in a commit that also gives a *)
(* new document of the same request to it: a request that dies half way    *)
(* leaves no asset without a document behind.                              *)
AssetsAppearWithTheirDocument ==
    [][\A a \in AssetIds :
          asset[a] = NoVal /\ asset'[a] # NoVal =>
             \/ \E s \in SourceIds :
                   document[s] = NoVal /\ document'[s] # NoVal /\ document'[s].asset = a
             \/ \E h \in Handlers : handler[h].op = "reprocess" /\ handler'[h].pc = "relink"]_vars

(* The claim of review.Service.Approve's comment: the pending-only guard   *)
(* prevents double decisions and races between Approve and Reject.         *)
DecisionIsFinal ==
    [][\A r \in ReviewIds :
          review[r] # NoVal /\ review[r].state # "pending" => review'[r] = review[r]]_vars

(* The review queue's premise: what is pending can still be approved, so   *)
(* the source of a pending review has no document yet.                     *)
PendingReviewIsApprovable ==
    \A r \in ReviewIds : IsPending(r) => document[review[r].src] = NoVal

=============================================================================

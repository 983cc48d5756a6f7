---------------------------- MODULE IngestProofs ----------------------------
(***************************************************************************)
(* Proofs about module Ingest, for any handlers, purges, contents, keys,   *)
(* extractions and candidate limits.  TablesOK is inductive as it stands:  *)
(* it says of every request that what its next step uses is in its memory. *)
(* The other invariants are inductive relative to it.  Then what becomes   *)
(* of an upload and of an approval, for any requests beside them, and that *)
(* the pipeline implements the asset register.                             *)
(***************************************************************************)
EXTENDS IngestRegister, WellFoundedInduction, FiniteSetTheorems, TLAPS

(* What the requests, the assets and the documents are; the lists a purge  *)
(* makes before its commit change none of it.                              *)
tables == <<source, document, asset, review, handler>>

LEMMA NextCases ==
    ASSUME [Next]_vars
    PROVE  PipelineNext \/ (\E p \in Purgers : PurgeExpired(p)) \/ UNCHANGED tables
BY DEF Next, ListExpired, ListAttached, AbortPurge, vars, tables

-----------------------------------------------------------------------------
(* The least key of a set exists: ORDER BY id LIMIT 1 of a nonempty result *)
(* is one of its rows.                                                     *)
LEMMA SetMinIsLeast ==
    ASSUME NEW S, S \subseteq Nat, S # {}
    PROVE  /\ SetMin(S) \in S
           /\ \A y \in S : SetMin(S) <= y
<1> DEFINE R == {ss \in Nat \X Nat : ss[1] < ss[2]}
<1>1. PICK x \in S : \A y \in S : <<y, x>> \notin R
  <2>1. IsWellFoundedOn(R, Nat)
    BY NatLessThanWellFounded DEF OpToRel
  <2> HIDE DEF R
  <2> QED BY <2>1, WFMin
<1>2. \A y \in S : x <= y
  <2> SUFFICES ASSUME NEW y \in S PROVE x <= y
    OBVIOUS
  <2>1. ~(y < x)
    BY <1>1
  <2> QED BY <2>1
<1> QED BY <1>2 DEF SetMin

(* The lookup names a stored live asset when it says merge, and an asset   *)
(* or none otherwise.                                                      *)
LEMMA StageOutcomeType ==
    ASSUME NEW rows, NEW i, NEW C, C \subseteq AssetIds
    PROVE  LET m == StageOutcome(rows, i, C)
           IN  /\ m.kind = "merge" => m.asset \in C /\ IsLive(rows, m.asset)
               /\ m.asset \in AssetIds \cup {NoVal}
               /\ m.kind \in {"softdeleted", "merge", "ambiguous"}
<1> DEFINE active == {a \in C : IsLive(rows, a)}
<1>1. CASE active = {}
  BY <1>1 DEF StageOutcome
<1>2. CASE active # {}
  <2>1. active \subseteq Nat
    BY IdentityAssumption DEF IdentityAssumption
  <2>2. SetMin(active) \in active
    BY <1>2, <2>1, SetMinIsLeast
  <2> QED BY <1>2, <2>2 DEF StageOutcome
<1> QED BY <1>1, <1>2

LEMMA MatchType ==
    ASSUME NEW rows, NEW ext, NEW limit
    PROVE  LET m == matchExtraction(rows, ext, limit)
           IN  /\ m.kind = "merge" => m.asset \in AssetIds /\ IsLive(rows, m.asset)
               /\ m.asset \in AssetIds \cup {NoVal}
<1> DEFINE id  == normIdentity(ext)
           C(i) == StageCandidates(rows, id, LookupStages[i], limit)
<1>1. \A i : C(i) \subseteq AssetIds
  BY DEF StageCandidates, StageHits
<1>2. \A i : LET m == StageOutcome(rows, i, C(i))
             IN  /\ m.kind = "merge" => m.asset \in AssetIds /\ IsLive(rows, m.asset)
                 /\ m.asset \in AssetIds \cup {NoVal}
  BY <1>1, StageOutcomeType
<1> HIDE DEF C
<1>3. \/ matchExtraction(rows, ext, limit) = [kind |-> "noidentity", asset |-> NoVal]
      \/ matchExtraction(rows, ext, limit) = [kind |-> "unresolved", asset |-> NoVal]
      \/ \E i : matchExtraction(rows, ext, limit) = StageOutcome(rows, i, C(i))
  BY DEF matchExtraction, C
<1> QED BY <1>2, <1>3

-----------------------------------------------------------------------------
(* A key is purged, or its row is one the codec can store.                 *)
LEMMA StoredType ==
    ASSUME TablesOK, NEW a \in AssetIds
    PROVE  /\ Stored(asset, a) <=> asset[a] # NoVal /\ asset[a] \in StoredRow
           /\ asset[a] # NoVal /\ ~Stored(asset, a) => asset[a] = Tombstone
BY DEF TablesOK, AssetRow, StoredRow, Tombstone, Stored

(* The rows that resolution builds are rows the codec can store.           *)
LEMMA NewAssetType ==
    ASSUME NEW ext \in Candidates
    PROVE  newAsset(ext) \in StoredRow
BY DEF newAsset, Candidates, StoredRow

LEMMA MergeType ==
    ASSUME NEW loaded \in StoredRow, NEW ext \in Candidates
    PROVE  mergeInto(loaded, ext) \in StoredRow
<1>1. DOMAIN loaded = {"serial", "brand", "model", "name", "state"}
  BY DEF StoredRow
<1> QED BY <1>1 DEF mergeInto, Candidates, StoredRow, IdentityFields

LEMMA OverlayType ==
    ASSUME NEW stored \in StoredRow, NEW entity \in StoredRow
    PROVE  OverlayPayload(stored, entity) \in StoredRow
<1>1. DOMAIN entity = {"serial", "brand", "model", "name", "state"}
  BY DEF StoredRow
<1> QED BY <1>1 DEF OverlayPayload, StoredRow, IdentityFields

LEMMA UpdatedType ==
    ASSUME NEW stored \in StoredRow, NEW entity \in StoredRow
    PROVE  /\ UpdatedRow(stored, entity) \in StoredRow
           /\ UpdatedRow(stored, entity).state \in {"deleted", stored.state}
BY DEF UpdatedRow, StoredRow

LEMMA CandidateType ==
    ASSUME NEW ext \in Candidates
    PROVE  candidateFields(ext) \in Candidates
BY DEF candidateFields, Candidates, Values

(* A document that is detached stays the document it was.                  *)
LEMMA DetachedType ==
    ASSUME NEW d \in Document
    PROVE  LET e == [d EXCEPT !.asset = NoVal]
           IN  /\ e \in Document /\ e # NoVal
               /\ e.asset = NoVal /\ e.by = d.by
<1> DEFINE e == [d EXCEPT !.asset = NoVal]
<1>1. e \in Document /\ e.asset = NoVal /\ e.by = d.by
  BY DEF Document
<1> QED BY <1>1, IngestAssumption DEF IngestAssumption

(* What a purge commits: the rows it listed become tombstones, those that  *)
(* are still stored; a document keeps its asset, one that is not purged,   *)
(* or is detached.                                                         *)
Purged(p) == {a \in AssetIds : a \in purge[p].assets /\ Stored(asset, a)}

LEMMA PurgeFacts ==
    ASSUME TablesOK, NEW p \in Purgers, PurgeExpired(p)
    PROVE  /\ UNCHANGED <<source, review, handler>>
           /\ asset' = [a \in AssetIds |-> IF a \in Purged(p) THEN Tombstone ELSE asset[a]]
           /\ document' \in [SourceIds -> Document \cup {NoVal}]
           /\ \A s \in SourceIds :
                 \/ document'[s] = document[s]
                    /\ (document[s] # NoVal => document[s].asset \notin Purged(p))
                 \/ /\ document[s] # NoVal /\ document'[s] # NoVal
                    /\ document'[s].asset = NoVal /\ document'[s].by = document[s].by
<1>1. UNCHANGED <<source, review, handler>>
  BY DEF PurgeExpired
<1>2. asset' = [a \in AssetIds |-> IF a \in Purged(p) THEN Tombstone ELSE asset[a]]
  BY DEF PurgeExpired, PurgedRows, Purged
<1>3. ASSUME NEW s \in SourceIds
      PROVE  /\ document'[s] \in Document \cup {NoVal}
             /\ \/ document'[s] = document[s]
                   /\ (document[s] # NoVal => document[s].asset \notin Purged(p))
                \/ /\ document[s] # NoVal /\ document'[s] # NoVal
                   /\ document'[s].asset = NoVal /\ document'[s].by = document[s].by
  <2>1. document[s] \in Document \cup {NoVal}
    BY DEF TablesOK
  <2>2. CASE document[s] = NoVal
    BY <2>1, <2>2 DEF PurgeExpired, Detached
  <2>3. CASE document[s] # NoVal /\ document'[s] = [document[s] EXCEPT !.asset = NoVal]
    BY <2>1, <2>3, DetachedType
  <2>4. CASE /\ document[s] # NoVal /\ document'[s] = document[s]
             /\ document[s].asset \notin Purged(p)
    BY <2>1, <2>4
  <2> QED BY <2>2, <2>3, <2>4 DEF PurgeExpired, Detached, Purged
<1>4. document' \in [SourceIds -> Document \cup {NoVal}]
  BY <1>3 DEF PurgeExpired, Detached
<1> QED BY <1>1, <1>2, <1>3, <1>4

-----------------------------------------------------------------------------
(* Type correctness.  A step replaces the memory of at most one request;   *)
(* the memories of the others stay well formed because no step removes a   *)
(* document or a review, or moves a review to another source.              *)
LEMMA RequestStep ==
    ASSUME TablesOK,
           NEW docs, NEW revs, NEW h \in Handlers, NEW q \in Handler,
           RequestOK(q, docs, revs),
           \A s \in SourceIds : document[s] # NoVal => docs[s] # NoVal,
           \A r \in ReviewIds :
              review[r] # NoVal => revs[r] # NoVal /\ revs[r].src = review[r].src
    PROVE  LET next == [handler EXCEPT ![h] = q]
           IN  /\ next \in [Handlers -> Handler]
               /\ \A g \in Handlers : RequestOK(next[g], docs, revs)
<1>1. \A g \in Handlers : RequestOK(handler[g], document, review)
  BY DEF TablesOK
<1>2. \A g \in Handlers : RequestOK(handler[g], docs, revs)
  BY <1>1 DEF RequestOK
<1> QED BY <1>2 DEF TablesOK

LEMMA OthersStep ==
    ASSUME TablesOK, NEW docs,
           \A s \in SourceIds : document[s] # NoVal => docs[s] # NoVal
    PROVE  \A g \in Handlers : RequestOK(handler[g], docs, review)
BY DEF TablesOK, RequestOK

LEMMA IdleOK ==
    ASSUME NEW docs, NEW revs
    PROVE  Idle \in Handler /\ RequestOK(Idle, docs, revs)
BY DEF Idle, Handler, RequestOK

(* The steps that change a request's memory and nothing else.              *)
LEMMA MemoryStep ==
    ASSUME TablesOK, NEW h \in Handlers, NEW q \in Handler,
           RequestOK(q, document, review), Continue(h, q),
           UNCHANGED <<source, document, asset, review>>
    PROVE  TablesOK'
<1>1. /\ [handler EXCEPT ![h] = q] \in [Handlers -> Handler]
      /\ \A g \in Handlers : RequestOK([handler EXCEPT ![h] = q][g], document, review)
  BY RequestStep
<1> QED BY <1>1 DEF TablesOK, Continue

LEMMA FinishStep ==
    ASSUME TablesOK, NEW h \in Handlers, Finish(h),
           UNCHANGED <<source, document, asset, review>>
    PROVE  TablesOK'
<1>1. Idle \in Handler /\ RequestOK(Idle, document, review)
  BY IdleOK
<1> QED BY <1>1, MemoryStep DEF Finish, Continue

-----------------------------------------------------------------------------
(* What TablesOK says of the request that takes a step.                    *)
LEMMA RequestFacts ==
    ASSUME TablesOK, NEW h \in Handlers
    PROVE  /\ handler[h] \in Handler
           /\ RequestOK(handler[h], document, review)
BY DEF TablesOK

LEMMA UploadDocumentType ==
    ASSUME TablesOK, NEW h \in Handlers, NEW c \in Contents, UploadDocument(h, c)
    PROVE  TablesOK'
<1> DEFINE q == [Idle EXCEPT !.pc = "store", !.op = "process", !.content = c]
<1>1. q \in Handler /\ RequestOK(q, document, review)
  BY DEF Idle, Handler, RequestOK
<1> QED BY <1>1, MemoryStep DEF UploadDocument

LEMMA UploadDuplicateType ==
    ASSUME TablesOK, NEW h \in Handlers, NEW c \in Contents, UploadDuplicate(h, c)
    PROVE  TablesOK'
<1> DEFINE q == [Idle EXCEPT !.pc = "storedup", !.op = "duplicate", !.content = c,
                             !.target = DuplicateAsset(c)]
<1>1. SetMin(SourcesWith(c)) \in SourceIds
  <2>1. SourcesWith(c) # {} /\ SourcesWith(c) \subseteq SourceIds
    BY DEF UploadDuplicate, SourcesWith
  <2>2. SourcesWith(c) \subseteq Nat
    BY <2>1, IngestAssumption DEF IngestAssumption
  <2> QED BY <2>1, <2>2, SetMinIsLeast
<1>2. DuplicateAsset(c) \in AssetIds \cup {NoVal}
  BY <1>1 DEF DuplicateAsset, TablesOK, Document
<1>3. q \in Handler /\ RequestOK(q, document, review)
  BY <1>2 DEF Idle, Handler, RequestOK
<1> QED BY <1>3, MemoryStep DEF UploadDuplicate

LEMMA StoreSourceType ==
    ASSUME TablesOK, NEW h \in Handlers, StoreSource(h)
    PROVE  TablesOK'
<1> DEFINE pc == IF handler[h].pc = "store" THEN "extract" ELSE "pendingdoc"
           q(s) == [handler[h] EXCEPT !.pc = pc, !.content = NoVal, !.src = s]
<1>1. PICK s \in SourceIds :
        /\ source' = [source EXCEPT ![s] = handler[h].content]
        /\ Continue(h, q(s))
  BY RequestFacts DEF StoreSource, Continue, Handler
<1>2. /\ handler[h].content \in Contents
      /\ \/ pc = "extract" /\ handler[h].op = "process"
         \/ pc = "pendingdoc" /\ handler[h].op = "duplicate"
  BY RequestFacts DEF StoreSource, RequestOK
<1> HIDE DEF pc
<1>3. q(s) \in Handler /\ RequestOK(q(s), document, review)
  BY <1>2, RequestFacts DEF Handler, RequestOK
<1>4. /\ [handler EXCEPT ![h] = q(s)] \in [Handlers -> Handler]
      /\ \A g \in Handlers : RequestOK([handler EXCEPT ![h] = q(s)][g], document, review)
  BY <1>3, RequestStep
<1> HIDE DEF q
<1> QED BY <1>1, <1>2, <1>4 DEF StoreSource, TablesOK, Continue

LEMMA CreatePendingDocumentType ==
    ASSUME TablesOK, NEW h \in Handlers, CreatePendingDocument(h)
    PROVE  TablesOK'
<1> DEFINE s == handler[h].src
           d == [asset |-> handler[h].target, by |-> "duplicate", deleted |-> FALSE]
<1>1. s \in SourceIds /\ d \in Document
  BY RequestFacts DEF CreatePendingDocument, At, RequestOK, Handler, Document
<1>2. d # NoVal
  BY <1>1, IngestAssumption DEF IngestAssumption
<1>3. document' = [document EXCEPT ![s] = d]
  BY DEF CreatePendingDocument
<1> HIDE DEF d
<1>4. /\ document' \in [SourceIds -> Document \cup {NoVal}]
      /\ \A t \in SourceIds : document[t] # NoVal => document'[t] # NoVal
  BY <1>1, <1>2, <1>3 DEF TablesOK
<1>5. /\ [handler EXCEPT ![h] = Idle] \in [Handlers -> Handler]
      /\ \A g \in Handlers : RequestOK([handler EXCEPT ![h] = Idle][g], document', review)
  BY <1>4, IdleOK, RequestStep
<1> QED BY <1>4, <1>5 DEF CreatePendingDocument, TablesOK, Finish

-----------------------------------------------------------------------------

LEMMA ReprocessDocumentType ==
    ASSUME TablesOK, NEW h \in Handlers, NEW s \in SourceIds, ReprocessDocument(h, s)
    PROVE  TablesOK'
<1> DEFINE q == [Idle EXCEPT !.pc = "directive", !.op = "reprocess", !.src = s,
                             !.target = document[s].asset]
<1>1. document[s] # NoVal /\ document[s].asset \in AssetIds \cup {NoVal}
  BY DEF ReprocessDocument, TablesOK, Document
<1>2. q \in Handler /\ RequestOK(q, document, review)
  BY <1>1 DEF Idle, Handler, RequestOK
<1> QED BY <1>2, MemoryStep DEF ReprocessDocument

(* A write to an existing document leaves a document.                      *)
LEMMA DocumentWrite ==
    ASSUME TablesOK, NEW s \in SourceIds, document[s] # NoVal,
           NEW a \in AssetIds \cup {NoVal}, NEW del \in BOOLEAN,
           document' = [document EXCEPT ![s] = [document[s] EXCEPT !.asset = a, !.deleted = del]]
    PROVE  /\ document' \in [SourceIds -> Document \cup {NoVal}]
           /\ \A t \in SourceIds : document[t] # NoVal => document'[t] # NoVal
<1> DEFINE d == [document[s] EXCEPT !.asset = a, !.deleted = del]
<1>1. d \in Document
  BY DEF TablesOK, Document
<1>2. d # NoVal
  BY <1>1, IngestAssumption DEF IngestAssumption
<1> HIDE DEF d
<1> QED BY <1>1, <1>2 DEF TablesOK, d

(* Reprocess saves a document that is still there, with another asset.     *)
LEMMA ReprocessSave ==
    ASSUME TablesOK, NEW h \in Handlers, WriteDirective(h) \/ RelinkDocument(h)
    PROVE  /\ handler[h].src \in SourceIds /\ document[handler[h].src] # NoVal
           /\ \E a \in AssetIds \cup {NoVal} :
                 document' = [document EXCEPT ![handler[h].src] =
                    [document[handler[h].src] EXCEPT
                        !.asset = a, !.deleted = document[handler[h].src].deleted]]
<1> DEFINE s == handler[h].src
           a == handler[h].target
<1>1. s \in SourceIds /\ document[s] # NoVal
  BY RequestFacts DEF WriteDirective, RelinkDocument, At, RequestOK
<1>2. a \in AssetIds \cup {NoVal} /\ document[s] \in Document
  BY <1>1, RequestFacts DEF TablesOK, Handler
<1>3. CASE WriteDirective(h)
  <2> DEFINE b == IF a = NoVal THEN document[s].asset ELSE a
  <2>1. b \in AssetIds \cup {NoVal}
    BY <1>2 DEF Document
  <2>2. document' = [document EXCEPT ![s] =
                        [document[s] EXCEPT !.asset = b, !.deleted = document[s].deleted]]
    BY <1>1, <1>2, <1>3 DEF WriteDirective, Document, TablesOK
  <2> QED BY <1>1, <2>1, <2>2
<1>4. CASE RelinkDocument(h)
  <2>1. document' = [document EXCEPT ![s] =
                        [document[s] EXCEPT !.asset = a, !.deleted = document[s].deleted]]
    BY <1>1, <1>2, <1>4 DEF RelinkDocument, Document, TablesOK
  <2> QED BY <1>1, <1>2, <2>1
<1> QED BY <1>3, <1>4

LEMMA ReprocessSaveType ==
    ASSUME TablesOK, NEW h \in Handlers, WriteDirective(h) \/ RelinkDocument(h)
    PROVE  /\ document' \in [SourceIds -> Document \cup {NoVal}]
           /\ \A t \in SourceIds : document[t] # NoVal => document'[t] # NoVal
<1> DEFINE s == handler[h].src
           del == document[s].deleted
<1>1. s \in SourceIds /\ document[s] # NoVal
  BY ReprocessSave
<1>2. del \in BOOLEAN
  BY <1>1 DEF TablesOK, Document
<1>3. PICK a \in AssetIds \cup {NoVal} :
         document' = [document EXCEPT ![s] = [document[s] EXCEPT !.asset = a, !.deleted = del]]
  BY ReprocessSave
<1> HIDE DEF s, del
<1> QED BY <1>1, <1>2, <1>3, DocumentWrite

LEMMA WriteDirectiveType ==
    ASSUME TablesOK, NEW h \in Handlers, WriteDirective(h)
    PROVE  TablesOK'
<1> DEFINE q == [handler[h] EXCEPT !.pc = "extract", !.target = NoVal]
<1>1. /\ document' \in [SourceIds -> Document \cup {NoVal}]
      /\ \A t \in SourceIds : document[t] # NoVal => document'[t] # NoVal
  BY ReprocessSaveType
<1>2. q \in Handler /\ RequestOK(q, document', review)
  BY <1>1, RequestFacts DEF WriteDirective, At, Handler, RequestOK
<1>3. /\ [handler EXCEPT ![h] = q] \in [Handlers -> Handler]
      /\ \A g \in Handlers : RequestOK([handler EXCEPT ![h] = q][g], document', review)
  BY <1>1, <1>2, RequestStep
<1> QED BY <1>1, <1>3 DEF WriteDirective, TablesOK, Continue

LEMMA RelinkDocumentType ==
    ASSUME TablesOK, NEW h \in Handlers, RelinkDocument(h)
    PROVE  TablesOK'
<1>1. /\ document' \in [SourceIds -> Document \cup {NoVal}]
      /\ \A t \in SourceIds : document[t] # NoVal => document'[t] # NoVal
  BY ReprocessSaveType
<1>2. /\ [handler EXCEPT ![h] = Idle] \in [Handlers -> Handler]
      /\ \A g \in Handlers : RequestOK([handler EXCEPT ![h] = Idle][g], document', review)
  BY <1>1, IdleOK, RequestStep
<1> QED BY <1>1, <1>2 DEF RelinkDocument, TablesOK, Finish

-----------------------------------------------------------------------------

LEMMA ExtractType ==
    ASSUME TablesOK, NEW h \in Handlers, NEW e \in Extractions, NEW confMet \in BOOLEAN,
           Extract(h, e, confMet)
    PROVE  TablesOK'
<1> DEFINE q == [handler[h] EXCEPT !.pc = IF confMet THEN "match" ELSE "hold", !.ext = e]
<1>1. e \in Candidates
  BY IngestAssumption DEF IngestAssumption
<1>2. q \in Handler /\ RequestOK(q, document, review)
  BY <1>1, RequestFacts DEF Extract, At, Handler, RequestOK
<1> QED BY <1>2, MemoryStep DEF Extract

LEMMA MatchAssetType ==
    ASSUME TablesOK, NEW h \in Handlers, MatchAsset(h)
    PROVE  TablesOK'
<1> DEFINE m == matchExtraction(asset, handler[h].ext, CandidateLimit)
           toLoad  == [handler[h] EXCEPT !.pc = "load", !.target = m.asset]
           toWrite == [handler[h] EXCEPT !.pc = "write", !.ext = NoVal,
                                         !.row = newAsset(handler[h].ext)]
           toHold  == [handler[h] EXCEPT !.pc = "hold"]
<1>1. handler[h].ext \in Candidates
  BY RequestFacts DEF MatchAsset, At, RequestOK
<1>2. m.kind = "merge" => m.asset \in AssetIds
  BY MatchType
<1>3. newAsset(handler[h].ext) \in StoredRow
  BY <1>1, NewAssetType
<1> HIDE DEF m
<1>4. m.kind = "merge" => toLoad \in Handler /\ RequestOK(toLoad, document, review)
  BY <1>1, <1>2, RequestFacts DEF MatchAsset, At, Handler, RequestOK
<1>5. toWrite \in Handler /\ RequestOK(toWrite, document, review)
  BY <1>3, RequestFacts DEF MatchAsset, At, Handler, RequestOK
<1>6. toHold \in Handler /\ RequestOK(toHold, document, review)
  BY <1>1, RequestFacts DEF MatchAsset, At, Handler, RequestOK
<1>7. \/ Finish(h)
      \/ m.kind = "merge" /\ Continue(h, toLoad)
      \/ Continue(h, toWrite)
      \/ Continue(h, toHold)
  BY DEF MatchAsset, m
<1>8. UNCHANGED <<source, document, asset, review>>
  BY DEF MatchAsset
<1> HIDE DEF toLoad, toWrite, toHold
<1> QED BY <1>4, <1>5, <1>6, <1>7, <1>8, FinishStep, MemoryStep

LEMMA LoadTargetType ==
    ASSUME TablesOK, NEW h \in Handlers, LoadTarget(h)
    PROVE  TablesOK'
<1> DEFINE a == handler[h].target
           toFetch == [handler[h] EXCEPT !.pc = "fetch", !.ext = NoVal,
                                         !.row = mergeInto(asset[a], handler[h].ext)]
           toWrite == [handler[h] EXCEPT !.pc = "write", !.ext = NoVal, !.target = NoVal,
                                         !.row = newAsset(handler[h].ext)]
<1>1. handler[h].ext \in Candidates /\ a \in AssetIds
  BY RequestFacts DEF LoadTarget, At, RequestOK
<1>2. CASE Stored(asset, a)
  <2>1. mergeInto(asset[a], handler[h].ext) \in StoredRow
    BY <1>1, <1>2, MergeType, StoredType
  <2>2. toFetch \in Handler /\ RequestOK(toFetch, document, review)
    BY <1>1, <2>1, RequestFacts DEF LoadTarget, At, Handler, RequestOK
  <2> QED BY <1>2, <2>2, MemoryStep DEF LoadTarget
<1>3. CASE ~Stored(asset, a)
  <2>1. newAsset(handler[h].ext) \in StoredRow
    BY <1>1, NewAssetType
  <2>2. toWrite \in Handler /\ RequestOK(toWrite, document, review)
    BY <1>1, <2>1, RequestFacts DEF LoadTarget, At, Handler, RequestOK
  <2> QED BY <1>3, <2>2, MemoryStep DEF LoadTarget
<1> QED BY <1>2, <1>3

LEMMA FetchPayloadType ==
    ASSUME TablesOK, NEW h \in Handlers, FetchPayload(h)
    PROVE  TablesOK'
<1> DEFINE row == OverlayPayload(asset[handler[h].target], handler[h].row)
           q == [handler[h] EXCEPT !.pc = "write", !.row = row]
<1>1. handler[h].target \in AssetIds /\ handler[h].row \in StoredRow
  BY RequestFacts DEF FetchPayload, At, RequestOK
<1>2. row \in StoredRow
  BY <1>1, OverlayType, StoredType DEF FetchPayload
<1>3. Continue(h, q) /\ UNCHANGED <<source, document, asset, review>>
  BY RequestFacts DEF FetchPayload, Continue, Handler
<1> HIDE DEF row
<1>4. q \in Handler /\ RequestOK(q, document, review)
  BY <1>2, RequestFacts DEF FetchPayload, At, Handler, RequestOK
<1> QED BY <1>3, <1>4, MemoryStep

-----------------------------------------------------------------------------

(* The asset a transaction writes is stored, and live only if it was.      *)
LEMMA WriteAssetFacts ==
    ASSUME TablesOK, NEW h \in Handlers, NEW a \in AssetIds,
           At(h, "write"), WriteAsset(h, a)
    PROVE  \E row \in StoredRow :
              /\ asset' = [asset EXCEPT ![a] = row]
              /\ SerialIndexAllows(asset, a, row)
              /\ asset[a] # NoVal => row.state \in {"deleted", asset[a].state}
<1> DEFINE row == IF handler[h].target = NoVal THEN handler[h].row
                  ELSE UpdatedRow(asset[a], handler[h].row)
<1>1. handler[h].row \in StoredRow
  BY RequestFacts DEF At, RequestOK
<1>2. CASE handler[h].target = NoVal
  <2>1. asset[a] = NoVal /\ row = handler[h].row
    BY <1>2 DEF WriteAsset
  <2> QED BY <1>1, <1>2, <2>1 DEF WriteAsset
<1>3. CASE handler[h].target # NoVal
  <2>1. asset[a] \in StoredRow
    BY <1>3, StoredType DEF WriteAsset
  <2>2. row \in StoredRow /\ row.state \in {"deleted", asset[a].state}
    BY <1>1, <1>3, <2>1, UpdatedType
  <2> QED BY <2>2 DEF WriteAsset
<1> QED BY <1>2, <1>3

LEMMA WriteAssetType ==
    ASSUME TablesOK, NEW h \in Handlers, NEW a \in AssetIds,
           At(h, "write"), WriteAsset(h, a)
    PROVE  asset' \in [AssetIds -> AssetRow \cup {NoVal}]
BY WriteAssetFacts DEF TablesOK, AssetRow

LEMMA InsertDocumentType ==
    ASSUME TablesOK, NEW s \in SourceIds, NEW a \in AssetIds,
           NEW by \in {"process", "duplicate"} \cup ReviewIds, InsertDocument(s, a, by)
    PROVE  /\ document' \in [SourceIds -> Document \cup {NoVal}]
           /\ \A t \in SourceIds : document[t] # NoVal => document'[t] # NoVal
<1> DEFINE d == [asset |-> a, by |-> by, deleted |-> FALSE]
<1>1. d \in Document
  BY DEF Document
<1>2. d # NoVal
  BY <1>1, IngestAssumption DEF IngestAssumption
<1>3. document' = [document EXCEPT ![s] = d]
  BY DEF InsertDocument
<1> HIDE DEF d
<1> QED BY <1>1, <1>2, <1>3 DEF TablesOK

LEMMA CommitProcessType ==
    ASSUME TablesOK, NEW h \in Handlers, NEW a \in AssetIds, CommitProcess(h, a)
    PROVE  TablesOK'
<1>1. handler[h].src \in SourceIds
  BY RequestFacts DEF CommitProcess, At, RequestOK
<1>2. asset' \in [AssetIds -> AssetRow \cup {NoVal}]
  BY WriteAssetType DEF CommitProcess
<1>3. /\ document' \in [SourceIds -> Document \cup {NoVal}]
      /\ \A t \in SourceIds : document[t] # NoVal => document'[t] # NoVal
  BY <1>1, InsertDocumentType DEF CommitProcess
<1>4. /\ [handler EXCEPT ![h] = Idle] \in [Handlers -> Handler]
      /\ \A g \in Handlers : RequestOK([handler EXCEPT ![h] = Idle][g], document', review)
  BY <1>3, IdleOK, RequestStep
<1> QED BY <1>2, <1>3, <1>4 DEF CommitProcess, TablesOK, Finish

LEMMA CommitReprocessType ==
    ASSUME TablesOK, NEW h \in Handlers, NEW a \in AssetIds, CommitReprocess(h, a)
    PROVE  TablesOK'
<1> DEFINE q == [handler[h] EXCEPT !.pc = "relink", !.row = NoVal, !.target = a]
<1>1. asset' \in [AssetIds -> AssetRow \cup {NoVal}]
  BY WriteAssetType DEF CommitReprocess
<1>2. q \in Handler /\ RequestOK(q, document, review)
  BY RequestFacts DEF CommitReprocess, At, Handler, RequestOK
<1>3. /\ [handler EXCEPT ![h] = q] \in [Handlers -> Handler]
      /\ \A g \in Handlers : RequestOK([handler EXCEPT ![h] = q][g], document, review)
  BY <1>2, RequestStep
<1> QED BY <1>1, <1>3 DEF CommitReprocess, TablesOK, Continue

-----------------------------------------------------------------------------

LEMMA HoldForReviewType ==
    ASSUME TablesOK, NEW h \in Handlers, HoldForReview(h)
    PROVE  TablesOK'
<1> DEFINE m == matchExtraction(asset, handler[h].ext, DefaultCandidateLimit)
           rev == [src |-> handler[h].src, ext |-> candidateFields(handler[h].ext),
                   best |-> m.asset, state |-> "pending", from |-> handler[h].op]
<1>1. CASE UNCHANGED review
  BY <1>1, FinishStep DEF HoldForReview
<1>2. CASE m.kind # "noidentity"
  <2>1. PICK r \in ReviewIds : review[r] = NoVal /\ review' = [review EXCEPT ![r] = rev]
    BY <1>2 DEF HoldForReview
  <2>2. candidateFields(handler[h].ext) \in Candidates
    BY RequestFacts, CandidateType DEF HoldForReview, At, RequestOK
  <2>3. m.asset \in AssetIds \cup {NoVal}
    BY MatchType
  <2>4. handler[h].src \in SourceIds /\ handler[h].op \in {"process", "reprocess"}
    BY RequestFacts DEF HoldForReview, At, RequestOK
  <2> HIDE DEF m
  <2>5. rev \in Review
    BY <2>2, <2>3, <2>4 DEF Review
  <2>6. rev # NoVal
    BY <2>5, IngestAssumption DEF IngestAssumption
  <2> HIDE DEF rev
  <2>7. /\ review' \in [ReviewIds -> Review \cup {NoVal}]
        /\ \A t \in ReviewIds : review[t] # NoVal => review'[t] = review[t]
    BY <2>1, <2>5, <2>6 DEF TablesOK
  <2>8. /\ [handler EXCEPT ![h] = Idle] \in [Handlers -> Handler]
        /\ \A g \in Handlers : RequestOK([handler EXCEPT ![h] = Idle][g], document, review')
    BY <2>7, IdleOK, RequestStep
  <2> QED BY <2>7, <2>8 DEF HoldForReview, TablesOK, Finish
<1> QED BY <1>1, <1>2 DEF HoldForReview

LEMMA LoadForApproveType ==
    ASSUME TablesOK, NEW h \in Handlers, NEW r \in ReviewIds, LoadForApprove(h, r)
    PROVE  TablesOK'
<1> DEFINE toWrite == [Idle EXCEPT !.pc = "write", !.op = "approve", !.rev = r,
                           !.src = review[r].src, !.row = newAsset(review[r].ext)]
           toLoad  == [Idle EXCEPT !.pc = "load", !.op = "approve", !.rev = r,
                           !.src = review[r].src, !.ext = review[r].ext,
                           !.target = review[r].best]
<1>1. review[r] # NoVal /\ review[r] \in Review
  BY DEF LoadForApprove, IsPending, TablesOK
<1>2. /\ review[r].src \in SourceIds /\ review[r].ext \in Candidates
      /\ review[r].best \in AssetIds \cup {NoVal}
  BY <1>1 DEF Review
<1>3. newAsset(review[r].ext) \in StoredRow
  BY <1>2, NewAssetType
<1>4. toWrite \in Handler /\ RequestOK(toWrite, document, review)
  BY <1>1, <1>2, <1>3 DEF Idle, Handler, RequestOK
<1>5. review[r].best # NoVal => toLoad \in Handler /\ RequestOK(toLoad, document, review)
  BY <1>1, <1>2 DEF Idle, Handler, RequestOK
<1>6. \/ Continue(h, toWrite)
      \/ review[r].best # NoVal /\ Continue(h, toLoad)
  BY DEF LoadForApprove
<1>7. UNCHANGED <<source, document, asset, review>>
  BY DEF LoadForApprove
<1> HIDE DEF toLoad, toWrite
<1> QED BY <1>4, <1>5, <1>6, <1>7, MemoryStep

LEMMA LoadForRejectType ==
    ASSUME TablesOK, NEW h \in Handlers, NEW r \in ReviewIds, LoadForReject(h, r)
    PROVE  TablesOK'
<1> DEFINE q == [Idle EXCEPT !.pc = "reject", !.op = "reject", !.rev = r]
<1>1. q \in Handler /\ RequestOK(q, document, review)
  BY DEF LoadForReject, IsPending, Idle, Handler, RequestOK
<1> QED BY <1>1, MemoryStep DEF LoadForReject

(* A decision changes the state of a review that exists, nothing else.     *)
LEMMA DecisionWrite ==
    ASSUME TablesOK, NEW r \in ReviewIds, review[r] # NoVal,
           NEW st \in {"approved", "rejected"},
           review' = [review EXCEPT ![r].state = st]
    PROVE  /\ review' \in [ReviewIds -> Review \cup {NoVal}]
           /\ \A t \in ReviewIds :
                 review[t] # NoVal => review'[t] # NoVal /\ review'[t].src = review[t].src
<1> DEFINE new == [review[r] EXCEPT !.state = st]
<1>1. review[r] \in Review
  BY DEF TablesOK
<1>2. new \in Review /\ new.src = review[r].src
  BY <1>1 DEF Review
<1>3. new # NoVal
  BY <1>2, IngestAssumption DEF IngestAssumption
<1>4. review' = [review EXCEPT ![r] = new]
  BY DEF TablesOK
<1> HIDE DEF new
<1> QED BY <1>2, <1>3, <1>4 DEF TablesOK

LEMMA CommitApprovalType ==
    ASSUME TablesOK, NEW h \in Handlers, NEW a \in AssetIds, CommitApproval(h, a)
    PROVE  TablesOK'
<1> DEFINE r == handler[h].rev
<1>1. handler[h].src \in SourceIds /\ r \in ReviewIds /\ review[r] # NoVal
  BY RequestFacts DEF CommitApproval, At, RequestOK
<1>2. asset' \in [AssetIds -> AssetRow \cup {NoVal}]
  BY WriteAssetType DEF CommitApproval
<1>3. /\ document' \in [SourceIds -> Document \cup {NoVal}]
      /\ \A t \in SourceIds : document[t] # NoVal => document'[t] # NoVal
  BY <1>1, InsertDocumentType DEF CommitApproval
<1>4. /\ review' \in [ReviewIds -> Review \cup {NoVal}]
      /\ \A t \in ReviewIds :
            review[t] # NoVal => review'[t] # NoVal /\ review'[t].src = review[t].src
  BY <1>1, DecisionWrite DEF CommitApproval
<1>5. /\ [handler EXCEPT ![h] = Idle] \in [Handlers -> Handler]
      /\ \A g \in Handlers : RequestOK([handler EXCEPT ![h] = Idle][g], document', review')
  BY <1>3, <1>4, IdleOK, RequestStep
<1> QED BY <1>2, <1>3, <1>4, <1>5 DEF CommitApproval, TablesOK, Finish

LEMMA CommitRejectionType ==
    ASSUME TablesOK, NEW h \in Handlers, CommitRejection(h)
    PROVE  TablesOK'
<1> DEFINE r == handler[h].rev
<1>1. r \in ReviewIds /\ review[r] # NoVal
  BY RequestFacts DEF CommitRejection, At, RequestOK
<1>2. /\ review' \in [ReviewIds -> Review \cup {NoVal}]
      /\ \A t \in ReviewIds :
            review[t] # NoVal => review'[t] # NoVal /\ review'[t].src = review[t].src
  BY <1>1, DecisionWrite DEF CommitRejection
<1>3. /\ [handler EXCEPT ![h] = Idle] \in [Handlers -> Handler]
      /\ \A g \in Handlers : RequestOK([handler EXCEPT ![h] = Idle][g], document, review')
  BY <1>2, IdleOK, RequestStep
<1> QED BY <1>2, <1>3 DEF CommitRejection, TablesOK, Finish

-----------------------------------------------------------------------------

LEMMA AbortType ==
    ASSUME TablesOK, NEW h \in Handlers, Abort(h)
    PROVE  TablesOK'
BY FinishStep DEF Abort

LEMMA LifecycleType ==
    ASSUME TablesOK, NEW a \in AssetIds, SoftDelete(a) \/ Restore(a)
    PROVE  TablesOK'
<1>1. asset[a] \in StoredRow
  BY StoredType DEF SoftDelete, Restore, IsLive, Stored
<1>2. PICK st \in {"live", "deleted"} : asset' = [asset EXCEPT ![a].state = st]
  BY DEF SoftDelete, Restore
<1>3. [asset[a] EXCEPT !.state = st] \in AssetRow
  BY <1>1 DEF StoredRow, AssetRow
<1>4. asset' \in [AssetIds -> AssetRow \cup {NoVal}]
  BY <1>2, <1>3 DEF TablesOK
<1> QED BY <1>4 DEF SoftDelete, Restore, TablesOK

LEMMA PurgeExpiredType ==
    ASSUME TablesOK, NEW p \in Purgers, PurgeExpired(p)
    PROVE  TablesOK'
<1>1. asset' \in [AssetIds -> AssetRow \cup {NoVal}]
  BY PurgeFacts DEF AssetRow, TablesOK
<1>2. \A g \in Handlers : RequestOK(handler[g], document', review)
  BY PurgeFacts, OthersStep
<1> QED BY <1>1, <1>2, PurgeFacts DEF TablesOK

LEMMA DeleteDocumentType ==
    ASSUME TablesOK, NEW s \in SourceIds, DeleteDocument(s)
    PROVE  TablesOK'
<1>1. document[s] # NoVal /\ document[s] \in Document
  BY DEF DeleteDocument, TablesOK
<1>2. document' = [document EXCEPT ![s] =
                      [document[s] EXCEPT !.asset = NoVal, !.deleted = TRUE]]
  BY <1>1 DEF DeleteDocument, Document, TablesOK
<1>3. /\ document' \in [SourceIds -> Document \cup {NoVal}]
      /\ \A t \in SourceIds : document[t] # NoVal => document'[t] # NoVal
  BY <1>1, <1>2, DocumentWrite
<1>4. \A g \in Handlers : RequestOK(handler[g], document', review)
  BY <1>3, OthersStep
<1> QED BY <1>3, <1>4 DEF DeleteDocument, TablesOK

-----------------------------------------------------------------------------

LEMMA TypeInit == Init => TablesOK
<1> SUFFICES ASSUME Init PROVE TablesOK
  OBVIOUS
<1>1. /\ source   \in [SourceIds -> Contents \cup {NoVal}]
      /\ document \in [SourceIds -> Document \cup {NoVal}]
      /\ asset    \in [AssetIds -> AssetRow \cup {NoVal}]
      /\ review   \in [ReviewIds -> Review \cup {NoVal}]
  BY DEF Init
<1>2. /\ handler \in [Handlers -> Handler]
      /\ \A h \in Handlers : RequestOK(handler[h], document, review)
  BY IdleOK DEF Init
<1> QED BY <1>1, <1>2 DEF TablesOK

LEMMA TypeStep == TablesOK /\ [Next]_vars => TablesOK'
<1> SUFFICES ASSUME TablesOK, [Next]_vars PROVE TablesOK'
  OBVIOUS
<1>1. ASSUME NEW h \in Handlers, Upload(h) PROVE TablesOK'
  BY <1>1, UploadDocumentType, UploadDuplicateType DEF Upload
<1>2. ASSUME NEW h \in Handlers, StoreSource(h) \/ CreatePendingDocument(h) \/ Abort(h)
      PROVE TablesOK'
  BY <1>2, StoreSourceType, CreatePendingDocumentType, AbortType
<1>3. ASSUME NEW h \in Handlers, Reprocess(h) PROVE TablesOK'
  BY <1>3, ReprocessDocumentType, WriteDirectiveType, RelinkDocumentType DEF Reprocess
<1>4. ASSUME NEW h \in Handlers, Pipeline(h) PROVE TablesOK'
  BY <1>4, ExtractType, MatchAssetType, LoadTargetType, FetchPayloadType,
     CommitProcessType, CommitReprocessType, HoldForReviewType DEF Pipeline
<1>5. ASSUME NEW h \in Handlers, Decide(h) PROVE TablesOK'
  BY <1>5, LoadForApproveType, LoadForRejectType, CommitApprovalType,
     CommitRejectionType DEF Decide
<1>6. ASSUME NEW a \in AssetIds, SoftDelete(a) \/ Restore(a) PROVE TablesOK'
  BY <1>6, LifecycleType
<1>7. ASSUME NEW s \in SourceIds, DeleteDocument(s) PROVE TablesOK'
  BY <1>7, DeleteDocumentType
<1>8. ASSUME NEW p \in Purgers, PurgeExpired(p) PROVE TablesOK'
  BY <1>8, PurgeExpiredType
<1>9. CASE UNCHANGED tables
  BY <1>9 DEF tables, TablesOK
<1> QED BY <1>1, <1>2, <1>3, <1>4, <1>5, <1>6, <1>7, <1>8, <1>9, NextCases DEF PipelineNext

LEMMA TablesCorrect == Spec => []TablesOK
BY TypeInit, TypeStep, PTL DEF Spec

(* A purge's lists hold keys of assets and of documents.                   *)
LEMMA PurgeTypeStep ==
    ASSUME purge \in [Purgers -> Purge], [Next]_vars
    PROVE  purge' \in [Purgers -> Purge]
<1>1. NoPurge \in Purge
  BY DEF NoPurge, Purge
<1>2. ASSUME NEW p \in Purgers, NEW S \in SUBSET AssetIds, ListExpired(p, S)
      PROVE  purge' \in [Purgers -> Purge]
  <2>1. [NoPurge EXCEPT !.assets = S, !.left = S] \in Purge
    BY DEF NoPurge, Purge
  <2> QED BY <1>2, <2>1 DEF ListExpired
<1>3. ASSUME NEW p \in Purgers, NEW a \in AssetIds, ListAttached(p, a)
      PROVE  purge' \in [Purgers -> Purge]
  BY <1>3 DEF ListAttached, Purge
<1>4. ASSUME NEW p \in Purgers, PurgeExpired(p) \/ AbortPurge(p)
      PROVE  purge' \in [Purgers -> Purge]
  BY <1>1, <1>4 DEF PurgeExpired, AbortPurge
<1>5. CASE UNCHANGED purge
  BY <1>5
<1> QED BY <1>2, <1>3, <1>4, <1>5 DEF Next, vars

(* Every request always has in memory what its next step uses, and every   *)
(* row the tables hold is one the codecs can produce, under concurrent     *)
(* handlers, crashes between transactions, deletions and purges.           *)
THEOREM TypeCorrect == Spec => []TypeOK
<1>1. Init => TypeOK
  BY TypeInit DEF Init, TypeOK, NoPurge, Purge
<1>2. TypeOK /\ [Next]_vars => TypeOK'
  BY TypeStep, PurgeTypeStep DEF TypeOK
<1> QED BY <1>1, <1>2, PTL DEF Spec

-----------------------------------------------------------------------------
(* The assets.  Only these actions write them.                             *)
LEMMA AssetWriters ==
    ASSUME TablesOK, [Next]_vars
    PROVE  \/ UNCHANGED asset
           \/ \E h \in Handlers, a \in AssetIds : At(h, "write") /\ WriteAsset(h, a)
           \/ \E a \in AssetIds : SoftDelete(a) \/ Restore(a)
           \/ \E p \in Purgers : PurgeExpired(p)
<1>1. ASSUME NEW h \in Handlers, Upload(h) PROVE UNCHANGED asset
  BY <1>1 DEF Upload, UploadDocument, UploadDuplicate
<1>2. ASSUME NEW h \in Handlers, StoreSource(h) \/ CreatePendingDocument(h) \/ Abort(h)
      PROVE UNCHANGED asset
  BY <1>2 DEF StoreSource, CreatePendingDocument, Abort
<1>3. ASSUME NEW h \in Handlers, Reprocess(h) PROVE UNCHANGED asset
  BY <1>3 DEF Reprocess, ReprocessDocument, WriteDirective, RelinkDocument
<1>4. ASSUME NEW h \in Handlers, Pipeline(h)
      PROVE UNCHANGED asset \/ \E a \in AssetIds : At(h, "write") /\ WriteAsset(h, a)
  BY <1>4 DEF Pipeline, Extract, MatchAsset, LoadTarget, FetchPayload, HoldForReview,
     CommitProcess, CommitReprocess
<1>5. ASSUME NEW h \in Handlers, Decide(h)
      PROVE UNCHANGED asset \/ \E a \in AssetIds : At(h, "write") /\ WriteAsset(h, a)
  BY <1>5 DEF Decide, LoadForApprove, LoadForReject, CommitApproval, CommitRejection
<1>6. ASSUME NEW s \in SourceIds, DeleteDocument(s) PROVE UNCHANGED asset
  BY <1>6 DEF DeleteDocument
<1>7. CASE UNCHANGED tables
  BY <1>7 DEF tables
<1> QED BY <1>1, <1>2, <1>3, <1>4, <1>5, <1>6, <1>7, NextCases DEF PipelineNext

(* Writing one row that the serial index allows keeps live serials unique. *)
LEMMA IndexedWrite ==
    ASSUME TablesOK, LiveSerialUnique, NEW a \in AssetIds, NEW row \in AssetRow,
           SerialIndexAllows(asset, a, row), asset' = [asset EXCEPT ![a] = row]
    PROVE  LiveSerialUnique'
<1> SUFFICES ASSUME NEW b \in AssetIds, NEW c \in AssetIds, b # c,
                    IsLive(asset', b), IsLive(asset', c), asset'[b].serial # NoVal
             PROVE  asset'[b].serial # asset'[c].serial
  BY DEF LiveSerialUnique
<1>1. \A d \in AssetIds : asset'[d] = IF d = a THEN row ELSE asset[d]
  BY DEF TablesOK
<1>2. CASE b = a
  BY <1>1, <1>2 DEF IsLive, SerialIndexAllows
<1>3. CASE c = a
  BY <1>1, <1>3 DEF IsLive, SerialIndexAllows
<1>4. CASE b # a /\ c # a
  BY <1>1, <1>4 DEF IsLive, LiveSerialUnique
<1> QED BY <1>2, <1>3, <1>4

LEMMA SerialStep == TablesOK /\ LiveSerialUnique /\ [Next]_vars => LiveSerialUnique'
<1> SUFFICES ASSUME TablesOK, LiveSerialUnique, [Next]_vars PROVE LiveSerialUnique'
  OBVIOUS
<1>1. CASE UNCHANGED asset
  BY <1>1 DEF LiveSerialUnique, IsLive
<1>2. ASSUME NEW h \in Handlers, NEW a \in AssetIds, At(h, "write"), WriteAsset(h, a)
      PROVE LiveSerialUnique'
  BY <1>2, WriteAssetFacts, IndexedWrite DEF AssetRow
<1>3. ASSUME NEW a \in AssetIds, Restore(a) PROVE LiveSerialUnique'
  <2> DEFINE row == [asset[a] EXCEPT !.state = "live"]
  <2>1. row \in AssetRow
    BY <1>3, StoredType DEF Restore, Stored, StoredRow, AssetRow
  <2>2. asset' = [asset EXCEPT ![a] = row] /\ SerialIndexAllows(asset, a, row)
    BY <1>3 DEF Restore
  <2> HIDE DEF row
  <2> QED BY <2>1, <2>2, IndexedWrite
<1>4. ASSUME NEW a \in AssetIds, SoftDelete(a) PROVE LiveSerialUnique'
  <2> DEFINE row == [asset[a] EXCEPT !.state = "deleted"]
  <2>1. row \in AssetRow /\ row.state # "live"
    BY <1>4, StoredType DEF SoftDelete, IsLive, Stored, StoredRow, AssetRow
  <2>2. asset' = [asset EXCEPT ![a] = row]
    BY <1>4 DEF SoftDelete
  <2>3. SerialIndexAllows(asset, a, row)
    BY <2>1 DEF SerialIndexAllows
  <2> HIDE DEF row
  <2> QED BY <2>1, <2>2, <2>3, IndexedWrite
<1>5. ASSUME NEW p \in Purgers, PurgeExpired(p) PROVE LiveSerialUnique'
  <2>1. \A a \in AssetIds : IsLive(asset', a) => asset'[a] = asset[a] /\ IsLive(asset, a)
    BY <1>5, PurgeFacts DEF IsLive, Tombstone
  <2> QED BY <2>1 DEF LiveSerialUnique
<1> QED BY <1>1, <1>2, <1>3, <1>4, <1>5, AssetWriters

(* At most one live asset has a given serial, for any number of concurrent *)
(* uploads, approvals, reprocesses and restores.                           *)
THEOREM SerialsStayUnique == Spec => []LiveSerialUnique
<1>1. Init => LiveSerialUnique
  BY DEF Init, LiveSerialUnique, IsLive
<1> QED BY <1>1, SerialStep, TablesCorrect, PTL DEF Spec

(* No step but Restore makes an asset live again that was deleted, however *)
(* old the row is that a merge or an approval saves.                       *)
THEOREM NothingElseUndeletes == Spec => OnlyRestoreUndeletes
<1> DEFINE P == \A a \in AssetIds :
          asset[a] # NoVal /\ ~IsLive(asset, a) /\ IsLive(asset', a) => Restore(a)
<1>1. TablesOK /\ [Next]_vars => [P]_vars
  <2> SUFFICES ASSUME TablesOK, [Next]_vars, NEW a \in AssetIds,
                      asset[a] # NoVal, ~IsLive(asset, a), IsLive(asset', a)
               PROVE  Restore(a)
    OBVIOUS
  <2>1. CASE UNCHANGED asset
    BY <2>1 DEF IsLive
  <2>2. ASSUME NEW h \in Handlers, NEW b \in AssetIds, At(h, "write"), WriteAsset(h, b)
        PROVE FALSE
    BY <2>2, WriteAssetFacts DEF IsLive, TablesOK
  <2>3. ASSUME NEW b \in AssetIds, SoftDelete(b) PROVE FALSE
    BY <2>3, StoredType DEF SoftDelete, IsLive, Stored, TablesOK, StoredRow
  <2>4. ASSUME NEW b \in AssetIds, Restore(b) PROVE a = b
    BY <2>4 DEF Restore, IsLive, TablesOK
  <2>5. ASSUME NEW p \in Purgers, PurgeExpired(p) PROVE FALSE
    BY <2>5, PurgeFacts DEF Tombstone, IsLive
  <2> QED BY <2>1, <2>2, <2>3, <2>4, <2>5, AssetWriters
<1> QED BY <1>1, TablesCorrect, PTL DEF Spec, OnlyRestoreUndeletes

-----------------------------------------------------------------------------
(* The documents and the reviews, and the actions that write them.         *)
LEMMA DocumentWriters ==
    ASSUME TablesOK, [Next]_vars
    PROVE  \/ UNCHANGED <<document, review>>
           \/ UNCHANGED document /\ \E h \in Handlers :
                                        HoldForReview(h) \/ CommitRejection(h)
           \/ UNCHANGED review /\
                 \/ \E h \in Handlers : \/ CreatePendingDocument(h) \/ WriteDirective(h)
                                        \/ RelinkDocument(h)
                                        \/ \E a \in AssetIds : CommitProcess(h, a)
                 \/ \E p \in Purgers : PurgeExpired(p)
                 \/ \E s \in SourceIds : DeleteDocument(s)
           \/ \E h \in Handlers, a \in AssetIds : CommitApproval(h, a)
<1>1. ASSUME NEW h \in Handlers, Upload(h) PROVE UNCHANGED <<document, review>>
  BY <1>1 DEF Upload, UploadDocument, UploadDuplicate
<1>2. ASSUME NEW h \in Handlers, StoreSource(h) \/ Abort(h)
      PROVE UNCHANGED <<document, review>>
  BY <1>2 DEF StoreSource, Abort
<1>3. ASSUME NEW h \in Handlers, Reprocess(h)
      PROVE \/ UNCHANGED <<document, review>>
            \/ UNCHANGED review /\ (WriteDirective(h) \/ RelinkDocument(h))
  BY <1>3 DEF Reprocess, ReprocessDocument, WriteDirective, RelinkDocument
<1>4. ASSUME NEW h \in Handlers, Pipeline(h)
      PROVE \/ UNCHANGED <<document, review>>
            \/ UNCHANGED document /\ HoldForReview(h)
            \/ UNCHANGED review /\ \E a \in AssetIds : CommitProcess(h, a)
  BY <1>4 DEF Pipeline, Extract, MatchAsset, LoadTarget, FetchPayload, HoldForReview,
     CommitProcess, CommitReprocess
<1>5. ASSUME NEW h \in Handlers, Decide(h)
      PROVE \/ UNCHANGED <<document, review>>
            \/ UNCHANGED document /\ CommitRejection(h)
            \/ \E a \in AssetIds : CommitApproval(h, a)
  BY <1>5 DEF Decide, LoadForApprove, LoadForReject, CommitApproval, CommitRejection
<1>6. ASSUME NEW h \in Handlers, CreatePendingDocument(h) PROVE UNCHANGED review
  BY <1>6 DEF CreatePendingDocument
<1>7. ASSUME NEW a \in AssetIds, SoftDelete(a) \/ Restore(a)
      PROVE UNCHANGED <<document, review>>
  BY <1>7 DEF SoftDelete, Restore
<1>8. ASSUME NEW p \in Purgers, PurgeExpired(p) PROVE UNCHANGED review
  BY <1>8 DEF PurgeExpired
<1>9. ASSUME NEW s \in SourceIds, DeleteDocument(s) PROVE UNCHANGED review
  BY <1>9 DEF DeleteDocument
<1>10. CASE UNCHANGED tables
  BY <1>10 DEF tables
<1> QED BY <1>1, <1>2, <1>3, <1>4, <1>5, <1>6, <1>7, <1>8, <1>9, <1>10, NextCases DEF PipelineNext

(* Once there is a document, who made it does not change.                  *)
LEMMA DocumentsKeepTheirMaker ==
    ASSUME TablesOK, [Next]_vars, NEW s \in SourceIds, document[s] # NoVal
    PROVE  document'[s] # NoVal /\ document'[s].by = document[s].by
<1>1. document[s] \in Document
  BY DEF TablesOK
<1>2. \A a \in AssetIds \cup {NoVal}, del \in BOOLEAN :
         LET d == [document[s] EXCEPT !.asset = a, !.deleted = del]
         IN  d \in Document /\ d # NoVal /\ d.by = document[s].by
  BY <1>1, IngestAssumption DEF Document, IngestAssumption
<1>3. \/ document'[s] = document[s]
      \/ document'[s] # NoVal /\ document'[s].by = document[s].by
  <2>1. ASSUME NEW h \in Handlers, CreatePendingDocument(h)
        PROVE document'[s] = document[s]
    BY <2>1 DEF CreatePendingDocument, TablesOK
  <2>2. ASSUME NEW h \in Handlers, NEW a \in AssetIds,
               CommitProcess(h, a) \/ CommitApproval(h, a)
        PROVE document'[s] = document[s]
    BY <2>2 DEF CommitProcess, CommitApproval, InsertDocument, TablesOK
  <2>3. ASSUME NEW h \in Handlers, WriteDirective(h) \/ RelinkDocument(h)
        PROVE document'[s] # NoVal /\ document'[s].by = document[s].by
    <3>1. CASE handler[h].src = s
      <4>1. PICK a \in AssetIds \cup {NoVal} :
               document'[s] = [document[s] EXCEPT !.asset = a, !.deleted = document[s].deleted]
        BY <2>3, <3>1, ReprocessSave DEF TablesOK
      <4> QED BY <1>1, <1>2, <4>1 DEF Document
    <3>2. CASE handler[h].src # s
      BY <2>3, <3>2, ReprocessSave DEF TablesOK
    <3> QED BY <3>1, <3>2
  <2>4. ASSUME NEW p \in Purgers, PurgeExpired(p)
        PROVE document'[s] # NoVal /\ document'[s].by = document[s].by
    BY <2>4, PurgeFacts
  <2>5. ASSUME NEW t \in SourceIds, DeleteDocument(t)
        PROVE document'[s] # NoVal /\ document'[s].by = document[s].by
    <3>1. document'[s] \in {document[s], [document[s] EXCEPT !.deleted = TRUE, !.asset = NoVal]}
      BY <2>5 DEF DeleteDocument, TablesOK
    <3>2. [document[s] EXCEPT !.deleted = TRUE, !.asset = NoVal] \in Document
      BY <1>1 DEF Document
    <3> QED BY <1>1, <3>1, <3>2, IngestAssumption DEF Document, IngestAssumption
  <2> QED BY <2>1, <2>2, <2>3, <2>4, <2>5, DocumentWriters
<1> QED BY <1>3

LEMMA ApprovalStep ==
    TablesOK /\ ApprovedReviewHasItsDocument /\ [Next]_vars => ApprovedReviewHasItsDocument'
<1> SUFFICES ASSUME TablesOK, ApprovedReviewHasItsDocument, [Next]_vars,
                    NEW r \in ReviewIds, review'[r] # NoVal, review'[r].state = "approved"
             PROVE  document'[review'[r].src] # NoVal /\ document'[review'[r].src].by = r
  BY DEF ApprovedReviewHasItsDocument
<1>1. CASE review'[r] = review[r]
  <2>1. review[r].src \in SourceIds
    BY <1>1 DEF TablesOK, Review
  <2>2. document[review[r].src] # NoVal /\ document[review[r].src].by = r
    BY <1>1 DEF ApprovedReviewHasItsDocument
  <2> QED BY <1>1, <2>1, <2>2, DocumentsKeepTheirMaker
<1>2. CASE review'[r] # review[r]
  <2>1. ASSUME NEW h \in Handlers, HoldForReview(h) PROVE FALSE
    BY <1>2, <2>1 DEF HoldForReview, TablesOK
  <2>2. ASSUME NEW h \in Handlers, CommitRejection(h) PROVE FALSE
    <3>1. handler[h].rev \in ReviewIds /\ review[handler[h].rev] # NoVal
      BY <2>2, RequestFacts DEF CommitRejection, At, RequestOK
    <3>2. review[handler[h].rev] \in Review
      BY <3>1 DEF TablesOK
    <3> QED BY <1>2, <2>2, <3>1, <3>2 DEF CommitRejection, TablesOK, Review
  <2>3. ASSUME NEW h \in Handlers, NEW a \in AssetIds, CommitApproval(h, a)
        PROVE document'[review'[r].src] # NoVal /\ document'[review'[r].src].by = r
    <3> DEFINE s == handler[h].src
               d == [asset |-> a, by |-> handler[h].rev, deleted |-> FALSE]
    <3>1. /\ handler[h].rev \in ReviewIds /\ review[handler[h].rev] # NoVal
          /\ s \in SourceIds /\ s = review[handler[h].rev].src
      BY <2>3, RequestFacts DEF CommitApproval, At, RequestOK
    <3>2. handler[h].rev = r
      BY <1>2, <2>3 DEF CommitApproval, TablesOK
    <3>3. review[r] \in Review
      BY <3>1, <3>2 DEF TablesOK
    <3>4. review'[r].src = s
      BY <2>3, <3>1, <3>2, <3>3 DEF CommitApproval, TablesOK, Review
    <3>5. d \in Document /\ d.by = r
      BY <3>2 DEF Document
    <3>6. document'[s] = d
      BY <2>3, <3>1 DEF CommitApproval, InsertDocument, TablesOK
    <3> QED BY <3>4, <3>5, <3>6, IngestAssumption DEF IngestAssumption
  <2> QED BY <1>2, <2>1, <2>2, <2>3, DocumentWriters
<1> QED BY <1>1, <1>2

(* An approved review has its document, and no other upload's or review's  *)
(* in its place: an approval writes both or nothing.                       *)
THEOREM ApprovalsHaveTheirDocuments == Spec => []ApprovedReviewHasItsDocument
<1>1. Init => ApprovedReviewHasItsDocument
  BY DEF Init, ApprovedReviewHasItsDocument
<1> QED BY <1>1, ApprovalStep, TablesCorrect, PTL DEF Spec

-----------------------------------------------------------------------------
(* Assets stay stored until they are purged.                               *)
LEMMA StoredUntilPurged ==
    ASSUME TablesOK, [Next]_vars, NEW a \in AssetIds, Stored(asset, a),
           \A p \in Purgers : PurgeExpired(p) => a \notin Purged(p)
    PROVE  Stored(asset', a)
<1>1. asset[a] \in StoredRow
  BY StoredType
<1>2. CASE UNCHANGED asset
  BY <1>2 DEF Stored
<1>3. ASSUME NEW h \in Handlers, NEW b \in AssetIds, At(h, "write"), WriteAsset(h, b)
      PROVE Stored(asset', a)
  <2>1. TablesOK'
    BY TypeStep
  <2>2. PICK row \in StoredRow : asset' = [asset EXCEPT ![b] = row]
    BY <1>3, WriteAssetFacts
  <2>3. asset'[a] \in StoredRow
    BY <1>1, <2>2 DEF TablesOK
  <2>4. StoredRow \subseteq AssetRow
    BY DEF AssetRow
  <2> QED BY <2>3, <2>4, IngestAssumption DEF Stored, StoredRow, IngestAssumption
<1>4. ASSUME NEW b \in AssetIds, SoftDelete(b) \/ Restore(b) PROVE Stored(asset', a)
  <2>1. PICK st \in {"live", "deleted"} : asset' = [asset EXCEPT ![b].state = st]
    BY <1>4 DEF SoftDelete, Restore
  <2>2. asset'[a] \in {asset[a], [asset[a] EXCEPT !.state = st]}
    BY <2>1 DEF TablesOK
  <2>3. asset'[a] \in StoredRow
    BY <1>1, <2>2 DEF StoredRow
  <2>4. StoredRow \subseteq AssetRow
    BY DEF AssetRow
  <2> QED BY <2>3, <2>4, IngestAssumption DEF Stored, StoredRow, IngestAssumption
<1>5. ASSUME NEW p \in Purgers, PurgeExpired(p) PROVE Stored(asset', a)
  BY <1>5, PurgeFacts DEF Stored
<1> QED BY <1>2, <1>3, <1>4, <1>5, AssetWriters

(* The asset a transaction has written is stored.                          *)
LEMMA WrittenIsStored ==
    ASSUME TablesOK, NEW h \in Handlers, NEW a \in AssetIds,
           At(h, "write"), WriteAsset(h, a)
    PROVE  Stored(asset', a)
<1>1. asset'[a] \in StoredRow
  BY WriteAssetFacts DEF TablesOK
<1>2. StoredRow \subseteq AssetRow
  BY DEF AssetRow
<1> QED BY <1>1, <1>2, IngestAssumption DEF Stored, StoredRow, IngestAssumption

LEMMA TargetStep ==
    TablesOK /\ DocumentTargetsExist /\ [Next]_vars => DocumentTargetsExist'
<1> SUFFICES ASSUME TablesOK, DocumentTargetsExist, [Next]_vars, NEW s \in SourceIds,
                    document'[s] # NoVal, document'[s].asset # NoVal
             PROVE  Stored(asset', document'[s].asset)
  BY DEF DocumentTargetsExist
<1>1. TablesOK'
  BY TypeStep
<1>2. document'[s].asset \in AssetIds
  BY <1>1 DEF TablesOK, Document
(* Either the document had this asset before, or the step gives it one     *)
(* that is stored now.                                                     *)
<1>3. \/ document[s] # NoVal /\ document[s].asset = document'[s].asset
      \/ UNCHANGED asset /\ Stored(asset, document'[s].asset)
      \/ Stored(asset', document'[s].asset)
  <2>1. CASE UNCHANGED document
    BY <2>1
  <2>2. ASSUME NEW h \in Handlers, CreatePendingDocument(h)
        PROVE \/ document'[s] = document[s]
              \/ UNCHANGED asset /\ Stored(asset, document'[s].asset)
    BY <2>2 DEF CreatePendingDocument, TablesOK
  <2>3. ASSUME NEW h \in Handlers, WriteDirective(h) \/ RelinkDocument(h)
        PROVE \/ document[s] # NoVal /\ document[s].asset = document'[s].asset
              \/ UNCHANGED asset /\ Stored(asset, document'[s].asset)
    <3>1. CASE handler[h].src # s
      BY <2>3, <3>1 DEF WriteDirective, RelinkDocument, TablesOK
    <3>2. CASE handler[h].src = s
      <4>1. document[s] # NoVal /\ document[s] \in Document
        BY <3>2, <2>3, ReprocessSave DEF TablesOK
      <4> QED BY <2>3, <3>2, <4>1 DEF WriteDirective, RelinkDocument, TablesOK, Document
    <3> QED BY <3>1, <3>2
  <2>4. ASSUME NEW h \in Handlers, NEW a \in AssetIds,
               CommitProcess(h, a) \/ CommitApproval(h, a)
        PROVE \/ document'[s] = document[s]
              \/ Stored(asset', document'[s].asset)
    <3>1. Stored(asset', a)
      BY <2>4, WrittenIsStored DEF CommitProcess, CommitApproval
    <3>2. document'[s] = document[s] \/ document'[s].asset = a
      BY <2>4 DEF CommitProcess, CommitApproval, InsertDocument, TablesOK
    <3> QED BY <3>1, <3>2
  <2>5. ASSUME NEW p \in Purgers, PurgeExpired(p)
        PROVE document[s] # NoVal /\ document[s].asset = document'[s].asset
    BY <2>5, PurgeFacts
  <2>6. ASSUME NEW t \in SourceIds, DeleteDocument(t)
        PROVE document'[s] = document[s]
    BY <2>6 DEF DeleteDocument, TablesOK, Document
  <2> QED BY <2>1, <2>2, <2>3, <2>4, <2>5, <2>6, DocumentWriters
<1>4. ASSUME document[s] # NoVal, document[s].asset = document'[s].asset
      PROVE Stored(asset', document'[s].asset)
  <2>1. Stored(asset, document'[s].asset)
    BY <1>4 DEF DocumentTargetsExist
  <2>2. \A p \in Purgers : PurgeExpired(p) => document'[s].asset \notin Purged(p)
    BY <1>4, PurgeFacts
  <2> QED BY <1>2, <2>1, <2>2, StoredUntilPurged
<1> QED BY <1>3, <1>4 DEF Stored

(* No document points at an asset that is gone, however purges, relinks,   *)
(* approvals and pending documents interleave.                             *)
THEOREM TargetsExist == Spec => []DocumentTargetsExist
<1>1. Init => DocumentTargetsExist
  BY DEF Init, DocumentTargetsExist
<1> QED BY <1>1, TargetStep, TablesCorrect, PTL DEF Spec

-----------------------------------------------------------------------------
(* What becomes of an upload and of an approval: no asset without its      *)
(* document, one outcome per upload, and an approval that keeps the match  *)
(* its reviewer was shown.                                                 *)

(* How the memory of a request changes: another one's step leaves it, the  *)
(* end of the request empties it, and these are the steps between.         *)
LEMMA RequestMoves ==
    ASSUME TablesOK, [Next]_vars, NEW h \in Handlers
    PROVE  \/ handler'[h] \in {handler[h], Idle}
           \/ Upload(h) \/ StoreSource(h) \/ WriteDirective(h)
           \/ MatchAsset(h) \/ LoadTarget(h) \/ FetchPayload(h)
           \/ \E s \in SourceIds : ReprocessDocument(h, s)
           \/ \E e \in Extractions, confMet \in BOOLEAN : Extract(h, e, confMet)
           \/ \E a \in AssetIds : CommitReprocess(h, a)
           \/ \E r \in ReviewIds : LoadForApprove(h, r) \/ LoadForReject(h, r)
<1>1. ASSUME NEW g \in Handlers, g # h,
             \/ Upload(g) \/ StoreSource(g) \/ CreatePendingDocument(g)
             \/ Reprocess(g) \/ Pipeline(g) \/ Decide(g) \/ Abort(g)
      PROVE  handler'[h] = handler[h]
  BY <1>1 DEF Upload, UploadDocument, UploadDuplicate, StoreSource, CreatePendingDocument,
     Reprocess, ReprocessDocument, WriteDirective, RelinkDocument, Pipeline, Extract,
     MatchAsset, LoadTarget, FetchPayload, HoldForReview, CommitProcess, CommitReprocess,
     Decide, LoadForApprove, LoadForReject, CommitApproval, CommitRejection, Abort,
     Continue, Finish, TablesOK
<1>2. ASSUME \/ CreatePendingDocument(h) \/ RelinkDocument(h) \/ HoldForReview(h)
             \/ CommitRejection(h) \/ Abort(h)
             \/ \E a \in AssetIds : CommitProcess(h, a) \/ CommitApproval(h, a)
      PROVE  handler'[h] = Idle
  BY <1>2 DEF CreatePendingDocument, RelinkDocument, HoldForReview, CommitRejection, Abort,
     CommitProcess, CommitApproval, Finish, TablesOK
<1>3. ASSUME \/ \E a \in AssetIds : SoftDelete(a) \/ Restore(a)
             \/ \E p \in Purgers : PurgeExpired(p)
      PROVE  handler'[h] = handler[h]
  BY <1>3 DEF SoftDelete, Restore, PurgeExpired
<1>4. ASSUME NEW s \in SourceIds, DeleteDocument(s) PROVE handler'[h] = handler[h]
  BY <1>4 DEF DeleteDocument
<1>5. CASE UNCHANGED tables
  BY <1>5 DEF tables
<1> QED BY <1>1, <1>2, <1>3, <1>4, <1>5, NextCases DEF PipelineNext, Reprocess, Pipeline, Decide

-----------------------------------------------------------------------------
(* An asset that was not there is made by one of the three commits.        *)
LEMMA AssetMakers ==
    ASSUME TablesOK, [Next]_vars, NEW a \in AssetIds, asset[a] = NoVal, asset'[a] # NoVal
    PROVE  \E h \in Handlers :
              CommitProcess(h, a) \/ CommitReprocess(h, a) \/ CommitApproval(h, a)
<1>1. ASSUME NEW h \in Handlers, NEW b \in AssetIds,
             CommitProcess(h, b) \/ CommitReprocess(h, b) \/ CommitApproval(h, b)
      PROVE  a = b
  BY <1>1 DEF CommitProcess, CommitReprocess, CommitApproval, WriteAsset, TablesOK
<1>2. ASSUME NEW b \in AssetIds, SoftDelete(b) \/ Restore(b) PROVE FALSE
  BY <1>2 DEF SoftDelete, Restore, IsLive, TablesOK
<1>3. ~UNCHANGED asset
  OBVIOUS
<1>4. ASSUME NEW h \in Handlers, Upload(h) \/ StoreSource(h) \/ CreatePendingDocument(h)
                                   \/ Reprocess(h) \/ Abort(h)
      PROVE FALSE
  BY <1>3, <1>4 DEF Upload, UploadDocument, UploadDuplicate, StoreSource,
     CreatePendingDocument, Reprocess, ReprocessDocument, WriteDirective, RelinkDocument, Abort
<1>5. ASSUME NEW h \in Handlers, Pipeline(h)
      PROVE \E b \in AssetIds : CommitProcess(h, b) \/ CommitReprocess(h, b)
  BY <1>3, <1>5 DEF Pipeline, Extract, MatchAsset, LoadTarget, FetchPayload, HoldForReview
<1>6. ASSUME NEW h \in Handlers, Decide(h) PROVE \E b \in AssetIds : CommitApproval(h, b)
  BY <1>3, <1>6 DEF Decide, LoadForApprove, LoadForReject, CommitRejection
<1>7. ASSUME NEW s \in SourceIds, DeleteDocument(s) PROVE FALSE
  BY <1>3, <1>7 DEF DeleteDocument
<1>8. ~UNCHANGED tables
  BY <1>3 DEF tables
<1>9. ASSUME NEW p \in Purgers, PurgeExpired(p) PROVE FALSE
  BY <1>9, PurgeFacts DEF Purged, Stored
<1> QED BY <1>1, <1>2, <1>4, <1>5, <1>6, <1>7, <1>8, <1>9, NextCases DEF PipelineNext

(* A document that a commit inserts for a request leads to its asset.      *)
LEMMA InsertedDocument ==
    ASSUME TablesOK, NEW h \in Handlers, NEW a \in AssetIds,
           CommitProcess(h, a) \/ CommitApproval(h, a)
    PROVE  LET s == handler[h].src
           IN  /\ s \in SourceIds /\ document[s] = NoVal
               /\ document'[s] # NoVal /\ document'[s].asset = a
               /\ document'[s].by = IF CommitProcess(h, a) THEN "process" ELSE handler[h].rev
<1> DEFINE s  == handler[h].src
           by == IF CommitProcess(h, a) THEN "process" ELSE handler[h].rev
           d  == [asset |-> a, by |-> by, deleted |-> FALSE]
<1>1. s \in SourceIds
  BY RequestFacts DEF CommitProcess, CommitApproval, At, RequestOK
<1>2. CASE CommitProcess(h, a)
  <2>1. d \in Document
    BY <1>2 DEF Document
  <2>2. document[s] = NoVal /\ document'[s] = d
    BY <1>1, <1>2 DEF CommitProcess, InsertDocument, TablesOK
  <2>3. d # NoVal /\ d.asset = a /\ d.by = "process"
    BY <1>2, <2>1, IngestAssumption DEF IngestAssumption
  <2> HIDE DEF d, s
  <2> QED BY <1>1, <1>2, <2>2, <2>3 DEF s
<1>3. CASE CommitApproval(h, a)
  <2>1. handler[h].op = "approve" /\ ~CommitProcess(h, a)
    BY <1>3 DEF CommitProcess, CommitApproval
  <2>2. d \in Document
    BY <1>3, <2>1, RequestFacts DEF CommitApproval, At, RequestOK, Document
  <2>3. document[s] = NoVal /\ document'[s] = d
    BY <1>1, <1>3, <2>1 DEF CommitApproval, InsertDocument, TablesOK
  <2>4. d # NoVal /\ d.asset = a /\ d.by = handler[h].rev
    BY <2>1, <2>2, IngestAssumption DEF IngestAssumption
  <2> HIDE DEF d, s
  <2> QED BY <1>1, <2>1, <2>3, <2>4 DEF s
<1> QED BY <1>2, <1>3

(* A request that dies leaves no asset behind without its document, except *)
(* the reprocess, whose next step relinks.                                 *)
THEOREM AssetsHaveTheirDocuments == Spec => AssetsAppearWithTheirDocument
<1> DEFINE Appears ==
      \A a \in AssetIds :
          asset[a] = NoVal /\ asset'[a] # NoVal =>
             \/ \E s \in SourceIds :
                   document[s] = NoVal /\ document'[s] # NoVal /\ document'[s].asset = a
             \/ \E h \in Handlers : handler[h].op = "reprocess" /\ handler'[h].pc = "relink"
<1>1. TablesOK /\ [Next]_vars => [Appears]_vars
  <2> SUFFICES ASSUME TablesOK, [Next]_vars, NEW a \in AssetIds,
                      asset[a] = NoVal, asset'[a] # NoVal
               PROVE \/ \E s \in SourceIds : /\ document[s] = NoVal /\ document'[s] # NoVal
                                             /\ document'[s].asset = a
                     \/ \E h \in Handlers : /\ handler[h].op = "reprocess"
                                            /\ handler'[h].pc = "relink"
    OBVIOUS
  <2>1. PICK h \in Handlers :
           CommitProcess(h, a) \/ CommitReprocess(h, a) \/ CommitApproval(h, a)
    BY AssetMakers
  <2>2. CASE CommitReprocess(h, a)
    <3>1. handler'[h].pc = "relink"
      BY <2>2, RequestFacts DEF CommitReprocess, Continue, TablesOK, Handler
    <3> QED BY <2>2, <3>1 DEF CommitReprocess
  <2>3. CASE CommitProcess(h, a) \/ CommitApproval(h, a)
    BY <2>3, InsertedDocument
  <2> QED BY <2>1, <2>2, <2>3
<1> QED BY <1>1, TablesCorrect, PTL DEF Spec, AssetsAppearWithTheirDocument

-----------------------------------------------------------------------------
(* An upload at work, and what it may leave: a document or a review.       *)

Running(q, s)     == q.op = "process" /\ q.src = s
ByProcess(d)      == d # NoVal /\ d.by = "process"
HeldByProcess(s)  == UploadReviews(s) # {}

(* A source is the source of one upload, and of its outcome when the       *)
(* upload is over: of one document or of one review.                       *)
OutcomeOK(s) ==
    /\ \/ \E h \in Handlers : Running(handler[h], s)
       \/ HeldByProcess(s)
       \/ ByProcess(document[s])
       => source[s] # NoVal
    /\ \A g, h \in Handlers : Running(handler[g], s) /\ Running(handler[h], s) => g = h
    /\ \A h \in Handlers :
          Running(handler[h], s) => ~HeldByProcess(s) /\ ~ByProcess(document[s])
    /\ \A q, r \in UploadReviews(s) : q = r
    /\ ByProcess(document[s]) => ~HeldByProcess(s)

OutcomeInv == TablesOK /\ \A s \in SourceIds : OutcomeOK(s)

(* An upload works on a source since it stored it, under a key that was    *)
(* free: nothing else begins in that step.                                 *)
LEMMA RunningStep ==
    ASSUME TablesOK, [Next]_vars, NEW h \in Handlers, NEW s \in SourceIds,
           Running(handler'[h], s)
    PROVE  \/ Running(handler[h], s)
           \/ /\ source[s] = NoVal /\ source'[s] # NoVal
              /\ UNCHANGED <<document, review>>
              /\ \A g \in Handlers \ {h} : handler'[g] = handler[g]
<1>1. handler[h] \in Handler /\ NoVal \notin SourceIds
  BY RequestFacts, IngestAssumption DEF IngestAssumption
<1>2. CASE handler'[h] \in {handler[h], Idle}
  BY <1>1, <1>2 DEF Running, Idle
<1>3. CASE Upload(h)
  <2>1. handler'[h].src = NoVal
    <3>1. CASE \E c \in Contents : UploadDocument(h, c)
      BY <3>1 DEF UploadDocument, Continue, Idle, TablesOK
    <3>2. CASE \E c \in Contents : UploadDuplicate(h, c)
      BY <3>2 DEF UploadDuplicate, Continue, Idle, TablesOK
    <3> QED BY <1>3, <3>1, <3>2 DEF Upload
  <2> QED BY <1>1, <2>1 DEF Running
<1>4. CASE StoreSource(h)
  <2>1. PICK t \in SourceIds :
           /\ source[t] = NoVal
           /\ source' = [source EXCEPT ![t] = handler[h].content]
           /\ handler' = [handler EXCEPT ![h] = [handler[h] EXCEPT
                !.pc = IF @ = "store" THEN "extract" ELSE "pendingdoc",
                !.content = NoVal, !.src = t]]
    BY <1>4 DEF StoreSource, Continue
  <2>2. t = s
    BY <1>1, <2>1 DEF Running, TablesOK, Handler
  <2>3. handler[h].content # NoVal
    BY <1>4, RequestFacts, IngestAssumption DEF StoreSource, RequestOK, IngestAssumption
  <2> QED BY <1>4, <2>1, <2>2, <2>3 DEF StoreSource, TablesOK
<1>5. CASE WriteDirective(h) \/ MatchAsset(h) \/ LoadTarget(h) \/ FetchPayload(h)
  <2>1. CASE WriteDirective(h) \/ FetchPayload(h)
    <3>1. handler'[h] \in {[handler[h] EXCEPT !.pc = "extract", !.target = NoVal],
                           [handler[h] EXCEPT !.pc = "write",
                              !.row = OverlayPayload(asset[handler[h].target], @)]}
      BY <2>1 DEF WriteDirective, FetchPayload, Continue, TablesOK
    <3> QED BY <1>1, <3>1 DEF Handler, Running
  <2>2. CASE MatchAsset(h)
    <3> DEFINE m == matchExtraction(asset, handler[h].ext, CandidateLimit)
    <3> HIDE DEF m
    <3>1. handler'[h] \in {Idle, [handler[h] EXCEPT !.pc = "load", !.target = m.asset],
                           [handler[h] EXCEPT !.pc = "write", !.ext = NoVal,
                                              !.row = newAsset(handler[h].ext)],
                           [handler[h] EXCEPT !.pc = "hold"]}
      BY <2>2 DEF MatchAsset, Continue, Finish, TablesOK, m
    <3>2. ~Running(Idle, s)
      BY <1>1 DEF Running, Idle
    <3> QED BY <1>1, <3>1, <3>2 DEF Handler, Running
  <2>3. CASE LoadTarget(h)
    <3>1. handler'[h] \in {[handler[h] EXCEPT !.pc = "fetch", !.ext = NoVal,
                              !.row = mergeInto(asset[handler[h].target], handler[h].ext)],
                           [handler[h] EXCEPT !.pc = "write", !.ext = NoVal,
                              !.target = NoVal, !.row = newAsset(handler[h].ext)]}
      BY <2>3 DEF LoadTarget, Continue, TablesOK
    <3> QED BY <1>1, <3>1 DEF Handler, Running
  <2> QED BY <1>5, <2>1, <2>2, <2>3
<1>6. CASE \/ \E e \in Extractions, confMet \in BOOLEAN : Extract(h, e, confMet)
           \/ \E a \in AssetIds : CommitReprocess(h, a)
  <2>1. CASE \E e \in Extractions, confMet \in BOOLEAN : Extract(h, e, confMet)
    BY <1>1, <2>1 DEF Extract, Continue, TablesOK, Handler, Running
  <2>2. CASE \E a \in AssetIds : CommitReprocess(h, a)
    BY <1>1, <2>2 DEF CommitReprocess, Continue, TablesOK, Handler, Running
  <2> QED BY <1>6, <2>1, <2>2
<1>7. CASE \/ \E t \in SourceIds : ReprocessDocument(h, t)
           \/ \E r \in ReviewIds : LoadForApprove(h, r) \/ LoadForReject(h, r)
  <2>1. handler'[h].op \in {"reprocess", "approve", "reject"}
    <3>1. CASE \E t \in SourceIds : ReprocessDocument(h, t)
      BY <3>1 DEF ReprocessDocument, Continue, Idle, TablesOK
    <3>2. CASE \E r \in ReviewIds : LoadForApprove(h, r)
      BY <3>2 DEF LoadForApprove, Continue, Idle, TablesOK
    <3>3. CASE \E r \in ReviewIds : LoadForReject(h, r)
      BY <3>3 DEF LoadForReject, Continue, Idle, TablesOK
    <3> QED BY <1>7, <3>1, <3>2, <3>3
  <2> QED BY <2>1 DEF Running
<1> QED BY <1>2, <1>3, <1>4, <1>5, <1>6, <1>7, RequestMoves

(* A source row is never removed.                                          *)
LEMMA SourcesStay ==
    ASSUME TablesOK, [Next]_vars, NEW s \in SourceIds, source[s] # NoVal
    PROVE  source'[s] # NoVal
<1>1. ASSUME NEW h \in Handlers, StoreSource(h) PROVE source'[s] = source[s]
  BY <1>1 DEF StoreSource, TablesOK
<1>2. ASSUME NEW h \in Handlers,
             \/ Upload(h) \/ CreatePendingDocument(h) \/ Reprocess(h)
             \/ Pipeline(h) \/ Decide(h) \/ Abort(h)
      PROVE  UNCHANGED source
  BY <1>2 DEF Upload, UploadDocument, UploadDuplicate, CreatePendingDocument, Reprocess,
     ReprocessDocument, WriteDirective, RelinkDocument, Pipeline, Extract, MatchAsset,
     LoadTarget, FetchPayload, HoldForReview, CommitProcess, CommitReprocess, Decide,
     LoadForApprove, LoadForReject, CommitApproval, CommitRejection, Abort
<1>3. ASSUME \/ \E a \in AssetIds : SoftDelete(a) \/ Restore(a)
             \/ \E p \in Purgers : PurgeExpired(p)
      PROVE  UNCHANGED source
  BY <1>3 DEF SoftDelete, Restore, PurgeExpired
<1>4. ASSUME NEW t \in SourceIds, DeleteDocument(t) PROVE UNCHANGED source
  BY <1>4 DEF DeleteDocument
<1>5. CASE UNCHANGED tables
  BY <1>5 DEF tables
<1> QED BY <1>1, <1>2, <1>3, <1>4, <1>5, NextCases DEF PipelineNext

(* A review changes its state and nothing else, or it is a new one that a  *)
(* hold leaves behind.                                                     *)
LEMMA ReviewStep ==
    ASSUME TablesOK, [Next]_vars, NEW r \in ReviewIds, review'[r] # NoVal
    PROVE  \/ /\ review[r] # NoVal
              /\ review'[r].src = review[r].src /\ review'[r].from = review[r].from
              /\ review'[r].best = review[r].best
           \/ \E h \in Handlers :
                 /\ HoldForReview(h) /\ review[r] = NoVal
                 /\ review'[r].src = handler[h].src /\ review'[r].from = handler[h].op
                 /\ review'[r].best = matchExtraction(asset, handler[h].ext, DefaultCandidateLimit).asset
                 /\ \A q \in ReviewIds \ {r} : review'[q] = review[q]
<1>1. CASE review'[r] = review[r]
  BY <1>1
<1>2. ASSUME NEW h \in Handlers, HoldForReview(h), review'[r] # review[r]
      PROVE  /\ review[r] = NoVal
             /\ review'[r].src = handler[h].src /\ review'[r].from = handler[h].op
             /\ review'[r].best = matchExtraction(asset, handler[h].ext, DefaultCandidateLimit).asset
             /\ \A q \in ReviewIds \ {r} : review'[q] = review[q]
  <2> DEFINE m == matchExtraction(asset, handler[h].ext, DefaultCandidateLimit)
  <2> HIDE DEF m
  <2>1. PICK p \in ReviewIds :
           /\ review[p] = NoVal
           /\ review' = [review EXCEPT ![p] =
                [src |-> handler[h].src, ext |-> candidateFields(handler[h].ext),
                 best |-> m.asset, state |-> "pending", from |-> handler[h].op]]
    BY <1>2 DEF HoldForReview, m
  <2>2. p = r
    BY <1>2, <2>1 DEF TablesOK
  <2> QED BY <2>1, <2>2 DEF TablesOK, m
<1>3. ASSUME NEW h \in Handlers,
             CommitRejection(h) \/ \E a \in AssetIds : CommitApproval(h, a)
      PROVE  /\ review[r] # NoVal
             /\ review'[r].src = review[r].src /\ review'[r].from = review[r].from
             /\ review'[r].best = review[r].best
  <2>1. handler[h].rev \in ReviewIds /\ review[handler[h].rev] # NoVal
    BY <1>3, RequestFacts DEF CommitRejection, CommitApproval, At, RequestOK
  <2>2. PICK st \in {"approved", "rejected"} :
           review' = [review EXCEPT ![handler[h].rev].state = st]
    BY <1>3 DEF CommitRejection, CommitApproval
  <2>3. CASE r = handler[h].rev
    <3>1. review[r] \in Review /\ review'[r] = [review[r] EXCEPT !.state = st]
      BY <2>1, <2>2, <2>3 DEF TablesOK
    <3> QED BY <2>1, <2>3, <3>1 DEF Review
  <2>4. CASE r # handler[h].rev
    BY <2>2, <2>4 DEF TablesOK
  <2> QED BY <2>3, <2>4
<1> QED BY <1>1, <1>2, <1>3, DocumentWriters

(* A document of an upload is there for good, or its upload commits it now *)
(* and ends.                                                               *)
LEMMA ByProcessStep ==
    ASSUME TablesOK, [Next]_vars, NEW s \in SourceIds, ByProcess(document'[s])
    PROVE  \/ ByProcess(document[s])
           \/ \E h \in Handlers :
                 /\ Running(handler[h], s) /\ handler'[h] = Idle
                 /\ UNCHANGED review
<1>1. CASE document[s] # NoVal
  BY <1>1, DocumentsKeepTheirMaker DEF ByProcess
<1>2. CASE document[s] = NoVal
  <2>1. ASSUME NEW h \in Handlers, CreatePendingDocument(h) PROVE FALSE
    <3>1. PICK a \in AssetIds \cup {NoVal} : document'[s] \in
             {document[s], [asset |-> a, by |-> "duplicate", deleted |-> FALSE]}
      BY <2>1, RequestFacts DEF CreatePendingDocument, TablesOK, Handler
    <3> QED BY <1>2, <3>1 DEF ByProcess
  <2>2. ASSUME NEW h \in Handlers, WriteDirective(h) \/ RelinkDocument(h) PROVE FALSE
    BY <1>2, <2>2, ReprocessSave DEF ByProcess, TablesOK
  <2>3. ASSUME NEW p \in Purgers, PurgeExpired(p) PROVE FALSE
    BY <1>2, <2>3, PurgeFacts DEF ByProcess
  <2>4. ASSUME NEW t \in SourceIds, DeleteDocument(t) PROVE FALSE
    BY <1>2, <2>4 DEF ByProcess, DeleteDocument, TablesOK
  <2>5. ASSUME NEW h \in Handlers, NEW a \in AssetIds, CommitApproval(h, a) PROVE FALSE
    <3>1. handler[h].rev \in ReviewIds /\ handler[h].op = "approve"
      BY <2>5, RequestFacts DEF CommitApproval, At, RequestOK
    <3>2. ~CommitProcess(h, a)
      BY <3>1 DEF CommitProcess
    <3>3. CASE s = handler[h].src
      BY <2>5, <3>1, <3>2, <3>3, InsertedDocument, IngestAssumption
         DEF ByProcess, IngestAssumption
    <3>4. CASE s # handler[h].src
      BY <1>2, <2>5, <3>4 DEF ByProcess, CommitApproval, InsertDocument, TablesOK
    <3> QED BY <3>3, <3>4
  <2>6. ASSUME NEW h \in Handlers, NEW a \in AssetIds, CommitProcess(h, a)
        PROVE  Running(handler[h], s) /\ handler'[h] = Idle /\ UNCHANGED review
    <3>1. s = handler[h].src
      BY <1>2, <2>6 DEF ByProcess, CommitProcess, InsertDocument, TablesOK
    <3> QED BY <2>6, <3>1 DEF CommitProcess, Running, Finish, TablesOK
  <2>7. ~UNCHANGED document
    BY <1>2 DEF ByProcess
  <2> QED BY <2>1, <2>2, <2>3, <2>4, <2>5, <2>6, <2>7, DocumentWriters
<1> QED BY <1>1, <1>2

(* The reviews an upload has left are there, or it holds its extraction    *)
(* now and ends.                                                           *)
LEMMA HeldStep ==
    ASSUME TablesOK, [Next]_vars, NEW s \in SourceIds
    PROVE  \/ UploadReviews(s)' \subseteq UploadReviews(s)
           \/ \E h \in Handlers :
                 /\ Running(handler[h], s) /\ handler'[h] = Idle
                 /\ UNCHANGED document
                 /\ \E r \in ReviewIds : UploadReviews(s)' \subseteq UploadReviews(s) \cup {r}
<1> SUFFICES ASSUME NEW r \in UploadReviews(s)', r \notin UploadReviews(s)
             PROVE  \E h \in Handlers :
                       /\ Running(handler[h], s) /\ handler'[h] = Idle
                       /\ UNCHANGED document
                       /\ UploadReviews(s)' \subseteq UploadReviews(s) \cup {r}
  BY DEF UploadReviews
<1>1. r \in ReviewIds /\ review'[r] # NoVal /\ review'[r].src = s /\ review'[r].from = "process"
  BY DEF UploadReviews
<1>2. PICK h \in Handlers :
         /\ HoldForReview(h)
         /\ review'[r].src = handler[h].src /\ review'[r].from = handler[h].op
         /\ \A q \in ReviewIds \ {r} : review'[q] = review[q]
  BY <1>1, ReviewStep DEF UploadReviews
<1>3. handler'[h] = Idle /\ UNCHANGED document
  BY <1>2 DEF HoldForReview, Finish, TablesOK
<1>4. UploadReviews(s)' \subseteq UploadReviews(s) \cup {r}
  BY <1>2 DEF UploadReviews
<1> QED BY <1>1, <1>2, <1>3, <1>4 DEF Running

LEMMA OutcomeStep == OutcomeInv /\ [Next]_vars => OutcomeInv'
<1> SUFFICES ASSUME OutcomeInv, [Next]_vars, NEW s \in SourceIds PROVE OutcomeOK(s)'
  BY TypeStep DEF OutcomeInv
<1>1. TablesOK /\ OutcomeOK(s)
  BY DEF OutcomeInv
<1>2. ~Running(Idle, s)
  BY IngestAssumption DEF Running, Idle, IngestAssumption
(* The upload stores its source: nothing was known of this key.            *)
<1>3. CASE /\ source[s] = NoVal /\ source'[s] # NoVal /\ UNCHANGED <<document, review>>
           /\ \E h \in Handlers : \A g \in Handlers \ {h} : handler'[g] = handler[g]
  <2>1. UploadReviews(s)' = UploadReviews(s)
    BY <1>3 DEF UploadReviews
  <2> QED BY <1>1, <1>3, <2>1 DEF OutcomeOK, HeldByProcess
(* The upload that works on the source ends with one outcome.              *)
<1>4. ASSUME \A g \in Handlers : Running(handler'[g], s) => Running(handler[g], s),
             NEW h \in Handlers, Running(handler[h], s), handler'[h] = Idle,
             \/ UNCHANGED document /\ \E r \in ReviewIds :
                                         UploadReviews(s)' \subseteq UploadReviews(s) \cup {r}
             \/ UNCHANGED review
      PROVE  OutcomeOK(s)'
  <2>1. \A g \in Handlers : ~Running(handler'[g], s)
    BY <1>1, <1>2, <1>4 DEF OutcomeOK
  <2>2. source'[s] # NoVal
    BY <1>1, <1>4, SourcesStay DEF OutcomeOK
  <2>3. UploadReviews(s) = {} /\ ~ByProcess(document[s])
    BY <1>1, <1>4 DEF OutcomeOK, HeldByProcess
  <2>4. CASE UNCHANGED document /\ \E r \in ReviewIds :
                                     UploadReviews(s)' \subseteq UploadReviews(s) \cup {r}
    BY <2>1, <2>2, <2>3, <2>4 DEF OutcomeOK, HeldByProcess
  <2>5. CASE UNCHANGED review
    <3>1. UploadReviews(s)' = {}
      BY <2>3, <2>5 DEF UploadReviews
    <3> QED BY <2>1, <2>2, <3>1 DEF OutcomeOK, HeldByProcess
  <2> QED BY <1>4, <2>4, <2>5
(* Nothing begins and nothing is left behind.                              *)
<1>5. ASSUME \A g \in Handlers : Running(handler'[g], s) => Running(handler[g], s),
             UploadReviews(s)' \subseteq UploadReviews(s),
             ByProcess(document'[s]) => ByProcess(document[s])
      PROVE  OutcomeOK(s)'
  <2>1. source[s] # NoVal => source'[s] # NoVal
    BY <1>1, SourcesStay
  <2>2. HeldByProcess(s)' => HeldByProcess(s)
    BY <1>5 DEF HeldByProcess
  <2> QED BY <1>1, <1>5, <2>1, <2>2 DEF OutcomeOK
<1>6. CASE \A g \in Handlers : Running(handler'[g], s) => Running(handler[g], s)
  BY <1>1, <1>4, <1>5, <1>6, HeldStep, ByProcessStep
<1> QED BY <1>1, <1>3, <1>6, RunningStep

(* An upload is committed or held for review, never both and never twice,  *)
(* with any number of uploads, decisions and failures beside it.           *)
THEOREM UploadsHaveOneOutcome == Spec => []OneOutcomePerUpload
<1>1. Init => OutcomeInv
  <2> SUFFICES ASSUME Init, NEW s \in SourceIds PROVE OutcomeOK(s)
    BY TypeInit DEF OutcomeInv
  <2>1. \A h \in Handlers : ~Running(handler[h], s)
    BY IngestAssumption DEF Init, Idle, Running, IngestAssumption
  <2> QED BY <2>1 DEF Init, OutcomeOK, HeldByProcess, UploadReviews, ByProcess
<1>2. OutcomeInv => OneOutcomePerUpload
  <2> SUFFICES ASSUME OutcomeInv, NEW s \in SourceIds
               PROVE  /\ Cardinality(UploadReviews(s)) <= 1
                      /\ document[s] # NoVal /\ document[s].by = "process"
                            => UploadReviews(s) = {}
    BY DEF OneOutcomePerUpload
  <2>1. OutcomeOK(s)
    BY DEF OutcomeInv
  <2>2. CASE UploadReviews(s) = {}
    BY <2>2, FS_EmptySet
  <2>3. CASE UploadReviews(s) # {}
    <3>1. PICK r \in UploadReviews(s) : UploadReviews(s) = {r}
      BY <2>1, <2>3 DEF OutcomeOK
    <3>2. Cardinality({r}) = 1
      BY FS_Singleton
    <3> QED BY <2>1, <3>1, <3>2 DEF OutcomeOK, HeldByProcess, ByProcess
  <2> QED BY <2>2, <2>3
<1> QED BY <1>1, <1>2, OutcomeStep, PTL DEF Spec

-----------------------------------------------------------------------------
(* The match a review shows, and what an approval makes of it.             *)

(* The lookup names an asset only to merge into it.                        *)
LEMMA MatchIsStored ==
    ASSUME NEW rows, NEW ext, NEW limit, matchExtraction(rows, ext, limit).asset # NoVal
    PROVE  /\ matchExtraction(rows, ext, limit).asset \in AssetIds
           /\ Stored(rows, matchExtraction(rows, ext, limit).asset)
<1> DEFINE m == matchExtraction(rows, ext, limit)
<1>1. \A i, C : StageOutcome(rows, i, C).asset # NoVal => StageOutcome(rows, i, C).kind = "merge"
  BY DEF StageOutcome
<1>2. m.kind = "merge"
  BY <1>1 DEF matchExtraction
<1>3. m.asset \in AssetIds /\ IsLive(rows, m.asset)
  BY <1>2, MatchType
<1> QED BY <1>3 DEF IsLive, Stored

(* A row is never taken out of the table again, and a tombstone stays one. *)
LEMMA RowsStay ==
    ASSUME TablesOK, [Next]_vars, NEW a \in AssetIds, asset[a] # NoVal
    PROVE  /\ asset'[a] # NoVal
           /\ ~Stored(asset, a) => ~Stored(asset', a)
<1>1. Tombstone # NoVal /\ Tombstone.state = "purged"
  BY IngestAssumption DEF IngestAssumption, AssetRow, Tombstone
<1>2. CASE Stored(asset, a)
  <2>1. ASSUME NEW p \in Purgers, PurgeExpired(p), a \in Purged(p)
        PROVE  asset'[a] # NoVal
    BY <1>1, <2>1, PurgeFacts
  <2>2. CASE \A p \in Purgers : PurgeExpired(p) => a \notin Purged(p)
    BY <1>2, <2>2, StoredUntilPurged DEF Stored
  <2> QED BY <1>2, <2>1, <2>2
<1>3. CASE ~Stored(asset, a)
  <2>1. asset[a].state = "purged"
    BY <1>3 DEF Stored
  <2>2. asset'[a] = asset[a]
    <3>1. ASSUME NEW h \in Handlers, NEW b \in AssetIds, At(h, "write"), WriteAsset(h, b)
          PROVE  asset'[a] = asset[a]
      BY <1>3, <3>1 DEF WriteAsset, TablesOK
    <3>2. ASSUME NEW b \in AssetIds, SoftDelete(b) \/ Restore(b)
          PROVE  asset'[a] = asset[a]
      BY <2>1, <3>2 DEF SoftDelete, Restore, IsLive, TablesOK
    <3>3. ASSUME NEW p \in Purgers, PurgeExpired(p) PROVE asset'[a] = asset[a]
      BY <1>3, <3>3, PurgeFacts DEF Purged
    <3> QED BY <3>1, <3>2, <3>3, AssetWriters
  <2> QED BY <2>2, <1>3 DEF Stored
<1> QED BY <1>2, <1>3

Best(q) == review[q.rev].best

(* An approval works on the match of its review, or on a new asset because *)
(* there was none or it is gone.                                           *)
ApproverOK(q) ==
    q.pc # "idle" /\ q.op = "approve" =>
        /\ q.pc \in {"load", "fetch"} => q.target = Best(q)
        /\ q.pc = "write" => \/ q.target = Best(q)
                             \/ q.target = NoVal /\ Best(q) # NoVal /\ ~Stored(asset, Best(q))

MatchWasStored(r) ==
    review[r] # NoVal /\ review[r].best # NoVal => asset[review[r].best] # NoVal

ApprovalInv ==
    /\ TablesOK
    /\ \A r \in ReviewIds : MatchWasStored(r)
    /\ \A h \in Handlers : ApproverOK(handler[h])

LEMMA MatchStep ==
    ASSUME TablesOK, [Next]_vars, NEW r \in ReviewIds, MatchWasStored(r)
    PROVE  MatchWasStored(r)'
<1> SUFFICES ASSUME review'[r] # NoVal, review'[r].best # NoVal
             PROVE  asset'[review'[r].best] # NoVal
  BY DEF MatchWasStored
<1>1. CASE review[r] # NoVal /\ review'[r].best = review[r].best
  <2>1. review[r].best \in AssetIds /\ asset[review[r].best] # NoVal
    BY <1>1 DEF TablesOK, Review, MatchWasStored
  <2> QED BY <1>1, <2>1, RowsStay
<1>2. ASSUME NEW h \in Handlers, HoldForReview(h),
             review'[r].best = matchExtraction(asset, handler[h].ext, DefaultCandidateLimit).asset
      PROVE  asset'[review'[r].best] # NoVal
  <2>1. UNCHANGED asset
    BY <1>2 DEF HoldForReview
  <2>2. Stored(asset, review'[r].best)
    BY <1>2, MatchIsStored
  <2> QED BY <2>1, <2>2 DEF Stored
<1> QED BY <1>1, <1>2, ReviewStep

(* What an approval in progress relies on lasts: the match of its review,  *)
(* and that it is gone.                                                    *)
LEMMA BestStays ==
    ASSUME ApprovalInv, [Next]_vars, NEW h \in Handlers,
           handler[h].pc # "idle", handler[h].op = "approve"
    PROVE  /\ review'[handler[h].rev].best = Best(handler[h])
           /\ Best(handler[h]) # NoVal /\ ~Stored(asset, Best(handler[h]))
                 => ~Stored(asset', Best(handler[h]))
<1> DEFINE r == handler[h].rev
<1>1. TablesOK /\ TablesOK'
  BY TypeStep DEF ApprovalInv
<1>2. r \in ReviewIds /\ review[r] # NoVal
  BY <1>1, RequestFacts DEF RequestOK
<1>3. review'[r].best = review[r].best
  <2>1. CASE review'[r] = NoVal
    <3>1. UNCHANGED review
      <4>1. ASSUME NEW g \in Handlers, HoldForReview(g) PROVE FALSE
        <5>1. handler[g].src \in SourceIds /\ handler[g].ext \in Candidates
          BY <1>1, <4>1, RequestFacts DEF HoldForReview, At, RequestOK
        <5> QED BY <1>1, <1>2, <2>1, <4>1 DEF HoldForReview, TablesOK
      <4>2. ASSUME NEW g \in Handlers,
                   CommitRejection(g) \/ \E a \in AssetIds : CommitApproval(g, a)
            PROVE FALSE
        <5>1. handler[g].rev \in ReviewIds /\ review[handler[g].rev] # NoVal
          BY <1>1, <4>2, RequestFacts DEF CommitRejection, CommitApproval, At, RequestOK
        <5>2. PICK st \in {"approved", "rejected"} :
                 review' = [review EXCEPT ![handler[g].rev] = [@ EXCEPT !.state = st]]
          BY <4>2 DEF CommitRejection, CommitApproval
        <5>3. review[r] \in Review
          BY <1>1, <1>2 DEF TablesOK
        <5>4. [review[r] EXCEPT !.state = st] \in Review
          BY <5>3 DEF Review
        <5>5. [review[r] EXCEPT !.state = st] # NoVal
          BY <5>4, IngestAssumption DEF IngestAssumption
        <5> QED BY <1>1, <1>2, <2>1, <5>2, <5>5 DEF TablesOK
      <4> QED BY <1>1, <4>1, <4>2, DocumentWriters
    <3> QED BY <3>1
  <2>2. CASE review'[r] # NoVal
    BY <1>1, <1>2, <2>2, ReviewStep
  <2> QED BY <2>1, <2>2
<1>4. ASSUME Best(handler[h]) # NoVal, ~Stored(asset, Best(handler[h]))
      PROVE  ~Stored(asset', Best(handler[h]))
  <2>1. review[r].best \in AssetIds /\ asset[review[r].best] # NoVal
    BY <1>1, <1>2, <1>4 DEF TablesOK, Review, ApprovalInv, MatchWasStored, Best
  <2> QED BY <1>1, <1>4, <2>1, RowsStay DEF Best
<1> QED BY <1>3, <1>4 DEF Best

LEMMA ApproverStep ==
    ASSUME ApprovalInv, [Next]_vars, NEW h \in Handlers
    PROVE  ApproverOK(handler[h])'
<1>1. TablesOK /\ ApproverOK(handler[h]) /\ handler[h] \in Handler
      /\ RequestOK(handler[h], document, review)
  BY RequestFacts DEF ApprovalInv
<1>2. CASE handler'[h] = Idle
  BY <1>2 DEF ApproverOK, Idle
<1>3. CASE handler'[h] = handler[h]
  BY <1>1, <1>3, BestStays DEF ApproverOK, Best
<1>4. CASE handler'[h].op # "approve"
  BY <1>4 DEF ApproverOK
<1>5. CASE \/ Upload(h) \/ StoreSource(h) \/ WriteDirective(h) \/ MatchAsset(h)
           \/ \E s \in SourceIds : ReprocessDocument(h, s)
           \/ \E e \in Extractions, confMet \in BOOLEAN : Extract(h, e, confMet)
           \/ \E a \in AssetIds : CommitReprocess(h, a)
           \/ \E r \in ReviewIds : LoadForReject(h, r)
  <2>1. CASE \/ Upload(h)
             \/ \E s \in SourceIds : ReprocessDocument(h, s)
             \/ \E r \in ReviewIds : LoadForReject(h, r)
    <3>1. handler'[h].op # "approve"
      BY <2>1 DEF Upload, UploadDocument, UploadDuplicate, ReprocessDocument, LoadForReject,
         Continue, Idle, TablesOK, ApprovalInv
    <3> QED BY <1>4, <3>1
  <2>2. CASE StoreSource(h)
    <3>1. handler'[h].op = handler[h].op
      BY <1>1, <2>2 DEF StoreSource, Continue, TablesOK, Handler
    <3> QED BY <1>1, <1>4, <2>2, <3>1 DEF StoreSource, RequestOK
  <2>3. CASE \/ WriteDirective(h)
             \/ \E e \in Extractions, confMet \in BOOLEAN : Extract(h, e, confMet)
             \/ \E a \in AssetIds : CommitReprocess(h, a)
    <3>1. handler'[h].op = handler[h].op
      <4>1. CASE WriteDirective(h)
        BY <1>1, <4>1 DEF WriteDirective, Continue, TablesOK, Handler
      <4>2. CASE \E e \in Extractions, confMet \in BOOLEAN : Extract(h, e, confMet)
        BY <1>1, <4>2 DEF Extract, Continue, TablesOK, Handler
      <4>3. CASE \E a \in AssetIds : CommitReprocess(h, a)
        BY <1>1, <4>3 DEF CommitReprocess, Continue, TablesOK, Handler
      <4> QED BY <2>3, <4>1, <4>2, <4>3
    <3>2. handler[h].op # "approve"
      BY <1>1, <2>3 DEF WriteDirective, Extract, CommitReprocess, At, RequestOK
    <3> QED BY <1>4, <3>1, <3>2
  <2>4. CASE MatchAsset(h)
    <3> DEFINE m == matchExtraction(asset, handler[h].ext, CandidateLimit)
    <3> HIDE DEF m
    <3>1. handler[h].op # "approve"
      BY <1>1, <2>4 DEF MatchAsset, At, RequestOK
    <3>2. handler'[h] \in {Idle, [handler[h] EXCEPT !.pc = "load", !.target = m.asset],
                           [handler[h] EXCEPT !.pc = "write", !.ext = NoVal,
                                              !.row = newAsset(handler[h].ext)],
                           [handler[h] EXCEPT !.pc = "hold"]}
      BY <1>1, <2>4 DEF MatchAsset, Continue, Finish, TablesOK, m
    <3>3. handler'[h] = Idle \/ handler'[h].op = handler[h].op
      BY <1>1, <3>2 DEF Handler
    <3> QED BY <1>2, <1>4, <3>1, <3>3
  <2> QED BY <1>5, <2>1, <2>2, <2>3, <2>4
<1>6. CASE LoadTarget(h)
  <2>1. handler[h].pc = "load" /\ handler[h].target \in AssetIds /\ UNCHANGED <<asset, review>>
    BY <1>1, <1>6 DEF LoadTarget, At, RequestOK
  <2>2. \/ handler'[h] = [handler[h] EXCEPT !.pc = "fetch", !.ext = NoVal,
                             !.row = mergeInto(asset[handler[h].target], handler[h].ext)]
        \/ /\ ~Stored(asset, handler[h].target)
           /\ handler'[h] = [handler[h] EXCEPT !.pc = "write", !.ext = NoVal,
                                !.target = NoVal, !.row = newAsset(handler[h].ext)]
    BY <1>1, <1>6 DEF LoadTarget, Continue, TablesOK
  <2>3. /\ handler'[h].op = handler[h].op /\ handler'[h].rev = handler[h].rev
        /\ \/ handler'[h].pc = "fetch" /\ handler'[h].target = handler[h].target
           \/ /\ handler'[h].pc = "write" /\ handler'[h].target = NoVal
              /\ ~Stored(asset, handler[h].target)
    BY <1>1, <2>2 DEF Handler
  <2> QED BY <1>1, <2>1, <2>3, IdentityAssumption DEF ApproverOK, Best, IdentityAssumption
<1>7. CASE FetchPayload(h)
  <2>1. handler[h].pc = "fetch" /\ UNCHANGED <<asset, review>>
    BY <1>7 DEF FetchPayload, At
  <2>2. handler'[h] = [handler[h] EXCEPT !.pc = "write",
                          !.row = OverlayPayload(asset[handler[h].target], @)]
    BY <1>1, <1>7 DEF FetchPayload, Continue, TablesOK
  <2>3. /\ handler'[h].op = handler[h].op /\ handler'[h].rev = handler[h].rev
        /\ handler'[h].pc = "write" /\ handler'[h].target = handler[h].target
    BY <1>1, <2>2 DEF Handler
  <2> QED BY <1>1, <2>1, <2>3 DEF ApproverOK, Best
<1>8. ASSUME NEW r \in ReviewIds, LoadForApprove(h, r) PROVE ApproverOK(handler[h])'
  <2>1. UNCHANGED <<asset, review>>
    BY <1>8 DEF LoadForApprove
  <2>2. handler'[h].rev = r /\ handler'[h].pc \in {"load", "write"}
        /\ handler'[h].target = review[r].best
    BY <1>1, <1>8 DEF LoadForApprove, Continue, TablesOK, Idle
  <2> QED BY <2>1, <2>2 DEF ApproverOK, Best
<1> QED BY <1>1, <1>2, <1>3, <1>5, <1>6, <1>7, <1>8, RequestMoves

LEMMA ApprovalInvariant == Spec => []ApprovalInv
<1>1. Init => ApprovalInv
  BY TypeInit DEF Init, ApprovalInv, MatchWasStored, ApproverOK, Idle
<1>2. ApprovalInv /\ [Next]_vars => ApprovalInv'
  <2> SUFFICES ASSUME ApprovalInv, [Next]_vars PROVE ApprovalInv'
    OBVIOUS
  <2>1. TablesOK'
    BY TypeStep DEF ApprovalInv
  <2>2. \A r \in ReviewIds : MatchWasStored(r)'
    BY MatchStep DEF ApprovalInv
  <2>3. \A h \in Handlers : ApproverOK(handler[h])'
    BY ApproverStep
  <2> QED BY <2>1, <2>2, <2>3 DEF ApprovalInv
<1> QED BY <1>1, <1>2, PTL DEF Spec

(* The asset a reviewer was shown is the asset of the approved document,   *)
(* as long as it is stored when the approval commits, whatever deletions,  *)
(* restores and merges come between.                                       *)
THEOREM ApprovalsKeepTheirMatch == Spec => ApprovalKeepsItsMatch
<1> DEFINE Kept == \A r \in ReviewIds :
          /\ IsPending(r) /\ review'[r].state = "approved"
          /\ review[r].best # NoVal /\ Stored(asset, review[r].best)
          => document'[review[r].src].asset = review[r].best
<1>1. ApprovalInv /\ [Next]_vars => [Kept]_vars
  <2> SUFFICES ASSUME ApprovalInv, [Next]_vars, NEW r \in ReviewIds,
                      IsPending(r), review'[r].state = "approved",
                      review[r].best # NoVal, Stored(asset, review[r].best)
               PROVE  document'[review[r].src].asset = review[r].best
    OBVIOUS
  <2>1. TablesOK /\ review[r] # NoVal /\ review[r].state = "pending" /\ review[r] \in Review
    BY DEF ApprovalInv, IsPending, TablesOK
  <2>2. ASSUME NEW h \in Handlers, HoldForReview(h) PROVE FALSE
    BY <2>1, <2>2 DEF HoldForReview, TablesOK
  <2>3. ASSUME NEW h \in Handlers, CommitRejection(h) PROVE FALSE
    <3>1. review'[r] \in {review[r], [review[r] EXCEPT !.state = "rejected"]}
      BY <2>1, <2>3 DEF CommitRejection, TablesOK
    <3> QED BY <2>1, <3>1 DEF Review
  <2>4. ASSUME NEW h \in Handlers, NEW a \in AssetIds, CommitApproval(h, a)
        PROVE  document'[review[r].src].asset = review[r].best
    <3>1. /\ handler[h].pc = "write" /\ handler[h].op = "approve"
          /\ handler[h].src = review[handler[h].rev].src
      BY <2>1, <2>4, RequestFacts DEF CommitApproval, At, RequestOK
    <3>2. handler[h].rev = r
      BY <2>1, <2>4 DEF CommitApproval, TablesOK
    <3>3. handler[h].target = review[r].best
      BY <3>1, <3>2 DEF ApprovalInv, ApproverOK, Best
    <3>4. a = review[r].best
      BY <2>4, <3>3 DEF CommitApproval, WriteAsset
    <3> QED BY <2>1, <2>4, <3>1, <3>2, <3>4, InsertedDocument
  <2>5. ~UNCHANGED review
    BY <2>1
  <2> QED BY <2>1, <2>2, <2>3, <2>4, <2>5, DocumentWriters
<1> QED BY <1>1, ApprovalInvariant, PTL DEF Spec, ApprovalKeepsItsMatch

-----------------------------------------------------------------------------
(* The document pipeline implements the asset register.  Beside the types  *)
(* one thing has to be known of the requests: a row that will be inserted  *)
(* is a live one.                                                          *)
InsertsLive(q) == q.pc = "write" /\ q.target = NoVal => q.row.state = "live"

NewRowsLive == \A h \in Handlers : InsertsLive(handler[h])

RowsInv == TablesOK /\ NewRowsLive

-----------------------------------------------------------------------------
(* The strengthening is inductive: a request gets to its write with a new  *)
(* row from resolution, or with the target whose payload it has read.      *)
LEMMA NewRowsStep == RowsInv /\ [Next]_vars => RowsInv'
<1> SUFFICES ASSUME RowsInv, [Next]_vars PROVE NewRowsLive'
  BY TypeStep DEF RowsInv
<1> USE DEF RowsInv
<1>1. ASSUME NEW h \in Handlers, NEW q, Continue(h, q), InsertsLive(q)
      PROVE  NewRowsLive'
  BY <1>1 DEF Continue, NewRowsLive, TablesOK
<1>2. InsertsLive(Idle)
  BY DEF InsertsLive, Idle
<1>3. ASSUME NEW h \in Handlers, Finish(h) PROVE NewRowsLive'
  BY <1>1, <1>2, <1>3 DEF Finish, Continue
<1>4. ASSUME NEW h \in Handlers, NEW q, Continue(h, q), q.pc # "write" PROVE NewRowsLive'
  BY <1>1, <1>4 DEF InsertsLive
<1>5. CASE UNCHANGED handler
  BY <1>5 DEF NewRowsLive
<1>6. ASSUME NEW h \in Handlers, Upload(h) PROVE NewRowsLive'
  BY <1>4, <1>6 DEF Upload, UploadDocument, UploadDuplicate, Idle
<1>7. ASSUME NEW h \in Handlers, StoreSource(h) PROVE NewRowsLive'
  <2>1. PICK s \in SourceIds : Continue(h, [handler[h] EXCEPT
                !.pc = IF @ = "store" THEN "extract" ELSE "pendingdoc",
                !.content = NoVal, !.src = s])
    BY <1>7 DEF StoreSource
  <2> QED BY <1>4, <2>1, RequestFacts DEF Handler
<1>8. ASSUME NEW h \in Handlers,
             \/ CreatePendingDocument(h) \/ RelinkDocument(h) \/ HoldForReview(h)
             \/ CommitRejection(h) \/ Abort(h)
             \/ \E a \in AssetIds : CommitProcess(h, a) \/ CommitApproval(h, a)
      PROVE  NewRowsLive'
  BY <1>3, <1>8 DEF CreatePendingDocument, RelinkDocument, HoldForReview, CommitRejection,
     Abort, CommitProcess, CommitApproval
<1>9. ASSUME NEW h \in Handlers,
             \/ WriteDirective(h)
             \/ \E s \in SourceIds : ReprocessDocument(h, s)
             \/ \E r \in ReviewIds : LoadForReject(h, r)
             \/ \E e \in Extractions, confMet \in BOOLEAN : Extract(h, e, confMet)
             \/ \E a \in AssetIds : CommitReprocess(h, a)
      PROVE  NewRowsLive'
  BY <1>4, <1>9, RequestFacts DEF WriteDirective, ReprocessDocument, LoadForReject, Extract,
     CommitReprocess, Idle, Handler
<1>10. ASSUME NEW h \in Handlers, MatchAsset(h) PROVE NewRowsLive'
  <2> DEFINE m == matchExtraction(asset, handler[h].ext, CandidateLimit)
             q == [handler[h] EXCEPT !.pc = "write", !.ext = NoVal,
                                     !.row = newAsset(handler[h].ext)]
  <2> HIDE DEF m
  <2>1. InsertsLive(q)
    BY RequestFacts DEF InsertsLive, Handler, newAsset
  <2>2. \/ Finish(h)
        \/ Continue(h, [handler[h] EXCEPT !.pc = "load", !.target = m.asset])
        \/ Continue(h, q)
        \/ Continue(h, [handler[h] EXCEPT !.pc = "hold"])
    BY <1>10 DEF MatchAsset, m
  <2> QED BY <1>1, <1>3, <1>4, <2>1, <2>2, RequestFacts DEF Handler
<1>11. ASSUME NEW h \in Handlers, LoadTarget(h) PROVE NewRowsLive'
  <2> DEFINE q == [handler[h] EXCEPT !.pc = "write", !.ext = NoVal, !.target = NoVal,
                                     !.row = newAsset(handler[h].ext)]
  <2>1. InsertsLive(q)
    BY RequestFacts DEF InsertsLive, Handler, newAsset
  <2>2. \/ Continue(h, [handler[h] EXCEPT !.pc = "fetch", !.ext = NoVal,
                           !.row = mergeInto(asset[handler[h].target], handler[h].ext)])
        \/ Continue(h, q)
    BY <1>11 DEF LoadTarget
  <2> QED BY <1>1, <1>4, <2>1, <2>2, RequestFacts DEF Handler
<1>12. ASSUME NEW h \in Handlers, FetchPayload(h) PROVE NewRowsLive'
  <2> DEFINE q == [handler[h] EXCEPT !.pc = "write",
                      !.row = OverlayPayload(asset[handler[h].target], @)]
  <2>1. handler[h].target # NoVal
    BY <1>12, RequestFacts, IdentityAssumption
       DEF FetchPayload, At, RequestOK, IdentityAssumption
  <2>2. InsertsLive(q)
    BY <2>1, RequestFacts DEF InsertsLive, Handler
  <2> QED BY <1>1, <1>12, <2>2 DEF FetchPayload
<1>13. ASSUME NEW h \in Handlers, NEW r \in ReviewIds, LoadForApprove(h, r)
       PROVE  NewRowsLive'
  <2> DEFINE q == [Idle EXCEPT !.pc = "write", !.op = "approve", !.rev = r,
                               !.src = review[r].src, !.row = newAsset(review[r].ext)]
  <2>1. InsertsLive(q)
    BY DEF InsertsLive, Idle, newAsset
  <2>2. \/ Continue(h, q)
        \/ Continue(h, [Idle EXCEPT !.pc = "load", !.op = "approve", !.rev = r,
                           !.src = review[r].src, !.ext = review[r].ext,
                           !.target = review[r].best])
    BY <1>13 DEF LoadForApprove
  <2> QED BY <1>1, <1>4, <2>1, <2>2 DEF Idle
<1>14. ASSUME \/ \E a \in AssetIds : SoftDelete(a) \/ Restore(a)
              \/ \E p \in Purgers : PurgeExpired(p)
       PROVE  NewRowsLive'
  BY <1>5, <1>14 DEF SoftDelete, Restore, PurgeExpired
<1>15. ASSUME NEW s \in SourceIds, DeleteDocument(s) PROVE NewRowsLive'
  BY <1>5, <1>15 DEF DeleteDocument
<1>16. CASE UNCHANGED tables
  BY <1>5, <1>16 DEF tables
<1> QED BY <1>6, <1>7, <1>8, <1>9, <1>10, <1>11, <1>12, <1>13, <1>14, <1>15, <1>16, NextCases
        DEF PipelineNext, Reprocess, Pipeline, Decide

LEMMA RowsInvariant == Spec => []RowsInv
<1>1. Init => RowsInv
  BY TypeInit DEF Init, RowsInv, NewRowsLive, InsertsLive, Idle
<1> QED BY <1>1, NewRowsStep, PTL DEF Spec

-----------------------------------------------------------------------------
(* The refinement mapping, read row by row.                                *)

LifeOf(rows)   == [a \in AssetIds |-> Life(rows[a])]
SerialOf(rows) == [a \in AssetIds |-> IF rows[a] = NoVal THEN NoVal ELSE rows[a].serial]
LinkOf(docs)   == [s \in SourceIds |-> IF docs[s] = NoVal THEN NoVal ELSE docs[s].asset]

(* A stored row is stored in the register, with the row's state.           *)
LEMMA RowLife ==
    ASSUME NEW row \in StoredRow
    PROVE  /\ Life(row) = row.state /\ Life(row) \in {"live", "deleted"}
           /\ row # NoVal /\ row.serial \in Register!SerialOrNone
<1>1. row # NoVal
  BY IngestAssumption DEF IngestAssumption, AssetRow
<1> QED BY <1>1 DEF StoredRow, Life, Register!SerialOrNone, Values

LEMMA StoredLife ==
    ASSUME NEW rows, NEW a \in AssetIds, Stored(rows, a),
           rows[a] \in AssetRow
    PROVE  Life(rows[a]) \in {"live", "deleted"}
BY RowLife DEF Stored, AssetRow, Tombstone

(* The row that is written is free in the register if the index allows it. *)
LEMMA IndexIsFree ==
    ASSUME TablesOK, NEW a \in AssetIds, NEW row, SerialIndexAllows(asset, a, row),
           row.state = "live"
    PROVE  Register!Free(a, row.serial)
BY StoredType DEF SerialIndexAllows, Register!Free, IsLive, Life, TablesOK

(* One row is written: one life and one serial of the register change.     *)
LEMMA RowWrite ==
    ASSUME TablesOK, NEW a \in AssetIds, NEW row \in AssetRow, asset' = [asset EXCEPT ![a] = row],
           row # NoVal
    PROVE  /\ LifeOf(asset') = [LifeOf(asset) EXCEPT ![a] = Life(row)]
           /\ SerialOf(asset') = [SerialOf(asset) EXCEPT ![a] = row.serial]
BY DEF TablesOK, LifeOf, SerialOf

(* A document that has an asset after a step had it before, or the asset   *)
(* is stored now.                                                          *)
LEMMA LinkStep ==
    ASSUME TablesOK, [Next]_vars, NEW s \in SourceIds,
           document'[s] # NoVal, document'[s].asset # NoVal
    PROVE  \/ document[s] # NoVal /\ document[s].asset = document'[s].asset
           \/ Stored(asset', document'[s].asset)
<1>1. CASE UNCHANGED document
  BY <1>1
<1>2. ASSUME NEW h \in Handlers, CreatePendingDocument(h)
      PROVE  document'[s] = document[s] \/ Stored(asset', document'[s].asset)
  BY <1>2 DEF CreatePendingDocument, TablesOK, Stored
<1>3. ASSUME NEW h \in Handlers, WriteDirective(h) \/ RelinkDocument(h)
      PROVE  \/ document[s] # NoVal /\ document[s].asset = document'[s].asset
             \/ Stored(asset', document'[s].asset)
  <2>1. CASE handler[h].src # s
    BY <1>3, <2>1 DEF WriteDirective, RelinkDocument, TablesOK
  <2>2. CASE handler[h].src = s
    <3>1. document[s] # NoVal /\ document[s] \in Document
      BY <2>2, <1>3, ReprocessSave DEF TablesOK
    <3> QED BY <1>3, <2>2, <3>1 DEF WriteDirective, RelinkDocument, TablesOK, Document, Stored
  <2> QED BY <2>1, <2>2
<1>4. ASSUME NEW h \in Handlers, NEW a \in AssetIds,
             CommitProcess(h, a) \/ CommitApproval(h, a)
      PROVE  document'[s] = document[s] \/ Stored(asset', document'[s].asset)
  <2>1. Stored(asset', a)
    BY <1>4, WrittenIsStored DEF CommitProcess, CommitApproval
  <2>2. document'[s] = document[s] \/ document'[s].asset = a
    BY <1>4 DEF CommitProcess, CommitApproval, InsertDocument, TablesOK
  <2> QED BY <2>1, <2>2
<1>5. ASSUME NEW p \in Purgers, PurgeExpired(p)
      PROVE  document[s] # NoVal /\ document[s].asset = document'[s].asset
  BY <1>5, PurgeFacts
<1>6. ASSUME NEW t \in SourceIds, DeleteDocument(t)
      PROVE  document'[s] = document[s]
  BY <1>6 DEF DeleteDocument, TablesOK, Document
<1> QED BY <1>1, <1>2, <1>3, <1>4, <1>5, <1>6, DocumentWriters

LEMMA LinksFollow == TablesOK /\ [Next]_vars => Register!LinksMove
<1> SUFFICES ASSUME TablesOK, [Next]_vars PROVE Register!LinksMove
  OBVIOUS
<1>1. TablesOK'
  BY TypeStep
<1>2. LinkOf(document') \in [SourceIds -> AssetIds \cup {NoVal}]
  BY <1>1 DEF LinkOf, TablesOK, Document
<1>3. ASSUME NEW s \in SourceIds
      PROVE  \/ LinkOf(document')[s] \in {LinkOf(document)[s], NoVal}
             \/ LifeOf(asset')[LinkOf(document')[s]] \in {"live", "deleted"}
  <2>1. CASE document'[s] = NoVal \/ document'[s].asset = NoVal
    BY <2>1 DEF LinkOf
  <2>2. CASE document'[s] # NoVal /\ document'[s].asset # NoVal
    <3> DEFINE a == document'[s].asset
    <3>1. a \in AssetIds /\ LinkOf(document')[s] = a
      BY <1>1, <2>2 DEF TablesOK, Document, LinkOf
    <3>2. CASE document[s] # NoVal /\ document[s].asset = a
      BY <3>1, <3>2 DEF LinkOf
    <3>3. CASE Stored(asset', a)
      <4>1. asset'[a] \in AssetRow
        BY <1>1, <3>1, <3>3 DEF TablesOK, Stored
      <4> QED BY <3>1, <3>3, <4>1, StoredLife DEF LifeOf
    <3> QED BY <2>2, <3>2, <3>3, LinkStep
  <2> QED BY <2>1, <2>2
<1> QED BY <1>2, <1>3 DEF Register!LinksMove, LinkOf, LifeOf

-----------------------------------------------------------------------------
(* Initial states map to initial states, steps to steps.                   *)
LEMMA RegisterInit == Init => Register!Init
BY DEF Init, Register!Init, Life

(* The commit of an asset creates one in the register, or writes one.      *)
LEMMA CommitStep ==
    ASSUME RowsInv, [Next]_vars, NEW h \in Handlers, NEW a \in AssetIds,
           At(h, "write"), WriteAsset(h, a)
    PROVE  Register!Create(a) \/ Register!Write(a)
<1>1. TablesOK /\ Register!LinksMove
  BY LinksFollow DEF RowsInv
<1> DEFINE row == IF handler[h].target = NoVal THEN handler[h].row
                  ELSE UpdatedRow(asset[a], handler[h].row)
<1>2. handler[h].row \in StoredRow
  BY <1>1, RequestFacts DEF At, RequestOK
<1>3. asset' = [asset EXCEPT ![a] = row] /\ SerialIndexAllows(asset, a, row)
  BY DEF WriteAsset
<1>4. CASE handler[h].target = NoVal
  <2>1. row \in StoredRow /\ row.state = "live" /\ asset[a] = NoVal
    BY <1>2, <1>4 DEF RowsInv, NewRowsLive, InsertsLive, At, WriteAsset
  <2> HIDE DEF row
  <2>2. Life(row) = "live" /\ row # NoVal /\ row.serial \in Register!SerialOrNone
    BY <2>1, RowLife
  <2>3. Register!Free(a, row.serial)
    BY <1>1, <1>3, <2>1, IndexIsFree
  <2>4. LifeOf(asset)[a] = "none"
    BY <2>1 DEF LifeOf, Life
  <2>5. row \in AssetRow
    BY <2>1 DEF AssetRow
  <2>6. /\ LifeOf(asset') = [LifeOf(asset) EXCEPT ![a] = "live"]
        /\ SerialOf(asset') = [SerialOf(asset) EXCEPT ![a] = row.serial]
    BY <1>1, <1>3, <2>2, <2>5, RowWrite
  <2> QED BY <1>1, <2>2, <2>3, <2>4, <2>6 DEF Register!Create, LifeOf, SerialOf
<1>5. CASE handler[h].target # NoVal
  <2>1. asset[a] \in StoredRow
    BY <1>1, <1>5, StoredType DEF WriteAsset
  <2>2. row \in StoredRow /\ row.state \in {"deleted", asset[a].state}
    BY <1>2, <1>5, <2>1, UpdatedType
  <2> HIDE DEF row
  <2>3. /\ Life(row) = row.state /\ row # NoVal /\ row.serial \in Register!SerialOrNone
        /\ LifeOf(asset)[a] = asset[a].state /\ LifeOf(asset)[a] \in {"live", "deleted"}
    BY <2>1, <2>2, RowLife DEF LifeOf
  <2>4. row.state = "live" => Register!Free(a, row.serial)
    BY <1>1, <1>3, IndexIsFree
  <2>5. /\ LifeOf(asset') = [LifeOf(asset) EXCEPT ![a] = row.state]
        /\ SerialOf(asset') = [SerialOf(asset) EXCEPT ![a] = row.serial]
    BY <1>1, <1>3, <2>2, <2>3, RowWrite DEF AssetRow
  <2> QED BY <1>1, <2>2, <2>3, <2>4, <2>5
          DEF Register!Write, Register!Stored, LifeOf, SerialOf
<1> QED BY <1>4, <1>5

LEMMA SoftDeleteStep ==
    ASSUME RowsInv, [Next]_vars, NEW a \in AssetIds, SoftDelete(a)
    PROVE  Register!Write(a)
<1>1. TablesOK /\ Register!LinksMove
  BY LinksFollow DEF RowsInv
<1> DEFINE row == [asset[a] EXCEPT !.state = "deleted"]
<1>2. asset[a] \in StoredRow
  BY <1>1, StoredType DEF SoftDelete, IsLive, Stored
<1>3. row \in StoredRow /\ row.state = "deleted" /\ asset' = [asset EXCEPT ![a] = row]
  BY <1>2 DEF SoftDelete, StoredRow
<1> HIDE DEF row
<1>4. /\ Life(row) = "deleted" /\ row # NoVal /\ row.serial \in Register!SerialOrNone
      /\ LifeOf(asset)[a] \in {"live", "deleted"}
  BY <1>2, <1>3, RowLife DEF LifeOf
<1>5. /\ LifeOf(asset') = [LifeOf(asset) EXCEPT ![a] = "deleted"]
      /\ SerialOf(asset') = [SerialOf(asset) EXCEPT ![a] = row.serial]
  BY <1>1, <1>3, <1>4, RowWrite DEF AssetRow
<1> QED BY <1>1, <1>4, <1>5 DEF Register!Write, Register!Stored, LifeOf, SerialOf

LEMMA RestoreStep ==
    ASSUME RowsInv, NEW a \in AssetIds, Restore(a)
    PROVE  Register!Restore(a)
<1>1. TablesOK
  BY DEF RowsInv
<1> DEFINE row == [asset[a] EXCEPT !.state = "live"]
<1>2. asset[a] \in StoredRow /\ asset[a].state = "deleted"
  BY <1>1, StoredType DEF Restore, Stored
<1>3. /\ row \in StoredRow /\ row.state = "live"
      /\ asset' = [asset EXCEPT ![a] = row] /\ SerialIndexAllows(asset, a, row)
  BY <1>2 DEF Restore, StoredRow
<1> HIDE DEF row
<1>4. /\ Life(row) = "live" /\ row # NoVal /\ row.serial \in Register!SerialOrNone
      /\ LifeOf(asset)[a] = "deleted"
  BY <1>2, <1>3, RowLife DEF LifeOf
<1>5. Register!Free(a, row.serial)
  BY <1>1, <1>3, IndexIsFree
<1>6. /\ LifeOf(asset') = [LifeOf(asset) EXCEPT ![a] = "live"]
      /\ SerialOf(asset') = [SerialOf(asset) EXCEPT ![a] = row.serial]
  <2>1. row \in AssetRow
    BY <1>3 DEF AssetRow
  <2>2. /\ LifeOf(asset') = [LifeOf(asset) EXCEPT ![a] = Life(row)]
        /\ SerialOf(asset') = [SerialOf(asset) EXCEPT ![a] = row.serial]
    BY <1>1, <1>3, <1>4, <2>1, RowWrite
  <2> QED BY <1>4, <2>2
<1>7. UNCHANGED document
  BY DEF Restore
<1> QED BY <1>4, <1>5, <1>6, <1>7 DEF Register!Restore, LifeOf, SerialOf

LEMMA PurgeStep ==
    ASSUME RowsInv, NEW p \in Purgers, PurgeExpired(p)
    PROVE  Register!Purge(Purged(p))
<1>1. TablesOK
  BY DEF RowsInv
<1>2. ASSUME NEW a \in Purged(p) PROVE LifeOf(asset)[a] \in {"live", "deleted"}
  <2>1. a \in AssetIds /\ asset[a] \in StoredRow
    BY <1>1, <1>2, StoredType DEF Purged
  <2> QED BY <2>1, RowLife DEF LifeOf
<1>3. /\ Tombstone # NoVal
      /\ Life(Tombstone) = "gone" /\ Tombstone.serial = NoVal
  BY IngestAssumption DEF IngestAssumption, AssetRow, Life, Tombstone
<1>4. asset' = [a \in AssetIds |-> IF a \in Purged(p) THEN Tombstone ELSE asset[a]]
  BY <1>1, PurgeFacts
<1> DEFINE S == Purged(p)
<1> HIDE DEF S
<1>5. /\ LifeOf(asset') =
            [a \in AssetIds |-> IF a \in S THEN "gone" ELSE LifeOf(asset)[a]]
      /\ SerialOf(asset') =
            [a \in AssetIds |-> IF a \in S THEN NoVal ELSE SerialOf(asset)[a]]
  BY <1>3, <1>4 DEF LifeOf, SerialOf, S
<1>6. LinkOf(document') \in [SourceIds -> AssetIds \cup {NoVal}]
  BY <1>1, PurgeFacts DEF LinkOf, Document
<1>7. ASSUME NEW s \in SourceIds
      PROVE  \/ LinkOf(document')[s] = NoVal
             \/ LinkOf(document')[s] = LinkOf(document)[s] /\ LinkOf(document)[s] \notin S
  <2>1. NoVal \notin S
    BY IdentityAssumption DEF S, Purged, IdentityAssumption
  <2> QED BY <1>1, <2>1, PurgeFacts DEF LinkOf, S
<1>8. \A a \in S : LifeOf(asset)[a] \in {"live", "deleted"}
  BY <1>2 DEF S
<1>9. S \subseteq AssetIds
  BY DEF S, Purged
<1>10. Register!Purge(S)
  BY <1>5, <1>6, <1>7, <1>8, <1>9
     DEF Register!Purge, Register!Stored, LifeOf, SerialOf, LinkOf
<1> QED BY <1>10 DEF S

LEMMA RegisterStep == RowsInv /\ [Next]_vars => [Register!Next]_Register!rvars
<1> SUFFICES ASSUME RowsInv, [Next]_vars PROVE Register!Next
  OBVIOUS
<1>1. CASE UNCHANGED asset
  <2>1. Register!LinksMove
    BY LinksFollow DEF RowsInv
  <2> QED BY <1>1, <2>1 DEF Register!Next, Register!Relink
<1>2. ASSUME NEW h \in Handlers, NEW a \in AssetIds, At(h, "write"), WriteAsset(h, a)
      PROVE  Register!Next
  BY <1>2, CommitStep DEF Register!Next
<1>3. ASSUME NEW a \in AssetIds, SoftDelete(a) \/ Restore(a)
      PROVE  Register!Next
  BY <1>3, SoftDeleteStep, RestoreStep DEF Register!Next
<1>4. ASSUME NEW p \in Purgers, PurgeExpired(p) PROVE Register!Next
  <2>1. Purged(p) \in SUBSET AssetIds
    BY DEF Purged
  <2>2. Register!Purge(Purged(p))
    BY <1>4, PurgeStep
  <2>3. \E S \in SUBSET AssetIds : Register!Purge(S)
    BY <2>1, <2>2 DEF Register!Purge, Register!Stored
  <2> QED BY <2>3 DEF Register!Next
<1> QED BY <1>1, <1>2, <1>3, <1>4, AssetWriters DEF RowsInv

(* Whatever the requests of the pipeline do and however they interleave,   *)
(* the stored assets and documents take a step of the register or none:    *)
(* what AssetRegister promises its readers the pipeline keeps.             *)
THEOREM IngestImplementsRegister == Spec => ImplementsRegister
BY RegisterInit, RegisterStep, RowsInvariant, PTL DEF Spec, ImplementsRegister, Register!Spec

=============================================================================

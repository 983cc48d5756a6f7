------------------------------ MODULE Lifecycle ------------------------------
(***************************************************************************)
(* The register's own operations on assets: patch, soft delete, restore,   *)
(* merge and purge (core/lifecycle, api/assets), beside the pipeline that  *)
(* creates assets and merges extractions into them.  Module Ingest takes   *)
(* the first three as single steps; here every operation is its reads and  *)
(* its commit, and what it read may be stale when it writes.               *)
(*                                                                         *)
(* A write is the whole entity that was read, laid over the payload stored *)
(* at its last read: keys the entity lacks keep their stored value.  Of an *)
(* asset only the serial key and the deletion time are kept here; category *)
(* and the other fields decide nothing.  One owner, one scope.             *)
(***************************************************************************)
EXTENDS Integers, FiniteSets

CONSTANTS
    NoVal,
    Gone,          \* the row of a purged asset, the link of a detached document
    AssetIds,      \* keys of assets
    Documents,     \* keys of documents
    Serials,       \* normalised serials
    Handlers,      \* concurrent requests
    MaxNow         \* bound of the clock; the retention window is one tick

VARIABLES
    asset,      \* AssetIds -> the row, NoVal before it exists, Gone once purged
    document,   \* Documents -> its asset, NoVal before it exists, Gone if detached
    handler,    \* Handlers -> where the request is and what it has read
    now         \* the clock, in retention windows

vars == <<asset, document, handler, now>>

Times    == 1 .. MaxNow
Entity   == [serial : Serials \cup {NoVal}, deleted : Times \cup {NoVal}]
Request  == [pc : {"idle", "duplicate", "documents", "merge", "fetch", "write", "purge"},
             op : {NoVal, "patch", "delete", "restore", "merge", "enrich", "purge"},
             id : AssetIds \cup {NoVal}, dup : AssetIds \cup {NoVal},
             ent : Entity \cup {NoVal}, other : Entity \cup {NoVal},
             docs : SUBSET Documents, purged : SUBSET AssetIds, left : SUBSET AssetIds]
Idle     == [pc |-> "idle", op |-> NoVal, id |-> NoVal, dup |-> NoVal, ent |-> NoVal,
             other |-> NoVal, docs |-> {}, purged |-> {}, left |-> {}]

ASSUME LifecycleAssumption ==
    /\ NoVal \notin AssetIds \cup Serials \cup Nat
    /\ Gone \notin AssetIds \cup {NoVal}
    /\ {NoVal, Gone} \cap Entity = {}
    /\ MaxNow \in Nat \ {0}

Init ==
    /\ asset    = [a \in AssetIds |-> NoVal]
    /\ document = [d \in Documents |-> NoVal]
    /\ handler  = [h \in Handlers |-> Idle]
    /\ now      = 1

Stored(a)    == asset[a] \notin {NoVal, Gone}
IsLive(a)    == Stored(a) /\ asset[a].deleted = NoVal
Expired(ent) == ent.deleted # NoVal /\ now - ent.deleted > 0

Continue(h, state) == handler' = [handler EXCEPT ![h] = state]
Finish(h)          == Continue(h, Idle)
At(h, pc)          == handler[h].pc = pc

-----------------------------------------------------------------------------
(* The repository and the codec of assets.                                 *)

Coalesce(x, y) == IF x = NoVal THEN y ELSE x

Overlay(stored, ent) == [ent EXCEPT !.serial = Coalesce(@, stored.serial)]

(* A mutant: the entity's deletion time is written even when it has none.  *)
UpdatedWithDeletedAt(stored, ent, restore) == ent

(* deleted_at is written when the entity has one; Restore alone clears it. *)
UpdatedAsset(stored, ent, restore) ==
    [ent EXCEPT !.deleted = IF restore THEN NoVal ELSE Coalesce(@, stored.deleted)]

(* A mutant: deleted rows hold their serial, live ones share it.           *)
IndexOfDeletedRows(a, row) ==
    row.deleted = NoVal /\ row.serial # NoVal =>
        \A b \in AssetIds \ {a} : Stored(b) /\ ~IsLive(b) => asset[b].serial # row.serial

SerialIndexAllows(a, row) ==
    row.deleted = NoVal /\ row.serial # NoVal =>
        \A b \in AssetIds \ {a} : IsLive(b) => asset[b].serial # row.serial

-----------------------------------------------------------------------------
(* The pipeline beside it: a new asset with its first document.            *)
CreateAsset(a, s, d) ==
    LET row == [serial |-> s, deleted |-> NoVal]
    IN  /\ asset[a] = NoVal /\ document[d] = NoVal
        /\ SerialIndexAllows(a, row)
        /\ asset' = [asset EXCEPT ![a] = row]
        /\ document' = [document EXCEPT ![d] = a]
        /\ UNCHANGED <<handler, now>>

(* A document that is processed again is pointed at the asset its          *)
(* extraction resolves to, whatever it led to before.                      *)
RelinkDocument(d, a) ==
    /\ document[d] # NoVal /\ Stored(a)
    /\ document' = [document EXCEPT ![d] = a]
    /\ UNCHANGED <<asset, handler, now>>

Read(h, op, a, ent) ==
    /\ At(h, "idle")
    /\ Continue(h, [Idle EXCEPT !.pc = "fetch", !.op = op, !.id = a, !.ent = ent])
    /\ UNCHANGED <<asset, document, now>>

(* An extraction, of a new document d, merged into the live asset it       *)
(* matched: its serial fills a gap.                                        *)
Enrich(h, a, s, d) ==
    /\ IsLive(a) /\ document[d] = NoVal
    /\ At(h, "idle")
    /\ Continue(h, [Idle EXCEPT !.pc = "fetch", !.op = "enrich", !.id = a, !.docs = {d},
                                !.ent = [asset[a] EXCEPT !.serial = Coalesce(@, s)]])
    /\ UNCHANGED <<asset, document, now>>

(* PatchAsset reads outside any transaction, deleted assets included.  A   *)
(* serial key that is set stays.                                           *)
PatchAsset(h, a, s) ==
    /\ Stored(a)
    /\ Read(h, "patch", a, [asset[a] EXCEPT !.serial = Coalesce(@, s)])

SoftDelete(h, a) ==
    /\ IsLive(a)
    /\ Read(h, "delete", a, [asset[a] EXCEPT !.deleted = now])

Restore(h, a) ==
    /\ Stored(a) /\ ~IsLive(a) /\ ~Expired(asset[a])
    /\ Read(h, "restore", a, [asset[a] EXCEPT !.deleted = NoVal])

FetchPayload(h) ==
    /\ At(h, "fetch") /\ Stored(handler[h].id)
    /\ Continue(h, [handler[h] EXCEPT !.pc = "write",
                        !.ent = Overlay(asset[handler[h].id], @)])
    /\ UNCHANGED <<asset, document, now>>

(* The UPDATE of one asset, and the document of an extraction with it.     *)
WriteAsset(h) ==
    LET q   == handler[h]
        row == UpdatedAsset(asset[q.id], q.ent, q.op = "restore")
    IN  /\ At(h, "write") /\ Stored(q.id)
        /\ SerialIndexAllows(q.id, row)
        /\ asset' = [asset EXCEPT ![q.id] = row]
        /\ \A d \in q.docs : document[d] = NoVal
        /\ document' = [d \in Documents |-> IF d \in q.docs THEN q.id ELSE document[d]]
        /\ Finish(h)
        /\ UNCHANGED now

-----------------------------------------------------------------------------
(* Merge: survivor a, duplicate b.                                         *)

(* What the survivor has wins.                                             *)
mergeIntoAsset(sv, dup) == [sv EXCEPT !.serial = Coalesce(@, dup.serial)]

(* A mutant: an asset may be merged into itself.                           *)
ReadAnySurvivor(h, a, b) ==
    /\ At(h, "idle")
    /\ Stored(a) /\ Stored(b)
    /\ Continue(h, [Idle EXCEPT !.pc = "duplicate", !.op = "merge", !.id = a, !.dup = b,
                                !.ent = asset[a]])
    /\ UNCHANGED <<asset, document, now>>

ReadSurvivor(h, a, b) ==
    /\ At(h, "idle")
    /\ a # b
    /\ Stored(a) /\ Stored(b)
    /\ Continue(h, [Idle EXCEPT !.pc = "duplicate", !.op = "merge", !.id = a, !.dup = b,
                                !.ent = asset[a]])
    /\ UNCHANGED <<asset, document, now>>

(* A deleted survivor is a conflict; a deleted duplicate is not.           *)
ReadDuplicate(h) ==
    LET q == handler[h]
    IN  /\ At(h, "duplicate") /\ Stored(q.dup)
        /\ q.ent.deleted = NoVal
        /\ Continue(h, [q EXCEPT !.pc = "documents",
                                 !.ent = mergeIntoAsset(@, asset[q.dup]),
                                 !.other = [asset[q.dup] EXCEPT !.deleted = now]])
        /\ UNCHANGED <<asset, document, now>>

(* The documents to move are listed, and the two payloads fetched, which   *)
(* the merge's own writes before them leave alone.                         *)
ListDocuments(h) ==
    LET q == handler[h]
    IN  /\ At(h, "documents") /\ Stored(q.id) /\ Stored(q.dup)
        /\ Continue(h, [q EXCEPT !.pc = "merge", !.docs = {d \in Documents : document[d] = q.dup},
                                 !.ent = Overlay(asset[q.id], @),
                                 !.other = Overlay(asset[q.dup], @)])
        /\ UNCHANGED <<asset, document, now>>

(* A mutant: the documents of the duplicate are detached, as a purge does. *)
detachDocuments(docs, a) == [d \in Documents |-> IF d \in docs THEN Gone ELSE document[d]]

repointDocuments(docs, a) == [d \in Documents |-> IF d \in docs THEN a ELSE document[d]]

(* One commit: documents, then the survivor, whose serial the index judges *)
(* while the duplicate is still there, then the duplicate's deletion.      *)
CommitMerge(h) ==
    LET q   == handler[h]
        row == UpdatedAsset(asset[q.id], q.ent, FALSE)
    IN  /\ At(h, "merge") /\ Stored(q.id) /\ Stored(q.dup)
        /\ SerialIndexAllows(q.id, row)
        /\ document' = repointDocuments(q.docs, q.id)
        /\ asset' = [asset EXCEPT ![q.id] = row,
                                  ![q.dup] = UpdatedAsset(@, q.other, FALSE)]
        /\ Finish(h)
        /\ UNCHANGED now

-----------------------------------------------------------------------------
(* Purge: the expired assets are listed, then the documents of each by a   *)
(* statement of its own.                                                   *)
ListExpired(h) ==
    LET expired == {a \in AssetIds : Stored(a) /\ Expired(asset[a])}
    IN  /\ At(h, "idle")
        /\ Continue(h, [Idle EXCEPT !.pc = "purge", !.op = "purge", !.purged = expired,
                                !.left = expired])
        /\ UNCHANGED <<asset, document, now>>

ListAttached(h, a) ==
    LET q == handler[h]
    IN  /\ At(h, "purge") /\ a \in q.left
        /\ Continue(h, [q EXCEPT !.left = @ \ {a},
                                 !.docs = @ \cup {d \in Documents : document[d] = a}])
        /\ UNCHANGED <<asset, document, now>>

(* Whatever became of them, the rows are deleted, and the documents that   *)
(* were listed are detached by their ids, wherever they lead by now.  What *)
(* else leads to a row is detached by the foreign key.                     *)
CommitPurge(h) ==
    LET q      == handler[h]
        purged == {a \in q.purged : Stored(a)}
    IN  /\ At(h, "purge") /\ q.left = {}
        /\ document' = [d \in Documents |->
                           IF d \in q.docs \/ document[d] \in purged THEN Gone ELSE document[d]]
        /\ asset' = [a \in AssetIds |-> IF a \in purged THEN Gone ELSE asset[a]]
        /\ Finish(h)
        /\ UNCHANGED now

(* Refused, failed or abandoned: the transaction is rolled back.           *)
Abort(h) ==
    /\ ~At(h, "idle")
    /\ Finish(h)
    /\ UNCHANGED <<asset, document, now>>

Tick ==
    /\ now < MaxNow
    /\ now' = now + 1
    /\ UNCHANGED <<asset, document, handler>>

Operation(h, a) ==
    \/ \E s \in Serials \cup {NoVal} :
          PatchAsset(h, a, s) \/ \E d \in Documents : Enrich(h, a, s, d)
    \/ SoftDelete(h, a) \/ Restore(h, a)
    \/ \E b \in AssetIds : ReadSurvivor(h, a, b)

Next ==
    \/ \E a \in AssetIds, s \in Serials \cup {NoVal}, d \in Documents : CreateAsset(a, s, d)
    \/ \E a \in AssetIds, d \in Documents : RelinkDocument(d, a)
    \/ \E h \in Handlers :
          \/ \E a \in AssetIds : Operation(h, a) \/ ListAttached(h, a)
          \/ FetchPayload(h) \/ WriteAsset(h)
          \/ ReadDuplicate(h) \/ ListDocuments(h) \/ CommitMerge(h)
          \/ ListExpired(h) \/ CommitPurge(h) \/ Abort(h)
    \/ Tick

Spec == Init /\ [][Next]_vars

-----------------------------------------------------------------------------
(* Properties.                                                             *)

(* The variables' types, and every request holds what its next step needs. *)
LifecycleTypeOK ==
    /\ asset    \in [AssetIds -> Entity \cup {NoVal, Gone}]
    /\ document \in [Documents -> AssetIds \cup {NoVal, Gone}]
    /\ handler  \in [Handlers -> Request]
    /\ now      \in Times
    /\ \A h \in Handlers :
          /\ handler[h].pc \notin {"idle", "purge"} =>
                handler[h].id \in AssetIds /\ handler[h].ent # NoVal
          /\ handler[h].pc \in {"duplicate", "documents", "merge"} =>
                handler[h].dup \in AssetIds /\ handler[h].dup # handler[h].id
          /\ handler[h].pc = "merge" => handler[h].other # NoVal

(* An asset as a reader of the register sees it.                           *)
Life == [a \in AssetIds |-> IF asset[a] = NoVal THEN "none"
                            ELSE IF asset[a] = Gone THEN "gone"
                            ELSE IF asset[a].deleted = NoVal THEN "live" ELSE "deleted"]

SerialKey == [a \in AssetIds |-> IF Stored(a) THEN asset[a].serial ELSE NoVal]

Link == [d \in Documents |-> IF document[d] = Gone THEN NoVal ELSE document[d]]

Register == INSTANCE AssetRegister WITH
    Assets <- AssetIds, life <- Life, serial <- SerialKey, link <- Link

(* However stale what they read, the operations together keep the promise  *)
(* of the register: one life per asset, serials unique among the live, no  *)
(* document leading nowhere; and only Restore brings an asset back.        *)
ImplementsRegister == Register!Spec

(* A document loses its asset only in a purge, and only if it leads to one *)
(* of the assets that are purged or did when the purge listed them: no     *)
(* merge, relink or write of a stale entity detaches anything.             *)
OnlyPurgesDetach ==
    [][\A d \in Documents :
          document[d] # Gone /\ document'[d] = Gone =>
             \E h \in Handlers :
                /\ handler[h].op = "purge" /\ \A a \in handler[h].purged : ~Stored(a)'
                /\ d \in handler[h].docs \/ document[d] \in handler[h].purged]_vars

=============================================================================

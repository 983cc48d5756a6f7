--------------------------- MODULE LifecycleProofs ---------------------------
(***************************************************************************)
(* Proofs about module Lifecycle, for any assets, documents, serials and   *)
(* concurrent requests: its types, who detaches documents, and that        *)
(* it implements AssetRegister.  What a request remembers may be stale, so *)
(* the invariant says little of it: a restore carries no documents, and a  *)
(* merge that is past its reads will delete the duplicate.                 *)
(***************************************************************************)
EXTENDS Lifecycle, TLAPS

HandlerOK(q) ==
    /\ q \in Request
    /\ q.pc \notin {"idle", "purge"} => q.id \in AssetIds /\ q.ent \in Entity
    /\ q.pc \in {"duplicate", "documents", "merge"} => q.dup \in AssetIds /\ q.dup # q.id
    /\ q.pc \in {"documents", "merge"} => q.other \in Entity /\ q.other.deleted # NoVal
    /\ q.pc \in {"duplicate", "documents", "merge"} => q.op = "merge"
    /\ q.op = "restore" => q.docs = {}
    /\ q.pc = "purge" => q.op = "purge"

IInv ==
    /\ LifecycleTypeOK
    /\ \A h \in Handlers : HandlerOK(handler[h])

(* What LifecycleTypeOK says of the requests follows.                      *)
LEMMA HandlerFacts ==
    ASSUME NEW q, HandlerOK(q)
    PROVE  /\ q \in Request
           /\ q.pc \notin {"idle", "purge"} => q.id \in AssetIds /\ q.ent # NoVal
           /\ q.pc \in {"duplicate", "documents", "merge"} => q.dup \in AssetIds /\ q.dup # q.id
           /\ q.pc = "merge" => q.other # NoVal
BY LifecycleAssumption DEF HandlerOK, LifecycleAssumption

LEMMA IdleOK == HandlerOK(Idle) /\ Idle.pc = "idle"
BY DEF Idle, HandlerOK, Request

(* A step that gives one request a new memory, and keeps the rows' types.  *)
LEMMA HandlerStep ==
    ASSUME IInv, NEW h \in Handlers, NEW q, HandlerOK(q), Continue(h, q),
           asset' \in [AssetIds -> Entity \cup {NoVal, Gone}],
           document' \in [Documents -> AssetIds \cup {NoVal, Gone}],
           UNCHANGED now
    PROVE  IInv'
<1>1. q \in Request
  BY HandlerFacts
<1>2. /\ handler' \in [Handlers -> Request]
      /\ \A g \in Handlers : HandlerOK(handler'[g])
  BY <1>1 DEF Continue, IInv, LifecycleTypeOK
<1>3. LifecycleTypeOK'
  BY <1>2, HandlerFacts DEF IInv, LifecycleTypeOK
<1> QED BY <1>2, <1>3 DEF IInv

LEMMA ReadStep ==
    ASSUME IInv, NEW h \in Handlers, NEW q, HandlerOK(q), Continue(h, q),
           UNCHANGED <<asset, document, now>>
    PROVE  IInv'
BY HandlerStep DEF IInv, LifecycleTypeOK

(* The rows a request can read are entities.                               *)
LEMMA StoredIsEntity ==
    ASSUME IInv, NEW a \in AssetIds, Stored(a)
    PROVE  asset[a] \in Entity
BY DEF IInv, LifecycleTypeOK, Stored

LEMMA OverlayType ==
    ASSUME NEW x \in Entity, NEW y \in Entity
    PROVE  /\ Overlay(x, y) \in Entity /\ Overlay(x, y).deleted = y.deleted
           /\ \A restore \in BOOLEAN : UpdatedAsset(x, y, restore) \in Entity
           /\ mergeIntoAsset(y, x) \in Entity
BY DEF Overlay, UpdatedAsset, mergeIntoAsset, Coalesce, Entity

-----------------------------------------------------------------------------
(* The reads.                                                              *)
LEMMA PlainRead ==
    ASSUME IInv, NEW h \in Handlers, NEW a \in AssetIds,
           NEW op \in {"patch", "delete", "restore"}, NEW ent \in Entity, Read(h, op, a, ent)
    PROVE  IInv'
<1> DEFINE q == [Idle EXCEPT !.pc = "fetch", !.op = op, !.id = a, !.ent = ent]
<1>1. HandlerOK(q)
  BY DEF Idle, HandlerOK, Request
<1> QED BY <1>1, ReadStep DEF Read

LEMMA EnrichStep ==
    ASSUME IInv, NEW h \in Handlers, NEW a \in AssetIds, NEW s \in Serials \cup {NoVal},
           NEW d \in Documents, Enrich(h, a, s, d)
    PROVE  IInv'
<1> DEFINE ent == [asset[a] EXCEPT !.serial = Coalesce(@, s)]
           q   == [Idle EXCEPT !.pc = "fetch", !.op = "enrich", !.id = a, !.docs = {d},
                               !.ent = ent]
<1>1. asset[a] \in Entity
  BY StoredIsEntity DEF Enrich, IsLive
<1>2. ent \in Entity
  BY <1>1 DEF Entity, Coalesce
<1>3. HandlerOK(q)
  BY <1>2 DEF Idle, HandlerOK, Request
<1> QED BY <1>3, ReadStep DEF Enrich

LEMMA PatchStep ==
    ASSUME IInv, NEW h \in Handlers, NEW a \in AssetIds, NEW s \in Serials \cup {NoVal},
           PatchAsset(h, a, s)
    PROVE  IInv'
<1>1. asset[a] \in Entity
  BY StoredIsEntity DEF PatchAsset
<1>2. [asset[a] EXCEPT !.serial = Coalesce(@, s)] \in Entity
  BY <1>1 DEF Entity, Coalesce
<1> QED BY <1>2, PlainRead DEF PatchAsset

LEMMA DeleteStep ==
    ASSUME IInv, NEW h \in Handlers, NEW a \in AssetIds, SoftDelete(h, a)
    PROVE  IInv'
<1>1. asset[a] \in Entity
  BY StoredIsEntity DEF SoftDelete, IsLive
<1>2. [asset[a] EXCEPT !.deleted = now] \in Entity
  BY <1>1 DEF Entity, IInv, LifecycleTypeOK
<1> QED BY <1>2, PlainRead DEF SoftDelete

LEMMA RestoreStep ==
    ASSUME IInv, NEW h \in Handlers, NEW a \in AssetIds, Restore(h, a)
    PROVE  IInv'
<1>1. asset[a] \in Entity
  BY StoredIsEntity DEF Restore
<1>2. [asset[a] EXCEPT !.deleted = NoVal] \in Entity
  BY <1>1 DEF Entity
<1> QED BY <1>2, PlainRead DEF Restore

LEMMA FetchStep ==
    ASSUME IInv, NEW h \in Handlers, FetchPayload(h)
    PROVE  IInv'
<1> DEFINE old == handler[h]
           ent == Overlay(asset[old.id], old.ent)
           q   == [old EXCEPT !.pc = "write", !.ent = ent]
<1>1. HandlerOK(old) /\ old.pc = "fetch" /\ old.id \in AssetIds /\ old.ent \in Entity
  BY DEF FetchPayload, At, IInv, HandlerOK
<1>2. asset[old.id] \in Entity
  BY <1>1, StoredIsEntity DEF FetchPayload
<1>3. ent \in Entity
  BY <1>1, <1>2, OverlayType
<1>4. HandlerOK(q)
  BY <1>1, <1>3 DEF HandlerOK, Request
<1> QED BY <1>4, ReadStep DEF FetchPayload

LEMMA SurvivorStep ==
    ASSUME IInv, NEW h \in Handlers, NEW a \in AssetIds, NEW b \in AssetIds,
           ReadSurvivor(h, a, b)
    PROVE  IInv'
<1> DEFINE q == [Idle EXCEPT !.pc = "duplicate", !.op = "merge", !.id = a, !.dup = b,
                             !.ent = asset[a]]
<1>1. asset[a] \in Entity /\ a # b
  BY StoredIsEntity DEF ReadSurvivor
<1>2. HandlerOK(q)
  BY <1>1 DEF Idle, HandlerOK, Request
<1> QED BY <1>2, ReadStep DEF ReadSurvivor

LEMMA DuplicateStep ==
    ASSUME IInv, NEW h \in Handlers, ReadDuplicate(h)
    PROVE  IInv'
<1> DEFINE old   == handler[h]
           ent   == mergeIntoAsset(old.ent, asset[old.dup])
           other == [asset[old.dup] EXCEPT !.deleted = now]
           q     == [old EXCEPT !.pc = "documents", !.ent = ent, !.other = other]
<1>1. /\ HandlerOK(old) /\ old.pc = "duplicate" /\ old.ent \in Entity
      /\ old.id \in AssetIds /\ old.dup \in AssetIds
  BY DEF ReadDuplicate, At, IInv, HandlerOK
<1>2. asset[old.dup] \in Entity
  BY <1>1, StoredIsEntity DEF ReadDuplicate
<1>3. ent \in Entity
  BY <1>1, <1>2, OverlayType
<1>4. now \in Times /\ now # NoVal
  BY LifecycleAssumption DEF IInv, LifecycleTypeOK, Times, LifecycleAssumption
<1>5. other \in Entity /\ other.deleted # NoVal
  BY <1>2, <1>4 DEF Entity
<1>6. HandlerOK(q)
  BY <1>1, <1>3, <1>5 DEF HandlerOK, Request
<1> QED BY <1>6, ReadStep DEF ReadDuplicate

LEMMA ListDocumentsStep ==
    ASSUME IInv, NEW h \in Handlers, ListDocuments(h)
    PROVE  IInv'
<1> DEFINE old   == handler[h]
           docs  == {d \in Documents : document[d] = old.dup}
           ent   == Overlay(asset[old.id], old.ent)
           other == Overlay(asset[old.dup], old.other)
           q     == [old EXCEPT !.pc = "merge", !.docs = docs, !.ent = ent, !.other = other]
<1>1. /\ HandlerOK(old) /\ old.pc = "documents" /\ old.ent \in Entity
      /\ old.id \in AssetIds /\ old.dup \in AssetIds
      /\ old.other \in Entity /\ old.other.deleted # NoVal
  BY DEF ListDocuments, At, IInv, HandlerOK
<1>2. asset[old.dup] \in Entity /\ asset[old.id] \in Entity
  BY <1>1, StoredIsEntity DEF ListDocuments
<1>3. ent \in Entity /\ other \in Entity /\ other.deleted # NoVal
  BY <1>1, <1>2, OverlayType
<1>4. docs \subseteq Documents
  OBVIOUS
<1>5. /\ q \in Request
      /\ q.pc = "merge" /\ q.ent = ent /\ q.other = other
      /\ q.op = old.op /\ q.id = old.id /\ q.dup = old.dup
  <2> HIDE DEF docs, ent, other
  <2> QED BY <1>1, <1>3, <1>4 DEF HandlerOK, Request
<1>6. q.op # "restore"
  BY <1>1, <1>5 DEF HandlerOK
<1>7. HandlerOK(q)
  <2> HIDE DEF q, ent, other, docs
  <2> QED BY <1>1, <1>3, <1>5, <1>6 DEF HandlerOK
<1> QED BY <1>7, ReadStep DEF ListDocuments

LEMMA ListExpiredStep ==
    ASSUME IInv, NEW h \in Handlers, ListExpired(h)
    PROVE  IInv'
<1> DEFINE expired == {a \in AssetIds : Stored(a) /\ Expired(asset[a])}
           q == [Idle EXCEPT !.pc = "purge", !.op = "purge", !.purged = expired,
                             !.left = expired]
<1>1. HandlerOK(q)
  BY DEF Idle, HandlerOK, Request
<1> QED BY <1>1, ReadStep DEF ListExpired

LEMMA ListAttachedStep ==
    ASSUME IInv, NEW h \in Handlers, NEW a \in AssetIds, ListAttached(h, a)
    PROVE  IInv'
<1> DEFINE old  == handler[h]
           docs == old.docs \cup {d \in Documents : document[d] = a}
           left == old.left \ {a}
           q    == [old EXCEPT !.left = left, !.docs = docs]
<1>1. HandlerOK(old) /\ old.pc = "purge"
  BY DEF ListAttached, At, IInv
<1>2. docs \in SUBSET Documents /\ left \in SUBSET AssetIds
  BY <1>1 DEF HandlerOK, Request
<1>3. /\ q \in Request
      /\ q.pc = "purge" /\ q.op = old.op
  <2> HIDE DEF docs, left
  <2> QED BY <1>1, <1>2 DEF HandlerOK, Request
<1>4. HandlerOK(q)
  <2> HIDE DEF q, docs, left
  <2> QED BY <1>1, <1>3 DEF HandlerOK
<1> QED BY <1>4, ReadStep DEF ListAttached

LEMMA AbortStep ==
    ASSUME IInv, NEW h \in Handlers, Abort(h)
    PROVE  IInv'
BY IdleOK, ReadStep DEF Abort, Finish

-----------------------------------------------------------------------------
(* The commits.  Each keeps the types, and is a step of the register.      *)

(* What the index allows is what the register calls free.                  *)
LEMMA FreeSerial ==
    ASSUME IInv, NEW a \in AssetIds, NEW x \in Entity, x.deleted = NoVal,
           SerialIndexAllows(a, x)
    PROVE  Register!Free(a, x.serial)
BY DEF SerialIndexAllows, Register!Free, Life, SerialKey, IsLive, Stored

LEMMA SerialOfEntity ==
    ASSUME NEW x \in Entity
    PROVE  x.serial \in Register!SerialOrNone
BY DEF Entity, Register!SerialOrNone

(* The link of a document, as the register sees it.                        *)
LEMMA LinkType ==
    ASSUME IInv'
    PROVE  Link' \in [Documents -> AssetIds \cup {NoVal}]
BY DEF IInv, LifecycleTypeOK, Link

LEMMA EntityIsStored ==
    ASSUME NEW x \in Entity
    PROVE  x # NoVal /\ x # Gone
BY LifecycleAssumption DEF LifecycleAssumption

LEMMA CreateStep ==
    ASSUME IInv, NEW a \in AssetIds, NEW s \in Serials \cup {NoVal}, NEW d \in Documents,
           CreateAsset(a, s, d)
    PROVE  IInv' /\ Register!Create(a)
<1> DEFINE x == [serial |-> s, deleted |-> NoVal]
<1>1. x \in Entity /\ x # NoVal /\ x # Gone /\ x.serial = s /\ x.deleted = NoVal
  <2>1. x \in Entity
    BY DEF Entity
  <2> QED BY <2>1, EntityIsStored
<1>2. /\ asset' = [asset EXCEPT ![a] = x] /\ document' = [document EXCEPT ![d] = a]
      /\ asset[a] = NoVal /\ SerialIndexAllows(a, x)
      /\ UNCHANGED <<handler, now>>
  BY DEF CreateAsset
<1>3. IInv'
  <2> HIDE DEF x
  <2> QED BY <1>1, <1>2, LifecycleAssumption DEF IInv, LifecycleTypeOK, LifecycleAssumption
<1>4. Register!Free(a, s) /\ s \in Register!SerialOrNone
  BY <1>1, <1>2, FreeSerial, SerialOfEntity
<1>5. /\ Life' = [Life EXCEPT ![a] = "live"] /\ Life[a] = "none"
      /\ SerialKey' = [SerialKey EXCEPT ![a] = s]
  <2> HIDE DEF x
  <2> QED BY <1>1, <1>2 DEF Life, SerialKey, Stored, IInv, LifecycleTypeOK
<1>6. Register!LinksMove
  <2>1. Link' \in [Documents -> AssetIds \cup {NoVal}]
    BY <1>3, LinkType
  <2>2. \A e \in Documents : Link'[e] = Link[e] \/ Link'[e] = a
    BY <1>2, LifecycleAssumption DEF Link, LifecycleAssumption, IInv, LifecycleTypeOK
  <2>3. Life'[a] = "live"
    BY <1>5 DEF Life
  <2> QED BY <2>1, <2>2, <2>3 DEF Register!LinksMove
<1> QED BY <1>3, <1>4, <1>5, <1>6 DEF Register!Create

(* The write of one asset: a restore when it was deleted and its request   *)
(* restores, otherwise a write that never revives.                         *)
LEMMA WriteStep ==
    ASSUME IInv, NEW h \in Handlers, WriteAsset(h)
    PROVE  IInv' /\ \E a \in AssetIds : Register!Write(a) \/ Register!Restore(a)
<1> DEFINE q == handler[h]
           a == q.id
           x == UpdatedAsset(asset[a], q.ent, q.op = "restore")
<1>1. /\ HandlerOK(q) /\ q.pc = "write" /\ a \in AssetIds /\ q.ent \in Entity
      /\ Stored(a) /\ q.docs \subseteq Documents
  BY DEF WriteAsset, At, IInv, HandlerOK, Request
<1>2. asset[a] \in Entity
  BY <1>1, StoredIsEntity
<1>3. x \in Entity /\ x # NoVal /\ x # Gone
  <2>1. x \in Entity
    BY <1>1, <1>2, OverlayType
  <2> QED BY <2>1, EntityIsStored
<1>4. /\ asset' = [asset EXCEPT ![a] = x]
      /\ document' = [d \in Documents |-> IF d \in q.docs THEN a ELSE document[d]]
      /\ SerialIndexAllows(a, x)
      /\ Finish(h) /\ UNCHANGED now
  BY DEF WriteAsset
<1>5. x.deleted = IF q.op = "restore" THEN NoVal ELSE Coalesce(q.ent.deleted, asset[a].deleted)
  BY <1>1 DEF UpdatedAsset, Entity
<1>6. IInv'
  <2> HIDE DEF x
  <2>1. /\ asset' \in [AssetIds -> Entity \cup {NoVal, Gone}]
        /\ document' \in [Documents -> AssetIds \cup {NoVal, Gone}]
    BY <1>1, <1>3, <1>4 DEF IInv, LifecycleTypeOK
  <2> QED BY <1>4, <2>1, IdleOK, HandlerStep DEF Finish
<1>7. x.deleted = NoVal => Register!Free(a, x.serial)
  <2> HIDE DEF x
  <2> QED BY <1>1, <1>3, <1>4, FreeSerial
<1>8. x.serial \in Register!SerialOrNone
  <2> HIDE DEF x
  <2> QED BY <1>3, SerialOfEntity
<1> DEFINE l == IF x.deleted = NoVal THEN "live" ELSE "deleted"
<1>9. /\ Life' = [Life EXCEPT ![a] = l]
      /\ SerialKey' = [SerialKey EXCEPT ![a] = x.serial]
      /\ Life[a] = IF asset[a].deleted = NoVal THEN "live" ELSE "deleted"
  <2> HIDE DEF x
  <2> QED BY <1>1, <1>2, <1>3, <1>4 DEF Life, SerialKey, Stored, IInv, LifecycleTypeOK
<1>10. Register!LinksMove
  <2> HIDE DEF x
  <2>1. Life'[a] \in {"live", "deleted"}
    BY <1>1, <1>9 DEF Life
  <2>2. \A d \in Documents : Link'[d] \in {Link[d], NoVal} \/ Link'[d] = a
    BY <1>1, <1>4, LifecycleAssumption DEF Link, LifecycleAssumption
  <2>3. Link' \in [Documents -> AssetIds \cup {NoVal}]
    BY <1>6, LinkType
  <2> QED BY <2>1, <2>2, <2>3 DEF Register!LinksMove
<1>11. CASE l \in {Life[a], "deleted"}
  <2> HIDE DEF x
  <2>1. Register!Stored(a)
    BY <1>9 DEF Register!Stored
  <2>2. Register!Write(a)
    BY <1>7, <1>8, <1>9, <1>10, <1>11, <2>1 DEF Register!Write
  <2> QED BY <1>1, <1>6, <2>2
<1>12. CASE l \notin {Life[a], "deleted"}
  <2>1. x.deleted = NoVal /\ asset[a].deleted # NoVal
    BY <1>9, <1>12
  <2>2. q.op = "restore"
    BY <1>5, <2>1 DEF Coalesce
  <2>3. Link' = Link
    <3>1. document' = document
      BY <1>1, <1>4, <2>2 DEF HandlerOK, IInv, LifecycleTypeOK
    <3> QED BY <3>1 DEF Link
  <2>4. Register!Restore(a)
    <3> HIDE DEF x
    <3> QED BY <1>7, <1>8, <1>9, <2>1, <2>3 DEF Register!Restore
  <2> QED BY <1>1, <1>6, <2>4
<1> QED BY <1>11, <1>12

(* The survivor is written as any asset is; the duplicate's copy has the   *)
(* time of its deletion, which no stored value overrides.                  *)
LEMMA MergeStep ==
    ASSUME IInv, NEW h \in Handlers, CommitMerge(h)
    PROVE  IInv' /\ \E a, b \in AssetIds : Register!Merge(a, b)
<1> DEFINE q == handler[h]
           a == q.id
           b == q.dup
           x == UpdatedAsset(asset[a], q.ent, FALSE)
           y == UpdatedAsset(asset[b], q.other, FALSE)
<1>1. /\ HandlerOK(q) /\ q.pc = "merge" /\ a \in AssetIds /\ b \in AssetIds /\ a # b
      /\ q.ent \in Entity /\ q.other \in Entity /\ q.other.deleted # NoVal
      /\ Stored(a) /\ Stored(b) /\ q.docs \subseteq Documents
  BY DEF CommitMerge, At, IInv, HandlerOK, Request
<1>2. asset[a] \in Entity /\ asset[b] \in Entity
  BY <1>1, StoredIsEntity
<1>3. x \in Entity /\ y \in Entity
  BY <1>1, <1>2, OverlayType
<1>4. x # NoVal /\ x # Gone /\ y # NoVal /\ y # Gone
  <2> HIDE DEF x, y
  <2> QED BY <1>3, EntityIsStored
<1>5. /\ asset' = [asset EXCEPT ![a] = x, ![b] = y]
      /\ document' = [d \in Documents |-> IF d \in q.docs THEN a ELSE document[d]]
      /\ SerialIndexAllows(a, x)
      /\ Finish(h) /\ UNCHANGED now
  BY <1>1 DEF CommitMerge, repointDocuments, IInv, LifecycleTypeOK
<1>6. /\ x.deleted = Coalesce(q.ent.deleted, asset[a].deleted)
      /\ y.deleted # NoVal
  BY <1>1 DEF UpdatedAsset, Coalesce, Entity
<1>7. IInv'
  <2> HIDE DEF x, y
  <2>1. /\ asset' \in [AssetIds -> Entity \cup {NoVal, Gone}]
        /\ document' \in [Documents -> AssetIds \cup {NoVal, Gone}]
    BY <1>1, <1>3, <1>5 DEF IInv, LifecycleTypeOK
  <2> QED BY <1>5, <2>1, IdleOK, HandlerStep DEF Finish
<1>8. x.deleted = NoVal => Register!Free(a, x.serial)
  <2> HIDE DEF x
  <2> QED BY <1>1, <1>3, <1>5, FreeSerial
<1>9. x.serial \in Register!SerialOrNone /\ y.serial \in Register!SerialOrNone
  <2> HIDE DEF x, y
  <2> QED BY <1>3, SerialOfEntity
<1> DEFINE l == IF x.deleted = NoVal THEN "live" ELSE "deleted"
<1>10. /\ Life' = [Life EXCEPT ![a] = l, ![b] = "deleted"]
       /\ SerialKey' = [SerialKey EXCEPT ![a] = x.serial, ![b] = y.serial]
       /\ Life[a] = IF asset[a].deleted = NoVal THEN "live" ELSE "deleted"
       /\ Life[b] \in {"live", "deleted"}
  <2> HIDE DEF x, y
  <2> QED BY <1>1, <1>2, <1>4, <1>5, <1>6 DEF Life, SerialKey, Stored, IInv, LifecycleTypeOK
<1>11. l \in {Life[a], "deleted"}
  BY <1>6, <1>10 DEF Coalesce
<1>12. Register!LinksMove
  <2> HIDE DEF x, y
  <2>1. Life'[a] \in {"live", "deleted"}
    BY <1>1, <1>10 DEF Life
  <2>2. \A d \in Documents : Link'[d] \in {Link[d], NoVal} \/ Link'[d] = a
    BY <1>1, <1>5, LifecycleAssumption DEF Link, LifecycleAssumption
  <2>3. Link' \in [Documents -> AssetIds \cup {NoVal}]
    BY <1>7, LinkType
  <2> QED BY <2>1, <2>2, <2>3 DEF Register!LinksMove
<1>13. Register!Stored(a) /\ Register!Stored(b)
  BY <1>10 DEF Register!Stored
<1>14. Register!Merge(a, b)
  <2> HIDE DEF x, y
  <2> QED BY <1>1, <1>8, <1>9, <1>10, <1>11, <1>12, <1>13 DEF Register!Merge
<1> QED BY <1>1, <1>7, <1>14

(* A relink leaves the assets alone, and leads to one that is stored.      *)
LEMMA RelinkStep ==
    ASSUME IInv, NEW d \in Documents, NEW a \in AssetIds, RelinkDocument(d, a)
    PROVE  IInv' /\ Register!Relink
<1>1. /\ document' = [document EXCEPT ![d] = a] /\ Stored(a)
      /\ UNCHANGED <<asset, handler, now>>
  BY DEF RelinkDocument
<1>2. IInv'
  BY <1>1 DEF IInv, LifecycleTypeOK
<1>3. Link' \in [Documents -> AssetIds \cup {NoVal}]
  BY <1>2, LinkType
<1>4. Life'[a] \in {"live", "deleted"}
  BY <1>1 DEF Life, Stored
<1>5. \A e \in Documents : Link'[e] = Link[e] \/ Link'[e] = a
  BY <1>1, LifecycleAssumption DEF Link, LifecycleAssumption, IInv, LifecycleTypeOK
<1>6. UNCHANGED <<Life, SerialKey>>
  BY <1>1 DEF Life, SerialKey, Stored
<1> QED BY <1>2, <1>3, <1>4, <1>5, <1>6 DEF Register!Relink, Register!LinksMove

LEMMA PurgeStep ==
    ASSUME IInv, NEW h \in Handlers, CommitPurge(h)
    PROVE  IInv' /\ \E S \in SUBSET AssetIds : Register!Purge(S)
<1> DEFINE S == {a \in handler[h].purged : Stored(a)}
           D == handler[h].docs
<1>1. S \subseteq AssetIds /\ \A a \in S : Stored(a)
  BY DEF IInv, LifecycleTypeOK, Request
<1>2. /\ document' = [d \in Documents |->
                         IF d \in D \/ document[d] \in S THEN Gone ELSE document[d]]
      /\ asset' = [a \in AssetIds |-> IF a \in S THEN Gone ELSE asset[a]]
      /\ Finish(h) /\ UNCHANGED now
  BY DEF CommitPurge
<1>3. IInv'
  <2> HIDE DEF S
  <2>1. /\ asset' \in [AssetIds -> Entity \cup {NoVal, Gone}]
        /\ document' \in [Documents -> AssetIds \cup {NoVal, Gone}]
    BY <1>2 DEF IInv, LifecycleTypeOK
  <2> QED BY <1>2, <2>1, IdleOK, HandlerStep DEF Finish
<1>4. Register!Purge(S)
  <2> HIDE DEF S
  <2>1. \A a \in S : Register!Stored(a)
    BY <1>1 DEF Register!Stored, Life, Stored
  <2>2. Life' = [a \in AssetIds |-> IF a \in S THEN "gone" ELSE Life[a]]
    BY <1>1, <1>2, LifecycleAssumption DEF Life, Stored, LifecycleAssumption
  <2>3. SerialKey' = [a \in AssetIds |-> IF a \in S THEN NoVal ELSE SerialKey[a]]
    BY <1>1, <1>2 DEF SerialKey, Stored
  <2>4. Link' \in [Documents -> AssetIds \cup {NoVal}]
    BY <1>3, LinkType
  <2>5. \A d \in Documents : Link'[d] = NoVal \/ (Link'[d] = Link[d] /\ Link[d] \notin S)
    <3>1. NoVal \notin S
      BY <1>1, LifecycleAssumption DEF LifecycleAssumption
    <3> QED BY <1>2, <3>1 DEF Link
  <2> QED BY <2>1, <2>2, <2>3, <2>4, <2>5 DEF Register!Purge
<1> QED BY <1>1, <1>3, <1>4

-----------------------------------------------------------------------------
LEMMA Initial == Init => IInv /\ Register!Init
<1> SUFFICES ASSUME Init PROVE IInv /\ Register!Init
  OBVIOUS
<1>1. \A h \in Handlers : HandlerOK(handler[h]) /\ handler[h] = Idle
  BY IdleOK DEF Init
<1>2. LifecycleTypeOK
  <2>1. handler \in [Handlers -> Request]
    BY <1>1, HandlerFacts DEF Init
  <2>2. now \in Times
    BY LifecycleAssumption DEF Init, Times, LifecycleAssumption
  <2> QED BY <1>1, <2>1, <2>2, HandlerFacts DEF Init, LifecycleTypeOK
<1>3. Register!Init
  BY LifecycleAssumption DEF Init, Register!Init, Life, SerialKey, Stored, Link, LifecycleAssumption
<1> QED BY <1>1, <1>2, <1>3 DEF IInv

(* The steps that change no row.                                           *)
LEMMA QuietStep ==
    ASSUME UNCHANGED <<asset, document>>
    PROVE  UNCHANGED Register!rvars
BY DEF Register!rvars, Life, SerialKey, Stored, Link

LEMMA Step == IInv /\ [Next]_vars => IInv' /\ [Register!Next]_Register!rvars
<1> SUFFICES ASSUME IInv, [Next]_vars PROVE IInv' /\ [Register!Next]_Register!rvars
  OBVIOUS
<1>1. CASE UNCHANGED vars
  BY <1>1, QuietStep DEF vars, IInv, LifecycleTypeOK
<1>2. ASSUME NEW a \in AssetIds, NEW s \in Serials \cup {NoVal}, NEW d \in Documents,
             CreateAsset(a, s, d)
      PROVE  IInv' /\ Register!Next
  BY <1>2, CreateStep DEF Register!Next
<1>3. ASSUME NEW h \in Handlers, NEW a \in AssetIds, Operation(h, a)
      PROVE  IInv' /\ UNCHANGED Register!rvars
  <2>1. UNCHANGED <<asset, document>>
    BY <1>3 DEF Operation, PatchAsset, Enrich, SoftDelete, Restore, ReadSurvivor, Read
  <2> QED BY <1>3, <2>1, QuietStep, PatchStep, EnrichStep, DeleteStep, RestoreStep, SurvivorStep
        DEF Operation
<1>4. ASSUME NEW h \in Handlers,
             \/ FetchPayload(h) \/ ReadDuplicate(h) \/ ListDocuments(h)
             \/ ListExpired(h) \/ Abort(h) \/ \E a \in AssetIds : ListAttached(h, a)
      PROVE  IInv' /\ UNCHANGED Register!rvars
  <2>1. UNCHANGED <<asset, document>>
    BY <1>4 DEF FetchPayload, ReadDuplicate, ListDocuments, ListExpired, ListAttached, Abort
  <2> QED BY <1>4, <2>1, QuietStep, FetchStep, DuplicateStep, ListDocumentsStep,
             ListExpiredStep, ListAttachedStep, AbortStep
<1>5. ASSUME NEW h \in Handlers, WriteAsset(h) \/ CommitMerge(h) \/ CommitPurge(h)
      PROVE  IInv' /\ Register!Next
  BY <1>5, WriteStep, MergeStep, PurgeStep DEF Register!Next
<1>6. CASE Tick
  <2>1. now' \in Times
    BY <1>6, LifecycleAssumption DEF Tick, IInv, LifecycleTypeOK, Times, LifecycleAssumption
  <2> QED BY <1>6, <2>1, QuietStep DEF Tick, IInv, LifecycleTypeOK
<1>7. ASSUME NEW a \in AssetIds, NEW d \in Documents, RelinkDocument(d, a)
      PROVE  IInv' /\ Register!Next
  BY <1>7, RelinkStep DEF Register!Next
<1> QED BY <1>1, <1>2, <1>3, <1>4, <1>5, <1>6, <1>7 DEF Next

LEMMA Inductive == Spec => []IInv
BY Initial, Step, PTL DEF Spec

(* Rows and requests keep their types, and every request has what its next *)
(* step needs, however stale.                                              *)
THEOREM LifecycleTypeCorrect == Spec => []LifecycleTypeOK
<1>1. IInv => LifecycleTypeOK
  BY DEF IInv
<1> QED BY <1>1, Inductive, PTL

(* The operations, each with its own stale reads, implement the register:  *)
(* initial states map to initial states, and every step to a step of the   *)
(* register or to none.                                                    *)
THEOREM LifecycleImplementsRegister == Spec => ImplementsRegister
BY Initial, Step, Inductive, PTL DEF Spec, ImplementsRegister, Register!Spec

(* Nothing but a purge takes a document's asset away, and a purge only     *)
(* from what led to the assets it deletes when it listed their documents,  *)
(* or leads to them when it deletes them.                                  *)
THEOREM PurgesAloneDetach == Spec => OnlyPurgesDetach
<1> DEFINE Lost(d) == document[d] # Gone /\ document'[d] = Gone
           ByPurge(d) == \E h \in Handlers :
              /\ handler[h].op = "purge" /\ \A a \in handler[h].purged : ~Stored(a)'
              /\ d \in handler[h].docs \/ document[d] \in handler[h].purged
           Kept == \A d \in Documents : Lost(d) => ByPurge(d)
<1>1. IInv /\ [Next]_vars => [Kept]_vars
  <2> SUFFICES ASSUME IInv, Next, NEW d \in Documents, Lost(d) PROVE ByPurge(d)
    OBVIOUS
  <2> DEFINE Same == document' = document
  <2>1. ~Same
    OBVIOUS
  <2>2. ASSUME NEW a \in AssetIds, NEW s \in Serials \cup {NoVal}, NEW e \in Documents,
               CreateAsset(a, s, e)
        PROVE  FALSE
    BY <2>2, LifecycleAssumption DEF CreateAsset, IInv, LifecycleTypeOK, LifecycleAssumption
  <2>3. ASSUME NEW h \in Handlers, WriteAsset(h) \/ CommitMerge(h)
        PROVE  FALSE
    <3>1. handler[h].id # Gone
      BY <2>3, LifecycleAssumption DEF WriteAsset, CommitMerge, At, IInv, HandlerOK,
         LifecycleAssumption
    <3> QED BY <2>3, <3>1 DEF WriteAsset, CommitMerge, repointDocuments
  <2>4. ASSUME NEW h \in Handlers, CommitPurge(h)
        PROVE  ByPurge(d)
    <3> DEFINE S == {a \in handler[h].purged : Stored(a)}
    <3>1. HandlerOK(handler[h]) /\ handler[h].op = "purge"
      BY <2>4 DEF CommitPurge, At, IInv, HandlerOK
    <3>2. /\ asset' = [a \in AssetIds |-> IF a \in S THEN Gone ELSE asset[a]]
          /\ d \in handler[h].docs \/ document[d] \in S
      BY <2>4 DEF CommitPurge
    <3>3. ASSUME NEW a \in handler[h].purged PROVE ~Stored(a)'
      <4>1. a \in AssetIds
        BY <3>1 DEF HandlerOK, Request
      <4> QED BY <3>2, <4>1 DEF Stored
    <3> QED BY <3>1, <3>2, <3>3
  <2>5. ASSUME NEW h \in Handlers, NEW a \in AssetIds, Operation(h, a) \/ ListAttached(h, a)
        PROVE  Same
    BY <2>5 DEF Operation, PatchAsset, Enrich, SoftDelete, Restore, ReadSurvivor, Read,
       ListAttached
  <2>6. ASSUME NEW h \in Handlers,
               FetchPayload(h) \/ ReadDuplicate(h) \/ ListDocuments(h) \/ ListExpired(h) \/ Abort(h)
        PROVE  Same
    BY <2>6 DEF FetchPayload, ReadDuplicate, ListDocuments, ListExpired, Abort
  <2>7. CASE Tick
    BY <2>7 DEF Tick
  <2>8. ASSUME NEW a \in AssetIds, NEW e \in Documents, RelinkDocument(e, a)
        PROVE  FALSE
    BY <2>8, LifecycleAssumption DEF RelinkDocument, IInv, LifecycleTypeOK, LifecycleAssumption
  <2> HIDE DEF Same, ByPurge
  <2> QED BY <2>1, <2>2, <2>3, <2>4, <2>5, <2>6, <2>7, <2>8 DEF Next
<1> QED BY <1>1, Inductive, PTL DEF Spec, OnlyPurgesDetach

Inherited == INSTANCE RegisterProofs WITH
    Assets <- AssetIds, life <- Life, serial <- SerialKey, link <- Link

(* What the register promises holds of the operations: no two live assets  *)
(* share a serial, whatever stale entity was written back last.            *)
THEOREM LiveSerialsUnique == Spec => []Register!SerialsUnique
<1>1. Register!Init => Inherited!Init
  BY DEF Register!Init, Inherited!Init
<1>2. [Register!Next]_Register!rvars => [Inherited!Next]_Inherited!rvars
  BY DEF Register!Next, Inherited!Next, Register!rvars, Inherited!rvars,
     Register!Create, Inherited!Create, Register!Write, Inherited!Write,
     Register!Restore, Inherited!Restore, Register!Merge, Inherited!Merge,
     Register!Purge, Inherited!Purge, Register!Relink, Inherited!Relink,
     Register!LinksMove, Inherited!LinksMove, Register!Free, Inherited!Free,
     Register!Stored, Inherited!Stored, Register!SerialOrNone, Inherited!SerialOrNone
<1>3. Inherited!SerialsUnique => Register!SerialsUnique
  BY DEF Inherited!SerialsUnique, Register!SerialsUnique
<1> QED BY <1>1, <1>2, <1>3, LifecycleImplementsRegister, Inherited!RegisterSerials, PTL
     DEF ImplementsRegister, Register!Spec, Inherited!Spec

=============================================================================

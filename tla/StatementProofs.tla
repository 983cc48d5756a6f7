--------------------------- MODULE StatementProofs ---------------------------
(***************************************************************************)
(* What Statement and Ledger keep, for any requests, importers, batches,   *)
(* files and documents: first about the links of movements, which the      *)
(* columns of the movements decide alone; then about the books, for which  *)
(* the lines of the batches are needed; then what the parser makes of a    *)
(* file.                                                                   *)
(***************************************************************************)
EXTENDS Statement, RanksProofs, SequenceTheorems

(* What the link columns of a row say together.                            *)
Whole(row) ==
    /\ (row.link = NoVal) <=> (row.creator = NoVal)
    /\ row.conflicting <=> row.link # NoVal /\ linkConflicts(row.link, row)

Columns == {"amount", "link", "creator", "conflicting"}

Sound(row)    == Columns \subseteq DOMAIN row /\ Whole(row)
Unproved(row) == Sound(row) /\ row.link = NoVal

(* Whatever a request will write over a row is whole, however old.         *)
EditOK(q) ==
    /\ {"pc", "id", "row"} \subseteq DOMAIN q
    /\ q.pc # "idle" => q.id \in MovementIds /\ Sound(q.row)

(* Of the movements an import goes through at most the one it is about to  *)
(* write has a link.                                                       *)
ImportOK(q) ==
    /\ {"pc", "todo", "id"} \subseteq DOMAIN q
    /\ q.pc \in {"link", "autolink"} =>
          /\ DOMAIN q.todo = MovementIds
          /\ \A m \in MovementIds :
                q.todo[m] # NoVal => Unproved(q.todo[m]) \/ (q.pc = "autolink" /\ m = q.id)
    /\ q.pc = "autolink" => q.id \in MovementIds /\ Sound(q.todo[q.id])

RowsOK    == DOMAIN movement = MovementIds /\ \A m \in MovementIds : Exists(m) => Sound(movement[m])
EditsOK   == DOMAIN edit = Users /\ \A u \in Users : EditOK(edit[u])
ImportsOK == DOMAIN import = Importers /\ \A i \in Importers : ImportOK(import[i])

(* No two movements have one document.                                     *)
OneEach ==
    \A m, n \in MovementIds :
        /\ Exists(m) /\ Exists(n)
        /\ movement[m].link = movement[n].link /\ movement[m].link \in Docs
        => m = n

LinkInv == RowsOK /\ EditsOK /\ ImportsOK /\ OneEach

-----------------------------------------------------------------------------
(* The writes of the movements table.                                      *)

(* One row is saved: it is whole, and the index has looked for its link.   *)
LEMMA UpdateKeeps ==
    ASSUME RowsOK, OneEach, NEW m \in MovementIds, NEW row, Sound(row), UpdateMovement(m, row)
    PROVE  RowsOK' /\ OneEach'
<1>1. /\ DOMAIN movement' = MovementIds
      /\ \A n \in MovementIds : movement'[n] = IF n = m THEN row ELSE movement[n]
  BY DEF UpdateMovement, RowsOK
<1>2. RowsOK'
  BY <1>1 DEF RowsOK, Exists
<1>3. \A n \in MovementIds : Exists(n) /\ movement[n].link = row.link /\ row.link \in Docs => n = m
  BY LedgerAssumption DEF UpdateMovement, LinkIndexAllows, LinkedTo, LedgerAssumption
<1>4. OneEach'
  BY <1>1, <1>3 DEF OneEach, Exists
<1> QED BY <1>2, <1>4

(* New rows have no link, the others stay or go.                           *)
LEMMA NewRowsKeep ==
    ASSUME RowsOK, OneEach, DOMAIN movement' = MovementIds,
           \A n \in MovementIds :
              \/ movement'[n] = movement[n]
              \/ movement'[n] = Gone
              \/ Unproved(movement'[n])
    PROVE  RowsOK' /\ OneEach'
<1>1. ASSUME NEW n \in MovementIds, Exists(n)'
      PROVE  (Exists(n) /\ movement'[n] = movement[n]) \/ Unproved(movement'[n])
  BY <1>1 DEF Exists
<1>2. RowsOK'
  BY <1>1 DEF RowsOK, Unproved
<1>3. OneEach'
  BY <1>1, LedgerAssumption DEF OneEach, Unproved, LedgerAssumption
<1> QED BY <1>2, <1>3

LEMMA RowsUntouched ==
    ASSUME RowsOK, OneEach, UNCHANGED movement
    PROVE  RowsOK' /\ OneEach'
BY DEF RowsOK, OneEach, Exists

LEMMA BookedRow ==
    ASSUME NEW line, NEW b, NEW n
    PROVE  Unproved(ImportedMovement(line, b, n))
BY DEF ImportedMovement, Unproved, Sound, Columns, Whole

-----------------------------------------------------------------------------
(* The edits of the ledger.                                                *)

LEMMA EditStep ==
    ASSUME EditsOK, NEW u \in Users, NEW q, EditOK(q), edit' = [edit EXCEPT ![u] = q]
    PROVE  EditsOK'
BY DEF EditsOK

LEMMA NoRequestOK == EditOK(NoRequest)
BY DEF EditOK, NoRequest

LEMMA PatchKeeps ==
    ASSUME RowsOK, EditsOK, NEW u \in Users, NEW m \in MovementIds, NEW desc,
           PatchDescription(u, m, desc)
    PROVE  EditsOK'
<1> DEFINE row == [movement[m] EXCEPT !.desc = desc]
           q   == [pc |-> "update", id |-> m, row |-> row]
<1>1. Sound(movement[m])
  BY DEF PatchDescription, RowsOK
<1>2. /\ DOMAIN row = DOMAIN movement[m]
      /\ row.link = movement[m].link /\ row.creator = movement[m].creator
      /\ row.conflicting = movement[m].conflicting /\ row.amount = movement[m].amount
  BY <1>1 DEF Sound, Columns
<1>3. Sound(row)
  BY <1>1, <1>2 DEF Sound, Whole, linkConflicts
<1> HIDE DEF row
<1>4. EditOK(q)
  BY <1>3 DEF EditOK
<1> QED BY <1>4, EditStep DEF PatchDescription, row

LEMMA LinkKeeps ==
    ASSUME RowsOK, EditsOK, NEW u \in Users, NEW m \in MovementIds, NEW d \in Docs, Link(u, m, d)
    PROVE  EditsOK'
<1> DEFINE row == [movement[m] EXCEPT !.link = d, !.creator = "manual",
                                      !.conflicting = linkConflicts(d, movement[m])]
           q   == [pc |-> "taken", id |-> m, row |-> row]
<1>1. Sound(movement[m])
  BY DEF Link, RowsOK
<1>2. /\ DOMAIN row = DOMAIN movement[m]
      /\ row.link = d /\ row.creator = "manual" /\ row.amount = movement[m].amount
      /\ row.conflicting = linkConflicts(d, movement[m])
  BY <1>1 DEF Sound, Columns
<1>3. d # NoVal /\ "manual" # NoVal
  BY LedgerAssumption DEF LedgerAssumption
<1>4. linkConflicts(row.link, row) = linkConflicts(d, movement[m])
  BY <1>2 DEF linkConflicts
<1> HIDE DEF row
<1>5. Sound(row)
  BY <1>1, <1>2, <1>3, <1>4 DEF Sound, Whole
<1>6. EditOK(q)
  BY <1>5 DEF EditOK
<1> QED BY <1>6, EditStep DEF Link, row

LEMMA UnlinkKeeps ==
    ASSUME RowsOK, EditsOK, NEW u \in Users, NEW m \in MovementIds, Unlink(u, m)
    PROVE  EditsOK'
<1> DEFINE row == [movement[m] EXCEPT !.link = NoVal, !.creator = NoVal, !.conflicting = FALSE]
           q   == [pc |-> "update", id |-> m, row |-> row]
<1>1. Sound(movement[m])
  BY DEF Unlink, RowsOK
<1>2. DOMAIN row = DOMAIN movement[m] /\ row.link = NoVal /\ row.creator = NoVal
      /\ row.conflicting = FALSE
  BY <1>1 DEF Sound, Columns
<1> HIDE DEF row
<1>3. Sound(row)
  BY <1>1, <1>2 DEF Sound, Whole
<1>4. EditOK(q)
  BY <1>3 DEF EditOK
<1> QED BY <1>4, EditStep DEF Unlink, row

LEMMA CheckTakenKeeps ==
    ASSUME EditsOK, NEW u \in Users, CheckTaken(u)
    PROVE  EditsOK'
<1> DEFINE q == [edit[u] EXCEPT !.pc = "update"]
<1>1. EditOK(edit[u]) /\ edit[u].pc # "idle"
  BY DEF EditsOK, CheckTaken
<1>2. EditOK(q)
  BY <1>1 DEF EditOK
<1>3. \/ edit' = [edit EXCEPT ![u] = q]
      \/ edit' = [edit EXCEPT ![u] = NoRequest]
  BY DEF CheckTaken
<1> HIDE DEF q
<1> QED BY <1>2, <1>3, NoRequestOK, EditStep

LEMMA LedgerStep ==
    ASSUME RowsOK, EditsOK, OneEach, LedgerNext
    PROVE  RowsOK' /\ EditsOK' /\ OneEach'
<1>1. ASSUME NEW date \in Dates, NEW amount \in Amounts, NEW desc \in Texts,
             CreateManualMovement(date, amount, desc)
      PROVE  RowsOK' /\ EditsOK' /\ OneEach'
  <2> DEFINE row == [date |-> date, amount |-> amount, desc |-> desc, ref |-> NoVal,
                     from |-> NoVal, link |-> NoVal, creator |-> NoVal, conflicting |-> FALSE]
  <2>1. Unproved(row)
    BY DEF Unproved, Sound, Columns, Whole
  <2>2. movement' = [movement EXCEPT ![Allocated + 1] = row]
    BY <1>1 DEF CreateManualMovement
  <2> HIDE DEF row
  <2>3. DOMAIN movement' = MovementIds
        /\ \A n \in MovementIds : movement'[n] = movement[n] \/ Unproved(movement'[n])
    BY <2>1, <2>2 DEF RowsOK
  <2>4. UNCHANGED edit
    BY <1>1 DEF CreateManualMovement
  <2> QED BY <2>3, <2>4, NewRowsKeep DEF EditsOK
<1>2. ASSUME NEW m \in MovementIds, DeleteMovement(m)
      PROVE  RowsOK' /\ EditsOK' /\ OneEach'
  <2>1. DOMAIN movement' = MovementIds
        /\ \A n \in MovementIds : movement'[n] = movement[n] \/ movement'[n] = Gone
    BY <1>2 DEF DeleteMovement, RowsOK
  <2> QED BY <1>2, <2>1, NewRowsKeep DEF DeleteMovement, EditsOK
<1>3. ASSUME NEW u \in Users, NEW m \in MovementIds,
             \/ \E desc \in Texts : PatchDescription(u, m, desc)
             \/ \E d \in Docs : Link(u, m, d)
             \/ Unlink(u, m)
      PROVE  RowsOK' /\ EditsOK' /\ OneEach'
  <2>1. UNCHANGED movement
    BY <1>3 DEF PatchDescription, Link, Unlink
  <2> QED BY <1>3, <2>1, RowsUntouched, PatchKeeps, LinkKeeps, UnlinkKeeps
<1>4. ASSUME NEW u \in Users, CheckTaken(u) PROVE RowsOK' /\ EditsOK' /\ OneEach'
  <2>1. UNCHANGED movement
    BY <1>4 DEF CheckTaken
  <2> QED BY <1>4, <2>1, RowsUntouched, CheckTakenKeeps
<1>5. ASSUME NEW u \in Users, WriteEdit(u) PROVE RowsOK' /\ EditsOK' /\ OneEach'
  <2>1. edit[u].id \in MovementIds /\ Sound(edit[u].row)
    BY <1>5 DEF WriteEdit, EditsOK, EditOK
  <2> QED BY <1>5, <2>1, UpdateKeeps, EditStep, NoRequestOK DEF WriteEdit
<1>6. ASSUME NEW u \in Users, AbortEdit(u) PROVE RowsOK' /\ EditsOK' /\ OneEach'
  BY <1>6, RowsUntouched, EditStep, NoRequestOK DEF AbortEdit
<1> QED BY <1>1, <1>2, <1>3, <1>4, <1>5, <1>6 DEF LedgerNext

-----------------------------------------------------------------------------
(* The imports.                                                            *)

LEMMA ImportStep ==
    ASSUME ImportsOK, NEW i \in Importers, NEW q, ImportOK(q), Continue(i, q)
    PROVE  ImportsOK'
BY DEF ImportsOK, Continue

LEMMA FreeOK == ImportOK(Free)
<1>1. Free.pc = "idle"
  BY DEF Free
<1>2. {"pc", "todo", "id"} \subseteq DOMAIN Free
  BY DEF Free
<1>3. Free.pc \notin {"link", "autolink"}
  BY <1>1
<1> QED BY <1>2, <1>3 DEF ImportOK

(* A list of rows without a link is what the next one is taken from.       *)
LEMMA NextLinkKeeps ==
    ASSUME ImportsOK, NEW i \in Importers, NEW todo, DOMAIN todo = MovementIds,
           \A m \in MovementIds : todo[m] # NoVal => Unproved(todo[m]),
           NextLink(i, todo)
    PROVE  ImportsOK'
<1> DEFINE q == [Free EXCEPT !.pc = "link", !.batch = import[i].batch, !.todo = todo]
<1>1. ImportOK(q)
  <2>1. {"pc", "todo", "id"} \subseteq DOMAIN q /\ q.pc = "link" /\ q.todo = todo
    BY DEF Free
  <2>2. q.pc # "autolink"
    BY <2>1
  <2> HIDE DEF q
  <2> QED BY <2>1, <2>2 DEF ImportOK
<1>2. Continue(i, Free) \/ Continue(i, q)
  BY DEF NextLink
<1> HIDE DEF q
<1> QED BY <1>1, <1>2, FreeOK, ImportStep

(* The exact match of the amount is no conflict.                           *)
LEMMA FindCandidateKeeps ==
    ASSUME ImportsOK, NEW i \in Importers, NEW m \in MovementIds, FindCandidate(i, m)
    PROVE  ImportsOK'
<1> DEFINE old   == import[i].todo
           cands == LinkCandidates(old[m])
           d     == CHOOSE d \in cands : TRUE
           q     == [import[i] EXCEPT !.pc = "autolink", !.id = m,
                       !.todo[m].link = d, !.todo[m].creator = "auto"]
<1>1. /\ import[i].pc = "link" /\ DOMAIN old = MovementIds
      /\ {"pc", "todo", "id"} \subseteq DOMAIN import[i]
      /\ \A n \in MovementIds : old[n] # NoVal => Unproved(old[n])
      /\ old[m] # NoVal
  BY DEF FindCandidate, ImportsOK, ImportOK
<1>2. CASE Cardinality(cands) = 1
  <2>1. cands # {}
    BY <1>2, FS_EmptySet
  <2>2. d \in cands
    BY <2>1
  <2> HIDE DEF d
  <2>3. d # NoVal /\ "auto" # NoVal /\ ~linkConflicts(d, old[m])
    BY <2>2, LedgerAssumption DEF LinkCandidates, linkConflicts, LedgerAssumption
  <2>4. /\ q.pc = "autolink" /\ q.id = m /\ {"pc", "todo", "id"} \subseteq DOMAIN q
        /\ q.todo = [old EXCEPT ![m] = [[old[m] EXCEPT !.link = d] EXCEPT !.creator = "auto"]]
    BY <1>1
  <2> DEFINE row == [[old[m] EXCEPT !.link = d] EXCEPT !.creator = "auto"]
  <2>5. Unproved(old[m])
    BY <1>1
  <2>6. /\ DOMAIN row = DOMAIN old[m] /\ row.link = d /\ row.creator = "auto"
        /\ row.amount = old[m].amount /\ row.conflicting = old[m].conflicting
    BY <2>5 DEF Unproved, Sound, Columns
  <2> HIDE DEF row
  <2>7. ~linkConflicts(row.link, row)
    BY <2>3, <2>6 DEF linkConflicts
  <2>8. ~row.conflicting
    BY <2>5, <2>6 DEF Unproved, Sound, Whole
  <2>9. Sound(row)
    BY <2>3, <2>5, <2>6, <2>7, <2>8 DEF Unproved, Sound, Whole
  <2>10. /\ DOMAIN q.todo = MovementIds /\ q.todo[m] = row
         /\ \A n \in MovementIds \ {m} : q.todo[n] = old[n]
    BY <1>1, <2>4 DEF row
  <2> HIDE DEF q
  <2>11. ImportOK(q)
    <3>1. \A n \in MovementIds : q.todo[n] # NoVal => Unproved(q.todo[n]) \/ n = q.id
      BY <1>1, <2>4, <2>10
    <3>2. Sound(q.todo[q.id])
      BY <2>4, <2>9, <2>10
    <3>3. {"pc", "todo", "id"} \subseteq DOMAIN q /\ q.pc = "autolink" /\ q.id \in MovementIds
          /\ DOMAIN q.todo = MovementIds
      BY <2>4, <2>10
    <3>4. \A n \in MovementIds :
             q.todo[n] # NoVal => Unproved(q.todo[n]) \/ (q.pc = "autolink" /\ n = q.id)
      BY <3>1, <3>3
    <3> QED BY <3>2, <3>3, <3>4 DEF ImportOK
  <2>12. Continue(i, q)
    BY <1>2 DEF FindCandidate, q, d
  <2> QED BY <2>11, <2>12, ImportStep
<1>3. CASE Cardinality(cands) # 1
  <2> DEFINE rest == [old EXCEPT ![m] = NoVal]
  <2>1. NextLink(i, rest)
    BY <1>3 DEF FindCandidate
  <2>2. /\ DOMAIN rest = MovementIds
        /\ \A n \in MovementIds : rest[n] # NoVal => Unproved(rest[n])
    BY <1>1
  <2> HIDE DEF rest
  <2> QED BY <2>1, <2>2, NextLinkKeeps
<1> QED BY <1>2, <1>3

LEMMA WriteAutoLinkKeeps ==
    ASSUME RowsOK, OneEach, ImportsOK, NEW i \in Importers, WriteAutoLink(i)
    PROVE  RowsOK' /\ OneEach' /\ ImportsOK'
<1> DEFINE m    == import[i].id
           old  == import[i].todo
           rest == [old EXCEPT ![m] = NoVal]
<1>1. /\ m \in MovementIds /\ DOMAIN old = MovementIds /\ Sound(old[m])
      /\ \A n \in MovementIds : old[n] # NoVal => Unproved(old[n]) \/ n = m
  BY DEF WriteAutoLink, ImportsOK, ImportOK
<1>2. UpdateMovement(m, old[m]) /\ NextLink(i, rest)
  BY DEF WriteAutoLink
<1>3. /\ DOMAIN rest = MovementIds
      /\ \A n \in MovementIds : rest[n] # NoVal => Unproved(rest[n])
  BY <1>1
<1>4. RowsOK' /\ OneEach'
  BY <1>1, <1>2, UpdateKeeps
<1> HIDE DEF rest
<1> QED BY <1>2, <1>3, <1>4, NextLinkKeeps

LEMMA ImportNextKeeps ==
    ASSUME RowsOK, OneEach, ImportsOK, NEW i \in Importers, ImportNext(i)
    PROVE  RowsOK' /\ OneEach' /\ ImportsOK'
<1>1. ASSUME UNCHANGED movement, NEW q, ImportOK(q), Continue(i, q)
      PROVE  RowsOK' /\ OneEach' /\ ImportsOK'
  BY <1>1, RowsUntouched, ImportStep
<1>2. ASSUME UNCHANGED movement, NEW q, Continue(i, q),
             {"pc", "todo", "id"} \subseteq DOMAIN q, q.pc \notin {"link", "autolink"}
      PROVE  RowsOK' /\ OneEach' /\ ImportsOK'
  BY <1>1, <1>2 DEF ImportOK
<1>3. ASSUME NEW file \in Files, Upload(i, file) PROVE RowsOK' /\ OneEach' /\ ImportsOK'
  <2> DEFINE q == [Free EXCEPT !.pc = "preview", !.file = file,
                               !.status = ClassifyLines(LinesOf(file), Movements)]
  <2>1. Continue(i, q) /\ UNCHANGED movement
    BY <1>3 DEF Upload
  <2>2. {"pc", "todo", "id"} \subseteq DOMAIN q /\ q.pc \notin {"link", "autolink"}
    BY DEF Free
  <2> HIDE DEF q
  <2> QED BY <1>2, <2>1, <2>2
<1>4. ASSUME \/ \E b \in BatchIds : CreateBatch(i, b)
             \/ DiscardBatch(i) \/ AbortImport(i)
      PROVE  RowsOK' /\ OneEach' /\ ImportsOK'
  BY <1>1, <1>4, FreeOK DEF CreateBatch, DiscardBatch, AbortImport
<1>5. ASSUME NEW b \in BatchIds, Commit(i, b) \/ Discard(i, b)
      PROVE  RowsOK' /\ OneEach' /\ ImportsOK'
  <2> DEFINE q(pc) == [Free EXCEPT !.pc = pc, !.batch = b]
  <2>1. UNCHANGED movement /\ \E pc \in {"commit", "listlinks", "discard"} : Continue(i, q(pc))
    BY <1>5 DEF Commit, Discard
  <2>2. \A pc \in {"commit", "listlinks", "discard"} :
           {"pc", "todo", "id"} \subseteq DOMAIN q(pc) /\ q(pc).pc \notin {"link", "autolink"}
    BY DEF Free
  <2> HIDE DEF q
  <2> QED BY <1>2, <2>1, <2>2
<1>6. ASSUME CommitBatch(i) PROVE RowsOK' /\ OneEach' /\ ImportsOK'
  <2> DEFINE b     == import[i].batch
             valid == ValidLines(batch[b].status)
             Id(n) == IdOf(batch[b].status, n)
             q     == [import[i] EXCEPT !.pc = "listlinks"]
  <2>1. movement' = [m \in MovementIds |->
              IF \E n \in valid : Id(n) = m
              THEN ImportedMovement(batch[b].lines[CHOOSE n \in valid : Id(n) = m], b,
                                    CHOOSE n \in valid : Id(n) = m)
              ELSE movement[m]]
    BY <1>6 DEF CommitBatch
  <2> HIDE DEF b, valid, Id
  <2>2. DOMAIN movement' = MovementIds
        /\ \A m \in MovementIds : movement'[m] = movement[m] \/ Unproved(movement'[m])
    BY <2>1, BookedRow
  <2>3. RowsOK' /\ OneEach'
    BY <2>2, NewRowsKeep
  <2>4. Continue(i, q)
    BY <1>6 DEF CommitBatch
  <2>5. ImportOK(q)
    BY DEF ImportsOK, ImportOK
  <2> HIDE DEF q
  <2> QED BY <2>3, <2>4, <2>5, ImportStep
<1>7. ASSUME ListUnlinked(i) PROVE RowsOK' /\ OneEach' /\ ImportsOK'
  <2> DEFINE todo == [m \in MovementIds |->
          IF m \in Unlinked(import[i].batch) THEN movement[m] ELSE NoVal]
  <2>1. UNCHANGED movement /\ NextLink(i, todo)
    BY <1>7 DEF ListUnlinked
  <2>2. DOMAIN todo = MovementIds
        /\ \A m \in MovementIds : todo[m] # NoVal => Unproved(todo[m])
    BY DEF Unlinked, RowsOK, Unproved
  <2> HIDE DEF todo
  <2> QED BY <2>1, <2>2, RowsUntouched, NextLinkKeeps
<1>8. ASSUME NEW m \in MovementIds, FindCandidate(i, m) PROVE RowsOK' /\ OneEach' /\ ImportsOK'
  <2>1. UNCHANGED movement
    BY <1>8 DEF FindCandidate
  <2> QED BY <1>8, <2>1, RowsUntouched, FindCandidateKeeps
<1> QED BY <1>3, <1>4, <1>5, <1>6, <1>7, <1>8, WriteAutoLinkKeeps DEF ImportNext

LEMMA LinkInvariant == Spec => []LinkInv
<1>1. Init => LinkInv
  <2> SUFFICES ASSUME Init PROVE LinkInv
    OBVIOUS
  <2>1. \A m \in MovementIds : ~Exists(m)
    BY DEF Init, LedgerInit, Exists
  <2> QED BY <2>1, NoRequestOK, FreeOK
          DEF Init, LedgerInit, LinkInv, RowsOK, EditsOK, ImportsOK, OneEach
<1>2. LinkInv /\ [Next]_vars => LinkInv'
  <2> SUFFICES ASSUME LinkInv, [Next]_vars PROVE LinkInv'
    OBVIOUS
  <2>1. CASE EditMovements
    <3>1. RowsOK' /\ EditsOK' /\ OneEach'
      BY <2>1, LedgerStep DEF LinkInv, EditMovements
    <3>2. ImportsOK'
      BY <2>1 DEF LinkInv, EditMovements, ImportsOK
    <3> QED BY <3>1, <3>2 DEF LinkInv
  <2>2. ASSUME NEW i \in Importers, ImportNext(i) PROVE LinkInv'
    <3>1. UNCHANGED edit
      BY <2>2 DEF ImportNext, Upload, CreateBatch, Commit, Discard, CommitBatch, ListUnlinked,
         FindCandidate, WriteAutoLink, DiscardBatch, AbortImport
    <3>2. EditsOK'
      BY <3>1 DEF LinkInv, EditsOK
    <3> QED BY <2>2, <3>2, ImportNextKeeps DEF LinkInv
  <2>3. CASE UNCHANGED vars
    BY <2>3 DEF vars, LinkInv, RowsOK, EditsOK, ImportsOK, OneEach, Exists
  <2> QED BY <2>1, <2>2, <2>3 DEF Next
<1> QED BY <1>1, <1>2, PTL DEF Spec

(* A document proves at most one movement: whatever the look before a link *)
(* saw, the unique index decides when the whole row is written.            *)
THEOREM DocumentsProveOneMovement == Spec => []OneMovementPerDocument
<1>1. LinkInv => OneMovementPerDocument
  <2> SUFFICES ASSUME LinkInv, NEW d \in Docs PROVE Cardinality(LinkedTo(d)) <= 1
    BY DEF OneMovementPerDocument
  <2>1. CASE LinkedTo(d) = {}
    BY <2>1, FS_EmptySet
  <2>2. CASE LinkedTo(d) # {}
    <3>1. PICK m \in LinkedTo(d) : LinkedTo(d) = {m}
      BY <2>2 DEF LinkInv, OneEach, LinkedTo
    <3>2. Cardinality({m}) = 1
      BY FS_Singleton
    <3> QED BY <3>1, <3>2
  <2> QED BY <2>1, <2>2
<1> QED BY <1>1, LinkInvariant, PTL

(* A movement's document, the creator of its link and the flag of a        *)
(* disagreement go together, although rows are saved whole from reads of   *)
(* different times.                                                        *)
THEOREM LinksAreWhole == Spec => []LinkIsWhole
<1>1. LinkInv => LinkIsWhole
  BY DEF LinkInv, RowsOK, Sound, Whole, LinkIsWhole
<1> QED BY <1>1, LinkInvariant, PTL

-----------------------------------------------------------------------------
(* The parser.                                                             *)

(* A row becomes a line that has an error exactly when it lacks something. *)
LEMMA FieldsMakeALine ==
    ASSUME NEW row
    PROVE  /\ ExtractFields(row) \in Line
           /\ ~ExtractFields(row).error =>
                 /\ ExtractFields(row).date \in Dates
                 /\ ExtractFields(row).amount \in Amounts
                 /\ ExtractFields(row).desc \in Texts
<1> DEFINE line == ExtractFields(row)
           date  == In(row[1], Dates)
           money == parseAmount(row[2])
           desc  == In(row[3], Texts)
           ref   == IF Len(row) = 4 THEN In(row[4], Refs) ELSE NoVal
<1>1. CASE row = Malformed \/ Len(row) \notin {3, 4}
  BY <1>1 DEF ExtractFields, Unread, Line
<1>2. CASE ~(row = Malformed \/ Len(row) \notin {3, 4})
  <2>1. date \in Dates \cup {NoVal} /\ desc \in Texts \cup {NoVal} /\ ref \in Refs \cup {NoVal}
    BY DEF In
  <2>2. money.amount \in Amounts \cup {NoVal} /\ money.direction \in {"in", "out", ""}
    BY DEF parseAmount, Signed
  <2>3. line = [date |-> date, amount |-> money.amount, direction |-> money.direction,
                desc |-> desc, ref |-> ref, error |-> NoVal \in {date, money.amount, desc}]
    BY <1>2 DEF ExtractFields
  <2> HIDE DEF date, money, desc, ref, line
  <2>4. line \in Line
    <3> DEFINE err == NoVal \in {date, money.amount, desc}
    <3>1. err \in BOOLEAN
      OBVIOUS
    <3> HIDE DEF err
    <3>2. line = [date |-> date, amount |-> money.amount, direction |-> money.direction,
                  desc |-> desc, ref |-> ref, error |-> err]
      BY <2>3 DEF err
    <3> QED BY <2>1, <2>2, <3>1, <3>2 DEF Line
  <2>5. ~line.error => line.date \in Dates /\ line.amount \in Amounts /\ line.desc \in Texts
    BY <2>1, <2>2, <2>3
  <2> QED BY <2>4, <2>5 DEF line
<1> QED BY <1>1, <1>2

(* What is left of a list when some of its places are kept.                *)
LEMMA KeptIsAList ==
    ASSUME NEW A, NEW list \in Seq(A), NEW S \in SUBSET DOMAIN list
    PROVE  /\ IsFiniteSet(S) /\ S \in SUBSET Nat /\ Cardinality(S) \in Nat
           /\ Kept(list, S) \in Seq(A)
           /\ Len(Kept(list, S)) = Cardinality(S)
           /\ DOMAIN Kept(list, S) = 1 .. Cardinality(S)
<1>1. DOMAIN list = 1 .. Len(list) /\ Len(list) \in Nat
  BY LenProperties
<1>2. IsFiniteSet(S) /\ S \in SUBSET Nat
  <2>1. IsFiniteSet(1 .. Len(list))
    BY <1>1, FS_Interval
  <2>2. IsFiniteSet(S)
    BY <1>1, <2>1, FS_Subset
  <2> QED BY <1>1, <2>2
<1>3. Cardinality(S) \in Nat
  BY <1>2, FS_CardinalityType
<1>4. \A i \in 1 .. Cardinality(S) : list[Nth(S, i)] \in A
  BY <1>1, <1>2, NthProperties, ElementOfSeq
<1>5. Kept(list, S) \in [1 .. Cardinality(S) -> A]
  BY <1>4 DEF Kept
<1>6. Kept(list, S) \in Seq(A)
  BY <1>3, <1>5, SeqDef
<1>7. Len(Kept(list, S)) = Cardinality(S)
  BY <1>3, <1>5
<1> QED BY <1>2, <1>3, <1>5, <1>6, <1>7

(* Both kinds of file give a list of rows.                                 *)
LEMMA RawLinesAreAList ==
    ASSUME NEW file \in Files
    PROVE  RawLines(file) \in Seq({file.rows[n] : n \in DOMAIN file.rows})
<1> DEFINE rows == file.rows
           A    == {rows[n] : n \in DOMAIN rows}
<1>1. rows \in Seq(A)
  BY StatementAssumption DEF StatementAssumption
<1>2. ParseCSV(rows) \in Seq(A)
  <2>1. << >> \in Seq(A)
    BY EmptySeq
  <2>2. SubSeq(rows, 2, Len(rows)) \in Seq(A)
    <3> HIDE DEF A, rows
    <3>1. Len(rows) \in Nat /\ \A i \in 2 .. Len(rows) : rows[i] \in A
      BY <1>1, LenProperties, ElementOfSeq
    <3> QED BY <3>1, SubSeqProperties
  <2> QED BY <1>1, <2>1, <2>2 DEF ParseCSV
<1>3. pdfTextLines(rows) \in Seq(A)
  <2> HIDE DEF A, rows
  <2> QED BY <1>1, KeptIsAList DEF pdfTextLines
<1> QED BY <1>2, <1>3 DEF RawLines

(* The lines of a statement and the statuses they were given.              *)
Parsed(lines, status) ==
    /\ lines \in Seq(Line) /\ status \in StatusLists
    /\ DOMAIN status = DOMAIN lines
    /\ Len(lines) <= MaxLines
    /\ \A n \in ValidLines(status) :
          lines[n].date \in Dates /\ lines[n].amount \in Amounts /\ lines[n].desc \in Texts

LEMMA UploadedIsParsed ==
    ASSUME NEW file \in Files, Accepted(file), NEW existing
    PROVE  Parsed(LinesOf(file), ClassifyLines(LinesOf(file), existing))
<1> DEFINE A      == {file.rows[n] : n \in DOMAIN file.rows}
           raw    == RawLines(file)
           lines  == LinesOf(file)
           status == ClassifyLines(lines, existing)
<1>1. raw \in Seq(A)
  BY RawLinesAreAList
<1>2. DOMAIN raw = 1 .. Len(raw) /\ Len(raw) \in Nat /\ Len(raw) <= MaxLines
  <2> HIDE DEF A, raw
  <2>1. DOMAIN raw = 1 .. Len(raw) /\ Len(raw) \in Nat
    BY <1>1, LenProperties
  <2>2. Len(raw) \in 1 .. MaxLines /\ MaxLines \in Nat
    BY StatementAssumption DEF Accepted, raw, StatementAssumption
  <2> QED BY <2>1, <2>2
<1>3. lines = [n \in 1 .. Len(raw) |-> ExtractFields(raw[n])]
  BY <1>2 DEF LinesOf
<1> HIDE DEF raw, lines
<1>4. lines \in [1 .. Len(raw) -> Line]
  BY <1>3, FieldsMakeALine
<1>5. lines \in Seq(Line) /\ Len(lines) = Len(raw)
  BY <1>2, <1>4, SeqDef
<1>6. status = [n \in 1 .. Len(raw) |-> LineStatus(lines, n, existing)]
  BY <1>4 DEF ClassifyLines
<1>7. \A n \in 1 .. Len(raw) : LineStatus(lines, n, existing) \in LineStatuses
  BY DEF LineStatus, LineStatuses
<1> HIDE DEF status
<1>8. status \in [1 .. Len(raw) -> LineStatuses]
  BY <1>6, <1>7
<1>9. status \in StatusLists
  BY <1>2, <1>8, SeqDef DEF StatusLists
<1>10. ASSUME NEW n \in ValidLines(status)
       PROVE  lines[n].date \in Dates /\ lines[n].amount \in Amounts /\ lines[n].desc \in Texts
  <2>1. n \in 1 .. Len(raw) /\ status[n] = "valid"
    BY <1>8 DEF ValidLines
  <2>2. ~lines[n].error
    BY <1>6, <2>1 DEF LineStatus
  <2>3. lines[n] = ExtractFields(raw[n])
    BY <1>3, <2>1
  <2> QED BY <2>2, <2>3, FieldsMakeALine
<1> QED BY <1>2, <1>4, <1>5, <1>8, <1>9, <1>10 DEF Parsed, status, lines

-----------------------------------------------------------------------------
(* The books.                                                              *)

(* A row in a request's memory shares with the row it is of, while that    *)
(* exists, all that no request changes.                                    *)
Agree(row, old) ==
    /\ row.from = old.from /\ row.date = old.date
    /\ row.amount = old.amount /\ row.ref = old.ref

Copy(row, old) == row \in Movement /\ old # NoVal /\ (old # Gone => Agree(row, old))

EditRight(q, rows) ==
    /\ q \in Request
    /\ q.pc # "idle" => q.id \in MovementIds /\ Copy(q.row, rows[q.id])

(* A request to import is of a batch that exists, and goes through copies. *)
ImportRight(q, rows, batches) ==
    /\ q \in Import
    /\ q.pc = "preview" => q.file \in Files /\ Accepted(q.file) /\ Parsed(LinesOf(q.file), q.status)
    /\ q.pc \notin {"idle", "preview"} => q.batch \in BatchIds /\ batches[q.batch] # NoVal
    /\ q.pc \in {"link", "autolink"} =>
          \A m \in MovementIds : q.todo[m] # NoVal => Copy(q.todo[m], rows[m])
    /\ q.pc = "autolink" => q.id \in MovementIds /\ q.todo[q.id] # NoVal

EditsRight   == edit \in [Users -> Request] /\ \A u \in Users : EditRight(edit[u], movement)
ImportsRight == import \in [Importers -> Import]
                /\ \A i \in Importers : ImportRight(import[i], movement, batch)

RowsTyped == movement \in [MovementIds -> Movement \cup {NoVal, Gone}]

(* Ids are given out without a gap.                                        *)
Dense == \E k \in 0 .. MaxMovements : \A m \in MovementIds : movement[m] # NoVal <=> m <= k

FromFile(x) ==
    /\ x.file \in Files /\ Accepted(x.file)
    /\ x.lines = LinesOf(x.file)
    /\ Parsed(x.lines, x.status)

BatchesRight ==
    /\ batch \in [BatchIds -> Batch \cup {NoVal}]
    /\ \A b \in BatchIds : Found(b) => FromFile(batch[b])

(* An imported row is of a valid line of a batch that is no preview.       *)
BookingsRight ==
    \A b \in BatchIds, n \in 1 .. MaxLines : \A m \in Bookings(b, n) :
        /\ Found(b)
        /\ batch[b].state # "preview"
        /\ n \in ValidLines(batch[b].status)
        /\ movement[m].date = batch[b].lines[n].date
        /\ movement[m].amount = batch[b].lines[n].amount
        /\ movement[m].ref = batch[b].lines[n].ref

(* The valid lines of a batch have been booked together.                   *)
BookedTogether ==
    \A b \in BatchIds : Found(b) =>
        \A n, k \in ValidLines(batch[b].status) :
            /\ batch[b].state = "committed" => Bookings(b, n) # {}
            /\ Cardinality(Bookings(b, n)) = Cardinality(Bookings(b, k))

BooksInv ==
    /\ RowsTyped /\ Dense /\ EditsRight /\ ImportsRight
    /\ BatchesRight /\ BookingsRight /\ BookedTogether

-----------------------------------------------------------------------------
(* What a write of the movements leaves to the requests and to the books.  *)

Follows(later, rows) ==
    \A m \in MovementIds : rows[m] # NoVal =>
        later[m] # NoVal /\ (later[m] # Gone => rows[m] # Gone /\ Agree(later[m], rows[m]))

Imported(row) == row \notin {NoVal, Gone} /\ row.from # NoVal

SameImports(later, rows) ==
    \A m \in MovementIds : Imported(later[m]) \/ Imported(rows[m]) =>
        Imported(later[m]) /\ Imported(rows[m]) /\ Agree(later[m], rows[m])

Quiet == RowsTyped' /\ Dense' /\ Follows(movement', movement) /\ SameImports(movement', movement)

LEMMA QuietUntouched == RowsTyped /\ Dense /\ UNCHANGED movement => Quiet
BY DEF RowsTyped, Dense, Quiet, Follows, SameImports, Agree

LEMMA RowsAreValues == \A row \in Movement : row \notin {NoVal, Gone}
BY LedgerAssumption DEF LedgerAssumption

(* What is saved is a copy of the row it replaces.                         *)
LEMMA QuietUpdate ==
    ASSUME RowsTyped, Dense, NEW m \in MovementIds, NEW row, Copy(row, movement[m]),
           UpdateMovement(m, row)
    PROVE  Quiet
<1>1. /\ movement' = [movement EXCEPT ![m] = row]
      /\ movement[m] # NoVal /\ movement[m] # Gone /\ Agree(row, movement[m])
      /\ row \in Movement /\ row # NoVal /\ row # Gone
  BY RowsAreValues DEF UpdateMovement, Exists, Copy
<1>2. \A n \in MovementIds : movement'[n] = IF n = m THEN row ELSE movement[n]
  BY <1>1 DEF RowsTyped
<1>3. RowsTyped'
  BY <1>1 DEF RowsTyped
<1>4. Dense'
  BY <1>1, <1>2 DEF Dense
<1>5. Follows(movement', movement)
  BY <1>1, <1>2 DEF Follows, Agree
<1>6. SameImports(movement', movement)
  BY <1>1, <1>2 DEF SameImports, Imported, Agree
<1> QED BY <1>3, <1>4, <1>5, <1>6 DEF Quiet

LEMMA QuietDelete ==
    ASSUME RowsTyped, Dense, NEW m \in MovementIds, DeleteMovement(m)
    PROVE  Quiet
<1>1. /\ movement' = [movement EXCEPT ![m] = Gone]
      /\ movement[m] # NoVal /\ movement[m] # Gone /\ movement[m].from = NoVal /\ Gone # NoVal
  BY LedgerAssumption DEF DeleteMovement, Exists, LedgerAssumption
<1>2. \A n \in MovementIds : movement'[n] = IF n = m THEN Gone ELSE movement[n]
  BY <1>1 DEF RowsTyped
<1>3. RowsTyped'
  BY <1>1 DEF RowsTyped
<1>4. Dense'
  BY <1>1, <1>2 DEF Dense
<1>5. Follows(movement', movement)
  BY <1>1, <1>2 DEF Follows, Agree
<1>6. SameImports(movement', movement)
  BY <1>1, <1>2 DEF SameImports, Imported, Agree
<1> QED BY <1>3, <1>4, <1>5, <1>6 DEF Quiet

LEMMA AllocatedIs ==
    ASSUME NEW k \in 0 .. MaxMovements, \A m \in MovementIds : movement[m] # NoVal <=> m <= k
    PROVE  Allocated = k
<1>1. MaxMovements \in Nat /\ k \in Nat
  BY LedgerAssumption DEF LedgerAssumption
<1>2. {m \in MovementIds : movement[m] # NoVal} = 1 .. k
  BY <1>1 DEF MovementIds
<1>3. Cardinality(1 .. k) = k
  BY <1>1, FS_Interval
<1> QED BY <1>2, <1>3 DEF Allocated

LEMMA QuietCreate ==
    ASSUME RowsTyped, Dense, NEW date \in Dates, NEW amount \in Amounts, NEW desc \in Texts,
           CreateManualMovement(date, amount, desc)
    PROVE  Quiet
<1> DEFINE row == [date |-> date, amount |-> amount, desc |-> desc, ref |-> NoVal,
                   from |-> NoVal, link |-> NoVal, creator |-> NoVal, conflicting |-> FALSE]
<1>1. PICK k \in 0 .. MaxMovements : \A m \in MovementIds : movement[m] # NoVal <=> m <= k
  BY DEF Dense
<1>2. Allocated = k
  BY <1>1, AllocatedIs
<1>3. k + 1 \in MovementIds /\ movement' = [movement EXCEPT ![k + 1] = row]
  BY <1>2 DEF CreateManualMovement
<1>4. row \in Movement /\ row.from = NoVal
  BY DEF Movement
<1> HIDE DEF row
<1>5. row # NoVal /\ row # Gone
  BY <1>4, RowsAreValues
<1>6. /\ MaxMovements \in Nat /\ k \in Nat /\ MovementIds \subseteq Nat
      /\ k + 1 \in 0 .. MaxMovements /\ movement[k + 1] = NoVal
  BY <1>1, <1>3, LedgerAssumption DEF LedgerAssumption, MovementIds
<1>7. \A n \in MovementIds : movement'[n] = IF n = k + 1 THEN row ELSE movement[n]
  BY <1>3 DEF RowsTyped
<1>8. RowsTyped'
  BY <1>3, <1>4 DEF RowsTyped
<1>9. Dense'
  <2>1. \A m \in MovementIds : movement'[m] # NoVal <=> m <= k + 1
    BY <1>1, <1>5, <1>6, <1>7
  <2> QED BY <1>6, <2>1 DEF Dense
<1>10. Follows(movement', movement)
  BY <1>6, <1>7 DEF Follows, Agree
<1>11. SameImports(movement', movement)
  BY <1>4, <1>6, <1>7 DEF SameImports, Imported, Agree
<1> QED BY <1>8, <1>9, <1>10, <1>11 DEF Quiet

(* A copy stays one.                                                       *)
LEMMA CopiesStay ==
    ASSUME NEW rows, NEW later, Follows(later, rows), NEW m \in MovementIds, NEW row,
           Copy(row, rows[m])
    PROVE  Copy(row, later[m])
BY DEF Follows, Copy, Agree

LEMMA EditsStay == ASSUME EditsRight, Follows(movement', movement), UNCHANGED edit PROVE EditsRight'
BY CopiesStay DEF EditsRight, EditRight

LEMMA ImportStays ==
    ASSUME NEW rows, NEW later, Follows(later, rows), NEW batches, NEW kept,
           \A b \in BatchIds : batches[b] # NoVal => kept[b] # NoVal,
           NEW q, ImportRight(q, rows, batches)
    PROVE  ImportRight(q, later, kept)
BY CopiesStay DEF ImportRight

-----------------------------------------------------------------------------
(* The ledger's own requests.                                              *)

LEMMA EditRightStep ==
    ASSUME EditsRight, Follows(movement', movement), NEW u \in Users, NEW q,
           EditRight(q, movement'), edit' = [edit EXCEPT ![u] = q]
    PROVE  EditsRight'
BY CopiesStay DEF EditsRight, EditRight

LEMMA NoRequestRight == ASSUME NEW rows PROVE EditRight(NoRequest, rows)
BY DEF EditRight, NoRequest, Request

(* The row a request takes differs from the one it is of in its            *)
(* description or its link alone.                                          *)
LEMMA TakenRight ==
    ASSUME NEW pc \in {"taken", "update"}, NEW m \in MovementIds,
           NEW row \in Movement, movement[m] # NoVal, Agree(row, movement[m])
    PROVE  EditRight([pc |-> pc, id |-> m, row |-> row], movement)
BY DEF EditRight, Request, Copy

LEMMA LedgerKeepsBooks ==
    ASSUME RowsTyped, Dense, EditsRight, LedgerNext
    PROVE  Quiet /\ EditsRight'
<1>1. ASSUME UNCHANGED movement, NEW u \in Users, NEW q, EditRight(q, movement),
             edit' = [edit EXCEPT ![u] = q]
      PROVE  Quiet /\ EditsRight'
  BY <1>1, QuietUntouched, EditRightStep DEF Quiet
<1>2. ASSUME NEW m \in MovementIds, Exists(m) PROVE movement[m] \in Movement /\ movement[m] # NoVal
  BY <1>2 DEF RowsTyped, Exists
<1>3. ASSUME NEW date \in Dates, NEW amount \in Amounts, NEW desc \in Texts,
             CreateManualMovement(date, amount, desc)
      PROVE  Quiet /\ EditsRight'
  BY <1>3, QuietCreate, EditsStay DEF CreateManualMovement, Quiet
<1>4. ASSUME NEW m \in MovementIds, DeleteMovement(m) PROVE Quiet /\ EditsRight'
  BY <1>4, QuietDelete, EditsStay DEF DeleteMovement, Quiet
<1>5. ASSUME NEW u \in Users, NEW m \in MovementIds, NEW desc \in Texts, PatchDescription(u, m, desc)
      PROVE  Quiet /\ EditsRight'
  <2> DEFINE row == [movement[m] EXCEPT !.desc = desc]
  <2>1. movement[m] \in Movement /\ movement[m] # NoVal
    BY <1>2, <1>5 DEF PatchDescription
  <2>2. row \in Movement /\ Agree(row, movement[m])
    BY <2>1 DEF Movement, Agree
  <2> HIDE DEF row
  <2>3. EditRight([pc |-> "update", id |-> m, row |-> row], movement)
    BY <2>1, <2>2, TakenRight
  <2> QED BY <1>1, <1>5, <2>3 DEF PatchDescription, row
<1>6. ASSUME NEW u \in Users, NEW m \in MovementIds, NEW d \in Docs, Link(u, m, d)
      PROVE  Quiet /\ EditsRight'
  <2> DEFINE conflict == linkConflicts(d, movement[m])
             row == [movement[m] EXCEPT !.link = d, !.creator = "manual", !.conflicting = conflict]
  <2>1. movement[m] \in Movement /\ movement[m] # NoVal
    BY <1>2, <1>6 DEF Link
  <2>2. conflict \in BOOLEAN
    BY DEF linkConflicts
  <2> HIDE DEF conflict
  <2>3. row \in Movement /\ Agree(row, movement[m])
    BY <2>1, <2>2 DEF Movement, Agree
  <2> HIDE DEF row
  <2>4. EditRight([pc |-> "taken", id |-> m, row |-> row], movement)
    BY <2>1, <2>3, TakenRight
  <2> QED BY <1>1, <1>6, <2>4 DEF Link, row, conflict
<1>7. ASSUME NEW u \in Users, NEW m \in MovementIds, Unlink(u, m) PROVE Quiet /\ EditsRight'
  <2> DEFINE row == [movement[m] EXCEPT !.link = NoVal, !.creator = NoVal, !.conflicting = FALSE]
  <2>1. movement[m] \in Movement /\ movement[m] # NoVal
    BY <1>2, <1>7 DEF Unlink
  <2>2. row \in Movement /\ Agree(row, movement[m])
    BY <2>1 DEF Movement, Agree
  <2> HIDE DEF row
  <2>3. EditRight([pc |-> "update", id |-> m, row |-> row], movement)
    BY <2>1, <2>2, TakenRight
  <2> QED BY <1>1, <1>7, <2>3 DEF Unlink, row
<1>8. ASSUME NEW u \in Users, CheckTaken(u) PROVE Quiet /\ EditsRight'
  <2> DEFINE q == [edit[u] EXCEPT !.pc = "update"]
  <2>1. EditRight(edit[u], movement) /\ edit[u].pc # "idle"
    BY <1>8 DEF CheckTaken, EditsRight
  <2>2. EditRight(q, movement)
    BY <2>1 DEF EditRight, Request
  <2>3. UNCHANGED movement /\ (edit' = [edit EXCEPT ![u] = q] \/ edit' = [edit EXCEPT ![u] = NoRequest])
    BY <1>8 DEF CheckTaken
  <2> HIDE DEF q
  <2> QED BY <1>1, <2>2, <2>3, NoRequestRight
<1>9. ASSUME NEW u \in Users, WriteEdit(u) PROVE Quiet /\ EditsRight'
  <2>1. edit[u].id \in MovementIds /\ Copy(edit[u].row, movement[edit[u].id])
    BY <1>9 DEF WriteEdit, EditsRight, EditRight
  <2>2. UpdateMovement(edit[u].id, edit[u].row) /\ edit' = [edit EXCEPT ![u] = NoRequest]
    BY <1>9 DEF WriteEdit
  <2>3. Quiet
    BY <2>1, <2>2, QuietUpdate
  <2> QED BY <2>2, <2>3, NoRequestRight, EditRightStep DEF Quiet
<1>10. ASSUME NEW u \in Users, AbortEdit(u) PROVE Quiet /\ EditsRight'
  BY <1>1, <1>10, NoRequestRight DEF AbortEdit
<1> QED BY <1>3, <1>4, <1>5, <1>6, <1>7, <1>8, <1>9, <1>10 DEF LedgerNext

-----------------------------------------------------------------------------
(* The requests to import.                                                 *)

LEMMA ImportRightStep ==
    ASSUME ImportsRight, Follows(movement', movement),
           \A b \in BatchIds : batch[b] # NoVal => batch'[b] # NoVal,
           NEW i \in Importers, NEW q, ImportRight(q, movement', batch'), Continue(i, q)
    PROVE  ImportsRight'
<1>1. ASSUME NEW j \in Importers PROVE ImportRight(import'[j], movement', batch')
  <2>1. ImportRight(import[j], movement', batch')
    BY ImportStays DEF ImportsRight
  <2>2. import'[j] = IF j = i THEN q ELSE import[j]
    BY DEF Continue, ImportsRight
  <2> QED BY <2>1, <2>2
<1>2. q \in Import
  BY DEF ImportRight
<1> QED BY <1>1, <1>2 DEF ImportsRight, Continue

LEMMA FreeIsTyped == Free \in Import /\ Free.pc = "idle"
BY DEF Free, Import, Nothing

LEMMA FreeRight == ASSUME NEW rows, NEW batches PROVE ImportRight(Free, rows, batches)
<1>1. Free.pc \notin {"preview", "link", "autolink"} /\ Free.pc \in {"idle", "preview"}
  BY FreeIsTyped
<1> QED BY <1>1, FreeIsTyped DEF ImportRight

LEMMA NextLinkRight ==
    ASSUME ImportsRight, Follows(movement', movement), UNCHANGED batch,
           NEW i \in Importers, import[i].batch \in BatchIds, Found(import[i].batch),
           NEW todo \in [MovementIds -> Movement \cup {NoVal}],
           \A m \in MovementIds : todo[m] # NoVal => Copy(todo[m], movement'[m]),
           NextLink(i, todo)
    PROVE  ImportsRight'
<1> DEFINE b == import[i].batch
           q == [Free EXCEPT !.pc = "link", !.batch = b, !.todo = todo]
<1>1. q \in Import /\ q.pc = "link" /\ q.batch = b /\ q.todo = todo
  BY DEF Free, Import
<1>2. Continue(i, Free) \/ Continue(i, q)
  BY DEF NextLink
<1> HIDE DEF q
<1>3. ImportRight(q, movement', batch')
  <2>1. q.pc \notin {"preview", "autolink"}
    BY <1>1
  <2> QED BY <1>1, <2>1 DEF ImportRight, Found
<1> QED BY <1>2, <1>3, FreeRight, ImportRightStep

LEMMA UploadRight ==
    ASSUME NEW i \in Importers, NEW file \in Files, Upload(i, file)
    PROVE  \E q : ImportRight(q, movement, batch) /\ Continue(i, q)
<1> DEFINE status == ClassifyLines(LinesOf(file), Movements)
           q      == [Free EXCEPT !.pc = "preview", !.file = file, !.status = status]
<1>1. Accepted(file) /\ Parsed(LinesOf(file), status)
  BY UploadedIsParsed DEF Upload
<1> HIDE DEF status
<1>2. status \in StatusLists
  BY <1>1 DEF Parsed
<1>3. q \in Import /\ q.pc = "preview" /\ q.file = file /\ q.status = status
  BY <1>2 DEF Free, Import, Nothing
<1>4. Continue(i, q)
  BY DEF Upload, status
<1> HIDE DEF q
<1>5. q.pc \notin {"link", "autolink"} /\ q.pc \in {"idle", "preview"}
  BY <1>3
<1>6. ImportRight(q, movement, batch)
  BY <1>1, <1>3, <1>5 DEF ImportRight
<1> QED BY <1>4, <1>6

LEMMA BegunRight ==
    ASSUME NEW b \in BatchIds, Found(b), NEW pc \in {"commit", "listlinks", "discard"}
    PROVE  ImportRight([Free EXCEPT !.pc = pc, !.batch = b], movement, batch)
<1> DEFINE q == [Free EXCEPT !.pc = pc, !.batch = b]
<1>1. q \in Import /\ q.pc = pc /\ q.batch = b
  BY DEF Free, Import, Nothing
<1> HIDE DEF q
<1>2. q.pc \notin {"idle", "preview", "link", "autolink"}
  BY <1>1
<1>3. ImportRight(q, movement, batch)
  BY <1>1, <1>2 DEF ImportRight, Found
<1> QED BY <1>3 DEF q

LEMMA FindCandidateRight ==
    ASSUME RowsTyped, ImportsRight, NEW i \in Importers, NEW m \in MovementIds, FindCandidate(i, m)
    PROVE  ImportsRight'
<1> DEFINE old   == import[i].todo
           cands == LinkCandidates(old[m])
           d     == CHOOSE d \in cands : TRUE
           q     == [import[i] EXCEPT !.pc = "autolink", !.id = m,
                       !.todo[m].link = d, !.todo[m].creator = "auto"]
<1>0. UNCHANGED <<movement, batch>> /\ Follows(movement', movement)
  BY DEF FindCandidate, Follows, Agree
<1>1. /\ import[i] \in Import /\ import[i].pc = "link"
      /\ import[i].batch \in BatchIds /\ Found(import[i].batch)
      /\ old \in [MovementIds -> Movement \cup {NoVal}]
      /\ \A n \in MovementIds : old[n] # NoVal => Copy(old[n], movement[n])
      /\ old[m] # NoVal
  BY DEF FindCandidate, ImportsRight, ImportRight, Import, Found
<1>2. CASE Cardinality(cands) = 1
  <2>1. d \in Docs
    <3>1. cands # {}
      BY <1>2, FS_EmptySet
    <3> QED BY <3>1 DEF LinkCandidates
  <2> HIDE DEF d
  <2> DEFINE row  == [[old[m] EXCEPT !.link = d] EXCEPT !.creator = "auto"]
             todo == [old EXCEPT ![m] = row]
  <2>2. q = [import[i] EXCEPT !.pc = "autolink", !.id = m, !.todo = todo]
    BY <1>1 DEF Import
  <2>3. old[m] \in Movement /\ Copy(old[m], movement[m])
    BY <1>1
  <2>4. row \in Movement /\ Agree(row, old[m])
    BY <2>1, <2>3 DEF Movement, Agree
  <2>5. Copy(row, movement[m]) /\ row # NoVal
    BY <2>3, <2>4, RowsAreValues DEF Copy, Agree
  <2> HIDE DEF row
  <2>6. /\ todo \in [MovementIds -> Movement \cup {NoVal}]
        /\ \A n \in MovementIds : todo[n] # NoVal => Copy(todo[n], movement[n])
        /\ todo[m] # NoVal
    BY <1>1, <2>4, <2>5
  <2>7. Continue(i, q)
    BY <1>2 DEF FindCandidate, d
  <2> HIDE DEF todo, q
  <2>8. /\ q \in Import /\ q.pc = "autolink" /\ q.id = m
        /\ q.batch = import[i].batch /\ q.todo = todo
    BY <1>1, <2>2, <2>6 DEF Import
  <2>9. ImportRight(q, movement, batch)
    BY <1>1, <2>6, <2>8 DEF ImportRight, Found
  <2> QED BY <1>0, <2>7, <2>9, ImportRightStep
<1>3. CASE Cardinality(cands) # 1
  <2> DEFINE rest == [old EXCEPT ![m] = NoVal]
  <2>1. NextLink(i, rest)
    BY <1>3 DEF FindCandidate
  <2>2. /\ rest \in [MovementIds -> Movement \cup {NoVal}]
        /\ \A n \in MovementIds : rest[n] # NoVal => Copy(rest[n], movement'[n])
    BY <1>0, <1>1
  <2> HIDE DEF rest
  <2> QED BY <1>0, <1>1, <2>1, <2>2, NextLinkRight
<1> QED BY <1>2, <1>3

LEMMA ListUnlinkedRight ==
    ASSUME RowsTyped, ImportsRight, NEW i \in Importers, ListUnlinked(i)
    PROVE  ImportsRight'
<1> DEFINE todo == [m \in MovementIds |->
        IF m \in Unlinked(import[i].batch) THEN movement[m] ELSE NoVal]
<1>1. UNCHANGED <<movement, batch>> /\ Follows(movement', movement) /\ NextLink(i, todo)
  BY DEF ListUnlinked, Follows, Agree
<1>2. import[i].batch \in BatchIds /\ Found(import[i].batch)
  BY DEF ListUnlinked, ImportsRight, ImportRight, Found
<1>3. \A m \in Unlinked(import[i].batch) : movement[m] \in Movement /\ Copy(movement[m], movement[m])
  BY DEF Unlinked, Exists, RowsTyped, Copy, Agree
<1>4. /\ todo \in [MovementIds -> Movement \cup {NoVal}]
      /\ \A m \in MovementIds : todo[m] # NoVal => Copy(todo[m], movement'[m])
  BY <1>1, <1>3
<1> HIDE DEF todo
<1> QED BY <1>1, <1>2, <1>4, NextLinkRight

LEMMA WriteAutoLinkRight ==
    ASSUME RowsTyped, Dense, ImportsRight, NEW i \in Importers, WriteAutoLink(i)
    PROVE  Quiet /\ ImportsRight'
<1> DEFINE m    == import[i].id
           old  == import[i].todo
           rest == [old EXCEPT ![m] = NoVal]
<1>1. /\ import[i].batch \in BatchIds /\ Found(import[i].batch)
      /\ m \in MovementIds /\ old[m] # NoVal
      /\ old \in [MovementIds -> Movement \cup {NoVal}]
      /\ \A n \in MovementIds : old[n] # NoVal => Copy(old[n], movement[n])
  BY DEF WriteAutoLink, ImportsRight, ImportRight, Import, Found
<1>2. UpdateMovement(m, old[m]) /\ NextLink(i, rest) /\ UNCHANGED batch
  BY DEF WriteAutoLink
<1>3. Quiet
  BY <1>1, <1>2, QuietUpdate
<1>4. /\ rest \in [MovementIds -> Movement \cup {NoVal}]
      /\ \A n \in MovementIds : rest[n] # NoVal => Copy(rest[n], movement[n])
  BY <1>1
<1> HIDE DEF rest
<1>5. \A n \in MovementIds : rest[n] # NoVal => Copy(rest[n], movement'[n])
  BY <1>3, <1>4, CopiesStay DEF Quiet
<1> QED BY <1>1, <1>2, <1>3, <1>4, <1>5, NextLinkRight DEF Quiet

-----------------------------------------------------------------------------
(* Batches and what is booked for them.                                    *)

LEMMA ValidIsALine ==
    ASSUME NEW lines, NEW status, Parsed(lines, status)
    PROVE  /\ IsFiniteSet(ValidLines(status)) /\ ValidLines(status) \in SUBSET Nat
           /\ \A n \in ValidLines(status) : n \in DOMAIN lines /\ n \in 1 .. MaxLines
<1>1. Len(lines) \in Nat /\ DOMAIN lines = 1 .. Len(lines) /\ Len(lines) <= MaxLines /\ MaxLines \in Nat
  BY LenProperties, StatementAssumption DEF Parsed, StatementAssumption
<1>2. ValidLines(status) \subseteq 1 .. Len(lines)
  BY <1>1 DEF ValidLines, Parsed
<1>3. IsFiniteSet(1 .. Len(lines))
  BY <1>1, FS_Interval
<1>4. IsFiniteSet(ValidLines(status))
  BY <1>2, <1>3, FS_Subset
<1> QED BY <1>1, <1>2, <1>4

LEMMA OriginsAreLines ==
    ASSUME NEW b \in BatchIds, NEW n \in 1 .. MaxLines
    PROVE  <<b, n>> \in Origins /\ <<b, n>> # NoVal
BY LedgerAssumption, StatementAssumption DEF LedgerAssumption, StatementAssumption

LEMMA BookingsAreFinite ==
    ASSUME NEW b \in BatchIds, NEW n
    PROVE  IsFiniteSet(Bookings(b, n)) /\ Cardinality(Bookings(b, n)) \in Nat
<1>1. MaxMovements \in Nat
  BY LedgerAssumption DEF LedgerAssumption
<1>2. IsFiniteSet(MovementIds)
  BY <1>1, FS_Interval DEF MovementIds
<1>3. Bookings(b, n) \subseteq MovementIds
  BY DEF Bookings
<1> QED BY <1>2, <1>3, FS_Subset, FS_CardinalityType

(* A batch is new and a preview, or keeps its lines and stays what it is,  *)
(* or is discarded.                                                        *)
BatchesFollow ==
    /\ batch' \in [BatchIds -> Batch \cup {NoVal}]
    /\ \A b \in BatchIds :
          /\ batch[b] # NoVal =>
                /\ batch'[b] # NoVal
                /\ batch'[b].file = batch[b].file
                /\ batch'[b].lines = batch[b].lines /\ batch'[b].status = batch[b].status
                /\ batch'[b].state = batch[b].state \/ batch'[b].state = "discarded"
          /\ batch[b] = NoVal /\ batch'[b] # NoVal =>
                batch'[b].state = "preview" /\ FromFile(batch'[b])

LEMMA QuietBookings ==
    ASSUME Quiet, NEW b \in BatchIds, NEW n \in 1 .. MaxLines
    PROVE  /\ Bookings(b, n)' = Bookings(b, n)
           /\ \A m \in Bookings(b, n) : Agree(movement'[m], movement[m])
<1>1. <<b, n>> # NoVal
  BY OriginsAreLines
<1>2. Bookings(b, n) = {m \in MovementIds : Imported(movement[m]) /\ movement[m].from = <<b, n>>}
  BY <1>1 DEF Bookings, Exists, Imported
<1>3. Bookings(b, n)' = {m \in MovementIds : Imported(movement'[m]) /\ movement'[m].from = <<b, n>>}
  BY <1>1 DEF Bookings, Exists, Imported
<1>4. \A m \in MovementIds :
         /\ Imported(movement'[m]) <=> Imported(movement[m])
         /\ Imported(movement[m]) => Agree(movement'[m], movement[m])
  BY DEF Quiet, SameImports
<1>5. \A m \in MovementIds : Imported(movement[m]) => movement'[m].from = movement[m].from
  BY <1>4 DEF Agree
<1> QED BY <1>2, <1>3, <1>4, <1>5

LEMMA BooksStay ==
    ASSUME BatchesRight, BookingsRight, BookedTogether, Quiet, BatchesFollow
    PROVE  BatchesRight' /\ BookingsRight' /\ BookedTogether'
<1>1. BatchesRight'
  BY DEF BatchesRight, BatchesFollow, FromFile, Found
<1>2. BookingsRight'
  <2> SUFFICES ASSUME NEW b \in BatchIds, NEW n \in 1 .. MaxLines, NEW m \in Bookings(b, n)'
               PROVE  /\ Found(b)'
                      /\ batch'[b].state # "preview"
                      /\ n \in ValidLines(batch'[b].status)
                      /\ movement'[m].date = batch'[b].lines[n].date
                      /\ movement'[m].amount = batch'[b].lines[n].amount
                      /\ movement'[m].ref = batch'[b].lines[n].ref
    BY DEF BookingsRight
  <2>1. m \in Bookings(b, n) /\ Agree(movement'[m], movement[m])
    BY QuietBookings
  <2>2. /\ Found(b)
        /\ batch[b].state # "preview"
        /\ n \in ValidLines(batch[b].status)
        /\ movement[m].date = batch[b].lines[n].date
        /\ movement[m].amount = batch[b].lines[n].amount
        /\ movement[m].ref = batch[b].lines[n].ref
    BY <2>1 DEF BookingsRight
  <2>3. /\ batch'[b] # NoVal
        /\ batch'[b].lines = batch[b].lines /\ batch'[b].status = batch[b].status
        /\ batch'[b].state = batch[b].state \/ batch'[b].state = "discarded"
    BY <2>2 DEF BatchesFollow, Found
  <2> QED BY <2>1, <2>2, <2>3 DEF Agree, Found
<1>3. BookedTogether'
  <2> SUFFICES ASSUME NEW b \in BatchIds, Found(b)',
                      NEW n \in ValidLines(batch'[b].status), NEW k \in ValidLines(batch'[b].status)
               PROVE  /\ batch'[b].state = "committed" => Bookings(b, n)' # {}
                      /\ Cardinality(Bookings(b, n)') = Cardinality(Bookings(b, k)')
    BY DEF BookedTogether
  <2>1. Parsed(batch'[b].lines, batch'[b].status)
    BY <1>1 DEF BatchesRight, FromFile, Found
  <2>2. n \in 1 .. MaxLines /\ k \in 1 .. MaxLines
    BY <2>1, ValidIsALine
  <2>3. Bookings(b, n)' = Bookings(b, n) /\ Bookings(b, k)' = Bookings(b, k)
    BY <2>2, QuietBookings
  <2>4. CASE Found(b)
    <3>1. /\ batch'[b].status = batch[b].status
          /\ batch'[b].state = batch[b].state \/ batch'[b].state = "discarded"
      BY <2>4 DEF BatchesFollow, Found
    <3> QED BY <2>3, <2>4, <3>1 DEF BookedTogether
  <2>5. CASE ~Found(b)
    <3>1. batch'[b].state = "preview"
      BY <2>5 DEF BatchesFollow, Found
    <3>2. Bookings(b, n) = {} /\ Bookings(b, k) = {}
      BY <2>2, <2>5 DEF BookingsRight
    <3> QED BY <2>3, <3>1, <3>2
  <2> QED BY <2>4, <2>5
<1> QED BY <1>1, <1>2, <1>3

-----------------------------------------------------------------------------
(* The commit: every valid line gets a row of its own, after all others.   *)

LEMMA IdsAreFresh ==
    ASSUME NEW k \in Nat, Allocated = k, NEW lines, NEW status, Parsed(lines, status),
           k + Cardinality(ValidLines(status)) <= MaxMovements
    PROVE  /\ k + Cardinality(ValidLines(status)) \in 0 .. MaxMovements
           /\ \A n \in ValidLines(status) :
                 IdOf(status, n) \in k + 1 .. k + Cardinality(ValidLines(status))
           /\ \A n, j \in ValidLines(status) : IdOf(status, n) = IdOf(status, j) => n = j
           /\ \A m \in k + 1 .. k + Cardinality(ValidLines(status)) :
                 \E n \in ValidLines(status) : IdOf(status, n) = m
<1> DEFINE valid == ValidLines(status)
           c     == Cardinality(valid)
<1>1. IsFiniteSet(valid) /\ valid \in SUBSET Nat
  BY ValidIsALine
<1>2. c \in Nat /\ MaxMovements \in Nat
  BY <1>1, FS_CardinalityType, LedgerAssumption DEF LedgerAssumption
<1>3. \A n \in valid : IdOf(status, n) = k + Rank(valid, n)
  BY DEF IdOf
<1> HIDE DEF valid
<1>4. \A n \in valid : Rank(valid, n) \in 1 .. c
  BY <1>1, RankProperties
<1>5. \A n, j \in valid : Rank(valid, n) = Rank(valid, j) => n = j
  <2> SUFFICES ASSUME NEW n \in valid, NEW j \in valid, Rank(valid, n) = Rank(valid, j) PROVE n = j
    OBVIOUS
  <2>1. n \in Nat /\ j \in Nat /\ Rank(valid, n) \in Nat
    BY <1>1, <1>2, <1>4
  <2>2. ~(n < j) /\ ~(j < n)
    BY <1>1, <2>1, RankProperties
  <2> QED BY <2>1, <2>2
<1>6. \A r \in 1 .. c : \E n \in valid : Rank(valid, n) = r
  BY <1>1, RankOnto
<1> HIDE DEF c
<1>7. k + c \in 0 .. MaxMovements
  BY <1>2 DEF valid, c
<1>8. \A n \in valid : IdOf(status, n) \in k + 1 .. k + c
  BY <1>2, <1>3, <1>4
<1>9. \A n, j \in valid : IdOf(status, n) = IdOf(status, j) => n = j
  <2>1. \A n \in valid : Rank(valid, n) \in Nat
    BY <1>2, <1>4
  <2> QED BY <1>3, <1>5, <2>1
<1>10. ASSUME NEW m \in k + 1 .. k + c PROVE \E n \in valid : IdOf(status, n) = m
  <2>1. m - k \in 1 .. c /\ m = k + (m - k)
    BY <1>2
  <2> QED BY <1>3, <1>6, <2>1
<1> QED BY <1>7, <1>8, <1>9, <1>10 DEF valid, c

(* The rows of a commit, seen from the ids and from the lines.             *)
LEMMA CommitWrites ==
    ASSUME RowsTyped, Dense, ImportsRight, BatchesRight, NEW i \in Importers, CommitBatch(i),
           NEW b, b = import[i].batch, NEW status, status = batch[b].status,
           NEW valid, valid = ValidLines(status)
    PROVE  /\ RowsTyped' /\ Dense'
           /\ \A n \in valid :
                 /\ IdOf(status, n) \in MovementIds
                 /\ movement[IdOf(status, n)] = NoVal
                 /\ movement'[IdOf(status, n)] = ImportedMovement(batch[b].lines[n], b, n)
                 /\ movement'[IdOf(status, n)] \in Movement
           /\ \A m \in MovementIds :
                 movement'[m] = movement[m] \/ \E n \in valid : m = IdOf(status, n)
<1> DEFINE lines == batch[b].lines
           Id(n) == IdOf(status, n)
           c     == Cardinality(valid)
<1>1. b \in BatchIds /\ Found(b)
  BY DEF CommitBatch, ImportsRight, ImportRight, Found
<1>2. Parsed(lines, status)
  BY <1>1 DEF BatchesRight, FromFile
<1>3. PICK k \in 0 .. MaxMovements : \A m \in MovementIds : movement[m] # NoVal <=> m <= k
  BY DEF Dense
<1>4. Allocated = k /\ k \in Nat /\ MaxMovements \in Nat /\ k + c <= MaxMovements
  BY <1>3, AllocatedIs, LedgerAssumption DEF CommitBatch, LedgerAssumption
<1>5. movement' = [m \in MovementIds |->
              IF \E n \in valid : Id(n) = m
              THEN ImportedMovement(lines[CHOOSE n \in valid : Id(n) = m], b,
                                    CHOOSE n \in valid : Id(n) = m)
              ELSE movement[m]]
  BY DEF CommitBatch
<1>6. /\ k + c \in 0 .. MaxMovements
      /\ \A n \in valid : Id(n) \in k + 1 .. k + c
      /\ \A n, j \in valid : Id(n) = Id(j) => n = j
      /\ \A m \in k + 1 .. k + c : \E n \in valid : Id(n) = m
  BY <1>2, <1>4, IdsAreFresh
<1>7. c \in Nat
  BY <1>2, ValidIsALine, FS_CardinalityType
<1> HIDE DEF Id, c
<1>8. \A n \in valid : Id(n) \in MovementIds /\ ~(Id(n) <= k) /\ Id(n) <= k + c /\ Id(n) \in Nat
  BY <1>4, <1>6, <1>7 DEF MovementIds
<1>9. \A n \in valid : movement[Id(n)] = NoVal
  BY <1>3, <1>8
<1>10. \A n \in valid : movement'[Id(n)] = ImportedMovement(lines[n], b, n)
  <2> SUFFICES ASSUME NEW n \in valid PROVE movement'[Id(n)] = ImportedMovement(lines[n], b, n)
    OBVIOUS
  <2>1. (CHOOSE j \in valid : Id(j) = Id(n)) = n
    BY <1>6
  <2> QED BY <1>5, <1>8, <2>1
<1>11. ASSUME NEW n \in valid PROVE movement'[Id(n)] \in Movement
  <2>1. n \in DOMAIN lines /\ n \in 1 .. MaxLines
    BY <1>2, ValidIsALine
  <2>2. lines[n] \in Line
    BY <1>2, <2>1, ElementOfSeq, LenProperties DEF Parsed
  <2>3. lines[n].date \in Dates /\ lines[n].amount \in Amounts /\ lines[n].desc \in Texts
    BY <1>2 DEF Parsed
  <2>4. lines[n].ref \in Refs \cup {NoVal}
    BY <2>2 DEF Line
  <2>5. <<b, n>> \in Origins
    BY <1>1, <2>1, OriginsAreLines
  <2> HIDE DEF lines
  <2>6. ImportedMovement(lines[n], b, n) \in Movement
    BY <2>3, <2>4, <2>5 DEF ImportedMovement, Movement
  <2> QED BY <1>10, <2>6
<1>12. \A m \in MovementIds : movement'[m] = movement[m] \/ \E n \in valid : m = Id(n)
  BY <1>5
<1>13. RowsTyped'
  <2>1. \A m \in MovementIds : movement'[m] \in Movement \cup {NoVal, Gone}
    BY <1>11, <1>12 DEF RowsTyped
  <2> QED BY <1>5, <2>1 DEF RowsTyped
<1>14. Dense'
  <2>1. ASSUME NEW m \in MovementIds PROVE movement'[m] # NoVal <=> m <= k + c
    <3>1. m \in Nat /\ m >= 1
      BY DEF MovementIds
    <3>2. CASE m <= k
      BY <1>3, <1>4, <1>7, <1>8, <1>12, <3>1, <3>2
    <3>3. CASE m > k /\ m <= k + c
      <4>1. PICK n \in valid : Id(n) = m
        BY <1>4, <1>6, <1>7, <3>1, <3>3
      <4> QED BY <1>11, <3>3, <4>1, RowsAreValues
    <3>4. CASE m > k + c
      <4>1. movement[m] = NoVal /\ ~(m <= k + c)
        BY <1>3, <1>4, <1>7, <3>1, <3>4
      <4>2. \A n \in valid : m # Id(n)
        BY <1>8, <4>1
      <4> QED BY <1>12, <4>1, <4>2
    <3> QED BY <1>4, <1>7, <3>1, <3>2, <3>3, <3>4
  <2> QED BY <1>6, <2>1 DEF Dense
<1> QED BY <1>8, <1>9, <1>10, <1>11, <1>12, <1>13, <1>14 DEF Id

LEMMA CommitKeepsBooks ==
    ASSUME BooksInv, NEW i \in Importers, CommitBatch(i), NEW b, b = import[i].batch,
           NEW lines, lines = batch[b].lines, NEW status, status = batch[b].status
    PROVE  BooksInv'
<1> DEFINE valid  == ValidLines(status)
           Id(n)  == IdOf(status, n)
           q      == [import[i] EXCEPT !.pc = "listlinks"]
<1> USE DEF BooksInv
<1>1. b \in BatchIds /\ Found(b) /\ import[i] \in Import
  BY DEF CommitBatch, ImportsRight, ImportRight, Found
<1>2. Parsed(lines, status)
  BY <1>1 DEF BatchesRight, FromFile
<1>3. /\ RowsTyped' /\ Dense'
      /\ \A n \in valid : /\ Id(n) \in MovementIds /\ movement[Id(n)] = NoVal
                          /\ movement'[Id(n)] = ImportedMovement(lines[n], b, n)
                          /\ movement'[Id(n)] \in Movement
      /\ \A m \in MovementIds : movement'[m] = movement[m] \/ \E n \in valid : m = Id(n)
  BY CommitWrites
<1>4. /\ batch' = [batch EXCEPT ![b].state = "committed"]
      /\ Continue(i, q) /\ UNCHANGED edit
  BY DEF CommitBatch
<1>5. /\ batch'[b].state = "committed" /\ batch'[b].file = batch[b].file /\ batch'[b].lines = lines /\ batch'[b].status = status
      /\ batch'[b] # NoVal
      /\ \A x \in BatchIds \ {b} : batch'[x] = batch[x]
      /\ batch' \in [BatchIds -> Batch \cup {NoVal}]
  <2>1. batch[b] \in Batch
    BY <1>1 DEF BatchesRight, Found
  <2>2. [batch[b] EXCEPT !.state = "committed"] \in Batch
    BY <2>1 DEF Batch
  <2>3. NoVal \notin Batch
    BY StatementAssumption DEF StatementAssumption
  <2>4. batch'[b] = [batch[b] EXCEPT !.state = "committed"]
    BY <1>1, <1>4 DEF BatchesRight
  <2>5. /\ batch'[b].state = "committed" /\ batch'[b].file = batch[b].file
        /\ batch'[b].lines = lines /\ batch'[b].status = status
    BY <2>1, <2>4 DEF Batch
  <2> QED BY <1>1, <1>4, <2>2, <2>3, <2>4, <2>5 DEF BatchesRight
<1> HIDE DEF Id
<1>6. \A n \in valid : n \in 1 .. MaxLines
  BY <1>2, ValidIsALine
<1>7. \A m \in MovementIds : movement[m] # NoVal => movement'[m] = movement[m]
  BY <1>3
<1>8. Follows(movement', movement)
  BY <1>7 DEF Follows, Agree
<1>9. EditsRight'
  BY <1>4, <1>8, EditsStay
<1>10. ImportsRight'
  <2>1. q \in Import /\ q.pc = "listlinks" /\ q.batch = b
    BY <1>1 DEF Import
  <2> HIDE DEF q
  <2>2. q.pc \notin {"idle", "preview", "link", "autolink"}
    BY <2>1
  <2>3. ImportRight(q, movement', batch')
    BY <1>1, <1>5, <2>1, <2>2 DEF ImportRight
  <2>4. \A x \in BatchIds : batch[x] # NoVal => batch'[x] # NoVal
    BY <1>5
  <2> QED BY <1>4, <1>8, <2>3, <2>4, ImportRightStep
<1>11. BatchesRight'
  BY <1>1, <1>2, <1>5 DEF BatchesRight, FromFile, Found
(* Of a valid line of the batch there is one booking more, of every other  *)
(* line what there was.                                                    *)
<1>12. \A n \in valid : movement'[Id(n)].from = <<b, n>> /\ movement'[Id(n)] \notin {NoVal, Gone}
  <2>1. \A n \in valid : ImportedMovement(lines[n], b, n).from = <<b, n>>
    BY DEF ImportedMovement
  <2> QED BY <1>3, <2>1, RowsAreValues
<1>13. ASSUME NEW n \in valid
       PROVE  Bookings(b, n)' = Bookings(b, n) \cup {Id(n)} /\ Id(n) \notin Bookings(b, n)
  <2>1. Id(n) \notin Bookings(b, n)
    BY <1>3 DEF Bookings, Exists
  <2>2. ASSUME NEW m \in Bookings(b, n)' PROVE m \in Bookings(b, n) \cup {Id(n)}
    <3>1. m \in MovementIds /\ Exists(m)' /\ movement'[m].from = <<b, n>>
      BY <2>2 DEF Bookings
    <3>2. CASE movement'[m] = movement[m]
      BY <3>1, <3>2 DEF Bookings, Exists
    <3>3. ASSUME NEW j \in valid, m = Id(j) PROVE m = Id(n)
      <4>1. <<b, j>> = <<b, n>>
        BY <1>12, <3>1, <3>3
      <4> QED BY <3>3, <4>1
    <3> QED BY <1>3, <3>1, <3>2, <3>3
  <2>3. ASSUME NEW m \in Bookings(b, n) PROVE m \in Bookings(b, n)'
    <3>1. m \in MovementIds /\ movement'[m] = movement[m] /\ Exists(m) /\ movement[m].from = <<b, n>>
      BY <1>7, <2>3 DEF Bookings, Exists
    <3> QED BY <3>1 DEF Bookings, Exists
  <2>4. Id(n) \in Bookings(b, n)'
    BY <1>3, <1>12 DEF Bookings, Exists
  <2> QED BY <2>1, <2>2, <2>3, <2>4
<1>14. ASSUME NEW x \in BatchIds, NEW n \in 1 .. MaxLines, x # b \/ n \notin valid
       PROVE  Bookings(x, n)' = Bookings(x, n)
  <2>1. \A j \in valid : <<b, j>> # <<x, n>>
    BY <1>14
  <2>2. ASSUME NEW m \in Bookings(x, n)' PROVE m \in Bookings(x, n)
    <3>1. m \in MovementIds /\ Exists(m)' /\ movement'[m].from = <<x, n>>
      BY <2>2 DEF Bookings
    <3>2. movement'[m] = movement[m]
      BY <1>3, <1>12, <2>1, <3>1
    <3> QED BY <3>1, <3>2 DEF Bookings, Exists
  <2>3. ASSUME NEW m \in Bookings(x, n) PROVE m \in Bookings(x, n)'
    <3>1. m \in MovementIds /\ movement'[m] = movement[m] /\ Exists(m) /\ movement[m].from = <<x, n>>
      BY <1>7, <2>3 DEF Bookings, Exists
    <3> QED BY <3>1 DEF Bookings, Exists
  <2> QED BY <2>2, <2>3
<1>15. BookingsRight'
  <2> SUFFICES ASSUME NEW x \in BatchIds, NEW n \in 1 .. MaxLines, NEW m \in Bookings(x, n)'
               PROVE  /\ Found(x)'
                      /\ batch'[x].state # "preview"
                      /\ n \in ValidLines(batch'[x].status)
                      /\ movement'[m].date = batch'[x].lines[n].date
                      /\ movement'[m].amount = batch'[x].lines[n].amount
                      /\ movement'[m].ref = batch'[x].lines[n].ref
    BY DEF BookingsRight
  <2>1. CASE m \in Bookings(x, n)
    <3>1. /\ Found(x)
          /\ batch[x].state # "preview"
          /\ n \in ValidLines(batch[x].status)
          /\ movement[m].date = batch[x].lines[n].date
          /\ movement[m].amount = batch[x].lines[n].amount
          /\ movement[m].ref = batch[x].lines[n].ref
      BY <2>1 DEF BookingsRight
    <3>2. movement'[m] = movement[m]
      BY <1>7, <2>1 DEF Bookings, Exists
    <3>3. /\ batch'[x] # NoVal /\ batch'[x].lines = batch[x].lines
          /\ batch'[x].status = batch[x].status /\ batch'[x].state # "preview"
      BY <1>5, <3>1 DEF Found
    <3> QED BY <3>1, <3>2, <3>3 DEF Found
  <2>2. CASE m \notin Bookings(x, n)
    <3>1. x = b /\ n \in valid
      BY <1>14, <2>2
    <3>2. m = Id(n)
      BY <1>13, <2>2, <3>1
    <3>3. movement'[m] = ImportedMovement(lines[n], b, n)
      BY <1>3, <3>1, <3>2
    <3> QED BY <1>5, <3>1, <3>3 DEF ImportedMovement, Found
  <2> QED BY <2>1, <2>2
<1>16. BookedTogether'
  <2> SUFFICES ASSUME NEW x \in BatchIds, Found(x)',
                      NEW n \in ValidLines(batch'[x].status), NEW k \in ValidLines(batch'[x].status)
               PROVE  /\ batch'[x].state = "committed" => Bookings(x, n)' # {}
                      /\ Cardinality(Bookings(x, n)') = Cardinality(Bookings(x, k)')
    BY DEF BookedTogether
  <2>1. CASE x = b
    <3>1. n \in valid /\ k \in valid
      BY <1>5, <2>1
    <3>2. /\ Cardinality(Bookings(b, n)') = Cardinality(Bookings(b, n)) + 1
          /\ Cardinality(Bookings(b, k)') = Cardinality(Bookings(b, k)) + 1
      BY <1>1, <1>13, <3>1, BookingsAreFinite, FS_AddElement
    <3>3. Cardinality(Bookings(b, n)) = Cardinality(Bookings(b, k))
      BY <1>1, <3>1 DEF BookedTogether
    <3> QED BY <1>13, <2>1, <3>1, <3>2, <3>3
  <2>2. CASE x # b
    <3>1. Found(x) /\ batch'[x] = batch[x] /\ n \in ValidLines(batch[x].status)
          /\ k \in ValidLines(batch[x].status)
      BY <1>5, <2>2 DEF Found
    <3>2. n \in 1 .. MaxLines /\ k \in 1 .. MaxLines
      BY <3>1, ValidIsALine DEF BatchesRight, FromFile
    <3>3. Bookings(x, n)' = Bookings(x, n) /\ Bookings(x, k)' = Bookings(x, k)
      BY <1>14, <2>2, <3>2
    <3> QED BY <3>1, <3>3 DEF BookedTogether
  <2> QED BY <2>1, <2>2
<1> QED BY <1>3, <1>9, <1>10, <1>11, <1>15, <1>16

-----------------------------------------------------------------------------

LEMMA BatchesUntouched == BatchesRight /\ UNCHANGED batch => BatchesFollow
BY DEF BatchesRight, BatchesFollow

LEMMA DiscardFollows ==
    ASSUME BatchesRight, NEW b \in BatchIds, Found(b),
           batch' = [batch EXCEPT ![b].state = "discarded"]
    PROVE  BatchesFollow
<1>1. batch[b] \in Batch /\ batch'[b] = [batch[b] EXCEPT !.state = "discarded"]
  BY DEF BatchesRight, Found
<1>2. /\ batch'[b].state = "discarded" /\ batch'[b].file = batch[b].file
      /\ batch'[b].lines = batch[b].lines /\ batch'[b].status = batch[b].status
      /\ batch'[b] \in Batch
  BY <1>1 DEF Batch
<1>3. batch'[b] # NoVal
  BY <1>2, StatementAssumption DEF StatementAssumption
<1>4. \A x \in BatchIds \ {b} : batch'[x] = batch[x]
  BY DEF BatchesRight
<1>5. batch' \in [BatchIds -> Batch \cup {NoVal}]
  BY <1>2, <1>4 DEF BatchesRight
<1> QED BY <1>2, <1>3, <1>4, <1>5 DEF BatchesFollow, Found

LEMMA CreateFollows ==
    ASSUME BatchesRight, ImportsRight, NEW i \in Importers, NEW b \in BatchIds, CreateBatch(i, b)
    PROVE  BatchesFollow
<1> DEFINE q     == import[i]
           lines == LinesOf(q.file)
           new   == [file |-> q.file, lines |-> lines, status |-> q.status, state |-> "preview"]
<1>1. q.file \in Files /\ Accepted(q.file) /\ Parsed(lines, q.status) /\ batch[b] = NoVal
  BY DEF CreateBatch, ImportsRight, ImportRight
<1>2. new \in Batch
  BY <1>1 DEF Parsed, Batch
<1>3. batch' = [batch EXCEPT ![b] = new]
  BY DEF CreateBatch
<1>4. \A x \in BatchIds : batch'[x] = IF x = b THEN new ELSE batch[x]
  BY <1>3 DEF BatchesRight
<1>5. batch' \in [BatchIds -> Batch \cup {NoVal}]
  BY <1>2, <1>3 DEF BatchesRight
<1>6. new.state = "preview" /\ FromFile(new)
  BY <1>1 DEF FromFile
<1> HIDE DEF new
<1> QED BY <1>1, <1>4, <1>5, <1>6 DEF BatchesFollow

LEMMA ImportKeepsBooks ==
    ASSUME BooksInv, NEW i \in Importers, ImportNext(i)
    PROVE  BooksInv'
<1> USE DEF BooksInv
<1>1. ASSUME Quiet, EditsRight', ImportsRight', BatchesFollow PROVE BooksInv'
  BY <1>1, BooksStay DEF Quiet
<1>2. ASSUME UNCHANGED <<movement, edit, batch>>, ImportsRight' PROVE BooksInv'
  BY <1>1, <1>2, QuietUntouched, EditsStay, BatchesUntouched DEF Quiet
<1>3. ASSUME UNCHANGED <<movement, edit, batch>>, NEW q, ImportRight(q, movement, batch), Continue(i, q)
      PROVE  BooksInv'
  <2>1. Follows(movement', movement) /\ ImportRight(q, movement', batch')
    BY <1>3 DEF Follows, Agree
  <2> QED BY <1>2, <1>3, <2>1, ImportRightStep
<1>4. ASSUME UNCHANGED <<movement, edit>>, BatchesFollow, Continue(i, Free) PROVE BooksInv'
  <2>1. Quiet /\ EditsRight'
    BY <1>4, QuietUntouched, EditsStay DEF Quiet
  <2>2. ImportsRight'
    BY <1>4, <2>1, FreeRight, ImportRightStep DEF Quiet, BatchesFollow
  <2> QED BY <1>1, <1>4, <2>1, <2>2
<1>5. ASSUME NEW file \in Files, Upload(i, file) PROVE BooksInv'
  <2>1. UNCHANGED <<movement, edit, batch>>
    BY <1>5 DEF Upload
  <2> QED BY <1>3, <1>5, <2>1, UploadRight
<1>6. ASSUME NEW b \in BatchIds, CreateBatch(i, b) PROVE BooksInv'
  BY <1>4, <1>6, CreateFollows DEF CreateBatch
<1>7. ASSUME NEW b \in BatchIds, Commit(i, b) \/ Discard(i, b) PROVE BooksInv'
  <2>1. /\ UNCHANGED <<movement, edit, batch>> /\ Found(b)
        /\ \E pc \in {"commit", "listlinks", "discard"} :
              Continue(i, [Free EXCEPT !.pc = pc, !.batch = b])
    BY <1>7 DEF Commit, Discard, InState
  <2> QED BY <1>3, <2>1, BegunRight
<1>8. ASSUME ListUnlinked(i) PROVE BooksInv'
  BY <1>2, <1>8, ListUnlinkedRight DEF ListUnlinked
<1>9. ASSUME NEW m \in MovementIds, FindCandidate(i, m) PROVE BooksInv'
  BY <1>2, <1>9, FindCandidateRight DEF FindCandidate
<1>10. ASSUME WriteAutoLink(i) PROVE BooksInv'
  <2>1. Quiet /\ ImportsRight' /\ UNCHANGED <<edit, batch>>
    BY <1>10, WriteAutoLinkRight DEF WriteAutoLink
  <2> QED BY <1>1, <2>1, EditsStay, BatchesUntouched DEF Quiet
<1>11. ASSUME DiscardBatch(i) PROVE BooksInv'
  <2>1. import[i].batch \in BatchIds /\ Found(import[i].batch)
    BY <1>11 DEF DiscardBatch, ImportsRight, ImportRight, Found
  <2> QED BY <1>4, <1>11, <2>1, DiscardFollows DEF DiscardBatch
<1>12. ASSUME AbortImport(i) PROVE BooksInv'
  BY <1>3, <1>12, FreeRight DEF AbortImport
<1>13. ASSUME CommitBatch(i) PROVE BooksInv'
  BY <1>13, CommitKeepsBooks
<1> QED BY <1>5, <1>6, <1>7, <1>8, <1>9, <1>10, <1>11, <1>12, <1>13 DEF ImportNext

LEMMA BooksInvariant == Spec => []BooksInv
<1>1. Init => BooksInv
  <2> SUFFICES ASSUME Init PROVE BooksInv
    OBVIOUS
  <2>1. /\ \A m \in MovementIds : movement[m] = NoVal
        /\ movement \in [MovementIds -> Movement \cup {NoVal, Gone}]
    BY DEF Init, LedgerInit
  <2>2. Dense
    <3>1. 0 \in 0 .. MaxMovements /\ \A m \in MovementIds : ~(m <= 0)
      BY LedgerAssumption DEF LedgerAssumption, MovementIds
    <3> QED BY <2>1, <3>1 DEF Dense
  <2>3. EditsRight /\ ImportsRight
    <3>1. NoRequest \in Request /\ Free \in Import
      BY NoRequestRight, FreeIsTyped DEF EditRight
    <3> QED BY <3>1, NoRequestRight, FreeRight DEF Init, LedgerInit, EditsRight, ImportsRight
  <2>4. BatchesRight
    BY DEF Init, BatchesRight, Found
  <2>5. BookingsRight /\ BookedTogether
    BY <2>1 DEF Init, BookingsRight, BookedTogether, Bookings, Exists, Found
  <2> QED BY <2>1, <2>2, <2>3, <2>4, <2>5 DEF BooksInv, RowsTyped
<1>2. BooksInv /\ [Next]_vars => BooksInv'
  <2> SUFFICES ASSUME BooksInv, [Next]_vars PROVE BooksInv'
    OBVIOUS
  <2>1. ASSUME Quiet, EditsRight', UNCHANGED <<batch, import>> PROVE BooksInv'
    <3>1. ImportsRight'
      BY <2>1, ImportStays DEF BooksInv, ImportsRight, Quiet
    <3> QED BY <2>1, <3>1, BooksStay, BatchesUntouched DEF BooksInv, Quiet
  <2>2. CASE EditMovements
    BY <2>1, <2>2, LedgerKeepsBooks DEF EditMovements, BooksInv
  <2>3. CASE UNCHANGED vars
    BY <2>1, <2>3, QuietUntouched, EditsStay DEF vars, BooksInv, Quiet
  <2> QED BY <2>2, <2>3, ImportKeepsBooks DEF Next
<1> QED BY <1>1, <1>2, PTL DEF Spec

(* Every variable keeps its type, and with it every row, batch and request *)
(* is one the codecs can produce: the rows that requests save, however     *)
(* old, those of a commit, whose lines were read when the file was         *)
(* uploaded, and the batches, whose lines the parser made.                 *)
THEOREM StatementTypes == Spec => []TypeOK
<1>1. BooksInv => TypeOK
  BY DEF TypeOK, LedgerTypeOK, BooksInv, RowsTyped, BatchesRight, EditsRight, ImportsRight
<1> QED BY <1>1, BooksInvariant, PTL

(* The books agree with the batches: a preview has booked nothing, a       *)
(* commit books every valid line or none, and a booked line keeps its day, *)
(* amount and reference, whatever commits, discards, edits, links and      *)
(* deletions run beside each other and wherever a request stops.           *)
THEOREM TheBooksMatch == Spec => []BooksMatchBatches
<1>1. BooksInv => BooksMatchBatches
  <2> SUFFICES ASSUME BooksInv, NEW b \in BatchIds, Found(b), NEW n \in DOMAIN batch[b].lines
               PROVE
        LET valid == ValidLines(batch[b].status)
        IN    /\ n \notin valid \/ batch[b].state = "preview" => Bookings(b, n) = {}
              /\ batch[b].state = "committed" /\ n \in valid => Bookings(b, n) # {}
              /\ \A k \in valid : n \in valid =>
                    Cardinality(Bookings(b, n)) = Cardinality(Bookings(b, k))
              /\ \A m \in Bookings(b, n) :
                    \A f \in {"date", "amount", "ref"} : movement[m][f] = batch[b].lines[n][f]
    BY DEF BooksMatchBatches
  <2>1. n \in 1 .. MaxLines
    <3>1. Parsed(batch[b].lines, batch[b].status)
      BY DEF BooksInv, BatchesRight, FromFile
    <3>2. /\ n \in 1 .. Len(batch[b].lines) /\ Len(batch[b].lines) \in Nat
          /\ Len(batch[b].lines) <= MaxLines /\ MaxLines \in Nat
      BY <3>1, LenProperties, StatementAssumption DEF Parsed, StatementAssumption
    <3> QED BY <3>2
  <2>2. n \notin ValidLines(batch[b].status) \/ batch[b].state = "preview" => Bookings(b, n) = {}
    BY <2>1 DEF BooksInv, BookingsRight
  <2>3. /\ batch[b].state = "committed" /\ n \in ValidLines(batch[b].status) => Bookings(b, n) # {}
        /\ \A k \in ValidLines(batch[b].status) : n \in ValidLines(batch[b].status) =>
              Cardinality(Bookings(b, n)) = Cardinality(Bookings(b, k))
    BY DEF BooksInv, BookedTogether
  <2>4. \A m \in Bookings(b, n) :
           \A f \in {"date", "amount", "ref"} : movement[m][f] = batch[b].lines[n][f]
    BY <2>1 DEF BooksInv, BookingsRight
  <2> QED BY <2>2, <2>3, <2>4
<1> QED BY <1>1, BooksInvariant, PTL

-----------------------------------------------------------------------------
(* What a preview keeps of the file.                                       *)

(* The parser skips rows and reorders none, and no row it skips could have *)
(* been read.                                                              *)
LEMMA RawLinesAreRows ==
    ASSUME NEW file \in Files, Accepted(file)
    PROVE  \E f \in [DOMAIN RawLines(file) -> DOMAIN file.rows] :
              /\ \A m, n \in DOMAIN RawLines(file) : m < n => f[m] < f[n]
              /\ \A n \in DOMAIN RawLines(file) : RawLines(file)[n] = file.rows[f[n]]
              /\ \A t \in ReadableRows(file) : \E n \in DOMAIN RawLines(file) : f[n] = t
<1> DEFINE rows == file.rows
           raw  == RawLines(file)
           A    == {rows[n] : n \in DOMAIN rows}
<1> SUFFICES \E f \in [DOMAIN raw -> DOMAIN rows] :
                /\ \A m, n \in DOMAIN raw : m < n => f[m] < f[n]
                /\ \A n \in DOMAIN raw : raw[n] = rows[f[n]]
                /\ \A t \in ReadableRows(file) : \E n \in DOMAIN raw : f[n] = t
  OBVIOUS
<1>1. rows \in Seq(A) /\ DOMAIN rows = 1 .. Len(rows) /\ Len(rows) \in Nat
  <2>1. rows \in Seq(A)
    BY StatementAssumption DEF StatementAssumption
  <2> HIDE DEF A, rows
  <2> QED BY <2>1, LenProperties
<1>2. Len(raw) # 0
  <2>1. Len(raw) \in 1 .. MaxLines
    BY DEF Accepted
  <2> QED BY <2>1, StatementAssumption DEF StatementAssumption
<1>3. CASE sniffStatementType(file.bytes) = "text/csv"
  <2>1. raw = ParseCSV(rows)
    BY <1>3 DEF RawLines
  <2>2. CASE IsHeader(rows[1])
    <3>1. raw = SubSeq(rows, 2, Len(rows))
      BY <1>2, <2>1, <2>2 DEF ParseCSV
    <3> HIDE DEF rows, raw, A
    <3>2. /\ Len(raw) = Len(rows) - 1 /\ DOMAIN raw = 1 .. Len(rows) - 1
          /\ \A n \in 1 .. Len(rows) - 1 : raw[n] = rows[n + 1]
      <4>1. \A n \in 2 .. Len(rows) : rows[n] \in A
        BY <1>1, ElementOfSeq
      <4>2. CASE Len(rows) = 0
        <5>1. raw \in Seq(A) /\ Len(raw) = 0
          BY <1>1, <3>1, <4>1, <4>2, SubSeqProperties
        <5> QED BY <1>2, <5>1
      <4>3. CASE Len(rows) # 0
        <5>1. 2 \in 1 .. Len(rows) + 1 /\ Len(rows) \in 1 - 1 .. Len(rows)
          BY <1>1, <4>3
        <5>2. Len(raw) = Len(rows) - 1
          BY <1>1, <3>1, <4>3, SubSeqProperties
        <5>3. \A n \in 1 .. Len(rows) - 1 : raw[n] = rows[n + 1]
          BY <1>1, <3>1, <4>3, <5>2, SubSeqProperties
        <5>4. raw \in Seq(A)
          BY <1>1, <3>1, <4>1, SubSeqProperties
        <5>5. DOMAIN raw = 1 .. Len(rows) - 1
          BY <5>2, <5>4, LenProperties
        <5> QED BY <5>2, <5>3, <5>5
      <4> QED BY <4>2, <4>3
    <3> DEFINE f == [n \in 1 .. Len(rows) - 1 |-> n + 1]
    <3>3. 1 \notin ReadableRows(file)
      BY <2>2 DEF ReadableRows, Readable, IsHeader, rows
    <3>4. ReadableRows(file) \subseteq 1 .. Len(rows)
      BY <1>1 DEF ReadableRows, rows
    <3>5. ASSUME NEW t \in ReadableRows(file) PROVE \E n \in 1 .. Len(rows) - 1 : f[n] = t
      <4>1. t - 1 \in 1 .. Len(rows) - 1 /\ t = (t - 1) + 1
        BY <1>1, <3>3, <3>4
      <4>2. f[t - 1] = t
        BY <4>1
      <4> QED BY <4>1, <4>2
    <3>6. f \in [1 .. Len(rows) - 1 -> 1 .. Len(rows)]
      BY <1>1
    <3>7. \A m, n \in 1 .. Len(rows) - 1 : m < n => f[m] < f[n]
      BY <1>1
    <3>8. \A n \in 1 .. Len(rows) - 1 : raw[n] = rows[f[n]]
      BY <3>2
    <3> HIDE DEF f
    <3>9. f \in [1 .. Len(rows) - 1 -> DOMAIN rows]
      BY <1>1, <3>6
    <3>10. f \in [DOMAIN raw -> DOMAIN rows]
      BY <3>2, <3>9
    <3> WITNESS f \in [DOMAIN raw -> DOMAIN rows]
    <3> QED BY <3>2, <3>5, <3>7, <3>8
  <2>3. CASE ~IsHeader(rows[1])
    <3>1. raw = rows
      BY <1>2, <2>1, <2>3 DEF ParseCSV
    <3> HIDE DEF raw
    <3> DEFINE f == [n \in DOMAIN rows |-> n]
    <3>2. /\ f \in [DOMAIN rows -> DOMAIN rows]
          /\ \A m, n \in DOMAIN rows : m < n => f[m] < f[n]
          /\ \A n \in DOMAIN rows : rows[n] = rows[f[n]]
          /\ \A t \in ReadableRows(file) : t \in DOMAIN rows /\ f[t] = t
      BY DEF ReadableRows
    <3> HIDE DEF f
    <3> QED BY <3>1, <3>2 DEF raw
  <2> QED BY <2>2, <2>3
<1>4. CASE sniffStatementType(file.bytes) # "text/csv"
  <2> DEFINE N == {n \in DOMAIN rows : NotBlank(rows[n])}
  <2>1. raw = Kept(rows, N)
    BY <1>4 DEF RawLines, pdfTextLines
  <2>2. \A t \in ReadableRows(file) : t \in N
    <3> SUFFICES ASSUME NEW t \in ReadableRows(file), rows[t] = <<Blank>> PROVE FALSE
      BY DEF ReadableRows, NotBlank
    <3>1. Len(<<Blank>>) = 1
      OBVIOUS
    <3>2. Len(rows[t]) \in {3, 4}
      BY DEF ReadableRows, Readable
    <3> QED BY <3>1, <3>2
  <2> HIDE DEF raw, A
  <2>3. N \in SUBSET DOMAIN rows
    OBVIOUS
  <2> HIDE DEF N, rows
  <2>4. /\ IsFiniteSet(N) /\ N \in SUBSET Nat
        /\ DOMAIN raw = 1 .. Cardinality(N)
    BY <1>1, <2>1, <2>3, KeptIsAList
  <2> DEFINE f == [n \in 1 .. Cardinality(N) |-> Nth(N, n)]
  <2>5. f \in [1 .. Cardinality(N) -> DOMAIN rows]
    BY <2>3, <2>4, NthProperties
  <2>6. \A m, n \in 1 .. Cardinality(N) : m < n => f[m] < f[n]
    BY <2>4, NthProperties
  <2>7. \A n \in 1 .. Cardinality(N) : raw[n] = rows[f[n]]
    BY <2>1 DEF Kept
  <2>8. ASSUME NEW t \in ReadableRows(file) PROVE \E n \in 1 .. Cardinality(N) : f[n] = t
    <3>1. Rank(N, t) \in 1 .. Cardinality(N) /\ Nth(N, Rank(N, t)) = t
      BY <2>2, <2>4, RankProperties, NthProperties
    <3> QED BY <3>1
  <2> HIDE DEF f
  <2>9. f \in [DOMAIN raw -> DOMAIN rows]
    BY <2>4, <2>5
  <2> WITNESS f \in [DOMAIN raw -> DOMAIN rows]
  <2> QED BY <2>4, <2>6, <2>7, <2>8
<1> QED BY <1>3, <1>4

(* A line is one that can be booked exactly when its row can be read, and  *)
(* it says then what the row says.                                         *)
LEMMA FieldsAreTheRow ==
    ASSUME NEW row
    PROVE  LET line == ExtractFields(row)
           IN  /\ ~line.error <=> Readable(row)
               /\ Readable(row) =>
                     /\ line.date = row[1] /\ line.amount = row[2].value /\ line.desc = row[3]
                     /\ (line.direction = "out") <=> (row[2].sign = "-")
                     /\ (line.ref # NoVal) <=> (Len(row) = 4 /\ row[4] \in Refs)
<1> DEFINE date  == In(row[1], Dates)
           money == parseAmount(row[2])
           desc  == In(row[3], Texts)
           ref   == IF Len(row) = 4 THEN In(row[4], Refs) ELSE NoVal
           line  == ExtractFields(row)
<1>1. NoVal \notin Dates /\ NoVal \notin Texts /\ NoVal \notin Amounts /\ NoVal \notin Refs
  BY LedgerAssumption, StatementAssumption DEF LedgerAssumption, StatementAssumption
<1>2. CASE row = Malformed \/ Len(row) \notin {3, 4}
  <2>1. line.error
    BY <1>2 DEF ExtractFields, Unread
  <2>2. ~Readable(row)
    BY <1>2 DEF Readable
  <2> HIDE DEF line
  <2> QED BY <2>1, <2>2 DEF line
<1>3. CASE ~(row = Malformed \/ Len(row) \notin {3, 4})
  <2>1. /\ line.date = date /\ line.amount = money.amount /\ line.direction = money.direction
        /\ line.desc = desc /\ line.ref = ref
        /\ line.error = (NoVal \in {date, money.amount, desc})
    BY <1>3 DEF ExtractFields
  <2> HIDE DEF line
  <2>2. (date # NoVal <=> row[1] \in Dates) /\ (row[1] \in Dates => date = row[1])
    BY <1>1 DEF In
  <2>3. (desc # NoVal <=> row[3] \in Texts) /\ (row[3] \in Texts => desc = row[3])
    BY <1>1 DEF In
  <2>4. ref # NoVal <=> Len(row) = 4 /\ row[4] \in Refs
    BY <1>1 DEF In
  <2>5. /\ money.amount # NoVal <=> row[2] \in Signed
        /\ row[2] \in Signed =>
              /\ money.amount = row[2].value
              /\ (money.direction = "out") <=> (row[2].sign = "-")
    BY <1>1 DEF parseAmount, Signed
  <2>6. Readable(row) <=> row[1] \in Dates /\ row[2] \in Signed /\ row[3] \in Texts
    BY <1>3 DEF Readable
  <2> HIDE DEF date, money, desc, ref
  <2> QED BY <2>1, <2>2, <2>3, <2>4, <2>5, <2>6 DEF line
<1> QED BY <1>2, <1>3

(* A statement reaches the preview whole: what can be booked of it is      *)
(* every readable row, once, in the order of the file, with a header or    *)
(* without one, whatever cannot be read in between.                        *)
THEOREM ThePreviewIsTheStatement == Spec => []PreviewIsTheStatement
<1>1. BooksInv => PreviewIsTheStatement
  <2> SUFFICES ASSUME BooksInv, NEW b \in BatchIds, Found(b)
               PROVE
        LET file  == batch[b].file
            rows  == Kept(file.rows, ReadableRows(file))
            lines == Kept(batch[b].lines, ReadLines(batch[b].lines))
        IN  /\ Len(lines) = Len(rows)
            /\ \A n \in DOMAIN lines :
                  /\ <<lines[n].date, lines[n].amount, lines[n].desc>>
                       = <<rows[n][1], rows[n][2].value, rows[n][3]>>
                  /\ (lines[n].direction = "out") <=> (rows[n][2].sign = "-")
                  /\ (lines[n].ref # NoVal) <=> (Len(rows[n]) = 4 /\ rows[n][4] \in Refs)
    BY DEF PreviewIsTheStatement
  <2> DEFINE file  == batch[b].file
             T     == ReadableRows(file)
             S     == ReadLines(batch[b].lines)
             rows  == Kept(file.rows, T)
             lines == Kept(batch[b].lines, S)
             raw   == RawLines(file)
  <2>1. /\ file \in Files /\ Accepted(file)
        /\ batch[b].lines = LinesOf(file) /\ batch[b].lines \in Seq(Line)
    BY DEF BooksInv, BatchesRight, FromFile, Parsed
  <2>2. PICK f \in [DOMAIN raw -> DOMAIN file.rows] :
           /\ \A m, n \in DOMAIN raw : m < n => f[m] < f[n]
           /\ \A n \in DOMAIN raw : raw[n] = file.rows[f[n]]
           /\ \A t \in T : \E n \in DOMAIN raw : f[n] = t
    BY <2>1, RawLinesAreRows
  <2>3. /\ DOMAIN batch[b].lines = DOMAIN raw
        /\ \A n \in DOMAIN raw : batch[b].lines[n] = ExtractFields(raw[n])
    BY <2>1 DEF LinesOf
  <2>4. file.rows \in Seq({file.rows[n] : n \in DOMAIN file.rows})
    BY <2>1, StatementAssumption DEF StatementAssumption
  <2>5. S \subseteq DOMAIN batch[b].lines /\ T \subseteq DOMAIN file.rows
    BY DEF ReadLines, ReadableRows
  <2>6. \A n \in DOMAIN raw : n \in S <=> f[n] \in T
    <3> SUFFICES ASSUME NEW n \in DOMAIN raw PROVE n \in S <=> f[n] \in T
      OBVIOUS
    <3>1. n \in S <=> ~ExtractFields(raw[n]).error
      BY <2>3 DEF ReadLines
    <3>2. f[n] \in T <=> Readable(raw[n])
      BY <2>2 DEF ReadableRows
    <3> QED BY <3>1, <3>2, FieldsAreTheRow
  <2> HIDE DEF file, raw, S, T
  <2> DEFINE g == [n \in S |-> f[n]]
  <2>7. /\ g \in [S -> T]
        /\ \A m, n \in S : m < n => g[m] < g[n]
        /\ \A t \in T : \E n \in S : g[n] = t
    BY <2>2, <2>3, <2>5, <2>6
  <2>8. \A n \in S : g[n] = f[n] /\ n \in DOMAIN raw
    BY <2>3, <2>5
  <2> HIDE DEF g
  <2>9. /\ IsFiniteSet(S) /\ S \in SUBSET Nat /\ Len(lines) = Cardinality(S)
        /\ DOMAIN lines = 1 .. Cardinality(S)
    BY <2>1, <2>5, KeptIsAList
  <2>10. IsFiniteSet(T) /\ T \in SUBSET Nat /\ Len(rows) = Cardinality(T)
    BY <2>4, <2>5, KeptIsAList
  <2>11. /\ Cardinality(S) = Cardinality(T)
         /\ \A i \in 1 .. Cardinality(S) : Nth(T, i) = g[Nth(S, i)]
    BY <2>7, <2>9, <2>10, RanksMatch
  <2>12. ASSUME NEW n \in DOMAIN lines
         PROVE  lines[n] = ExtractFields(rows[n]) /\ Readable(rows[n])
    <3>1. n \in 1 .. Cardinality(S) /\ n \in 1 .. Cardinality(T)
      BY <2>9, <2>11, <2>12
    <3>2. Nth(S, n) \in S /\ Nth(T, n) = f[Nth(S, n)] /\ Nth(S, n) \in DOMAIN raw
      BY <2>8, <2>9, <2>11, <3>1, NthProperties
    <3>3. lines[n] = batch[b].lines[Nth(S, n)]
      BY <3>1 DEF Kept
    <3>4. rows[n] = file.rows[Nth(T, n)]
      BY <3>1 DEF Kept
    <3>5. rows[n] = raw[Nth(S, n)]
      BY <2>2, <3>2, <3>4
    <3>6. Nth(T, n) \in T
      BY <2>10, <3>1, NthProperties
    <3>7. Readable(rows[n])
      BY <3>4, <3>6 DEF T, ReadableRows
    <3> QED BY <2>3, <3>2, <3>3, <3>5, <3>7
  <2> HIDE DEF rows, lines
  <2>13. \A n \in DOMAIN lines :
           /\ lines[n].date = rows[n][1] /\ lines[n].amount = rows[n][2].value
           /\ lines[n].desc = rows[n][3]
           /\ (lines[n].direction = "out") <=> (rows[n][2].sign = "-")
           /\ (lines[n].ref # NoVal) <=> (Len(rows[n]) = 4 /\ rows[n][4] \in Refs)
    BY <2>12, FieldsAreTheRow
  <2>14. Len(lines) = Len(rows)
    BY <2>9, <2>10, <2>11
  <2> QED BY <2>13, <2>14 DEF rows, lines, S, T, file
<1> QED BY <1>1, BooksInvariant, PTL

=============================================================================

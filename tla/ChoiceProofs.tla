---------------------------- MODULE ChoiceProofs ----------------------------
(***************************************************************************)
(* Proofs about module PendingChoice, for any documents and requests and   *)
(* whether or not the sweeper sees the rows.  Two facts carry them: no     *)
(* step removes a row, and an entity or a payload in someone's memory says *)
(* "resolved" only of a document that is due or kept, which both last.     *)
(***************************************************************************)
EXTENDS PendingChoice, TLAPS

(* What a request holds, given the rows and the documents settled so far.  *)
HandlerOK(q, rows, settled) ==
    q.pc # "idle" =>
        /\ q.id \in Documents /\ rows[q.id] # NoVal
        /\ q.doc \in Row
        /\ q.doc.choice = "resolved" => q.id \in settled

SweeperOK(s, rows, past) ==
    /\ \A d \in s.todo : rows[d] # NoVal
    /\ s.pc = "resolve" => /\ s.id \in Documents /\ rows[s.id] # NoVal
                           /\ s.copy \in Payload /\ s.id \in past

IInv ==
    /\ ChoiceTypeOK
    /\ ResolvedForAReason
    /\ \A h \in Handlers : HandlerOK(handler[h], document, due \cup kept)
    /\ SweeperOK(sweeper, document, due)

-----------------------------------------------------------------------------
(* Rows are never removed and reasons never withdrawn: what others hold    *)
(* stays sound.                                                            *)
LEMMA OthersStep ==
    ASSUME IInv, NEW rows, NEW settled,
           \A d \in Documents : document[d] # NoVal => rows[d] # NoVal,
           due \cup kept \subseteq settled
    PROVE  \A h \in Handlers : HandlerOK(handler[h], rows, settled)
BY DEF IInv, ChoiceTypeOK, HandlerOK

LEMMA SweeperStep ==
    ASSUME IInv, NEW rows, NEW past,
           \A d \in Documents : document[d] # NoVal => rows[d] # NoVal,
           due \subseteq past
    PROVE  SweeperOK(sweeper, rows, past)
BY DEF IInv, ChoiceTypeOK, SweeperOK

(* The types the handlers' part of ChoiceTypeOK adds follow.               *)
LEMMA HandlerTypes ==
    ASSUME NEW q, NEW rows, NEW settled, HandlerOK(q, rows, settled), q.pc # "idle"
    PROVE  q.id \in Documents /\ q.doc # NoVal
BY ChoiceAssumption DEF HandlerOK, ChoiceAssumption

LEMMA IdleOK ==
    ASSUME NEW rows, NEW settled
    PROVE  Idle \in Handler /\ HandlerOK(Idle, rows, settled)
BY DEF Idle, Handler, HandlerOK, Points

(* A step of one request, which may write its document and may settle one. *)
LEMMA HandlerStep ==
    ASSUME IInv, NEW h \in Handlers, NEW q \in Handler, Continue(h, q),
           document' \in [Documents -> Row \cup {NoVal}],
           \A d \in Documents : document[d] # NoVal => document'[d] # NoVal,
           kept \subseteq kept', kept' \subseteq Documents,
           HandlerOK(q, document', due \cup kept'),
           \A d \in Documents :
              document'[d] # NoVal /\ document'[d].choice = "resolved" => d \in due \cup kept',
           held' \subseteq Documents,
           UNCHANGED <<due, sweeper, faults>>
    PROVE  IInv'
<1>1. handler' = [handler EXCEPT ![h] = q]
  BY DEF Continue
<1>2. \A g \in Handlers : HandlerOK(handler[g], document', due \cup kept')
  BY OthersStep
<1>3. /\ handler' \in [Handlers -> Handler]
      /\ \A g \in Handlers : HandlerOK(handler'[g], document', due' \cup kept')
  BY <1>1, <1>2 DEF IInv, ChoiceTypeOK
<1>4. SweeperOK(sweeper', document', due')
  BY SweeperStep
<1>5. \A g \in Handlers : handler'[g].pc # "idle" =>
         handler'[g].id \in Documents /\ handler'[g].doc # NoVal
  BY <1>3, HandlerTypes
<1>6. ChoiceTypeOK'
  BY <1>3, <1>5 DEF IInv, ChoiceTypeOK
<1>7. ResolvedForAReason'
  BY DEF ResolvedForAReason
<1> QED BY <1>3, <1>4, <1>6, <1>7 DEF IInv

(* One that only reads.                                                    *)
LEMMA ReadStep ==
    ASSUME IInv, NEW h \in Handlers, NEW q \in Handler, Continue(h, q),
           HandlerOK(q, document, due \cup kept),
           held' \subseteq Documents,
           UNCHANGED <<document, due, kept, sweeper, faults>>
    PROVE  IInv'
BY HandlerStep DEF IInv, ChoiceTypeOK, ResolvedForAReason

LEMMA FinishStep ==
    ASSUME IInv, NEW h \in Handlers, Finish(h), held' \subseteq Documents,
           UNCHANGED <<document, due, kept, sweeper, faults>>
    PROVE  IInv'
<1>1. Idle \in Handler /\ HandlerOK(Idle, document, due \cup kept)
  BY IdleOK
<1> QED BY <1>1, ReadStep DEF Finish

(* A step outside the requests: rows may appear, and reasons.              *)
LEMMA WorldStep ==
    ASSUME IInv,
           document' \in [Documents -> Row \cup {NoVal}],
           \A d \in Documents : document[d] # NoVal => document'[d] # NoVal,
           due \subseteq due', due' \subseteq Documents,
           \A d \in Documents :
              document'[d] # NoVal /\ document'[d].choice = "resolved" => d \in due' \cup kept,
           held' \subseteq Documents,
           UNCHANGED <<kept, handler, sweeper, faults>>
    PROVE  IInv'
<1>1. \A g \in Handlers : HandlerOK(handler'[g], document', due' \cup kept')
  BY OthersStep
<1>2. SweeperOK(sweeper', document', due')
  BY SweeperStep
<1>3. ChoiceTypeOK'
  BY DEF IInv, ChoiceTypeOK
<1>4. ResolvedForAReason'
  BY DEF ResolvedForAReason
<1> QED BY <1>1, <1>2, <1>3, <1>4 DEF IInv

-----------------------------------------------------------------------------
(* Documents, time and reviews.                                            *)
LEMMA NewRow ==
    ASSUME IInv, NEW d \in Documents, document[d] = NoVal,
           NEW row \in Row, row.choice # "resolved",
           document' = [document EXCEPT ![d] = row],
           UNCHANGED <<due, held, kept, handler, sweeper, faults>>
    PROVE  IInv'
<1>1. /\ document' \in [Documents -> Row \cup {NoVal}]
      /\ \A e \in Documents : document[e] # NoVal => document'[e] # NoVal
  BY DEF IInv, ChoiceTypeOK
<1>2. \A e \in Documents :
         document'[e] # NoVal /\ document'[e].choice = "resolved" => e \in due \cup kept
  BY DEF IInv, ChoiceTypeOK, ResolvedForAReason
<1>3. due \subseteq Documents /\ held \subseteq Documents
  BY DEF IInv, ChoiceTypeOK
<1> QED BY <1>1, <1>2, <1>3, WorldStep

LEMMA UploadStep ==
    ASSUME IInv, NEW d \in Documents, NEW a \in AssetIds \cup {NoVal},
           handleDuplicateUpload(d, a)
    PROVE  IInv'
BY NewRow DEF handleDuplicateUpload, Row

LEMMA CommitStep ==
    ASSUME IInv, NEW d \in Documents, NEW a \in AssetIds, CommitDocument(d, a)
    PROVE  IInv'
BY NewRow DEF CommitDocument, Row

LEMMA ExpireStep ==
    ASSUME IInv, NEW d \in Documents, Expire(d)
    PROVE  IInv'
BY WorldStep DEF Expire, IInv, ChoiceTypeOK, ResolvedForAReason

LEMMA DecideStep ==
    ASSUME IInv, NEW d \in Documents, DecideReview(d)
    PROVE  IInv'
BY WorldStep DEF DecideReview, IInv, ChoiceTypeOK, ResolvedForAReason

-----------------------------------------------------------------------------
(* The requests.  What one has in its memory is a row, and a resolved one  *)
(* only of a document that is due or kept.                                 *)
LEMMA Held ==
    ASSUME IInv, NEW h \in Handlers, handler[h].pc # "idle"
    PROVE  /\ handler[h] \in Handler
           /\ handler[h].id \in Documents /\ document[handler[h].id] \in Row
           /\ handler[h].doc \in Row
           /\ handler[h].doc.choice = "resolved" => handler[h].id \in due \cup kept
BY DEF IInv, ChoiceTypeOK, HandlerOK

LEMMA GuardStep ==
    ASSUME IInv, NEW h \in Handlers, NEW op \in Ops, NEW d \in Documents,
           applyLazyGuard(h, op, d)
    PROVE  IInv'
<1>1. document[d] # NoVal /\ document[d] \in Row
  BY DEF IInv, ChoiceTypeOK, applyLazyGuard, Shown
<1>2. held' \subseteq Documents
  BY DEF IInv, ChoiceTypeOK, applyLazyGuard
<1>3. CASE Expired(d, document[d])
  <2> DEFINE q == [pc |-> "fetch", op |-> op, stage |-> "guard", id |-> d,
                   doc |-> Resolved(document[d])]
  <2>1. Resolved(document[d]) \in Row
    BY <1>1 DEF Resolved, Row
  <2>2. q \in Handler /\ HandlerOK(q, document, due \cup kept)
    BY <1>1, <1>3, <2>1 DEF Handler, HandlerOK, Expired, Points, Stages
  <2>3. Continue(h, q)
    BY <1>3 DEF applyLazyGuard
  <2> QED BY <1>2, <2>2, <2>3, ReadStep DEF applyLazyGuard
<1>4. CASE ~Expired(d, document[d])
  <2> DEFINE q == [pc |-> "body", op |-> op, stage |-> "body", id |-> d, doc |-> document[d]]
  <2>1. document[d].choice = "resolved" => d \in due \cup kept
    BY <1>1 DEF IInv, ResolvedForAReason
  <2>2. q \in Handler /\ HandlerOK(q, document, due \cup kept)
    BY <1>1, <2>1 DEF Handler, HandlerOK, Points, Stages
  <2>3. Continue(h, q)
    BY <1>4 DEF applyLazyGuard
  <2> QED BY <1>2, <2>2, <2>3, ReadStep DEF applyLazyGuard
<1> QED BY <1>3, <1>4

(* The fetched payload lends its choice only to an entity without one.     *)
LEMMA FetchStep ==
    ASSUME IInv, NEW h \in Handlers, FetchPayload(h)
    PROVE  IInv'
<1> DEFINE old == handler[h]
           doc == Overlay(document[old.id], old.doc)
           q   == [old EXCEPT !.pc = "write", !.doc = doc]
<1>1. /\ old \in Handler /\ old.id \in Documents /\ document[old.id] \in Row
      /\ old.doc \in Row
      /\ old.doc.choice = "resolved" => old.id \in due \cup kept
      /\ document[old.id] # NoVal
  BY Held, ChoiceAssumption DEF FetchPayload, ChoiceAssumption
<1>2. document[old.id].choice = "resolved" => old.id \in due \cup kept
  BY <1>1 DEF IInv, ResolvedForAReason
<1>3. /\ doc \in Row
      /\ doc.choice \in {old.doc.choice, document[old.id].choice}
  BY <1>1 DEF Overlay, Row
<1>4. q \in Handler /\ q.id = old.id /\ q.doc = doc
  BY <1>1, <1>3 DEF Handler, Points
<1>5. HandlerOK(q, document, due \cup kept)
  BY <1>1, <1>2, <1>3, <1>4 DEF HandlerOK
<1>6. Continue(h, q)
  BY DEF FetchPayload
<1> QED BY <1>4, <1>5, <1>6, ReadStep DEF FetchPayload, IInv, ChoiceTypeOK

(* The columns a write keeps are those of the row; the choice written is   *)
(* the entity's.                                                           *)
LEMMA WriteStep ==
    ASSUME IInv, NEW h \in Handlers, WriteDocument(h)
    PROVE  IInv'
<1> DEFINE old == handler[h]
           row == UpdatedDocument(document[old.id], old.doc,
                                  old.op = "delete" /\ old.stage = "body")
<1>1. /\ old \in Handler /\ old.id \in Documents /\ document[old.id] \in Row
      /\ old.doc \in Row
      /\ old.doc.choice = "resolved" => old.id \in due \cup kept
  BY Held DEF WriteDocument
<1>2. row \in Row /\ row.choice = old.doc.choice
  BY <1>1 DEF UpdatedDocument, Row
<1>3. row # NoVal
  BY <1>2, ChoiceAssumption DEF ChoiceAssumption
<1>4. document' = [document EXCEPT ![old.id] = row]
  BY DEF WriteDocument
<1>5. /\ document' \in [Documents -> Row \cup {NoVal}]
      /\ document'[old.id] = row
      /\ \A d \in Documents : document[d] # NoVal => document'[d] # NoVal
      /\ \A d \in Documents :
            document'[d] # NoVal /\ document'[d].choice = "resolved" => d \in due \cup kept
  BY <1>1, <1>2, <1>3, <1>4 DEF IInv, ChoiceTypeOK, ResolvedForAReason
<1>6. /\ kept' = kept /\ kept \subseteq Documents /\ held' \subseteq Documents
      /\ UNCHANGED <<due, sweeper, faults>>
  BY DEF WriteDocument, IInv, ChoiceTypeOK
<1>7. ASSUME NEW q \in Handler, Continue(h, q), HandlerOK(q, document', due \cup kept)
      PROVE  IInv'
  BY <1>5, <1>6, <1>7, HandlerStep
<1>8. CASE old.stage = "guard"
  <2> DEFINE q == [old EXCEPT !.pc = "body", !.stage = "body", !.doc = row]
  <2>1. q \in Handler /\ q.id = old.id /\ q.doc = row
    BY <1>1, <1>2 DEF Handler, Points, Stages
  <2>2. HandlerOK(q, document', due \cup kept)
    BY <1>1, <1>2, <1>3, <1>5, <2>1 DEF HandlerOK
  <2>3. Continue(h, q)
    BY <1>8 DEF WriteDocument
  <2> QED BY <1>7, <2>1, <2>2, <2>3
<1>9. CASE old.stage = "body" /\ old.op = "reprocess"
  <2> DEFINE q == [old EXCEPT !.pc = "extract", !.doc = row]
  <2>1. q \in Handler /\ q.id = old.id /\ q.doc = row
    BY <1>1, <1>2 DEF Handler, Points
  <2>2. HandlerOK(q, document', due \cup kept)
    BY <1>1, <1>2, <1>3, <1>5, <2>1 DEF HandlerOK
  <2>3. Continue(h, q)
    BY <1>9 DEF WriteDocument
  <2> QED BY <1>7, <2>1, <2>2, <2>3
<1>10. CASE ~(old.stage = "guard") /\ ~(old.stage = "body" /\ old.op = "reprocess")
  <2>1. Continue(h, Idle)
    BY <1>10 DEF WriteDocument, Finish
  <2>2. Idle \in Handler /\ HandlerOK(Idle, document', due \cup kept)
    BY IdleOK
  <2> QED BY <1>7, <2>1, <2>2
<1> QED BY <1>8, <1>9, <1>10

(* The only step that resolves a choice in memory before its time, and it  *)
(* records that the owner chose.                                           *)
LEMMA KeepStep ==
    ASSUME IInv, NEW h \in Handlers, KeepDocument(h)
    PROVE  IInv'
<1> DEFINE old == handler[h]
           q   == [old EXCEPT !.pc = "fetch", !.doc = Resolved(@)]
<1>1. /\ old \in Handler /\ old.id \in Documents /\ document[old.id] \in Row
      /\ old.doc \in Row
  BY Held DEF KeepDocument
<1>2. held' \subseteq Documents
  BY DEF KeepDocument, IInv, ChoiceTypeOK
<1>3. CASE old.doc.choice = "none"
  BY <1>2, <1>3, FinishStep DEF KeepDocument
<1>4. CASE old.doc.choice # "none"
  <2>1. Continue(h, q) /\ kept' = kept \cup {old.id}
    BY <1>4 DEF KeepDocument
  <2>2. Resolved(old.doc) \in Row
    BY <1>1 DEF Resolved, Row
  <2>3. q \in Handler /\ q.id = old.id /\ q.doc = Resolved(old.doc)
    BY <1>1, <2>2 DEF Handler, Points
  <2>4. HandlerOK(q, document, due \cup kept')
    BY <1>1, <2>1, <2>2, <2>3, ChoiceAssumption DEF HandlerOK, ChoiceAssumption
  <2>5. UNCHANGED <<document, due, held, sweeper, faults>>
    BY DEF KeepDocument
  <2>6. /\ document' \in [Documents -> Row \cup {NoVal}]
        /\ \A d \in Documents : document[d] # NoVal => document'[d] # NoVal
        /\ kept \subseteq kept' /\ kept' \subseteq Documents
        /\ \A d \in Documents :
              document'[d] # NoVal /\ document'[d].choice = "resolved" => d \in due \cup kept'
    BY <1>1, <2>1, <2>5 DEF IInv, ChoiceTypeOK, ResolvedForAReason
  <2> QED BY <1>2, <2>1, <2>3, <2>4, <2>5, <2>6, HandlerStep
<1> QED BY <1>3, <1>4

(* A request that changes something else than the choice in its entity.    *)
LEMMA EntityStep ==
    ASSUME IInv, NEW h \in Handlers, handler[h].pc # "idle",
           NEW q \in Handler, q.id = handler[h].id, q.doc \in Row,
           q.doc.choice = handler[h].doc.choice,
           Continue(h, q), UNCHANGED <<document, due, held, kept, sweeper, faults>>
    PROVE  IInv'
<1>1. /\ q.id \in Documents /\ document[q.id] # NoVal
      /\ q.doc.choice = "resolved" => q.id \in due \cup kept
  BY Held, ChoiceAssumption DEF ChoiceAssumption
<1>2. HandlerOK(q, document, due \cup kept)
  BY <1>1 DEF HandlerOK
<1> QED BY <1>2, ReadStep DEF IInv, ChoiceTypeOK

LEMMA DeleteStep ==
    ASSUME IInv, NEW h \in Handlers, DeleteDocument(h)
    PROVE  IInv'
<1> DEFINE q == [handler[h] EXCEPT !.pc = "fetch", !.doc.deleted = TRUE, !.doc.asset = NoVal]
<1>1. handler[h].pc # "idle" /\ Continue(h, q)
  BY DEF DeleteDocument
<1>2. handler[h] \in Handler /\ handler[h].doc \in Row
  BY <1>1, Held
<1>3. /\ [handler[h].doc EXCEPT !.deleted = TRUE, !.asset = NoVal] \in Row
      /\ q.doc = [handler[h].doc EXCEPT !.deleted = TRUE, !.asset = NoVal]
  BY <1>2 DEF Row, Handler
<1>4. q \in Handler /\ q.id = handler[h].id /\ q.doc.choice = handler[h].doc.choice
  BY <1>2, <1>3 DEF Handler, Points, Row
<1> QED BY <1>1, <1>3, <1>4, EntityStep DEF DeleteDocument

LEMMA ReprocessStep ==
    ASSUME IInv, NEW h \in Handlers, NEW note \in Notes \cup {NoVal},
           ReprocessDocument(h, note)
    PROVE  IInv'
<1> DEFINE q == [handler[h] EXCEPT !.pc = "fetch", !.doc.note = note]
<1>1. handler[h].pc # "idle" /\ Continue(h, q)
  BY DEF ReprocessDocument
<1>2. handler[h] \in Handler /\ handler[h].doc \in Row
  BY <1>1, Held
<1>3. /\ [handler[h].doc EXCEPT !.note = note] \in Row
      /\ q.doc = [handler[h].doc EXCEPT !.note = note]
  BY <1>2 DEF Row, Handler
<1>4. q \in Handler /\ q.id = handler[h].id /\ q.doc.choice = handler[h].doc.choice
  BY <1>2, <1>3 DEF Handler, Points, Row
<1> QED BY <1>1, <1>3, <1>4, EntityStep DEF ReprocessDocument

LEMMA RelinkStep ==
    ASSUME IInv, NEW h \in Handlers, NEW a \in AssetIds, ReprocessCommitted(h, a)
    PROVE  IInv'
<1> DEFINE q == [handler[h] EXCEPT !.pc = "fetch", !.stage = "relink", !.doc.asset = a]
<1>1. handler[h].pc # "idle" /\ Continue(h, q)
  BY DEF ReprocessCommitted
<1>2. handler[h] \in Handler /\ handler[h].doc \in Row
  BY <1>1, Held
<1>3. /\ [handler[h].doc EXCEPT !.asset = a] \in Row
      /\ q.doc = [handler[h].doc EXCEPT !.asset = a]
  BY <1>2 DEF Row, Handler
<1>4. q \in Handler /\ q.id = handler[h].id /\ q.doc.choice = handler[h].doc.choice
  BY <1>2, <1>3 DEF Handler, Points, Stages, Row
<1> QED BY <1>1, <1>3, <1>4, EntityStep DEF ReprocessCommitted

LEMMA HoldStep ==
    ASSUME IInv, NEW h \in Handlers, ReprocessHeld(h)
    PROVE  IInv'
<1>1. handler[h].id \in Documents
  BY Held DEF ReprocessHeld
<1>2. held' \subseteq Documents
  BY <1>1 DEF ReprocessHeld, IInv, ChoiceTypeOK
<1> QED BY <1>2, FinishStep DEF ReprocessHeld

LEMMA AbortStep ==
    ASSUME IInv, NEW h \in Handlers, Abort(h)
    PROVE  IInv'
BY FinishStep DEF Abort, IInv, ChoiceTypeOK

-----------------------------------------------------------------------------
(* The sweeper.                                                            *)
LEMMA NextRowOK ==
    ASSUME NEW todo \in SUBSET Documents, NEW rows, NEW past,
           \A d \in todo : rows[d] # NoVal
    PROVE  LET s == NextRow(todo)
           IN  /\ s \in [pc : {"sleep", "next", "resolve"}, todo : SUBSET Documents,
                         id : Documents \cup {NoVal}, copy : Payload \cup {NoVal}]
               /\ s.pc # "resolve"
               /\ SweeperOK(s, rows, past)
BY DEF NextRow, Asleep, SweeperOK

LEMMA AsleepOK ==
    ASSUME NEW rows, NEW past
    PROVE  /\ Asleep \in [pc : {"sleep", "next", "resolve"}, todo : SUBSET Documents,
                          id : Documents \cup {NoVal}, copy : Payload \cup {NoVal}]
           /\ Asleep.pc # "resolve"
           /\ SweeperOK(Asleep, rows, past)
BY DEF Asleep, SweeperOK

(* A step of the sweeper that writes no row.                               *)
LEMMA LoopStep ==
    ASSUME IInv,
           sweeper' \in [pc : {"sleep", "next", "resolve"}, todo : SUBSET Documents,
                         id : Documents \cup {NoVal}, copy : Payload \cup {NoVal}],
           SweeperOK(sweeper', document, due),
           faults' \in 0 .. MaxFaults,
           UNCHANGED <<document, due, held, kept, handler>>
    PROVE  IInv'
<1>1. sweeper'.pc = "resolve" => sweeper'.id \in Documents /\ sweeper'.copy # NoVal
  BY ChoiceAssumption DEF SweeperOK, ChoiceAssumption
<1>2. ChoiceTypeOK'
  BY <1>1 DEF IInv, ChoiceTypeOK
<1> QED BY <1>2 DEF IInv, ResolvedForAReason

LEMMA SweepStep ==
    ASSUME IInv, Sweep
    PROVE  IInv'
<1>1. ExpiredPending \in SUBSET Documents /\ \A d \in ExpiredPending : document[d] # NoVal
  BY DEF IInv, ChoiceTypeOK, ExpiredPending, Pending, Shown
<1> QED BY <1>1, NextRowOK, LoopStep DEF Sweep, IInv, ChoiceTypeOK

LEMMA ReadPayloadStep ==
    ASSUME IInv, NEW d \in Documents, ReadPayload(d)
    PROVE  IInv'
<1> DEFINE rest == sweeper.todo \ {d}
<1>1. rest \in SUBSET Documents /\ \A e \in rest : document[e] # NoVal
  BY DEF IInv, ChoiceTypeOK, SweeperOK
<1>2. document[d] # NoVal /\ document[d] \in Row
  BY DEF IInv, ChoiceTypeOK, SweeperOK, ReadPayload
<1>3. CASE document[d].choice = "none" \/ d \notin due
  BY <1>1, <1>3, NextRowOK, LoopStep DEF ReadPayload, IInv, ChoiceTypeOK
<1>4. CASE ~(document[d].choice = "none" \/ d \notin due)
  <2> DEFINE s == [pc |-> "resolve", todo |-> rest, id |-> d,
                   copy |-> [choice |-> "resolved", note |-> document[d].note]]
  <2>1. s.copy \in Payload
    BY <1>2 DEF Row, Payload
  <2>2. SweeperOK(s, document, due)
    BY <1>1, <1>2, <1>4, <2>1 DEF SweeperOK
  <2>3. s \in [pc : {"sleep", "next", "resolve"}, todo : SUBSET Documents,
               id : Documents \cup {NoVal}, copy : Payload \cup {NoVal}]
    BY <1>1, <2>1
  <2>4. sweeper' = s
    BY <1>4 DEF ReadPayload
  <2> QED BY <2>2, <2>3, <2>4, LoopStep DEF ReadPayload, IInv, ChoiceTypeOK
<1> QED BY <1>3, <1>4

(* The sweeper only resolves what was due when it looked, and due is for   *)
(* good.                                                                   *)
LEMMA ResolveStep ==
    ASSUME IInv, resolveExpired
    PROVE  IInv'
<1> DEFINE d   == sweeper.id
           row == [document[d] EXCEPT !.choice = sweeper.copy.choice,
                                      !.note   = sweeper.copy.note]
<1>1. /\ d \in Documents /\ document[d] \in Row /\ d \in due
      /\ sweeper.copy \in Payload
      /\ sweeper.todo \in SUBSET Documents /\ \A e \in sweeper.todo : document[e] # NoVal
  BY DEF IInv, ChoiceTypeOK, SweeperOK, resolveExpired
<1>2. row \in Row /\ row # NoVal
  <2>1. row \in Row
    BY <1>1 DEF Row, Payload
  <2> QED BY <2>1, ChoiceAssumption DEF ChoiceAssumption
<1>3. document' = [document EXCEPT ![d] = row]
  BY <1>1 DEF resolveExpired, IInv, ChoiceTypeOK
<1>4. /\ document' \in [Documents -> Row \cup {NoVal}]
      /\ \A e \in Documents : document[e] # NoVal => document'[e] # NoVal
      /\ \A e \in Documents :
            document'[e] # NoVal /\ document'[e].choice = "resolved" => e \in due \cup kept
  BY <1>1, <1>2, <1>3 DEF IInv, ChoiceTypeOK, ResolvedForAReason
<1>5. \A h \in Handlers : HandlerOK(handler[h], document', due \cup kept)
  BY <1>4, OthersStep
<1>6. /\ sweeper' \in [pc : {"sleep", "next", "resolve"}, todo : SUBSET Documents,
                       id : Documents \cup {NoVal}, copy : Payload \cup {NoVal}]
      /\ sweeper'.pc # "resolve"
      /\ SweeperOK(sweeper', document', due)
  <2>1. sweeper' = NextRow(sweeper.todo) /\ \A e \in sweeper.todo : document'[e] # NoVal
    BY <1>1, <1>4 DEF resolveExpired
  <2> QED BY <1>1, <2>1, NextRowOK
<1>7. ChoiceTypeOK' /\ ResolvedForAReason'
  BY <1>4, <1>6 DEF resolveExpired, IInv, ChoiceTypeOK, ResolvedForAReason
<1> QED BY <1>5, <1>6, <1>7 DEF resolveExpired, IInv

LEMMA FailStep ==
    ASSUME IInv, SweepFails
    PROVE  IInv'
<1>1. /\ sweeper.todo \in SUBSET Documents
      /\ \A e \in sweeper.todo : document[e] # NoVal
      /\ faults' \in 0 .. MaxFaults
  BY ChoiceAssumption DEF IInv, ChoiceTypeOK, SweeperOK, SweepFails, ChoiceAssumption
<1> QED BY <1>1, NextRowOK, LoopStep DEF SweepFails

LEMMA RestartStep ==
    ASSUME IInv, Restart
    PROVE  IInv'
<1>1. /\ handler' \in [Handlers -> Handler]
      /\ \A h \in Handlers : HandlerOK(handler'[h], document, due \cup kept)
      /\ \A h \in Handlers : handler'[h].pc = "idle"
  BY IdleOK DEF Restart, Idle
<1>2. /\ SweeperOK(sweeper', document, due)
      /\ sweeper' \in [pc : {"sleep", "next", "resolve"}, todo : SUBSET Documents,
                       id : Documents \cup {NoVal}, copy : Payload \cup {NoVal}]
      /\ sweeper'.pc # "resolve"
  BY AsleepOK DEF Restart
<1>3. faults' \in 0 .. MaxFaults
  BY ChoiceAssumption DEF Restart, IInv, ChoiceTypeOK, ChoiceAssumption
<1>4. ChoiceTypeOK' /\ ResolvedForAReason'
  BY <1>1, <1>2, <1>3 DEF Restart, IInv, ChoiceTypeOK, ResolvedForAReason
<1> QED BY <1>1, <1>2, <1>4 DEF Restart, IInv

-----------------------------------------------------------------------------
LEMMA Initial == Init => IInv
<1> SUFFICES ASSUME Init PROVE IInv
  OBVIOUS
<1>1. /\ \A h \in Handlers : handler[h] \in Handler /\ handler[h].pc = "idle"
                             /\ HandlerOK(handler[h], document, due \cup kept)
  BY IdleOK DEF Init, Idle
<1>2. /\ SweeperOK(sweeper, document, due)
      /\ sweeper \in [pc : {"sleep", "next", "resolve"}, todo : SUBSET Documents,
                      id : Documents \cup {NoVal}, copy : Payload \cup {NoVal}]
      /\ sweeper.pc # "resolve"
  BY AsleepOK DEF Init
<1>3. faults \in 0 .. MaxFaults
  BY ChoiceAssumption DEF Init, ChoiceAssumption
<1>4. handler \in [Handlers -> Handler]
  BY <1>1 DEF Init
<1>5. ChoiceTypeOK /\ ResolvedForAReason
  BY <1>1, <1>2, <1>3, <1>4 DEF Init, ChoiceTypeOK, ResolvedForAReason
<1> QED BY <1>1, <1>2, <1>5 DEF IInv

LEMMA Step == IInv /\ [Next]_vars => IInv'
<1> SUFFICES ASSUME IInv, [Next]_vars PROVE IInv'
  OBVIOUS
<1>1. CASE UNCHANGED vars
  BY <1>1 DEF vars, IInv, ChoiceTypeOK, ResolvedForAReason
<1>2. ASSUME NEW d \in Documents, NEW a \in AssetIds \cup {NoVal}, handleDuplicateUpload(d, a)
      PROVE  IInv'
  BY <1>2, UploadStep
<1>3. ASSUME NEW d \in Documents, NEW a \in AssetIds, CommitDocument(d, a)
      PROVE  IInv'
  BY <1>3, CommitStep
<1>4. ASSUME NEW d \in Documents, Expire(d) \/ DecideReview(d)
      PROVE  IInv'
  BY <1>4, ExpireStep, DecideStep
<1>5. ASSUME NEW h \in Handlers, Request(h)
      PROVE  IInv'
  BY <1>5, GuardStep, FetchStep, WriteStep, KeepStep, DeleteStep, ReprocessStep, RelinkStep,
     HoldStep, AbortStep DEF Request
<1>6. ASSUME Start
      PROVE  IInv'
  BY <1>6, SweepStep, ReadPayloadStep, ResolveStep DEF Start
<1>7. ASSUME SweepFails \/ Restart
      PROVE  IInv'
  BY <1>7, FailStep, RestartStep
<1> QED BY <1>1, <1>2, <1>3, <1>4, <1>5, <1>6, <1>7 DEF Next

LEMMA Inductive == Spec => []IInv
BY Initial, Step, PTL DEF Spec

(* Rows, reviews, requests and the sweeper keep their types, whatever the  *)
(* interleaving and wherever a crash falls.                                *)
THEOREM ChoiceTypeCorrect == Spec => []ChoiceTypeOK
<1>1. IInv => ChoiceTypeOK
  BY DEF IInv
<1> QED BY <1>1, Inductive, PTL

(* No choice is taken from its owner: a document reads "resolved" only if  *)
(* its owner chose to keep it or its window has closed, for any number of  *)
(* requests and whichever stale copy is written back last.                 *)
THEOREM ReasonsAreGiven == Spec => []ResolvedForAReason
<1>1. IInv => ResolvedForAReason
  BY DEF IInv
<1> QED BY <1>1, Inductive, PTL

(* Nothing brings a deleted document back: no keep, reprocess or sweep     *)
(* that loaded it before, and no restart.                                  *)
THEOREM DeletedIsFinal == Spec => DeletedStaysDeleted
<1> DEFINE Stays == \A d \in Documents :
              document[d] # NoVal /\ document[d].deleted => document'[d].deleted
<1>1. IInv /\ [Next]_vars => [Stays]_vars
  <2> SUFFICES ASSUME IInv, Next PROVE Stays
    BY DEF vars
  <2>1. ASSUME NEW d \in Documents, document[d] = NoVal, NEW row,
               document' = [document EXCEPT ![d] = row]
        PROVE  Stays
    BY <2>1 DEF IInv, ChoiceTypeOK
  <2>2. CASE UNCHANGED document
    BY <2>2
  <2>3. ASSUME NEW h \in Handlers, WriteDocument(h)
        PROVE  Stays
    <3> DEFINE id  == handler[h].id
               row == UpdatedDocument(document[id], handler[h].doc,
                                      handler[h].op = "delete" /\ handler[h].stage = "body")
    <3>1. id \in Documents /\ document[id] \in Row /\ handler[h].doc \in Row
      BY <2>3, Held DEF WriteDocument
    <3>2. document[id].deleted => row.deleted
      BY <3>1 DEF UpdatedDocument, Row
    <3>3. document' = [document EXCEPT ![id] = row]
      BY <2>3 DEF WriteDocument
    <3> QED BY <3>1, <3>2, <3>3 DEF IInv, ChoiceTypeOK
  <2>4. ASSUME resolveExpired
        PROVE  Stays
    <3>1. sweeper.id \in Documents /\ document[sweeper.id] \in Row
      BY <2>4 DEF resolveExpired, IInv, ChoiceTypeOK, SweeperOK
    <3> QED BY <2>4, <3>1 DEF resolveExpired, IInv, ChoiceTypeOK, Row
  <2> QED BY <2>1, <2>2, <2>3, <2>4 DEF Next, Request, Start, handleDuplicateUpload,
       CommitDocument, Expire, DecideReview, applyLazyGuard, FetchPayload, KeepDocument,
       DeleteDocument, ReprocessDocument, ReprocessCommitted, ReprocessHeld, Abort, Sweep,
       ReadPayload, SweepFails, Restart
<1> QED BY <1>1, Inductive, PTL DEF Spec, DeletedStaysDeleted

=============================================================================

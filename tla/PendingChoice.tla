---------------------------- MODULE PendingChoice ----------------------------
(***************************************************************************)
(* The duplicate upload's pending choice (design D7a): a document that     *)
(* repeats known bytes waits for its owner to keep or to reprocess it, and *)
(* is kept when the window closes.  Three parties write the document: the  *)
(* requests of its owner (keep, reprocess, delete), the lazy guard they    *)
(* apply first, and the sweeper.  None of them takes a lock, and each      *)
(* writes back more than it changes: a request the whole entity it loaded, *)
(* laid over the payload it fetched last; the sweeper the whole payload.   *)
(*                                                                         *)
(* The clock is the set of documents whose window has closed; expires_at   *)
(* is written once, at creation.  The documents of one owner.              *)
(***************************************************************************)
EXTENDS Integers, FiniteSets

CONSTANTS
    NoVal,
    Documents,    \* keys of documents
    AssetIds,     \* assets the pipeline may resolve a document to
    Notes,        \* directives a user may give with a reprocess
    Handlers,     \* concurrent requests
    BypassRLS,    \* does the role of the sweeper's pool bypass row security
    MaxFaults     \* bound: crashes of the process and failing sweeper writes

VARIABLES
    document,   \* Documents -> the row, NoVal when there is none
    due,        \* the documents whose window has closed
    held,       \* the documents whose source has a pending review
    kept,       \* history: the documents their owner has chosen to keep
    handler,    \* Handlers -> where the request is and the entity it holds
    sweeper,    \* where the sweeper is, what it still has to do, its copy
    faults      \* crashes and failures so far

vars == <<document, due, held, kept, handler, sweeper, faults>>

Payload == [choice : {"none", "pending", "resolved"}, note : Notes \cup {NoVal}]
Row     == [choice : {"none", "pending", "resolved"}, note : Notes \cup {NoVal},
            asset : AssetIds \cup {NoVal}, deleted : BOOLEAN]
Ops     == {"keep", "reprocess", "delete"}
Points  == {"idle", "fetch", "write", "body", "extract"}
Stages  == {"guard", "body", "relink"}
Handler == [pc : Points, op : Ops \cup {NoVal}, stage : Stages \cup {NoVal},
            id : Documents \cup {NoVal}, doc : Row \cup {NoVal}]

ASSUME ChoiceAssumption ==
    /\ NoVal \notin AssetIds \cup Notes \cup Row \cup Payload
    /\ BypassRLS \in BOOLEAN
    /\ MaxFaults \in Nat

Idle   == [pc |-> "idle", op |-> NoVal, stage |-> NoVal, id |-> NoVal, doc |-> NoVal]
Asleep == [pc |-> "sleep", todo |-> {}, id |-> NoVal, copy |-> NoVal]

Init ==
    /\ document = [d \in Documents |-> NoVal]
    /\ due      = {}
    /\ held     = {}
    /\ kept     = {}
    /\ handler  = [h \in Handlers |-> Idle]
    /\ sweeper  = Asleep
    /\ faults   = 0

Shown(d)   == document[d] # NoVal /\ ~document[d].deleted
Pending(d) == Shown(d) /\ document[d].choice = "pending"

Continue(h, state) == handler' = [handler EXCEPT ![h] = state]
Finish(h)          == Continue(h, Idle)

-----------------------------------------------------------------------------
(* Documents appear, and time passes.                                      *)

(* A duplicate upload: linked to the asset of the document it repeats, or  *)
(* to none.                                                                *)
handleDuplicateUpload(d, a) ==
    /\ document[d] = NoVal
    /\ document' = [document EXCEPT ![d] =
          [choice |-> "pending", note |-> NoVal, asset |-> a, deleted |-> FALSE]]
    /\ UNCHANGED <<due, held, kept, handler, sweeper, faults>>

(* A document committed by the pipeline has no choice to make.             *)
CommitDocument(d, a) ==
    /\ document[d] = NoVal
    /\ document' = [document EXCEPT ![d] =
          [choice |-> "none", note |-> NoVal, asset |-> a, deleted |-> FALSE]]
    /\ UNCHANGED <<due, held, kept, handler, sweeper, faults>>

Expire(d) ==
    /\ document[d] # NoVal /\ document[d].choice # "none" /\ d \notin due
    /\ due' = due \cup {d}
    /\ UNCHANGED <<document, held, kept, handler, sweeper, faults>>

(* A reviewer rejects, or approves in vain, the review of a reprocess.     *)
DecideReview(d) ==
    /\ d \in held
    /\ held' = held \ {d}
    /\ UNCHANGED <<document, due, kept, handler, sweeper, faults>>

-----------------------------------------------------------------------------
(* The repository's Update of a document: the stored payload is fetched,   *)
(* the entity's keys are laid over it, and the result is written with the  *)
(* columns the entity has; an empty asset or deletion time is not written. *)

Overlay(stored, doc) ==
    [doc EXCEPT !.choice = IF @ = "none" THEN stored.choice ELSE @,
                !.note   = IF @ = NoVal  THEN stored.note   ELSE @]

(* A mutant: the codec writes deleted_at as the entity has it.             *)
UpdatedWithDeletedAt(stored, doc, detach) ==
    [doc EXCEPT !.asset = IF detach THEN NoVal ELSE IF @ = NoVal THEN stored.asset ELSE @]

UpdatedDocument(stored, doc, detach) ==
    [doc EXCEPT !.asset   = IF detach THEN NoVal ELSE IF @ = NoVal THEN stored.asset ELSE @,
                !.deleted = @ \/ stored.deleted]

(* A mutant: the state and the outcome of the choice are swapped.          *)
ResolvedSwapped(doc) == [doc EXCEPT !.choice = "keep_existing"]

Resolved(doc) == [doc EXCEPT !.choice = "resolved"]

(* A mutant: the guard does not look at expires_at.                        *)
AnyPending(d, doc) == doc.choice = "pending"

Expired(d, doc) == doc.choice = "pending" /\ d \in due

(* A request reads its document and applies the lazy guard: an expired     *)
(* choice is resolved, and saved, before anything else.                    *)
applyLazyGuard(h, op, d) ==
    /\ handler[h].pc = "idle"
    /\ Shown(d)
    /\ Continue(h, IF Expired(d, document[d])
                   THEN [pc |-> "fetch", op |-> op, stage |-> "guard", id |-> d,
                         doc |-> Resolved(document[d])]
                   ELSE [pc |-> "body", op |-> op, stage |-> "body", id |-> d,
                         doc |-> document[d]])
    /\ UNCHANGED <<document, due, held, kept, sweeper, faults>>

FetchPayload(h) ==
    LET q == handler[h]
    IN  /\ q.pc = "fetch"
        /\ Continue(h, [q EXCEPT !.pc = "write", !.doc = Overlay(document[q.id], @)])
        /\ UNCHANGED <<document, due, held, kept, sweeper, faults>>

(* The write returns the row as it is now; what comes after depends on the *)
(* request.                                                                *)
WriteDocument(h) ==
    LET q   == handler[h]
        row == UpdatedDocument(document[q.id], q.doc, q.op = "delete" /\ q.stage = "body")
    IN  /\ q.pc = "write"
        /\ document' = [document EXCEPT ![q.id] = row]
        /\ CASE q.stage = "guard" ->
                  Continue(h, [q EXCEPT !.pc = "body", !.stage = "body", !.doc = row])
             [] q.stage = "body" /\ q.op = "reprocess" ->
                  Continue(h, [q EXCEPT !.pc = "extract", !.doc = row])
             [] OTHER -> Finish(h)
        /\ UNCHANGED <<due, held, kept, sweeper, faults>>

KeepDocument(h) ==
    LET q == handler[h]
    IN  /\ q.pc = "body" /\ q.op = "keep"
        /\ IF q.doc.choice = "none" THEN Finish(h) /\ UNCHANGED kept
           ELSE /\ Continue(h, [q EXCEPT !.pc = "fetch", !.doc = Resolved(@)])
                /\ kept' = kept \cup {q.id}
        /\ UNCHANGED <<document, due, held, sweeper, faults>>

DeleteDocument(h) ==
    LET q == handler[h]
    IN  /\ q.pc = "body" /\ q.op = "delete"
        /\ Continue(h, [q EXCEPT !.pc = "fetch", !.doc.deleted = TRUE, !.doc.asset = NoVal])
        /\ UNCHANGED <<document, due, held, kept, sweeper, faults>>

(* Refused while the source is in review; otherwise the directive is saved *)
(* (an empty one is not written), and the pipeline runs.                   *)
ReprocessDocument(h, note) ==
    LET q == handler[h]
    IN  /\ q.pc = "body" /\ q.op = "reprocess"
        /\ q.id \notin held
        /\ Continue(h, [q EXCEPT !.pc = "fetch", !.doc.note = note])
        /\ UNCHANGED <<document, due, held, kept, sweeper, faults>>

(* The pipeline resolved an asset: the document, as it was when the        *)
(* directive was saved, is pointed at it.  A held extraction leaves a      *)
(* pending review; a failed one nothing, which is Abort.                   *)
ReprocessCommitted(h, a) ==
    LET q == handler[h]
    IN  /\ q.pc = "extract"
        /\ Continue(h, [q EXCEPT !.pc = "fetch", !.stage = "relink", !.doc.asset = a])
        /\ UNCHANGED <<document, due, held, kept, sweeper, faults>>

ReprocessHeld(h) ==
    /\ handler[h].pc = "extract"
    /\ held' = held \cup {handler[h].id}
    /\ Finish(h)
    /\ UNCHANGED <<document, due, kept, sweeper, faults>>

(* The request is refused, its client leaves or a statement fails.         *)
Abort(h) ==
    /\ handler[h].pc # "idle"
    /\ Finish(h)
    /\ UNCHANGED <<document, due, held, kept, sweeper, faults>>

-----------------------------------------------------------------------------
(* The sweeper.  It queries the pool directly, with no app.user_id bound:  *)
(* row security hides every row from it, unless its role bypasses that.    *)

VisibleToSweeper(d) == BypassRLS

ExpiredPending == {d \in due : VisibleToSweeper(d) /\ Pending(d)}

NextRow(todo) == IF todo = {} THEN Asleep
               ELSE [pc |-> "next", todo |-> todo, id |-> NoVal, copy |-> NoVal]

(* One sweep lists what is pending, shown and past its time ...            *)
Sweep ==
    /\ sweeper.pc = "sleep"
    /\ sweeper' = NextRow(ExpiredPending)
    /\ UNCHANGED <<document, due, held, kept, handler, faults>>

(* ... and resolves one document after the other: the payload is read, its *)
(* expiry looked at again ...                                              *)
ReadPayload(d) ==
    /\ sweeper.pc = "next" /\ d \in sweeper.todo
    /\ sweeper' =
          IF document[d].choice = "none" \/ d \notin due
          THEN NextRow(sweeper.todo \ {d})
          ELSE [pc |-> "resolve", todo |-> sweeper.todo \ {d}, id |-> d,
                copy |-> [choice |-> "resolved", note |-> document[d].note]]
    /\ UNCHANGED <<document, due, held, kept, handler, faults>>

(* ... and written back whole, whatever was committed in between.          *)
resolveExpired ==
    /\ sweeper.pc = "resolve"
    /\ document' = [document EXCEPT ![sweeper.id].choice = sweeper.copy.choice,
                                    ![sweeper.id].note   = sweeper.copy.note]
    /\ sweeper' = NextRow(sweeper.todo)
    /\ UNCHANGED <<due, held, kept, handler, faults>>

(* A mutant: the sweep ends at the first failing row, and the loop with it. *)
SweepStops ==
    /\ sweeper.pc = "resolve" /\ faults < MaxFaults
    /\ faults' = faults + 1
    /\ sweeper' = [Asleep EXCEPT !.pc = "stopped"]
    /\ UNCHANGED <<document, due, held, kept, handler>>

(* A failing row does not end the sweep: the next tick tries it again.     *)
SweepFails ==
    /\ sweeper.pc = "resolve" /\ faults < MaxFaults
    /\ faults' = faults + 1
    /\ sweeper' = NextRow(sweeper.todo)
    /\ UNCHANGED <<document, due, held, kept, handler>>

(* The process dies; what is in memory is lost, the rows and their         *)
(* deadlines are not, and the new process starts with a sweep.             *)
Restart ==
    /\ faults < MaxFaults
    /\ faults'  = faults + 1
    /\ handler' = [h \in Handlers |-> Idle]
    /\ sweeper' = Asleep
    /\ UNCHANGED <<document, due, held, kept>>

Start ==
    Sweep \/ resolveExpired \/ \E d \in Documents : ReadPayload(d)

Request(h) ==
    \/ \E op \in Ops, d \in Documents : applyLazyGuard(h, op, d)
    \/ FetchPayload(h) \/ WriteDocument(h) \/ KeepDocument(h) \/ DeleteDocument(h)
    \/ \E note \in Notes \cup {NoVal} : ReprocessDocument(h, note)
    \/ \E a \in AssetIds : ReprocessCommitted(h, a)
    \/ ReprocessHeld(h) \/ Abort(h)

Next ==
    \/ \E d \in Documents, a \in AssetIds \cup {NoVal} : handleDuplicateUpload(d, a)
    \/ \E d \in Documents, a \in AssetIds : CommitDocument(d, a)
    \/ \E d \in Documents : Expire(d) \/ DecideReview(d)
    \/ \E h \in Handlers : Request(h)
    \/ Start \/ SweepFails \/ Restart

(* Time passes and the sweeper's loop runs for as long as the process      *)
(* does; requests may come or not, and may stop anywhere.                  *)
Fairness ==
    /\ \A d \in Documents : WF_vars(Expire(d))
    /\ WF_vars(Start)

Spec == Init /\ [][Next]_vars /\ Fairness

-----------------------------------------------------------------------------
(* Properties.                                                             *)

ChoiceTypeOK ==
    /\ document \in [Documents -> Row \cup {NoVal}]
    /\ due \subseteq Documents /\ held \subseteq Documents /\ kept \subseteq Documents
    /\ handler \in [Handlers -> Handler]
    /\ sweeper \in [pc : {"sleep", "next", "resolve"}, todo : SUBSET Documents,
                    id : Documents \cup {NoVal}, copy : Payload \cup {NoVal}]
    /\ faults \in 0 .. MaxFaults
    /\ \A h \in Handlers : handler[h].pc # "idle" =>
          handler[h].id \in Documents /\ handler[h].doc # NoVal
    /\ sweeper.pc = "resolve" => sweeper.id \in Documents /\ sweeper.copy # NoVal

(* A choice is never taken from its owner: it is resolved because the      *)
(* owner chose to keep the document or because the window has closed,      *)
(* whichever stale entity or payload is written back (D7a, the re-check in *)
(* resolveExpired).                                                        *)
ResolvedForAReason ==
    \A d \in Documents :
        document[d] # NoVal /\ document[d].choice = "resolved" => d \in due \cup kept

(* A deleted document stays hidden: a keep, a reprocess or a sweep that    *)
(* loaded the document before the deletion writes it back afterwards, and  *)
(* does not bring it back.                                                 *)
DeletedStaysDeleted ==
    [][\A d \in Documents :
          document[d] # NoVal /\ document[d].deleted => document'[d].deleted]_vars

(* A duplicate does not stay pending for ever, owners who never answer,    *)
(* crashes and failing writes included (Sweep's comment: it resolves every *)
(* non-deleted document whose choice is pending and past its expires_at).  *)
ChoicesEnd == \A d \in Documents : Pending(d) ~> ~Pending(d)

=============================================================================

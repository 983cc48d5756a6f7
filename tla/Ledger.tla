------------------------------- MODULE Ledger -------------------------------
(***************************************************************************)
(* The movements of one account and the requests of core/ledger that edit  *)
(* them.  Every request reads in one transaction and writes in another,    *)
(* and the write stores the whole entity it read: the row in the request's *)
(* memory, not a change, is what is saved.                                 *)
(*                                                                         *)
(* A movement's account, currency and kind never change and nothing here   *)
(* depends on them: an amount is an amount of the account's currency.      *)
(***************************************************************************)
EXTENDS Integers, FiniteSets

CONSTANTS
    NoVal,          \* SQL NULL / a nil pointer
    Gone,           \* a deleted row: its id is never used again
    MaxMovements,   \* bound on the movements ever created
    Dates,          \* the days movements occur on
    Amounts,        \* exact amounts
    Texts,          \* normalised descriptions
    Refs,           \* bank references
    Origins,        \* the batch lines imported movements come from
    Docs,           \* documents, which no action here changes
    Price,          \* Docs -> the amount a document shows, or NoVal
    Users           \* concurrent edit requests

VARIABLES
    movement,   \* MovementIds -> the row
    edit        \* Users -> the request of that user

ledgerVars == <<movement, edit>>

MovementIds == 1..MaxMovements

Movement == [date : Dates, amount : Amounts, desc : Texts,
             ref : Refs \cup {NoVal},
             from : Origins \cup {NoVal},       \* NoVal: origin "manual"
             link : Docs \cup {NoVal}, creator : {NoVal, "manual", "auto"},
             conflicting : BOOLEAN]

ASSUME LedgerAssumption ==
    /\ MaxMovements \in Nat
    /\ Price \in [Docs -> Amounts \cup {NoVal}]
    /\ NoVal \notin Amounts /\ NoVal \notin Refs
    /\ NoVal \notin Origins /\ NoVal \notin Docs /\ NoVal # Gone
    /\ NoVal \notin {"manual", "auto"}
    /\ NoVal \notin Movement /\ Gone \notin Movement

Request == [pc : {"idle", "taken", "update"}, id : MovementIds \cup {NoVal},
            row : Movement \cup {NoVal}]

NoRequest == [pc |-> "idle", id |-> NoVal, row |-> NoVal]

LedgerInit ==
    /\ movement = [m \in MovementIds |-> NoVal]
    /\ edit = [u \in Users |-> NoRequest]

Exists(m)   == movement[m] \notin {NoVal, Gone}
Movements   == {movement[m] : m \in {n \in MovementIds : Exists(n)}}

(* Ids are opaque and fresh: the next ones, in the order of creation.      *)
Allocated   == Cardinality({m \in MovementIds : movement[m] # NoVal})

LinkedTo(d) == {m \in MovementIds : Exists(m) /\ movement[m].link = d}

(* A mutant: no index, the look before the write decides.                  *)
NoLinkIndex(m, row) == TRUE

(* The partial unique index uq_movement_linked_doc.                        *)
LinkIndexAllows(m, row) == row.link # NoVal => LinkedTo(row.link) \subseteq {m}

(* The UPDATE of a movement: every column and key of the entity in memory, *)
(* on whatever the row is by then.                                         *)
UpdateMovement(m, row) ==
    /\ Exists(m)
    /\ LinkIndexAllows(m, row)
    /\ movement' = [movement EXCEPT ![m] = row]

-----------------------------------------------------------------------------

CreateManualMovement(date, amount, desc) ==
    LET m == Allocated + 1
    IN  /\ m \in MovementIds
        /\ movement' = [movement EXCEPT ![m] =
              [date |-> date, amount |-> amount, desc |-> desc, ref |-> NoVal,
               from |-> NoVal, link |-> NoVal, creator |-> NoVal, conflicting |-> FALSE]]
        /\ UNCHANGED edit

(* A mutant: the origin is not looked at.                                  *)
DeleteAnyMovement(m) ==
    /\ Exists(m)
    /\ movement' = [movement EXCEPT ![m] = Gone]
    /\ UNCHANGED edit

(* An imported movement cannot be deleted; the origin never changes, so    *)
(* the check still holds when the row is removed.                          *)
DeleteMovement(m) ==
    /\ Exists(m)
    /\ movement[m].from = NoVal
    /\ movement' = [movement EXCEPT ![m] = Gone]
    /\ UNCHANGED edit

PatchDescription(u, m, desc) ==
    /\ edit[u].pc = "idle"
    /\ Exists(m)
    /\ edit' = [edit EXCEPT ![u] =
          [pc |-> "update", id |-> m, row |-> [movement[m] EXCEPT !.desc = desc]]]
    /\ UNCHANGED movement

linkConflicts(d, row) == Price[d] # NoVal /\ Price[d] # row.amount

(* Link loads the movement, refuses one that is linked, then looks whether *)
(* another movement has the document.                                      *)
Link(u, m, d) ==
    /\ edit[u].pc = "idle"
    /\ Exists(m)
    /\ movement[m].link = NoVal
    /\ edit' = [edit EXCEPT ![u] =
          [pc |-> "taken", id |-> m,
           row |-> [movement[m] EXCEPT !.link = d, !.creator = "manual",
                                       !.conflicting = linkConflicts(d, movement[m])]]]
    /\ UNCHANGED movement

CheckTaken(u) ==
    /\ edit[u].pc = "taken"
    /\ edit' = [edit EXCEPT ![u] =
          IF LinkedTo(edit[u].row.link) = {} THEN [@ EXCEPT !.pc = "update"] ELSE NoRequest]
    /\ UNCHANGED movement

(* A mutant: the flag of the link stays.                                   *)
UnlinkKeepingConflict(u, m) ==
    /\ edit[u].pc = "idle"
    /\ Exists(m)
    /\ movement[m].link # NoVal
    /\ edit' = [edit EXCEPT ![u] =
          [pc |-> "update", id |-> m,
           row |-> [movement[m] EXCEPT !.link = NoVal, !.creator = NoVal]]]
    /\ UNCHANGED movement

Unlink(u, m) ==
    /\ edit[u].pc = "idle"
    /\ Exists(m)
    /\ movement[m].link # NoVal
    /\ edit' = [edit EXCEPT ![u] =
          [pc |-> "update", id |-> m,
           row |-> [movement[m] EXCEPT !.link = NoVal, !.creator = NoVal,
                                       !.conflicting = FALSE]]]
    /\ UNCHANGED movement

WriteEdit(u) ==
    /\ edit[u].pc = "update"
    /\ UpdateMovement(edit[u].id, edit[u].row)
    /\ edit' = [edit EXCEPT ![u] = NoRequest]

(* The row is gone, the link index refuses, the client or the server dies. *)
AbortEdit(u) ==
    /\ edit[u].pc # "idle"
    /\ edit' = [edit EXCEPT ![u] = NoRequest]
    /\ UNCHANGED movement

LedgerNext ==
    \/ \E date \in Dates, amount \in Amounts, desc \in Texts :
          CreateManualMovement(date, amount, desc)
    \/ \E m \in MovementIds : DeleteMovement(m)
    \/ \E u \in Users, m \in MovementIds :
          \/ \E desc \in Texts : PatchDescription(u, m, desc)
          \/ \E d \in Docs : Link(u, m, d)
          \/ Unlink(u, m)
    \/ \E u \in Users : CheckTaken(u) \/ WriteEdit(u) \/ AbortEdit(u)

-----------------------------------------------------------------------------

LedgerTypeOK ==
    /\ movement \in [MovementIds -> Movement \cup {NoVal, Gone}]
    /\ edit \in [Users -> Request]

(* A document proves at most one movement, whatever links, automatic ones  *)
(* included, race past each other's look for a movement that has it.       *)
OneMovementPerDocument == \A d \in Docs : Cardinality(LinkedTo(d)) <= 1

(* A link is whole: a movement that has a document has the creator of the  *)
(* link and says whether the amounts disagree, one that has none has       *)
(* neither, although requests save entities they read at different times.  *)
LinkIsWhole ==
    \A m \in MovementIds : Exists(m) =>
        LET row == movement[m]
        IN  /\ (row.link = NoVal) <=> (row.creator = NoVal)
            /\ row.conflicting <=> row.link # NoVal /\ linkConflicts(row.link, row)

(* What Link's comment says: linking a movement that is already linked to  *)
(* a different document is a conflict, so a link only ever goes away by    *)
(* being removed, and a document never takes the place of another.         *)
LinksAreNotReplaced ==
    [][\A m \in MovementIds :
          Exists(m) /\ Exists(m)' /\ movement[m].link # NoVal
             => movement'[m].link \in {NoVal, movement[m].link}]_movement

=============================================================================

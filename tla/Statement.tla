----------------------------- MODULE Statement -----------------------------
(***************************************************************************)
(* Bank statement imports (core/statement) over the ledger: a statement is *)
(* classified against the movements of the account and kept as a preview   *)
(* batch; a batch is committed, which books its valid lines and then links *)
(* them to documents, or discarded.  Requests run beside each other and    *)
(* beside the edits of module Ledger; the state of a batch is read outside *)
(* the transaction that changes it.                                        *)
(***************************************************************************)
EXTENDS Ledger, Sequences, Ranks

CONSTANTS
    Importers,    \* concurrent import requests
    BatchIds,     \* primary keys of import batches
    Files,        \* the statements that are uploaded
    Blank, Malformed, MaxLines

INSTANCE Classify
INSTANCE StatementFile

VARIABLES
    batch,      \* BatchIds -> the batch with its lines and their statuses
    import      \* Importers -> the request of that importer

vars == <<movement, edit, batch, import>>

StatusLists == Seq(LineStatuses)

Batch  == [file : Files, lines : Seq(Line), status : StatusLists,
           state : {"preview", "committed", "discarded"}]

ASSUME StatementAssumption ==
    /\ NoVal \notin BatchIds /\ NoVal \notin Files
    /\ NoVal \notin Dates /\ NoVal \notin Texts
    /\ NoVal \notin Batch /\ NoVal \notin StatusLists
    /\ MaxLines \in Nat
    /\ \A file \in Files : file.rows \in Seq({file.rows[n] : n \in DOMAIN file.rows})
    /\ Origins = BatchIds \X (1..MaxLines)

Import == [pc : {"idle", "preview", "commit", "listlinks", "link", "autolink", "discard"},
           batch : BatchIds \cup {NoVal},
           file : Files \cup {NoVal}, status : StatusLists \cup {NoVal},
           todo : [MovementIds -> Movement \cup {NoVal}],
           id : MovementIds \cup {NoVal}]

Nothing == [m \in MovementIds |-> NoVal]

Free == [pc |-> "idle", batch |-> NoVal, file |-> NoVal, status |-> NoVal,
         todo |-> Nothing, id |-> NoVal]

Init ==
    /\ LedgerInit
    /\ batch = [b \in BatchIds |-> NoVal]
    /\ import = [i \in Importers |-> Free]

Continue(i, state) == import' = [import EXCEPT ![i] = state]

-----------------------------------------------------------------------------
(* Upload: parse, read the ledger, classify; then store batch and lines.   *)
(* The source, which is stored first and kept, is not read again.          *)

Upload(i, file) ==
    /\ import[i].pc = "idle"
    /\ Accepted(file)
    /\ Continue(i, [Free EXCEPT !.pc = "preview", !.file = file,
                                !.status = ClassifyLines(LinesOf(file), Movements)])
    /\ UNCHANGED <<movement, edit, batch>>

CreateBatch(i, b) ==
    /\ import[i].pc = "preview"
    /\ batch[b] = NoVal
    /\ batch' = [batch EXCEPT ![b] =
          [file |-> import[i].file, lines |-> LinesOf(import[i].file),
           status |-> import[i].status, state |-> "preview"]]
    /\ Continue(i, Free)
    /\ UNCHANGED <<movement, edit>>

-----------------------------------------------------------------------------
(* Commit: the state is looked at first; a batch already committed has its *)
(* links applied again, a discarded one is refused.                        *)

Found(b) == batch[b] # NoVal

InState(b, state) == Found(b) /\ batch[b].state = state

Commit(i, b) ==
    /\ import[i].pc = "idle"
    /\ \/ InState(b, "preview")   /\ Continue(i, [Free EXCEPT !.pc = "commit", !.batch = b])
       \/ InState(b, "committed") /\ Continue(i, [Free EXCEPT !.pc = "listlinks", !.batch = b])
    /\ UNCHANGED <<movement, edit, batch>>

(* A mutant: the line reference counts from zero.                          *)
ImportedMovementFromZero(line, b, n) ==
    [date |-> line.date, amount |-> line.amount, desc |-> line.desc, ref |-> line.ref,
     from |-> <<b, n - 1>>, link |-> NoVal, creator |-> NoVal, conflicting |-> FALSE]

ImportedMovement(line, b, n) ==
    [date |-> line.date, amount |-> line.amount, desc |-> line.desc, ref |-> line.ref,
     from |-> <<b, n>>, link |-> NoVal, creator |-> NoVal, conflicting |-> FALSE]

(* The ids the valid lines get, in line order.                             *)
IdOf(status, n) == Allocated + Rank(ValidLines(status), n)

(* One movement for each valid line and the new state, in one transaction; *)
(* the batch is updated by its id and its state is not looked at again.    *)
CommitBatch(i) ==
    LET b      == import[i].batch
        status == batch[b].status
        valid  == ValidLines(status)
    IN  /\ import[i].pc = "commit"
        /\ Allocated + Cardinality(valid) <= MaxMovements
        /\ movement' = [m \in MovementIds |->
              IF \E n \in valid : IdOf(status, n) = m
              THEN LET n == CHOOSE n \in valid : IdOf(status, n) = m
                   IN  ImportedMovement(batch[b].lines[n], b, n)
              ELSE movement[m]]
        /\ batch' = [batch EXCEPT ![b].state = "committed"]
        /\ Continue(i, [import[i] EXCEPT !.pc = "listlinks"])
        /\ UNCHANGED edit

(* applyAutoLinks lists the batch's movements once ...                     *)
Unlinked(b) ==
    {m \in MovementIds : Exists(m) /\ movement[m].from # NoVal
                         /\ movement[m].from[1] = b /\ movement[m].link = NoVal}

NextLink(i, todo) ==
    Continue(i, IF todo = Nothing THEN Free
                ELSE [Free EXCEPT !.pc = "link", !.batch = import[i].batch, !.todo = todo])

ListUnlinked(i) ==
    /\ import[i].pc = "listlinks"
    /\ NextLink(i, [m \in MovementIds |->
          IF m \in Unlinked(import[i].batch) THEN movement[m] ELSE NoVal])
    /\ UNCHANGED <<movement, edit, batch>>

(* ... and for each looks for the one document of exactly its amount that  *)
(* no movement has.                                                        *)
LinkCandidates(row) == {d \in Docs : Price[d] = row.amount /\ LinkedTo(d) = {}}

FindCandidate(i, m) ==
    /\ import[i].pc = "link"
    /\ import[i].todo[m] # NoVal
    /\ LET row   == import[i].todo[m]
           cands == LinkCandidates(row)
       IN  IF Cardinality(cands) = 1
           THEN Continue(i, [import[i] EXCEPT !.pc = "autolink", !.id = m,
                   !.todo[m].link = CHOOSE d \in cands : TRUE, !.todo[m].creator = "auto"])
           ELSE NextLink(i, [import[i].todo EXCEPT ![m] = NoVal])
    /\ UNCHANGED <<movement, edit, batch>>

WriteAutoLink(i) ==
    LET m == import[i].id
    IN  /\ import[i].pc = "autolink"
        /\ UpdateMovement(m, import[i].todo[m])
        /\ NextLink(i, [import[i].todo EXCEPT ![m] = NoVal])
        /\ UNCHANGED <<edit, batch>>

-----------------------------------------------------------------------------

Discard(i, b) ==
    /\ import[i].pc = "idle"
    /\ InState(b, "preview")
    /\ Continue(i, [Free EXCEPT !.pc = "discard", !.batch = b])
    /\ UNCHANGED <<movement, edit, batch>>

DiscardBatch(i) ==
    /\ import[i].pc = "discard"
    /\ batch' = [batch EXCEPT ![import[i].batch].state = "discarded"]
    /\ Continue(i, Free)
    /\ UNCHANGED <<movement, edit>>

(* A failed statement, a refused link, a crash: what was committed stays.  *)
AbortImport(i) ==
    /\ import[i].pc # "idle"
    /\ Continue(i, Free)
    /\ UNCHANGED <<movement, edit, batch>>

ImportNext(i) ==
    \/ \E file \in Files : Upload(i, file)
    \/ \E b \in BatchIds : CreateBatch(i, b) \/ Commit(i, b) \/ Discard(i, b)
    \/ CommitBatch(i) \/ ListUnlinked(i) \/ WriteAutoLink(i) \/ DiscardBatch(i) \/ AbortImport(i)
    \/ \E m \in MovementIds : FindCandidate(i, m)

EditMovements == LedgerNext /\ UNCHANGED <<batch, import>>

Next == EditMovements \/ \E i \in Importers : ImportNext(i)

Spec == Init /\ [][Next]_vars

-----------------------------------------------------------------------------

(* Every variable keeps its type: a request holds rows and batches that    *)
(* the codecs can produce, under keys that exist.                          *)
TypeOK ==
    /\ LedgerTypeOK
    /\ batch \in [BatchIds -> Batch \cup {NoVal}]
    /\ import \in [Importers -> Import]

Bookings(b, n) == {m \in MovementIds : Exists(m) /\ movement[m].from = <<b, n>>}

(* The books agree with the batches, whatever commits, discards, edits and *)
(* deletions race: a preview has booked nothing; a commit books all of the *)
(* valid lines or none, so every valid line of a batch has equally many    *)
(* movements and every other line none; and what is booked for a line      *)
(* keeps its date, amount and reference.  It says nothing of how often a   *)
(* line is booked, nor that a discarded batch has booked nothing: the code *)
(* keeps neither, for it decides a batch twice (BatchesAreDecidedOnce).    *)
BooksMatchBatches ==
    \A b \in BatchIds : Found(b) =>
        LET valid == ValidLines(batch[b].status)
        IN  \A n \in DOMAIN batch[b].lines :
              /\ n \notin valid \/ batch[b].state = "preview" => Bookings(b, n) = {}
              /\ batch[b].state = "committed" /\ n \in valid => Bookings(b, n) # {}
              /\ \A k \in valid : n \in valid =>
                    Cardinality(Bookings(b, n)) = Cardinality(Bookings(b, k))
              /\ \A m \in Bookings(b, n) :
                    \A f \in {"date", "amount", "ref"} : movement[m][f] = batch[b].lines[n][f]

Readable(row) ==
    /\ row # Malformed
    /\ Len(row) \in {3, 4}
    /\ row[1] \in Dates /\ row[2] \in Signed /\ row[3] \in Texts

ReadableRows(file) == {n \in DOMAIN file.rows : Readable(file.rows[n])}
ReadLines(lines)   == {n \in DOMAIN lines : ~lines[n].error}

(* A statement reaches the preview whole: the lines of a batch that can be *)
(* booked are the readable rows of its file, each once, in the order of    *)
(* the file and with what the row says, with or without a header row,      *)
(* blank lines and rows that cannot be read in between.                    *)
PreviewIsTheStatement ==
    \A b \in BatchIds : Found(b) =>
        LET rows  == Kept(batch[b].file.rows, ReadableRows(batch[b].file))
            lines == Kept(batch[b].lines, ReadLines(batch[b].lines))
        IN  /\ Len(lines) = Len(rows)
            /\ \A n \in DOMAIN lines :
                  /\ <<lines[n].date, lines[n].amount, lines[n].desc>>
                       = <<rows[n][1], rows[n][2].value, rows[n][3]>>
                  /\ (lines[n].direction = "out") <=> (rows[n][2].sign = "-")
                  /\ (lines[n].ref # NoVal) <=> (Len(rows[n]) = 4 /\ rows[n][4] \in Refs)

(* What the comment on Commit and the spec of imports promise: a batch is *)
(* decided once.  Of one that is committed or discarded nothing more is    *)
(* booked, and it is not committed, nor discarded, after all.              *)
BatchesAreDecidedOnce ==
    [][\A b \in BatchIds : InState(b, "committed") \/ InState(b, "discarded") =>
          /\ batch'[b].state = batch[b].state
          /\ \A n \in DOMAIN batch[b].lines : Bookings(b, n)' \subseteq Bookings(b, n)]_vars

=============================================================================

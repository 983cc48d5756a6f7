--------------------------- MODULE StatementFile ---------------------------
(***************************************************************************)
(* The parser of a bank statement (core/statement/parse.go), a pure        *)
(* function of the uploaded file.                                          *)
(*                                                                         *)
(* A file is a sequence of rows and a row a sequence of cells, each cell   *)
(* what the parsers make of its text: a day, a signed amount, some other   *)
(* text, or Blank when nothing is left of it after trimming.  Malformed is *)
(* a row whose quotes encoding/csv cannot read.  What kind of file it is,  *)
(* its bytes say: "pdf" ones begin with the magic number, and "text" ones  *)
(* are text to the sniffer of net/http.                                    *)
(***************************************************************************)
EXTENDS Integers, Sequences, Ranks

CONSTANTS
    NoVal,          \* a nil pointer
    Blank,          \* a cell of white space
    Malformed,      \* a row that is no CSV record
    Dates,          \* days, in any of the layouts ParseDate knows
    Amounts,        \* strictly positive exact decimals
    Texts,          \* descriptions and references, alike once normalised
    Refs,           \* the bank's references
    MaxLines        \* the most lines a statement may have

Signed  == [sign : {"", "+", "-"}, value : Amounts]

(* Every line, readable or not; a line that failed keeps the fields that   *)
(* could be read.                                                          *)
Line == [date : Dates \cup {NoVal}, amount : Amounts \cup {NoVal},
         direction : {"in", "out", ""}, desc : Texts \cup {NoVal},
         ref : Refs \cup {NoVal}, error : BOOLEAN]

(* The header is optional: the first row is one when its first cell is     *)
(* text that is no day.  A blank cell parses, as the zero time.            *)
IsHeader(row) == row[1] \notin Dates \cup {Blank}

(* A mutant: a statement always has a header.                              *)
ParseCSVWithHeader(rows) ==
    IF \E r \in DOMAIN rows : rows[r] = Malformed THEN << >>
    ELSE SubSeq(rows, 2, Len(rows))

(* One malformed row refuses the whole file: there is no line.             *)
ParseCSV(rows) ==
    IF \/ rows = << >>
       \/ \E r \in DOMAIN rows : rows[r] = Malformed
    THEN << >>
    ELSE IF IsHeader(rows[1]) THEN SubSeq(rows, 2, Len(rows)) ELSE rows

NotBlank(row) == row # <<Blank>>

(* The text of a PDF has no header and its blank lines are dropped.        *)
pdfTextLines(rows) == Kept(rows, {n \in DOMAIN rows : NotBlank(rows[n])})

parseAmount(cell) ==
    IF cell \in Signed
    THEN [amount |-> cell.value, direction |-> IF cell.sign = "-" THEN "out" ELSE "in"]
    ELSE [amount |-> NoVal, direction |-> ""]

Unread == [date |-> NoVal, amount |-> NoVal, direction |-> "", desc |-> NoVal,
           ref |-> NoVal, error |-> TRUE]

In(cell, S) == IF cell \in S THEN cell ELSE NoVal

ExtractFields(row) ==
    IF row = Malformed \/ Len(row) \notin {3, 4} THEN Unread
    ELSE LET date  == In(row[1], Dates)
             money == parseAmount(row[2])
             desc  == In(row[3], Texts)
         IN  [date |-> date, amount |-> money.amount, direction |-> money.direction,
              desc |-> desc, ref |-> IF Len(row) = 4 THEN In(row[4], Refs) ELSE NoVal,
              error |-> NoVal \in {date, money.amount, desc}]

(* The store takes a file for what its bytes are, never for its name.      *)
sniffStatementType(bytes) ==
    CASE bytes = "pdf"  -> "application/pdf"
      [] bytes = "text" -> "text/csv"
      [] OTHER          -> ""

RawLines(file) ==
    IF sniffStatementType(file.bytes) = "text/csv" THEN ParseCSV(file.rows) ELSE pdfTextLines(file.rows)

LinesOf(file)  == [n \in DOMAIN RawLines(file) |-> ExtractFields(RawLines(file)[n])]

(* Another kind of file, no line at all, and more lines than the bound     *)
(* refuse the upload.                                                      *)
Accepted(file) ==
    /\ sniffStatementType(file.bytes) # ""
    /\ Len(RawLines(file)) \in 1..MaxLines

=============================================================================

------------------------------ MODULE Classify ------------------------------
(***************************************************************************)
(* Duplicate detection of a bank statement's lines: core/statement's       *)
(* Classify, a pure function of the parsed lines and of the movements the  *)
(* account already has.                                                    *)
(*                                                                         *)
(* A line or a movement shows its date, its exact amount, a desc (the      *)
(* normalised description) and a ref (the bank's reference, or NoVal); the *)
(* direction of the money takes no part in the matching.  The parser       *)
(* yields a line either with all of date, amount and description or as an  *)
(* error line, so the fingerprint of every other line is complete.         *)
(***************************************************************************)
EXTENDS Integers, Sequences

CONSTANT NoVal     \* a nil pointer

LineStatuses == {"valid", "duplicate", "possible-duplicate", "error"}

fingerprint(x) == <<x.date, x.amount, x.desc>>

SameRef(x, y)  == x.ref # NoVal /\ x.ref = y.ref

(* The lines above line i that take part in matching: error lines do not.  *)
EarlierLines(lines, i) == {lines[j] : j \in {k \in 1..(i - 1) : ~lines[k].error}}

(* The status of line i.  A reference that the ledger or an earlier line   *)
(* has, or an earlier line's fingerprint, makes it a duplicate; the        *)
(* fingerprint of a movement only a possible one.                          *)
LineStatus(lines, i, existing) ==
    LET line    == lines[i]
        earlier == EarlierLines(lines, i)
    IN  IF line.error THEN "error"
        ELSE IF \/ \E x \in existing \cup earlier : SameRef(line, x)
                \/ \E x \in earlier : fingerprint(x) = fingerprint(line)
             THEN "duplicate"
        ELSE IF \E x \in existing : fingerprint(x) = fingerprint(line)
             THEN "possible-duplicate"
        ELSE "valid"

ClassifyLines(lines, existing) ==
    [i \in DOMAIN lines |-> LineStatus(lines, i, existing)]

ValidLines(status) == {i \in DOMAIN status : status[i] = "valid"}

=============================================================================

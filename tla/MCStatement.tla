---------------------------- MODULE MCStatement ----------------------------
(***************************************************************************)
(* A small instance of Statement for TLC.                                  *)
(***************************************************************************)
EXTENDS Statement, TLC

CONSTANTS D1, A1, A2, T1, R1, Receipt, Quote, Title

Out(a) == [sign |-> "-", value |-> a]
Plus(a) == [sign |-> "", value |-> a]

Header   == <<Title, Title, T1>>
WithRef  == <<D1, Out(A1), T1, R1>>
NoDate   == <<Blank, Plus(A2), T1>>
Plain    == <<D1, Plus(A2), T1>>

(* A statement with a header and a row whose day is missing; one without a *)
(* header; one that is too long; a header and nothing else; a PDF; an image. *)
MCFiles ==
    { [bytes |-> "text", rows |-> <<Header, WithRef, NoDate, Plain>>],
      [bytes |-> "text", rows |-> <<Plain, NoDate>>],
      [bytes |-> "text", rows |-> <<NoDate, Plain, Plain, WithRef>>],
      [bytes |-> "text", rows |-> <<Header>>],
      [bytes |-> "pdf", rows |-> << <<Blank>>, NoDate, Malformed>>],
      [bytes |-> "image", rows |-> <<Plain>>] }

MCOneFile == { [bytes |-> "text", rows |-> <<Header, WithRef, NoDate, Plain>>] }

MCOrigins == BatchIds \X (1..3)

(* One document with the amount of the lines, one with another amount.     *)
MCPrice == [d \in Docs |-> IF d = Receipt THEN A1 ELSE A2]

Symmetry ==
    Permutations(Importers) \cup Permutations(BatchIds) \cup Permutations(Users)

=============================================================================

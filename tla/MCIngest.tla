------------------------------ MODULE MCIngest ------------------------------
(***************************************************************************)
(* A small instance of Ingest for TLC.                                     *)
(***************************************************************************)
EXTENDS IngestRegister, TLC

CONSTANTS S1, B, M

(* An extraction with the unit's serial, one of the model only, and one    *)
(* that identifies nothing, a serial of white space.                       *)
Unit    == [serial |-> S1,    brand |-> B,     model |-> M,     name |-> NoVal]
Product == [serial |-> NoVal, brand |-> B,     model |-> M,     name |-> NoVal]
Nothing == [serial |-> Blank, brand |-> NoVal, model |-> NoVal, name |-> NoVal]

UnitOrNothing == {Unit, Nothing}
OnlyProduct   == {Product}
UnitOrProduct == {Unit, Product}

(* Requests and reviews are interchangeable: nothing orders or names one.  *)
Symmetry == Permutations(Handlers) \cup Permutations(ReviewIds)
            \cup Permutations(Contents)

=============================================================================

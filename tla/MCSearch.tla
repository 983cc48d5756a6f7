------------------------------- MODULE MCSearch -------------------------------
(***************************************************************************)
(* A small instance of Search for TLC: two requests beside a searcher.     *)
(***************************************************************************)
EXTENDS Search, TLC

CONSTANTS r1, r2, c1, c2

KindsInOrder == <<"movement", "document">>

(* A movement and a document: with pages of one row, a page of each kind.  *)
KindsOfRows == (r1 :> "movement" @@ r2 :> "document")

Symmetry == Permutations({c1, c2})

=============================================================================

----------------------------- MODULE MCLifecycle -----------------------------
(***************************************************************************)
(* A small instance of Lifecycle for TLC.                                  *)
(***************************************************************************)
EXTENDS Lifecycle, TLC

(* Requests and documents are interchangeable; assets are not ordered.     *)
Symmetry == Permutations(Handlers) \cup Permutations(Documents) \cup Permutations(AssetIds)

=============================================================================

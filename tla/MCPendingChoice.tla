--------------------------- MODULE MCPendingChoice ---------------------------
(***************************************************************************)
(* A small instance of PendingChoice for TLC; the constants are in the     *)
(* configurations.  Liveness is checked, so there is no symmetry.          *)
(***************************************************************************)
EXTENDS PendingChoice

=============================================================================

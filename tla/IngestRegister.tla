--------------------------- MODULE IngestRegister ---------------------------
(***************************************************************************)
(* The pipeline implements the register: its rows are the register's       *)
(* assets, the shown and the hidden documents its documents.               *)
(***************************************************************************)
EXTENDS Ingest

Life(row) == IF row = NoVal THEN "none"
             ELSE IF row.state = "purged" THEN "gone" ELSE row.state

Register == INSTANCE AssetRegister WITH
    Assets    <- AssetIds,
    Documents <- SourceIds,
    Serials   <- IdentityTexts,
    life      <- [a \in AssetIds |-> Life(asset[a])],
    serial    <- [a \in AssetIds |-> IF asset[a] = NoVal THEN NoVal ELSE asset[a].serial],
    link      <- [s \in SourceIds |-> IF document[s] = NoVal THEN NoVal ELSE document[s].asset]

(* Whatever uploads, reprocesses, decisions, deletions and purges do, and  *)
(* however they interleave, a reader of assets and documents sees a step   *)
(* of the register or nothing.                                             *)
ImplementsRegister == Register!Spec

=============================================================================

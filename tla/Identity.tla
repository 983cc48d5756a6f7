------------------------------ MODULE Identity ------------------------------
(***************************************************************************)
(* The pure part of core/identity: which stored asset an extraction is     *)
(* about.  The lookup reads one snapshot of the assets table; the writes   *)
(* that follow it are actions of module Ingest.                            *)
(*                                                                         *)
(* An identity field of an extraction is represented by its normal form:   *)
(* two texts that differ in case or white space are the same value, Blank  *)
(* is a text of white space only (normal form ""), NoVal a field that is   *)
(* absent (a nil pointer).  Normalisation therefore only has to tell Blank *)
(* from the other texts, which is all that the lookup looks at.            *)
(***************************************************************************)
EXTENDS Integers, FiniteSets

CONSTANTS
    NoVal,           \* SQL NULL / a nil pointer
    Blank,           \* the empty normal form
    AssetIds,        \* primary keys of assets, ordered as ORDER BY id does
    CandidateLimit,  \* LIMIT of each lookup stage, as configured
    DefaultCandidateLimit  \* ... and where the configuration is not at hand

ASSUME IdentityAssumption ==
    /\ AssetIds \subseteq Nat
    /\ IsFiniteSet(AssetIds)
    /\ {CandidateLimit, DefaultCandidateLimit} \subseteq Nat \ {0}
    /\ NoVal # Blank
    /\ NoVal \notin AssetIds

IdentityFields == {"serial", "brand", "model", "name"}

\* The stages of the lookup, in the order they are tried.
LookupStages == << {"serial"}, {"brand", "model"}, {"name", "model"} >>

SetMin(S) == CHOOSE x \in S : \A y \in S : x <= y

-----------------------------------------------------------------------------

(* A blank field identifies nothing. *)
normIdentity(ext) ==
    [f \in IdentityFields |-> IF ext[f] = Blank THEN NoVal ELSE ext[f]]

Stored(rows, a)  == rows[a] # NoVal /\ rows[a].state # "purged"
IsLive(rows, a)  == rows[a] # NoVal /\ rows[a].state = "live"

(* The rows a stage's filters select, soft-deleted ones included. *)
StageHits(rows, id, stage) ==
    {a \in AssetIds : Stored(rows, a) /\ \A f \in stage : rows[a][f] = id[f]}

(* ... cut to the first limit of them in id order. *)
StageCandidates(rows, id, stage, limit) ==
    LET hits == StageHits(rows, id, stage)
    IN  {a \in hits : Cardinality({b \in hits : b < a}) < limit}

EligibleStages(id) ==
    {i \in DOMAIN LookupStages : \A f \in LookupStages[i] : id[f] # NoVal}

MatchKinds == {"noidentity", "unresolved", "merge", "ambiguous", "softdeleted"}

(* What one stage with candidates concludes: the serial stage merges into  *)
(* its first live candidate, the others only when it is the only one.      *)
StageOutcome(rows, i, candidates) ==
    LET active == {a \in candidates : IsLive(rows, a)}
    IN  IF active = {} THEN [kind |-> "softdeleted", asset |-> NoVal]
        ELSE IF i = 1 \/ Cardinality(active) = 1
             THEN [kind |-> "merge", asset |-> SetMin(active)]
             ELSE [kind |-> "ambiguous", asset |-> NoVal]

(* The three-stage lookup: the first eligible stage with a candidate       *)
(* decides, whether its candidates are live or soft-deleted.               *)
matchExtraction(rows, ext, limit) ==
    LET id       == normIdentity(ext)
        eligible == EligibleStages(id)
        found(i) == StageCandidates(rows, id, LookupStages[i], limit)
        hit      == {i \in eligible : found(i) # {}}
    IN  IF eligible = {} THEN [kind |-> "noidentity", asset |-> NoVal]
        ELSE IF hit = {} THEN [kind |-> "unresolved", asset |-> NoVal]
        ELSE LET i == SetMin(hit)
             IN  StageOutcome(rows, i, found(i))

-----------------------------------------------------------------------------

(* The columns and payload of an asset created from an extraction.  The    *)
(* codec stores a normal form for every raw field that is present, the     *)
(* empty one of a blank field included.                                    *)
newAsset(ext) ==
    [serial |-> ext.serial, brand |-> ext.brand, model |-> ext.model,
     name |-> ext.name, state |-> "live"]

(* An extraction merged into an asset as it was loaded: a normal form that *)
(* is set stays, an unset one is derived from the incoming raw field.      *)
mergeInto(loaded, ext) ==
    [f \in DOMAIN loaded |->
        IF f \in IdentityFields /\ loaded[f] = NoVal THEN ext[f] ELSE loaded[f]]

(* The payload written by an update: the entity's keys over the stored     *)
(* ones; a key the entity does not carry keeps its stored value.           *)
OverlayPayload(stored, entity) ==
    [f \in DOMAIN entity |->
        IF f \in IdentityFields /\ entity[f] = NoVal THEN stored[f] ELSE entity[f]]

(* A mutant: the index over the raw household column, where a personal     *)
(* row's NULL is distinct from every other NULL, refuses nothing.          *)
RawHouseholdIndex(rows, a, row) == TRUE

(* The partial unique index uniq_assets_owner_norm_serial: it covers live  *)
(* rows whose serial key is not NULL; the empty key is a key like another. *)
SerialIndexAllows(rows, a, row) ==
    row.state = "live" /\ row.serial # NoVal =>
        \A b \in AssetIds \ {a} : IsLive(rows, b) => rows[b].serial # row.serial

=============================================================================

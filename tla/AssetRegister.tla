---------------------------- MODULE AssetRegister ----------------------------
(***************************************************************************)
(* What the asset register promises to everyone who reads it, whichever    *)
(* request writes: an asset goes through one life, from none to live, back *)
(* and forth between live and deleted, and to gone for good; no two live   *)
(* assets share a serial; a document leads to an asset that is stored.     *)
(* One commit changes one asset, or two when it merges them, and may link  *)
(* documents.  The pipeline (Ingest) and the register's own operations     *)
(* (Lifecycle) are both shown to implement it.                             *)
(***************************************************************************)
CONSTANTS
    NoVal,       \* no serial, no asset
    Assets,      \* keys of assets
    Documents,   \* keys of documents
    Serials      \* serial keys

VARIABLES
    life,     \* Assets -> "none", "live", "deleted", "gone"
    serial,   \* Assets -> the key of the serial index
    link      \* Documents -> the asset of the document

rvars == <<life, serial, link>>

Stored(a)      == life[a] \in {"live", "deleted"}
Free(a, s)     == s = NoVal \/ \A b \in Assets \ {a} : life[b] = "live" => serial[b] # s
SerialOrNone   == Serials \cup {NoVal}

Init ==
    /\ life   = [a \in Assets |-> "none"]
    /\ serial = [a \in Assets |-> NoVal]
    /\ link   = [d \in Documents |-> NoVal]

(* The documents may move in any commit, but only to stored assets.        *)
LinksMove ==
    /\ link' \in [Documents -> Assets \cup {NoVal}]
    /\ \A d \in Documents :
          link'[d] \in {link[d], NoVal} \/ life'[link'[d]] \in {"live", "deleted"}

Create(a) ==
    /\ life[a] = "none"
    /\ \E s \in SerialOrNone :
          /\ Free(a, s)
          /\ serial' = [serial EXCEPT ![a] = s]
    /\ life' = [life EXCEPT ![a] = "live"]
    /\ LinksMove

(* A stored asset is written: it may learn a serial, or be deleted, never  *)
(* come back to life.                                                      *)
Write(a) ==
    /\ Stored(a)
    /\ \E s \in SerialOrNone, l \in {life[a], "deleted"} :
          /\ l = "live" => Free(a, s)
          /\ life'   = [life EXCEPT ![a] = l]
          /\ serial' = [serial EXCEPT ![a] = s]
    /\ LinksMove

(* It comes back with a serial that is free now, its own or the one a      *)
(* stale read still has for it.                                            *)
Restore(a) ==
    /\ life[a] = "deleted"
    /\ \E s \in SerialOrNone :
          /\ Free(a, s)
          /\ serial' = [serial EXCEPT ![a] = s]
    /\ life' = [life EXCEPT ![a] = "live"]
    /\ UNCHANGED link

(* The survivor a is written and the duplicate b is deleted: the serial a  *)
(* learns is free while b is still there.                                  *)
Merge(a, b) ==
    /\ a # b /\ Stored(a) /\ Stored(b)
    /\ \E s, t \in SerialOrNone, l \in {life[a], "deleted"} :
          /\ l = "live" => Free(a, s)
          /\ life'   = [life EXCEPT ![a] = l, ![b] = "deleted"]
          /\ serial' = [serial EXCEPT ![a] = s, ![b] = t]
    /\ LinksMove

(* Assets are purged together, and the documents that lead to them are     *)
(* detached; so is what led to them when the purge looked, wherever it     *)
(* leads by now.                                                           *)
Purge(S) ==
    /\ \A a \in S : Stored(a)
    /\ life'   = [a \in Assets |-> IF a \in S THEN "gone" ELSE life[a]]
    /\ serial' = [a \in Assets |-> IF a \in S THEN NoVal ELSE serial[a]]
    /\ link' \in [Documents -> Assets \cup {NoVal}]
    /\ \A d \in Documents :
          link'[d] = NoVal \/ (link'[d] = link[d] /\ link[d] \notin S)

Relink == LinksMove /\ UNCHANGED <<life, serial>>

Next ==
    \/ \E a \in Assets : Create(a) \/ Write(a) \/ Restore(a)
    \/ \E a, b \in Assets : Merge(a, b)
    \/ \E S \in SUBSET Assets : Purge(S)
    \/ Relink

Spec == Init /\ [][Next]_rvars

-----------------------------------------------------------------------------

RegisterTypeOK ==
    /\ life   \in [Assets -> {"none", "live", "deleted", "gone"}]
    /\ serial \in [Assets -> SerialOrNone]
    /\ link   \in [Documents -> Assets \cup {NoVal}]

(* No two live assets of the scope have the same serial key.               *)
SerialsUnique ==
    \A a, b \in Assets :
        a # b /\ life[a] = "live" /\ life[b] = "live" /\ serial[a] # NoVal
            => serial[a] # serial[b]

(* A document that has an asset has one that is stored.                    *)
LinksLead ==
    \A d \in Documents : link[d] # NoVal => Stored(link[d])

(* An asset that is gone stays gone.                                       *)
GoneForGood ==
    [][\A a \in Assets : life[a] = "gone" => life'[a] = "gone"]_rvars

=============================================================================

--------------------------- MODULE RegisterProofs ---------------------------
(***************************************************************************)
(* What every implementation of AssetRegister inherits, for any assets,    *)
(* documents and serials.                                                  *)
(***************************************************************************)
EXTENDS AssetRegister, TLAPS

RInv == RegisterTypeOK /\ SerialsUnique /\ LinksLead

(* A commit that gives asset a the state l and the serial s, free if it is *)
(* to live.                                                                *)
LEMMA UniqueAfterWrite ==
    ASSUME RInv, NEW a \in Assets, NEW s \in SerialOrNone,
           life'[a] = "live" => Free(a, s),
           serial'[a] = s,
           \A b \in Assets \ {a} : life'[b] = "live" =>
               life[b] = "live" /\ serial'[b] = serial[b]
    PROVE  SerialsUnique'
BY DEF RInv, RegisterTypeOK, SerialsUnique, Free

(* No document is left leading nowhere when what was stored stays so.      *)
LEMMA LinksAfterMove ==
    ASSUME RInv, LinksMove, \A b \in Assets : Stored(b) => life'[b] \in {"live", "deleted"}
    PROVE  link' \in [Documents -> Assets \cup {NoVal}] /\ LinksLead'
<1>1. link' \in [Documents -> Assets \cup {NoVal}]
  BY DEF LinksMove
<1>2. ASSUME NEW d \in Documents, link'[d] # NoVal PROVE life'[link'[d]] \in {"live", "deleted"}
  <2>1. CASE link'[d] = link[d]
    <3>1. link[d] \in Assets /\ Stored(link[d])
      BY <1>2, <2>1 DEF RInv, RegisterTypeOK, LinksLead
    <3> QED BY <2>1, <3>1
  <2>2. CASE life'[link'[d]] \in {"live", "deleted"}
    BY <2>2
  <2> QED BY <1>2, <2>1, <2>2 DEF LinksMove
<1> QED BY <1>1, <1>2 DEF LinksLead, Stored

LEMMA RegisterInit == Init => RInv
BY DEF Init, RInv, RegisterTypeOK, SerialOrNone, SerialsUnique, LinksLead

LEMMA CreateStep ==
    ASSUME RInv, NEW a \in Assets, Create(a)
    PROVE  RInv'
<1> PICK s \in SerialOrNone : Free(a, s) /\ serial' = [serial EXCEPT ![a] = s]
  BY DEF Create
<1>1. life' = [life EXCEPT ![a] = "live"] /\ LinksMove /\ life[a] = "none"
  BY DEF Create
<1>2. /\ life' \in [Assets -> {"none", "live", "deleted", "gone"}]
      /\ serial' \in [Assets -> SerialOrNone]
  BY <1>1 DEF RInv, RegisterTypeOK
<1>3. SerialsUnique'
  BY <1>1, <1>2, UniqueAfterWrite DEF RInv, RegisterTypeOK, SerialsUnique
<1>4. link' \in [Documents -> Assets \cup {NoVal}] /\ LinksLead'
  BY <1>1, LinksAfterMove DEF RInv, RegisterTypeOK, Stored
<1> QED BY <1>2, <1>3, <1>4 DEF RInv, RegisterTypeOK, SerialOrNone

LEMMA WriteStep ==
    ASSUME RInv, NEW a \in Assets, Write(a)
    PROVE  RInv'
<1> PICK s \in SerialOrNone, l \in {life[a], "deleted"} :
        /\ l = "live" => Free(a, s)
        /\ life'   = [life EXCEPT ![a] = l]
        /\ serial' = [serial EXCEPT ![a] = s]
  BY DEF Write
<1>1. LinksMove /\ l \in {"live", "deleted"}
  BY DEF Write, Stored
<1>2. /\ life' \in [Assets -> {"none", "live", "deleted", "gone"}]
      /\ serial' \in [Assets -> SerialOrNone]
  BY <1>1 DEF RInv, RegisterTypeOK
<1>3. SerialsUnique'
  BY <1>1, <1>2, UniqueAfterWrite DEF RInv, RegisterTypeOK, SerialsUnique
<1>4. link' \in [Documents -> Assets \cup {NoVal}] /\ LinksLead'
  BY <1>1, LinksAfterMove DEF RInv, RegisterTypeOK, Stored
<1> QED BY <1>2, <1>3, <1>4 DEF RInv, RegisterTypeOK, SerialOrNone

LEMMA RestoreStep ==
    ASSUME RInv, NEW a \in Assets, Restore(a)
    PROVE  RInv'
<1> PICK s \in SerialOrNone : Free(a, s) /\ serial' = [serial EXCEPT ![a] = s]
  BY DEF Restore
<1>1. life' = [life EXCEPT ![a] = "live"] /\ UNCHANGED link /\ life[a] = "deleted"
  BY DEF Restore
<1>2. /\ life' \in [Assets -> {"none", "live", "deleted", "gone"}]
      /\ serial' \in [Assets -> SerialOrNone]
  BY <1>1 DEF RInv, RegisterTypeOK
<1>3. SerialsUnique'
  BY <1>1, <1>2, UniqueAfterWrite DEF RInv, RegisterTypeOK, SerialsUnique
<1>4. LinksLead'
  BY <1>1 DEF RInv, RegisterTypeOK, LinksLead, Stored
<1> QED BY <1>1, <1>2, <1>3, <1>4 DEF RInv, RegisterTypeOK, SerialOrNone

LEMMA MergeStep ==
    ASSUME RInv, NEW a \in Assets, NEW b \in Assets, Merge(a, b)
    PROVE  RInv'
<1> PICK s \in SerialOrNone, t \in SerialOrNone, l \in {life[a], "deleted"} :
        /\ l = "live" => Free(a, s)
        /\ life'   = [life EXCEPT ![a] = l, ![b] = "deleted"]
        /\ serial' = [serial EXCEPT ![a] = s, ![b] = t]
  BY DEF Merge
<1>1. LinksMove /\ l \in {"live", "deleted"} /\ a # b
  BY DEF Merge, Stored
<1>2. /\ life' \in [Assets -> {"none", "live", "deleted", "gone"}]
      /\ serial' \in [Assets -> SerialOrNone]
  BY <1>1 DEF RInv, RegisterTypeOK
<1>3. SerialsUnique'
  <2>1. \A c \in Assets \ {a} : life'[c] = "live" => life[c] = "live" /\ serial'[c] = serial[c]
    BY <1>1 DEF RInv, RegisterTypeOK
  <2>2. life'[a] = l /\ serial'[a] = s
    BY <1>1 DEF RInv, RegisterTypeOK
  <2> QED BY <1>1, <1>2, <2>1, <2>2, UniqueAfterWrite DEF SerialsUnique
<1>4. link' \in [Documents -> Assets \cup {NoVal}] /\ LinksLead'
  BY <1>1, LinksAfterMove DEF RInv, RegisterTypeOK, Stored
<1> QED BY <1>2, <1>3, <1>4 DEF RInv, RegisterTypeOK, SerialOrNone

LEMMA PurgeStep ==
    ASSUME RInv, NEW S \in SUBSET Assets, Purge(S)
    PROVE  RInv'
<1>1. RegisterTypeOK' /\ SerialsUnique'
  BY DEF Purge, RInv, RegisterTypeOK, SerialOrNone, SerialsUnique
<1>2. LinksLead'
  <2> SUFFICES ASSUME NEW d \in Documents, link'[d] # NoVal
               PROVE  life'[link'[d]] \in {"live", "deleted"}
    BY DEF LinksLead, Stored
  <2>1. link'[d] = link[d] /\ link[d] \in Assets \ S /\ Stored(link[d])
    BY DEF Purge, RInv, RegisterTypeOK, LinksLead
  <2> QED BY <2>1 DEF Purge, Stored
<1> QED BY <1>1, <1>2 DEF RInv

LEMMA RelinkStep ==
    ASSUME RInv, Relink
    PROVE  RInv'
<1>1. link' \in [Documents -> Assets \cup {NoVal}] /\ LinksLead'
  BY LinksAfterMove DEF Relink, Stored
<1> QED BY <1>1 DEF Relink, RInv, RegisterTypeOK, SerialOrNone, SerialsUnique

LEMMA RegisterStep == RInv /\ [Next]_rvars => RInv'
<1> SUFFICES ASSUME RInv, [Next]_rvars PROVE RInv'
  OBVIOUS
<1>1. CASE UNCHANGED rvars
  BY <1>1 DEF rvars, RInv, RegisterTypeOK, SerialOrNone, SerialsUnique, LinksLead, Stored
<1> QED BY <1>1, CreateStep, WriteStep, RestoreStep, MergeStep, PurgeStep, RelinkStep DEF Next

LEMMA RegisterInductive == Spec => []RInv
BY RegisterInit, RegisterStep, PTL DEF Spec

(* Whatever implements the register never has two live assets of a scope   *)
(* with the same serial: the promise of uq_assets_serial to its readers.   *)
THEOREM RegisterSerials == Spec => []SerialsUnique
<1>1. RInv => SerialsUnique
  BY DEF RInv
<1> QED BY <1>1, RegisterInductive, PTL

(* ... and no document leads to an asset that is not there.                *)
THEOREM RegisterLinks == Spec => []LinksLead
<1>1. RInv => LinksLead
  BY DEF RInv
<1> QED BY <1>1, RegisterInductive, PTL

(* ... and what is purged does not come back.                              *)
THEOREM RegisterGone == Spec => GoneForGood
<1>1. RInv /\ [Next]_rvars =>
         [\A a \in Assets : life[a] = "gone" => life'[a] = "gone"]_rvars
  <2> SUFFICES ASSUME RInv, Next, NEW a \in Assets, life[a] = "gone"
               PROVE  life'[a] = "gone"
    OBVIOUS
  <2>1. ASSUME NEW b \in Assets, Create(b) \/ Write(b) \/ Restore(b)
        PROVE  life'[a] = "gone"
    BY <2>1 DEF Create, Write, Restore, Stored, RInv, RegisterTypeOK
  <2>2. ASSUME NEW b \in Assets, NEW c \in Assets, Merge(b, c)
        PROVE  life'[a] = "gone"
    BY <2>2 DEF Merge, Stored, RInv, RegisterTypeOK
  <2>3. ASSUME NEW S \in SUBSET Assets, Purge(S)
        PROVE  life'[a] = "gone"
    BY <2>3 DEF Purge
  <2>4. CASE Relink
    BY <2>4 DEF Relink
  <2> QED BY <2>1, <2>2, <2>3, <2>4 DEF Next
<1> QED BY <1>1, RegisterInductive, PTL DEF Spec, GoneForGood

=============================================================================

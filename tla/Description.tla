---------------------------- MODULE Description ----------------------------
(***************************************************************************)
(* How one worker's identity texts are reconciled before they are compared *)
(* with another's (core/processing: brands, split, reconcileIdentity).     *)
(*                                                                         *)
(* A text is the sequence of its words and of the white space between      *)
(* them, <<>> a field that is absent or empty.  Words are compared by      *)
(* spelling, and through Lower without case; the case that a name is given *)
(* in the end decides nothing and is left out.                             *)
(***************************************************************************)
EXTENDS Ranks, Sequences, SequencesExt

CONSTANTS
    Words,
    White,         \* white space: the space, a tab, the end of a line
    Space,         \* the space
    Lower,         \* words and white space -> the same in lower case
    WithDigit,     \* the words that contain a digit
    Descriptors,   \* lower-case colour and feature words
    Compounds,     \* pairs of lower-case words -> the word they make
    Lexicon,       \* the brands (texts) by descending length
    Mentions       \* words and white space -> brands and keywords inside, cut off by non-letters

ASSUME DescriptionAssumption ==
    /\ Space \in White /\ White \intersect Words = {}
    /\ WithDigit \subseteq Words
    /\ Lexicon \in Seq(Seq(Words \cup White))
    /\ \A brand \in Range(Lexicon) : brand # <<>> /\ {brand[1], Last(brand)} \subseteq Words

(* Two words that touch are one.                                           *)
IsText(text) ==
    /\ text \in Seq(Words \cup White)
    /\ \A i \in 1 .. Len(text) - 1 : {text[i], text[i + 1]} \intersect White # {}

(* The words of a text, and the text of some words.                        *)
Fields(text) == Kept(text, {i \in DOMAIN text : text[i] \notin White})

Joined(words) ==
    IF words = <<>> THEN <<>>
    ELSE [i \in 1 .. 2 * Len(words) - 1 |-> IF i % 2 = 1 THEN words[(i + 1) \div 2] ELSE Space]

hasSpace(text) == \E i \in DOMAIN text : text[i] = Space

LowerText(text) == [i \in DOMAIN text |-> Lower[text[i]]]

(* Where the brand stands in the text as whole words, first place first.   *)
Places(text, brand) ==
    {i \in 1 .. Len(text) : /\ i + Len(brand) - 1 <= Len(text)
                            /\ SubSeq(LowerText(text), i, i + Len(brand) - 1) = LowerText(brand)}

brandAtWordBoundary(text, brand) ==
    \/ Places(text, brand) # {}
    \/ \E i \in DOMAIN text : brand \in Mentions[text[i]]

(* The longest brand that the text mentions, in its canonical spelling.    *)
FindBrand(text) ==
    LET found == {i \in DOMAIN Lexicon : brandAtWordBoundary(text, Lexicon[i])}
    IN  IF found = {} THEN <<>> ELSE Lexicon[Min(found)]

(* The words of the brand are taken out where they first stand; a brand    *)
(* that is only mentioned inside a word leaves the words as they are.      *)
removeBrand(words, brand) ==
    LET at == Places(words, brand)
    IN  IF brand = <<>> \/ at = {} THEN words
        ELSE LET i == Min(at)
             IN  SubSeq(words, 1, i - 1) \o SubSeq(words, i + Len(brand), Len(words))

(* Two words next to each other become one, from left to right.            *)
joinCompounds(words) ==
    FoldLeft(LAMBDA done, w :
                IF done # <<>> /\ <<Lower[Last(done)], Lower[w]>> \in DOMAIN Compounds
                THEN Append(Front(done), Compounds[<<Lower[Last(done)], Lower[w]>>])
                ELSE Append(done, w),
             <<>>, words)

(* The words of a description without its brand: the model is the last one *)
(* with a digit, the name what is left without colours and features.       *)
Split(brand, words, digits) ==
    LET last == Max(digits)
        rest == IF digits = {} THEN words ELSE RemoveAt(words, last)
    IN  [brand |-> brand,
         model |-> IF digits = {} THEN <<>> ELSE <<words[last]>>,
         name  |-> Joined(joinCompounds(SelectSeq(rest, LAMBDA w : Lower[w] \notin Descriptors)))]

SplitWords(brand, words) == Split(brand, words, {i \in DOMAIN words : words[i] \in WithDigit})

WithoutBrand(words, brand) == SplitWords(brand, removeBrand(words, Fields(brand)))

(* Brand, name and model of a combined description, whatever white space   *)
(* is between its words.                                                   *)
SplitDescription(text) == WithoutBrand(Fields(text), FindBrand(Joined(Fields(text))))

containsDigit(text) == \E i \in DOMAIN text : text[i] \in WithDigit

Or(text, default) == IF text # <<>> THEN text ELSE default

correctBrand(brand) == Or(FindBrand(brand), brand)

Corrected(ext) == [ext EXCEPT !.brand = correctBrand(@)]

(* Only a space makes a text a combined one, no other white space does.    *)
InModel(ext) == hasSpace(ext.model)
InName(ext)  == ext.model = <<>> /\ hasSpace(ext.name) /\ containsDigit(ext.name)

Merged(ext, parts) ==
    [ext EXCEPT !.brand = Or(@, parts.brand), !.model = Or(parts.model, @),
                !.name  = IF InModel(ext) THEN Or(@, parts.name) ELSE parts.name]

Resplit(ext) ==
    IF InModel(ext) THEN Merged(ext, SplitDescription(ext.model))
    ELSE IF InName(ext) THEN Merged(ext, SplitDescription(ext.name))
    ELSE ext

(* A mutant: combined descriptions are left as they are.                   *)
reconcileBrand(ext) == Corrected(ext)

(* A description with spaces stored wholesale in model, or in name when    *)
(* there is no model, is split; what the worker gave apart from it is      *)
(* kept, and brands take their canonical spelling.                         *)
reconcileIdentity(ext) == Corrected(Resplit(ext))

=============================================================================

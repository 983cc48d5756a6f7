---------------------------- MODULE MCExtractor ----------------------------
(***************************************************************************)
(* A small instance of Extractor for TLC: three workers read a Sony WH1.   *)
(***************************************************************************)
EXTENDS Extractor, TLC

W == {"microwave", "washing", "machine", "Dishwashing", "Machines", "Sony", "SONY", "LG", "WH1", "LG9", "black", "Micro", "Wave", "Microwave", "X1", "X2"}

Whites == {"space", "break"}
sp     == "space"

Tokens == W \cup Whites

LowerOf == [w \in Tokens |-> CASE w \in {"Sony", "SONY"} -> "sony" [] w = "Micro" -> "micro"
                          [] w = "Wave" -> "wave" [] w = "Microwave" -> "microwave"
                          [] w = "Dishwashing" -> "dishwashing" [] w = "Machines" -> "machines"
                          [] OTHER -> w]
Digits  == {"WH1", "LG9", "X1", "X2"}
Colours == {"black"}
Joins   == <<"micro", "wave">> :> "Microwave"
Brands  == << <<"Sony">>, <<"LG">> >>
Inside  == [w \in Tokens |-> IF w = "LG9" THEN {<<"LG">>} ELSE {}]
Types   == {"invoice", "statement", "other"}
Appliance == <<"appliance">>
Computing == <<"computing">>
Vocabulary == {Appliance, Computing, <<"other">>}

Table     == << <<Computing, {<<"WH1">>}>>,
                <<Appliance, {<<"microwave">>, <<"washing", sp, "machine">>}>> >>
Starts    == [w \in Tokens |-> {LowerOf[w]} \cup IF w = "Machines" THEN {"machine"} ELSE {}]
Finishes  == [w \in Tokens |-> {LowerOf[w]} \cup IF w = "Dishwashing" THEN {"washing"} ELSE {}]

Reads(shape, class, serial, brand, model, name) ==
    [shape |-> shape, class |-> class, serial |-> serial, brand |-> brand,
     model |-> model, name |-> name, bought |-> <<>>, lasts |-> <<>>, ends |-> <<>>,
     category |-> NotText]

Filed(category, answer) == [answer EXCEPT !.category = category]
Sold(date, answer)  == [answer EXCEPT !.bought = date]
Lasts(terms, answer) == [answer EXCEPT !.lasts = terms]
Ends(date, answer)  == [answer EXCEPT !.ends = date]

(* The same unit told apart, wholesale in the model, with spaces between   *)
(* its words or the end of a line, and wholesale in the name; another      *)
(* unit; a bank statement; an answer that is no object.                    *)
(* Purchases on the last day of January and on a leap day.  A category     *)
(* outside the vocabulary, none, and two within.                           *)
Apart     == Filed(<<"gadget">>, Sold(<<2023, 1, 31>>, Lasts(<<1, 1, 0>>,
             Reads("object", "invoice", <<"X1">>, <<"SONY">>, <<"WH1">>, NotText))))
Wholesale == Sold(<<2024, 2, 29>>, Lasts(<<0, 12, 0>>,
             Reads("wrapped", "invoice", <<>>, <<>>, <<"Sony", sp, "black", sp, "WH1">>, <<>>)))
Lines     == Reads("object", "invoice", <<"X1">>, <<>>, <<"Sony", "break", "WH1">>, <<>>)
Named     == Filed(Appliance, Ends(<<2026, 1, 1>>,
             Reads("object", "gibberish", <<"X2">>, <<>>, <<>>, <<"WH1", sp, "Sony", "break", "Micro", sp, "Wave">>)))
Other     == Filed(Computing, Sold(Blank, Lasts(<<0, 0, 45>>,
             Reads("object", "invoice", NotText, <<>>, <<"LG9", sp, "Dishwashing", "break", "Machines">>, <<>>))))
Bank      == Reads("object", "statement", <<>>, <<>>, <<>>, <<>>)
Garbage   == Reads("text", "other", <<>>, <<>>, <<>>, <<>>)

FewAnswers == {Apart, Wholesale, Lines, Named, Other, Bank, Garbage}

=============================================================================

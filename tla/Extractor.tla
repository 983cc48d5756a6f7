----------------------------- MODULE Extractor -----------------------------
(***************************************************************************)
(* One upload in the extraction pipeline (core/processing: Extractor,      *)
(* Consensus, the decision of Process).  The workers ask their providers   *)
(* at the same time, each within its own time budget and all within the    *)
(* request's; every answer has a slot of its own; when all slots are       *)
(* filled the answers are reconciled to one extraction and a confidence,   *)
(* which decide whether the upload is committed, held for a reviewer,      *)
(* routed to the ledger or reported as failed.  What a commit and a hold   *)
(* do to the database is module Ingest; here they succeed or do not.       *)
(*                                                                         *)
(* Confidence is in tenths.                                                *)
(***************************************************************************)
EXTENDS Description, Warranty

CONSTANTS
    None,        \* no answer yet, no extraction
    NWorkers,    \* the configured workers are 1 .. NWorkers, in that order
    Answers,     \* what a provider may answer
    DocTypes,    \* the vocabulary of classifications
    Categories,  \* the vocabulary of asset categories, as texts
    Keywords,    \* the classifier: <<category, lower-case texts>>, best first
    Beginnings,  \* word or space -> lower-case words it begins with, itself included
    Endings,     \* word or space -> lower-case words it ends with, itself included
    NotText,     \* in an answer: a field that is null, no text or no date
    Blank,       \* in an answer: a date of nothing but spaces
    Threshold    \* confidence from which an upload is committed unseen

(* What the fields of an answer may hold that later steps compute with.    *)
FieldsOK(answer) ==
    /\ \A text \in {answer.brand, answer.model, answer.name} : text = NotText \/ IsText(text)
    /\ answer.bought \in {NotText, Blank, <<>>} \/ IsDate(answer.bought)
    /\ answer.lasts \in {NotText, <<>>} \/ answer.lasts \in Nat \X Nat \X Nat

ASSUME ExtractorAssumption ==
    /\ NWorkers \in Nat
    /\ Threshold \in 0 .. 10
    /\ {"statement", "other"} \subseteq DocTypes
    /\ <<"other">> \in Categories /\ <<>> \notin Categories
    /\ Keywords \in Seq(Range(Keywords)) /\ \A entry \in Range(Keywords) : entry[1] \in Categories
    /\ \A answer \in Answers : FieldsOK(answer)

VARIABLES
    phase,      \* where the request is
    result,     \* the slot of each worker
    late,       \* workers whose own time is up
    ctx,        \* the request's context: "open", "deadline" or "canceled"
    gone,       \* the client has left
    agreed,     \* the consensus of the workers
    outcome     \* the answer to the client

vars == <<phase, result, late, ctx, gone, agreed, outcome>>

Workers == 1 .. NWorkers

IdentityFields == {"serial", "brand", "model"}

Nobody == [ext |-> None, conf |-> 0, unresolved |-> {}]

Init ==
    /\ phase   = "extract"
    /\ result  = [w \in Workers |-> None]
    /\ late    = {}
    /\ ctx     = "open"
    /\ gone    = FALSE
    /\ agreed  = Nobody
    /\ outcome = "none"

-----------------------------------------------------------------------------
(* A worker: one request to its provider, one answer parsed.               *)

(* One JSON object with an end, among thoughts and alone, or the one       *)
(* element of an array around it; the rest of the text is blank.           *)
IsOneObject(answer) == answer.shape \in {"object", "wrapped"}

strPtr(v) == IF v = NotText THEN <<>> ELSE v

(* Of the dates of an answer only one of nothing but spaces is not read as *)
(* written; a date that cannot be read is NotText.                         *)
ParseDate(v) == IF v = Blank THEN ZeroDate ELSE v

datePtr(v) == IF v = NotText THEN <<>> ELSE ParseDate(v)

warrantyDurationStr(v) == IF v = NotText THEN <<>> ELSE v

(* A mutant: every category is taken, of the vocabulary or not.            *)
anyCategoryPtr(v) == strPtr(v)

assetCategoryPtr(v) == IF v \in Categories THEN v ELSE <<>>

(* What is no document type becomes "other", every other field of the      *)
(* wrong kind is absent.                                                   *)
ParseExtraction(answer) ==
    IF IsOneObject(answer)
    THEN [err |-> "none", serial |-> strPtr(answer.serial), brand |-> strPtr(answer.brand),
          model |-> strPtr(answer.model), name |-> strPtr(answer.name),
          bought |-> datePtr(answer.bought), ends |-> datePtr(answer.ends),
          lasts |-> warrantyDurationStr(answer.lasts),
          category |-> assetCategoryPtr(answer.category), categoryConfidence |-> 0,
          class |-> IF answer.class \in DocTypes THEN answer.class ELSE "other"]
    ELSE [err |-> "parse"]

Succeeded(r) == r.err = "none"

Extractions == {e \in {ParseExtraction(answer) : answer \in Answers} : Succeeded(e)}
Readings    == {[raw |-> e, ext |-> reconcileIdentity(e)] : e \in Extractions}

Reconciled(e) == (CHOOSE r \in Readings : r.raw = e).ext

Open(w) ==
    /\ phase = "extract" /\ result[w] = None
    /\ UNCHANGED <<phase, late, ctx, gone, agreed, outcome>>

(* The answer may arrive at the last moment: the deadline is not looked at *)
(* again once the body has been read.                                      *)
Answered(w, answer) ==
    /\ Open(w)
    /\ result' = [result EXCEPT ![w] = ParseExtraction(answer)]

(* The connection fails, the provider answers with an error or no choices. *)
ChatFails(w) ==
    /\ Open(w)
    /\ result' = [result EXCEPT ![w] = [err |-> "transport"]]

(* A mutant: the calls are made with a context that never ends.            *)
NeverCancelled(w) == FALSE

(* The worker's context: its own deadline, inside the request's context.   *)
Cancelled(w) == w \in late \/ ctx # "open"

ChatTimesOut(w) ==
    /\ Open(w) /\ Cancelled(w)
    /\ result' = [result EXCEPT ![w] = [err |-> "timeout"]]

-----------------------------------------------------------------------------
(* Time, and the client.                                                   *)

WorkerDeadline(w) ==
    /\ phase = "extract" /\ result[w] = None /\ w \notin late
    /\ late' = late \cup {w}
    /\ UNCHANGED <<phase, result, ctx, gone, agreed, outcome>>

ProcessDeadline ==
    /\ phase \in {"extract", "consensus"} /\ ctx = "open"
    /\ ctx' = "deadline"
    /\ UNCHANGED <<phase, result, late, gone, agreed, outcome>>

ClientLeaves ==
    /\ phase # "done" /\ ~gone
    /\ gone' = TRUE
    /\ ctx'  = IF ctx = "open" THEN "canceled" ELSE ctx
    /\ UNCHANGED <<phase, result, late, agreed, outcome>>

-----------------------------------------------------------------------------
(* Consensus, over the reconciled answers of the workers that succeeded,   *)
(* in the order of the workers.                                            *)

Heard(results) == {w \in Workers : Succeeded(results[w])}

(* A mutant: the loop over the workers stops at the first that failed.     *)
SuccessfulSoFar(results) ==
    LET first == {w \in Workers : 1 .. w \subseteq Heard(results)}
    IN  Kept([w \in first |-> Reconciled(results[w])], first)

Successful(results) ==
    Kept([w \in Heard(results) |-> Reconciled(results[w])], Heard(results))

Given(exts, f) == {exts[i][f] : i \in DOMAIN exts} \ {<<>>}

(* The first value that is given, <<>> when there is none.                 *)
firstNonEmpty(exts, f) ==
    LET given == {i \in DOMAIN exts : exts[i][f] # <<>>}
    IN  IF given = {} THEN <<>> ELSE exts[Min(given)][f]

(* A mutant: each value is compared with the one before it in the list,    *)
(* an absent one included, and the last comparison counts.                 *)
identityConflictLast(exts, f) ==
    LET n == Len(exts)
    IN  exts[n][f] # <<>> /\ exts[n - 1][f] # <<>> /\ exts[n][f] # exts[n - 1][f]

identityConflict(exts, f) == \E v, w \in Given(exts, f) : v # w

identityValue(exts, f) ==
    IF identityConflict(exts, f) THEN <<>> ELSE firstNonEmpty(exts, f)

ConsensusOf(exts) ==
    LET unresolved == {f \in IdentityFields : identityConflict(exts, f)}
    IN  CASE exts = <<>>   -> Nobody
          [] Len(exts) = 1 -> [ext |-> exts[1], conf |-> 6, unresolved |-> {}]
          [] OTHER         -> [ext |-> [err    |-> "none",
                                        serial |-> identityValue(exts, "serial"),
                                        brand  |-> identityValue(exts, "brand"),
                                        model  |-> identityValue(exts, "model"),
                                        name   |-> firstNonEmpty(exts, "name"),
                                        bought |-> firstNonEmpty(exts, "bought"),
                                        lasts  |-> firstNonEmpty(exts, "lasts"),
                                        ends   |-> firstNonEmpty(exts, "ends"),
                                        category |-> firstNonEmpty(exts, "category"),
                                        categoryConfidence |-> 0,
                                        class  |-> exts[1].class],
                               conf |-> IF unresolved = {} THEN 9 ELSE 5,
                               unresolved |-> unresolved]

Consensus(results) == ConsensusOf(Successful(results))

(* eg.Wait returns once every slot is filled.                              *)
Gather ==
    /\ phase = "extract"
    /\ \A w \in Workers : result[w] # None
    /\ agreed' = Consensus(result)
    /\ phase' = "consensus"
    /\ UNCHANGED <<result, late, ctx, gone, outcome>>

-----------------------------------------------------------------------------
(* The decision of Process and of Reprocess.                               *)

allFailed == Heard(result) = {}

Answer(kind) ==
    /\ outcome' = kind
    /\ phase' = "done"

GoTo(next) == phase' = next /\ UNCHANGED outcome

Read(f) == {e[f] : e \in Extractions} \cup {<<>>}

Warranties == {[terms |-> t, end |-> AddWarrantyEnd(t[1], t[2], t[3])] :
                  t \in Read("bought") \X Read("lasts") \X Read("ends")}

WarrantyEnd(terms) == (CHOOSE w \in Warranties : w.terms = terms).end

WithWarranty(ext) == [ext EXCEPT !.ends = WarrantyEnd(<<ext.bought, ext.lasts, @>>)]

(* A keyword of one word stands by itself in the text; one of several is   *)
(* found across the ends of words too.                                     *)
Across(text, keyword) ==
    LET n == Len(keyword)
    IN  \E i \in 1 .. Len(text) - n + 1 :
            /\ keyword[1] \in Endings[text[i]]
            /\ keyword[n] \in Beginnings[text[i + n - 1]]
            /\ \A j \in 2 .. n - 1 : keyword[j] = Lower[text[i + j - 1]]

Triggers(text, keyword) ==
    IF hasSpace(keyword) THEN Across(text, keyword) ELSE brandAtWordBoundary(text, keyword)

(* The entries of the table with a keyword in the text.                    *)
Matching(text) == {i \in DOMAIN Keywords : \E k \in Keywords[i][2] : Triggers(text, k)}

(* Name and brand, their words a space apart.                              *)
CategoryText(name, brand) == Joined(Fields(name \o <<Space>> \o brand))

Texts(f) == {r.ext[f] : r \in Readings} \cup {<<>>}

Labels == {[label |-> l, entries |-> Matching(CategoryText(l[1], l[2]))] :
              l \in Texts("name") \X Texts("brand")}

Matches(label) == (CHOOSE l \in Labels : l.label = label).entries

(* The first category of the table with a keyword in the text, or <<>>.    *)
classifyCategory(label) ==
    IF Matches(label) = {} THEN <<>> ELSE Keywords[Min(Matches(label))][1]

(* The category read and the one of the classifier, and how sure that is.  *)
InferCategory(read, classified) ==
    CASE read # <<>> /\ read = classified -> <<read, 9>>
      [] read # <<>> /\ read # classified -> <<read, 6>>
      [] read = <<>> /\ classified # <<>> -> <<classified, 6>>
      [] OTHER                            -> << <<"other">>, 5>>

WithCategory(ext) ==
    LET inferred == InferCategory(ext.category, classifyCategory(<<ext.name, ext.brand>>))
    IN  [ext EXCEPT !.category = inferred[1], !.categoryConfidence = inferred[2]]

(* Nothing about the product is derived for a request that goes no further *)
(* or that is out of time.                                                 *)
Leave(kind) == Answer(kind) /\ UNCHANGED agreed
Derive(next) ==
    /\ GoTo(next)
    /\ agreed' = [agreed EXCEPT !.ext = WithCategory(WithWarranty(@))]

Decision ==
    \/ allFailed /\ Leave("failed")
    \/ /\ ~allFailed
       /\ \/ agreed.ext.class = "statement" /\ Leave("statement")
          \/ /\ agreed.ext.class # "statement"
             /\ Derive(IF agreed.conf >= Threshold THEN "commit" ELSE "hold")

(* A mutant: the budget is not looked at after the workers returned.       *)
DecideWithoutBudget ==
    /\ phase = "consensus"
    /\ Decision
    /\ UNCHANGED <<result, late, ctx, gone>>

Decide ==
    /\ phase = "consensus"
    /\ \/ ctx = "deadline" /\ GoTo("hold") /\ UNCHANGED agreed
       \/ ctx # "deadline" /\ Decision
    /\ UNCHANGED <<result, late, ctx, gone>>

(* The transaction commits; an ambiguous or deleted match is held; any     *)
(* other error, the client's absence among them, is answered as such.      *)
Commit ==
    /\ phase = "commit"
    /\ \/ ~gone /\ Answer("committed")
       \/ ~gone /\ GoTo("hold")
       \/ Answer("error")
    /\ UNCHANGED <<result, late, ctx, gone, agreed>>

(* Nothing can be held of an extraction without identity.                  *)
Hold ==
    /\ phase = "hold"
    /\ \/ /\ ~gone /\ agreed.ext # None
          /\ Answer("held")
       \/ Answer("error")
    /\ UNCHANGED <<result, late, ctx, gone, agreed>>

(* The next upload.                                                        *)
Receive ==
    /\ phase = "done"
    /\ phase'   = "extract"
    /\ result'  = [w \in Workers |-> None]
    /\ late'    = {}
    /\ ctx'     = "open"
    /\ gone'    = FALSE
    /\ agreed'  = Nobody
    /\ outcome' = "none"

Worker(w) ==
    \/ \E answer \in Answers : Answered(w, answer)
    \/ ChatFails(w) \/ ChatTimesOut(w) \/ WorkerDeadline(w)

Next ==
    \/ \E w \in Workers : Worker(w)
    \/ ProcessDeadline \/ ClientLeaves
    \/ Gather \/ Decide \/ Commit \/ Hold
    \/ Receive

(* The clocks go on and the request's goroutines run; providers owe no     *)
(* answer and clients no upload.                                           *)
Time == \E w \in Workers : WorkerDeadline(w)
Code == Gather \/ Decide \/ Commit \/ Hold \/ \E w \in Workers : ChatTimesOut(w)

Fairness == WF_vars(Time) /\ WF_vars(Code)

Spec == Init /\ [][Next]_vars /\ Fairness

-----------------------------------------------------------------------------
(* Properties.                                                             *)

(* However its siblings fared, nothing that a worker read of the identity  *)
(* is lost: from the vote to the answer to the client it is the field's    *)
(* value, or the field is among those left open; and a field is left open  *)
(* only when two workers read it differently (Run: one worker's failure    *)
(* never cancels its siblings; Consensus).                                 *)
NothingHeardIsLost ==
    phase # "extract" =>
        \A f \in IdentityFields :
            LET heard == {Reconciled(result[w])[f] : w \in Heard(result)} \ {<<>>}
            IN  /\ \A v \in heard :
                      agreed.conf > 0 /\ (agreed.ext[f] = v \/ f \in agreed.unresolved)
                /\ f \in agreed.unresolved => \E v, w \in heard : v # w

(* Nothing is committed unseen on the word of one worker or against        *)
(* another: behind a commit stand two answers at least, and any two that   *)
(* give a serial, a brand or a model give the same one once reconciled.    *)
CommitHasTwoWitnesses ==
    Threshold > 6 /\ (phase = "commit" \/ outcome = "committed") =>
        LET R(w)  == Reconciled(result[w])
        IN  /\ Cardinality(Heard(result)) > 1
            /\ \A v, w \in Heard(result), f \in IdentityFields :
                  R(v)[f] = R(w)[f] \/ R(v)[f] = <<>> \/ R(w)[f] = <<>>

(* Past the time budget a request is only ever held or answered with an    *)
(* error: a deadline that passes between the last answer and the decision  *)
(* is seen (Process, step 7).                                              *)
LateIsHeld ==
    ctx = "deadline" => outcome \in {"none", "held", "error"} \/ phase = "extract"

(* No brand is told apart from a model by its digits: true of the list in  *)
(* the code, and of one set by PROCRASTINATOR_BRAND_LEXICON unless it has  *)
(* such a brand.                                                           *)
PlainLexicon ==
    \A brand \in Range(Lexicon), w \in WithDigit :
        \A i \in DOMAIN brand : Lower[brand[i]] # Lower[w]

(* A description with a space and a model word in it is never taken for a  *)
(* model, no matter how many workers gave it wholesale (SplitDescription). *)
ModelIsNoDescription ==
    PlainLexicon /\ agreed.ext # None => ~(hasSpace(agreed.ext.model) /\ containsDigit(agreed.ext.model))

SameVerdict(c, d) ==
    /\ c.conf = d.conf /\ c.unresolved = d.unresolved
    /\ c.ext # None => \A f \in IdentityFields : c.ext[f] = d.ext[f]

Orders == {order \in [Workers -> Workers] : IsInjective(order)}

(* The identity, the confidence and the fields left open do not depend on  *)
(* the order in which the workers are configured, whatever they answered.  *)
OrderDoesNotDecide ==
    phase = "consensus" =>
        \A order \in Orders :
            SameVerdict(agreed, Consensus([w \in Workers |-> result[order[w]]]))

(* No warranty is longer or shorter than the documents say: a product that *)
(* is committed has the end one of the workers read, or, in years and      *)
(* months only, ends in exactly the month counted from the purchase, on    *)
(* the day of the purchase or on the last of a month that has no such day. *)
WarrantyEndsOnTime ==
    phase = "commit" /\ agreed.ext.ends # <<>> =>
        LET read == {result[w] : w \in Heard(result)}
            ends == agreed.ext.ends
        IN  \/ ends \in {r.ends : r \in read}
            \/ \E sale, terms \in read :
                  /\ sale.bought # <<>> /\ terms.lasts # <<>>
                  /\ (ends[1] - sale.bought[1]) * 12 + ends[2] - sale.bought[2]
                        = terms.lasts[1] * 12 + terms.lasts[2]
                  /\ \/ ends[3] = sale.bought[3]
                     \/ ends[3] < sale.bought[3] /\ ends[3] = lastDayOfMonth(ends[1], ends[2])
            \/ \E terms \in read : terms.lasts # <<>> /\ terms.lasts[3] > 0

(* A category of the vocabulary that a worker read is never lost, neither  *)
(* to another worker's word for it that is not one nor to the keywords;    *)
(* the highest confidence has a worker and a keyword behind it, and at the *)
(* lowest is only what no worker and no keyword of any category knows,     *)
(* which is "other" (InferCategory).                                       *)
CategoryIsHeard ==
    agreed.ext # None /\ agreed.ext.categoryConfidence > 0 =>
        LET heard == {result[w].category : w \in Heard(result)} \intersect Categories
            ext   == agreed.ext
            known == {Keywords[i][1] : i \in Matching(CategoryText(ext.name, ext.brand))}
        IN  /\ ext.category \in Categories
            /\ heard # {} => ext.category \in heard
            /\ ext.categoryConfidence = 9 => ext.category \in heard \intersect known
            /\ ext.categoryConfidence = 5 => heard = {} /\ known = {} /\ ext.category = <<"other">>

(* Every request is answered although no provider ever is obliged to.      *)
RequestsEnd == phase = "extract" ~> phase = "done"

=============================================================================

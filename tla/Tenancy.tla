------------------------------- MODULE Tenancy -------------------------------
(***************************************************************************)
(* Who may see and write what: households, their members, and the rows     *)
(* they share.  A row has an owner and perhaps a household; its owner and  *)
(* every member of the household may read it.  The rule stands three times *)
(* in the code: the condition the application adds to its queries, the row *)
(* policies of the database, and the trigger on the household of a row.    *)
(*                                                                         *)
(* A request is one or more transactions, and a transaction several        *)
(* statements; each statement sees what was committed before it.  No       *)
(* operation ends a membership.                                            *)
(***************************************************************************)
EXTENDS Integers, FiniteSets

CONSTANTS
    NoVal,
    Users,         \* the registered users
    Guests,        \* names nobody registered
    Households,    \* keys of households
    Rows,          \* keys of rows of the owned tables
    Documents,     \* those of documents, which have a source
    Handlers       \* concurrent requests

VARIABLES
    household,     \* Households -> the owner, NoVal before it exists
    members,       \* Households -> its members
    row,           \* Rows -> the row, NoVal before it exists
    request        \* Handlers -> where the request is and what it has read

tenancyVars == <<household, members, row, request>>

Scope   == [owner : Users, household : Households \cup {NoVal}]
Row     == [owner : Users, household : Households \cup {NoVal},
            uploader : Users \cup {NoVal},        \* the owner of its source
            at : 1 .. Cardinality(Rows)]         \* created_at
Answer  == UNION {[S -> SUBSET Users] : S \in SUBSET Households}
Request == [pc : {"idle", "member", "insert", "visible", "members", "create", "refused"},
            user : Users \cup {NoVal},
            household : Households \cup {NoVal},
            target : Users \cup Guests \cup {NoVal},
            row : Rows \cup {NoVal}, new : Row \cup {NoVal},
            mine : SUBSET Households, todo : SUBSET Households,
            answer : Answer]
NoAnswer == [h \in {} |-> {}]
Idle    == [pc |-> "idle", user |-> NoVal, household |-> NoVal, target |-> NoVal,
            row |-> NoVal, new |-> NoVal, mine |-> {}, todo |-> {}, answer |-> NoAnswer]

ASSUME TenancyAssumption ==
    /\ NoVal \notin Users \cup Guests \cup Households \cup Rows \cup Row
    /\ Users \cap Guests = {}
    /\ Documents \subseteq Rows /\ IsFiniteSet(Rows)

TenancyInit ==
    /\ household = [h \in Households |-> NoVal]
    /\ members   = [h \in Households |-> {}]
    /\ row       = [r \in Rows |-> NoVal]
    /\ request   = [c \in Handlers |-> Idle]

Continue(c, state) == request' = [request EXCEPT ![c] = state]
Finish(c)          == Continue(c, Idle)
At(c, pc)          == request[c].pc = pc
Exists(h)          == household[h] # NoVal
ScopeOf(r)         == [owner |-> row[r].owner, household |-> row[r].household]
SourceScopeOf(r)   == [owner |-> row[r].uploader, household |-> row[r].household]

-----------------------------------------------------------------------------
(* The application's rule.  The households are read by one statement, the  *)
(* rows by the next.                                                       *)

householdsForUser(u) == {h \in Households : u \in members[h]}

isMember(u, h) == u \in members[h]

visibilityCond(u, mine, scope) ==
    scope.owner = u \/ (scope.household # NoVal /\ scope.household \in mine)

householdVisibilityCond(u, mine, h) == household[h] = u \/ h \in mine

(* The database's rules, for the user the transaction is bound to.         *)

fn_visible_households(u) == {h \in Households : u \in members[h]}

(* A mutant: the policy knows only the owner.                              *)
OwnerIsolation(u, scope) == scope.owner = u

IsolationPolicy(u, scope) ==
    scope.owner = u \/ (scope.household # NoVal /\ scope.household \in fn_visible_households(u))

HouseholdPolicy(u, h) == household[h] = u \/ h \in fn_visible_households(u)

MemberPolicy(u, v, h) == v = u \/ h \in fn_visible_households(u) \/ household[h] = u

enforceHouseholdMembership(u, h) == h # NoVal => u \in members[h] \/ household[h] = u

Visible(u, mine, scope) == visibilityCond(u, mine, scope) /\ IsolationPolicy(u, scope)

-----------------------------------------------------------------------------
(* Households.                                                             *)

(* GET of one household, or of all that the user can see: first the user's *)
(* memberships.  `wanted` is what the query asks for.                      *)
ReadHouseholds(c, u, wanted) ==
    Continue(c, [Idle EXCEPT !.pc = "visible", !.user = u,
                             !.mine = householdsForUser(u), !.todo = wanted])

GetHousehold(c, u, h) ==
    /\ At(c, "idle")
    /\ ReadHouseholds(c, u, {h})
    /\ UNCHANGED <<household, members, row>>

ListMyHouseholds(c, u) ==
    /\ At(c, "idle")
    /\ ReadHouseholds(c, u, Households)
    /\ UNCHANGED <<household, members, row>>

(* A mutant: the creator is not made a member.                             *)
CreateHouseholdOnly(c, u, h) ==
    /\ At(c, "idle") /\ ~Exists(h)
    /\ household' = [household EXCEPT ![h] = u]
    /\ ReadHouseholds(c, u, {h})
    /\ UNCHANGED <<members, row>>

(* The household and its first member are one transaction; the same        *)
(* request then reads the household back.                                  *)
CreateHousehold(c, u, h) ==
    /\ At(c, "idle") /\ ~Exists(h)
    /\ household' = [household EXCEPT ![h] = u]
    /\ members' = [members EXCEPT ![h] = @ \cup {u}]
    /\ Continue(c, [Idle EXCEPT !.pc = "visible", !.user = u,
                                !.mine = householdsForUser(u) \cup {h}, !.todo = {h}])
    /\ UNCHANGED row

(* Nothing visible: not found, or an empty list.                           *)
ReadVisible(c) ==
    LET u    == request[c].user
        seen == {h \in request[c].todo : /\ Exists(h)
                                         /\ householdVisibilityCond(u, request[c].mine, h)
                                         /\ HouseholdPolicy(u, h)}
    IN  /\ At(c, "visible")
        /\ IF seen = {} THEN Finish(c)
           ELSE Continue(c, [request[c] EXCEPT !.pc = "members", !.todo = seen])
        /\ UNCHANGED <<household, members, row>>

(* The members are listed household by household, the user's own first.    *)
ListMembers(c, h) ==
    LET u == request[c].user
    IN  /\ At(c, "members") /\ h \in request[c].todo
        /\ (\E g \in request[c].todo : household[g] = u) => household[h] = u
        /\ Continue(c, [request[c] EXCEPT
                !.todo = @ \ {h},
                !.answer = [g \in DOMAIN @ \cup {h} |->
                    IF g = h THEN {v \in members[h] : MemberPolicy(u, v, h)} ELSE @[g]]])
        /\ UNCHANGED <<household, members, row>>

Respond(c) ==
    /\ At(c, "members") /\ request[c].todo = {}
    /\ Finish(c)
    /\ UNCHANGED <<household, members, row>>

(* AddMember asks, each in a transaction of its own: does the household    *)
(* exist, is the requester a member, is the target registered; then it     *)
(* inserts.                                                                *)
AddMember(c, u, h, t) ==
    /\ At(c, "idle") /\ Exists(h)
    /\ Continue(c, [Idle EXCEPT !.pc = "member", !.user = u, !.household = h, !.target = t])
    /\ UNCHANGED <<household, members, row>>

(* A mutant: whoever knows the household may go on.                        *)
CheckNobody(c) ==
    /\ At(c, "member")
    /\ Continue(c, [request[c] EXCEPT !.pc = "insert"])
    /\ UNCHANGED <<household, members, row>>

CheckMember(c) ==
    /\ At(c, "member")
    /\ IF isMember(request[c].user, request[c].household)
       THEN Continue(c, [request[c] EXCEPT !.pc = "insert"])
       ELSE Finish(c)
    /\ UNCHANGED <<household, members, row>>

(* A mutant: nobody asks whether the target is registered.                 *)
InsertAnyone(c) ==
    LET h == request[c].household
    IN  /\ At(c, "insert")
        /\ members' = [members EXCEPT ![h] = @ \cup {request[c].target}]
        /\ Finish(c)
        /\ UNCHANGED <<household, row>>

InsertMember(c) ==
    LET u == request[c].user
        h == request[c].household
        t == request[c].target
        inserted == t \in Users /\ MemberPolicy(u, t, h)
    IN  /\ At(c, "insert")
        /\ members' = IF inserted THEN [members EXCEPT ![h] = @ \cup {t}] ELSE members
        /\ IF inserted \/ t \in Guests THEN Finish(c)
           ELSE Continue(c, [Idle EXCEPT !.pc = "refused"])
        /\ UNCHANGED <<household, row>>

-----------------------------------------------------------------------------
(* Rows.  An upload's rows have its user as owner, in the household it was *)
(* made for.  The document of an approved review has the approver as owner *)
(* and the household of the review; its source stays the uploader's.       *)

(* A mutant: reviews are found by their key alone.                         *)
AnyReviews(u) == {s \in Scope : s.household # NoVal => isMember(s.owner, s.household)}

(* The scopes of the reviews that u may find.                              *)
ReviewsFor(u) == {s \in Scope : /\ s.household # NoVal => isMember(s.owner, s.household)
                               /\ Visible(u, householdsForUser(u), s)}

UploadsOf(u) == {s \in Scope : s.owner = u}

Started(r) == row[r] # NoVal \/ \E c \in Handlers : request[c].row = r

(* A mutant: the membership is not looked up.                              *)
BeginAnyRow(c, u, r, s) ==
    /\ At(c, "idle") /\ ~Started(r)
    /\ Continue(c, [Idle EXCEPT !.pc = "create", !.user = u, !.row = r,
            !.new = [owner |-> u, household |-> s.household,
                     uploader |-> IF r \in Documents THEN s.owner ELSE NoVal,
                     at |-> Cardinality({q \in Rows : Started(q)}) + 1]])
    /\ UNCHANGED <<household, members, row>>

(* The transaction that inserts a row begins, which is the row's time, and *)
(* looks up the membership.                                                *)
BeginRow(c, u, r, s) ==
    /\ s.household # NoVal => isMember(u, s.household)
    /\ BeginAnyRow(c, u, r, s)

InsertRow(c) ==
    LET new     == request[c].new
        allowed == /\ IsolationPolicy(request[c].user, new)
                   /\ enforceHouseholdMembership(request[c].user, new.household)
    IN  /\ At(c, "create")
        /\ row' = IF allowed THEN [row EXCEPT ![request[c].row] = new] ELSE row
        /\ IF allowed THEN Finish(c) ELSE Continue(c, [Idle EXCEPT !.pc = "refused"])
        /\ UNCHANGED <<household, members>>

TenancyNext ==
    \E c \in Handlers :
        \/ /\ At(c, "idle")
           /\ \E u \in Users :
              \/ ListMyHouseholds(c, u)
              \/ \E h \in Households :
                    \/ GetHousehold(c, u, h)
                    \/ CreateHousehold(c, u, h)
                    \/ \E t \in Users \cup Guests : AddMember(c, u, h, t)
              \/ \E r \in Rows, s \in UploadsOf(u) \cup ReviewsFor(u) :
                    BeginRow(c, u, r, s)
        \/ \E h \in Households : ListMembers(c, h)
        \/ ReadVisible(c) \/ Respond(c)
        \/ CheckMember(c) \/ InsertMember(c)
        \/ InsertRow(c)

TenancySpec == TenancyInit /\ [][TenancyNext]_tenancyVars

-----------------------------------------------------------------------------
TenancyTypeOK ==
    /\ household \in [Households -> Users \cup {NoVal}]
    /\ members \in [Households -> SUBSET Users]
    /\ row \in [Rows -> Row \cup {NoVal}]
    /\ request \in [Handlers -> Request]

(* Whoever asks for households gets only such as name it among their       *)
(* members, however the three reads of a request interleave with others.   *)
AnswersNameTheRequester ==
    \A c \in Handlers : \A h \in DOMAIN request[c].answer :
        request[c].user \in request[c].answer[h]

(* What the application checks before an insert is enough for the          *)
(* database: no insert is stopped by a policy or by the trigger, though    *)
(* the check is an earlier statement or an earlier transaction.            *)
NothingIsRefused == \A c \in Handlers : ~At(c, "refused")

(* The policy on sources hides no source of a document a user may see:     *)
(* the inner join of documents with their sources loses no document, also  *)
(* when a member approved what another had uploaded.                       *)
JoinHidesNothing ==
    \A r \in Documents, u \in Users :
        row[r] # NoVal /\ visibilityCond(u, householdsForUser(u), ScopeOf(r)) =>
            IsolationPolicy(u, SourceScopeOf(r))

(* A user enters a household as its creator or by the request of one who   *)
(* is a member already.  The database alone would let users add            *)
(* themselves.                                                             *)
MembersAreInvited ==
    [][\A h \in Households : \A t \in members'[h] \ members[h] :
          \/ household[h] = NoVal /\ household'[h] = t
          \/ \E c \in Handlers : /\ At(c, "insert")
                                 /\ request[c].household = h /\ request[c].target = t
                                 /\ request[c].user \in members[h]]_<<household, members>>

=============================================================================

--------------------------- MODULE TenancyProofs ---------------------------
(***************************************************************************)
(* Proofs about modules Tenancy and Search, for any users, households,     *)
(* rows, kinds, page size and concurrent requests.  The argument rests on  *)
(* memberships that only grow: whatever a request or a search learnt about *)
(* them in an earlier statement or an earlier transaction still holds when *)
(* it acts on it.  A search also rests on rows that keep the times they    *)
(* began with, of which no two are alike, and on a count of those that     *)
(* were deleted.                                                           *)
(***************************************************************************)
EXTENDS Search, FiniteSetTheorems, SequenceTheorems, TLAPS

(* What a request has in its memory, given the memberships mem.            *)
RequestOK(q, mem) ==
    /\ q.pc # "refused"
    /\ q.pc # "idle" => q.user \in Users
    /\ q.pc \in {"member", "insert"} => q.household \in Households /\ q.target \in Users \cup Guests
    /\ q.pc = "insert" => q.user \in mem[q.household]
    /\ q.pc = "visible" => \A h \in q.mine : q.user \in mem[h]
    /\ q.pc = "members" => \A h \in q.todo : q.user \in mem[h]
    /\ \A h \in DOMAIN q.answer : q.user \in q.answer[h]
    /\ q.pc = "create" => /\ q.row \in Rows /\ q.new \in Row /\ q.new.owner = q.user

(* A row is one its owner may have made: in a household of the owner, or   *)
(* private and then from a source of the owner's own.                      *)
RowOK(r, x, mem) ==
    /\ x.household # NoVal => x.owner \in mem[x.household]
    /\ r \in Documents /\ x.household = NoVal => x.uploader = x.owner

OwnersAreMembers == \A h \in Households : Exists(h) => household[h] \in members[h]

RequestsOK ==
    \A c \in Handlers :
        /\ RequestOK(request[c], members)
        /\ At(c, "create") => RowOK(request[c].row, request[c].new, members)

RowsOK == \A r \in Rows : row[r] # NoVal => RowOK(r, row[r], members)

IInv == TenancyTypeOK /\ OwnersAreMembers /\ RequestsOK /\ RowsOK

-----------------------------------------------------------------------------
(* A step gives one request a new memory and makes no membership end: the  *)
(* other requests' memories stay true.                                     *)
LEMMA RequestStep ==
    ASSUME IInv, NEW mem \in [Households -> SUBSET Users],
           \A h \in Households : members[h] \subseteq mem[h],
           NEW c \in Handlers, NEW q \in Request,
           RequestOK(q, mem),
           q.pc = "create" => RowOK(q.row, q.new, mem)
    PROVE  LET next == [request EXCEPT ![c] = q]
           IN  /\ next \in [Handlers -> Request]
               /\ \A g \in Handlers :
                     /\ RequestOK(next[g], mem)
                     /\ next[g].pc = "create" => RowOK(next[g].row, next[g].new, mem)
<1> DEFINE next == [request EXCEPT ![c] = q]
<1>1. next \in [Handlers -> Request]
  BY DEF IInv, TenancyTypeOK
<1>2. ASSUME NEW g \in Handlers, g # c
      PROVE  /\ RequestOK(request[g], mem)
             /\ request[g].pc = "create" => RowOK(request[g].row, request[g].new, mem)
  <2>1. request[g] \in Request
    BY DEF IInv, TenancyTypeOK
  <2>2. RequestOK(request[g], members)
    BY DEF IInv, RequestsOK
  <2>3. RequestOK(request[g], mem)
    BY <2>1, <2>2 DEF RequestOK, Request
  <2>4. ASSUME request[g].pc = "create"
        PROVE  RowOK(request[g].row, request[g].new, mem)
    <3>1. RowOK(request[g].row, request[g].new, members) /\ request[g].new \in Row
      BY <2>2, <2>4 DEF IInv, RequestsOK, At, RequestOK
    <3> QED BY <3>1 DEF RowOK, Row
  <2> QED BY <2>3, <2>4
<1>3. \A g \in Handlers : next[g] = IF g = c THEN q ELSE request[g]
  BY DEF IInv, TenancyTypeOK
<1> QED BY <1>1, <1>2, <1>3

LEMMA RowsStay ==
    ASSUME IInv, NEW mem \in [Households -> SUBSET Users],
           \A h \in Households : members[h] \subseteq mem[h]
    PROVE  \A r \in Rows : row[r] # NoVal => RowOK(r, row[r], mem)
BY DEF IInv, TenancyTypeOK, RowsOK, RowOK, Row

LEMMA IdleOK ==
    ASSUME NEW mem
    PROVE  Idle \in Request /\ RequestOK(Idle, mem) /\ Idle.pc = "idle"
<1>1. NoAnswer \in Answer /\ DOMAIN NoAnswer = {}
  <2>1. NoAnswer \in [{} -> SUBSET Users]
    BY DEF NoAnswer
  <2> QED BY <2>1 DEF Answer
<1> QED BY <1>1 DEF Idle, Request, RequestOK

(* Started counts the rows taken so far: the time of the next one.         *)
LEMMA NextTime ==
    ASSUME NEW r \in Rows, ~Started(r)
    PROVE  Cardinality({p \in Rows : Started(p)}) + 1 \in 1 .. Cardinality(Rows)
<1> DEFINE S == {p \in Rows : Started(p)}
           T == Rows \ {r}
<1>1. IsFiniteSet(Rows)
  BY TenancyAssumption DEF TenancyAssumption
<1>2. IsFiniteSet(T) /\ Cardinality(T) = Cardinality(Rows) - 1
  BY <1>1, FS_RemoveElement
<1>3. S \subseteq T
  OBVIOUS
<1>4. IsFiniteSet(S) /\ Cardinality(S) <= Cardinality(T)
  BY <1>2, <1>3, FS_Subset
<1>5. Cardinality(S) \in Nat /\ Cardinality(Rows) \in Nat
  BY <1>1, <1>4, FS_CardinalityType
<1> QED BY <1>2, <1>4, <1>5

(* A step that changes one request's memory only.                          *)
LEMMA ReadStep ==
    ASSUME IInv, NEW c \in Handlers, NEW q \in Request,
           RequestOK(q, members),
           q.pc = "create" => RowOK(q.row, q.new, members),
           Continue(c, q), UNCHANGED <<household, members, row>>
    PROVE  IInv'
<1>1. /\ request' \in [Handlers -> Request]
      /\ \A g \in Handlers :
            /\ RequestOK(request'[g], members)
            /\ request'[g].pc = "create" => RowOK(request'[g].row, request'[g].new, members)
  <2>1. members \in [Households -> SUBSET Users]
    BY DEF IInv, TenancyTypeOK
  <2> QED BY <2>1, RequestStep DEF Continue
<1>2. TenancyTypeOK'
  BY <1>1 DEF IInv, TenancyTypeOK
<1>3. OwnersAreMembers' /\ RowsOK'
  BY DEF IInv, OwnersAreMembers, Exists, RowsOK
<1>4. RequestsOK'
  BY <1>1 DEF RequestsOK, At
<1> QED BY <1>2, <1>3, <1>4 DEF IInv

LEMMA FinishStep ==
    ASSUME IInv, NEW c \in Handlers, Finish(c), UNCHANGED <<household, members, row>>
    PROVE  IInv'
<1>1. Idle \in Request /\ RequestOK(Idle, members) /\ Idle.pc = "idle"
  BY IdleOK
<1> QED BY <1>1, ReadStep DEF Finish

-----------------------------------------------------------------------------
(* The reads.                                                              *)
LEMMA ReadHouseholdsStep ==
    ASSUME IInv, NEW c \in Handlers, NEW u \in Users, NEW wanted \in SUBSET Households,
           ReadHouseholds(c, u, wanted), UNCHANGED <<household, members, row>>
    PROVE  IInv'
<1> DEFINE q == [Idle EXCEPT !.pc = "visible", !.user = u,
                             !.mine = householdsForUser(u), !.todo = wanted]
<1>1. Idle \in Request /\ RequestOK(Idle, members)
  BY IdleOK
<1>2. q \in Request
  BY <1>1 DEF Request, householdsForUser
<1>3. RequestOK(q, members) /\ q.pc = "visible"
  <2>1. DOMAIN q.answer = {}
    BY DEF Idle, NoAnswer
  <2> QED BY <1>1, <2>1 DEF Idle, RequestOK, householdsForUser
<1> QED BY <1>2, <1>3, ReadStep DEF ReadHouseholds

LEMMA ReadVisibleStep ==
    ASSUME IInv, NEW c \in Handlers, ReadVisible(c)
    PROVE  IInv'
<1> DEFINE u    == request[c].user
           seen == {h \in request[c].todo : /\ Exists(h)
                                            /\ householdVisibilityCond(u, request[c].mine, h)
                                            /\ HouseholdPolicy(u, h)}
           q    == [request[c] EXCEPT !.pc = "members", !.todo = seen]
<1>1. request[c] \in Request /\ RequestOK(request[c], members) /\ request[c].pc = "visible"
  BY DEF IInv, TenancyTypeOK, RequestsOK, ReadVisible, At
<1>2. q \in Request
  BY <1>1 DEF Request
<1>3. \A h \in seen : u \in members[h]
  <2> SUFFICES ASSUME NEW h \in seen PROVE u \in members[h]
    OBVIOUS
  <2>1. h \in Households
    BY <1>1 DEF Request
  <2>2. household[h] = u \/ h \in request[c].mine
    BY DEF householdVisibilityCond
  <2>3. CASE household[h] = u
    BY <2>1, <2>3 DEF IInv, OwnersAreMembers
  <2>4. CASE h \in request[c].mine
    BY <1>1, <2>4 DEF RequestOK
  <2> QED BY <2>2, <2>3, <2>4
<1>4. RequestOK(q, members)
  BY <1>1, <1>3 DEF RequestOK, Request
<1>5. CASE seen = {}
  BY <1>5, FinishStep DEF ReadVisible
<1>6. CASE seen # {}
  <2>1. Continue(c, q) /\ UNCHANGED <<household, members, row>>
    BY <1>6 DEF ReadVisible
  <2>2. q.pc = "members"
    BY <1>1 DEF Request
  <2> QED BY <1>2, <1>4, <2>1, <2>2, ReadStep
<1> QED BY <1>5, <1>6

LEMMA ListMembersStep ==
    ASSUME IInv, NEW c \in Handlers, NEW h \in Households, ListMembers(c, h)
    PROVE  IInv'
<1> DEFINE u == request[c].user
           A == request[c].answer
           B == [g \in DOMAIN A \cup {h} |->
                    IF g = h THEN {v \in members[h] : MemberPolicy(u, v, h)} ELSE A[g]]
           q == [request[c] EXCEPT !.todo = @ \ {h}, !.answer = B]
<1>1. request[c] \in Request /\ RequestOK(request[c], members) /\ request[c].pc = "members"
  BY DEF IInv, TenancyTypeOK, RequestsOK, ListMembers, At
<1>2. B \in Answer
  <2>1. PICK S \in SUBSET Households : A \in [S -> SUBSET Users]
    BY <1>1 DEF Request, Answer
  <2>2. members[h] \subseteq Users
    BY DEF IInv, TenancyTypeOK
  <2>3. B \in [S \cup {h} -> SUBSET Users]
    BY <2>1, <2>2
  <2> QED BY <2>3 DEF Answer
<1>3. q \in Request
  BY <1>1, <1>2 DEF Request
<1>4. u \in members[h]
  BY <1>1 DEF ListMembers, RequestOK
<1>5. \A g \in DOMAIN B : u \in B[g]
  BY <1>1, <1>4 DEF RequestOK, MemberPolicy
<1>6. RequestOK(q, members) /\ q.pc = "members"
  BY <1>1, <1>5 DEF RequestOK, Request
<1>7. Continue(c, q) /\ UNCHANGED <<household, members, row>>
  BY DEF ListMembers
<1> QED BY <1>3, <1>6, <1>7, ReadStep

LEMMA AddMemberStep ==
    ASSUME IInv, NEW c \in Handlers, NEW u \in Users, NEW h \in Households,
           NEW t \in Users \cup Guests, AddMember(c, u, h, t)
    PROVE  IInv'
<1> DEFINE q == [Idle EXCEPT !.pc = "member", !.user = u, !.household = h, !.target = t]
<1>1. Idle \in Request /\ RequestOK(Idle, members)
  BY IdleOK
<1>2. q \in Request
  BY <1>1 DEF Request
<1>3. RequestOK(q, members) /\ q.pc = "member"
  <2>1. DOMAIN q.answer = {}
    BY DEF Idle, NoAnswer
  <2> QED BY <1>1, <2>1 DEF Idle, RequestOK
<1> QED BY <1>2, <1>3, ReadStep DEF AddMember

LEMMA CheckMemberStep ==
    ASSUME IInv, NEW c \in Handlers, CheckMember(c)
    PROVE  IInv'
<1> DEFINE q == [request[c] EXCEPT !.pc = "insert"]
<1>1. request[c] \in Request /\ RequestOK(request[c], members) /\ request[c].pc = "member"
  BY DEF IInv, TenancyTypeOK, RequestsOK, CheckMember, At
<1>2. CASE isMember(request[c].user, request[c].household)
  <2>1. q \in Request /\ RequestOK(q, members) /\ q.pc = "insert"
    BY <1>1, <1>2 DEF Request, RequestOK, isMember
  <2> QED BY <1>2, <2>1, ReadStep DEF CheckMember
<1>3. CASE ~isMember(request[c].user, request[c].household)
  BY <1>3, FinishStep DEF CheckMember
<1> QED BY <1>2, <1>3

-----------------------------------------------------------------------------
(* The writes.                                                             *)
LEMMA CreateHouseholdStep ==
    ASSUME IInv, NEW c \in Handlers, NEW u \in Users, NEW h \in Households,
           CreateHousehold(c, u, h)
    PROVE  IInv'
<1> DEFINE q == [Idle EXCEPT !.pc = "visible", !.user = u,
                             !.mine = householdsForUser(u) \cup {h}, !.todo = {h}]
<1>1. /\ household' = [household EXCEPT ![h] = u]
      /\ members' = [members EXCEPT ![h] = @ \cup {u}]
      /\ Continue(c, q) /\ row' = row
  BY DEF CreateHousehold
<1>2. /\ members' \in [Households -> SUBSET Users]
      /\ household' \in [Households -> Users \cup {NoVal}]
      /\ \A g \in Households : members[g] \subseteq members'[g]
      /\ u \in members'[h]
  BY <1>1 DEF IInv, TenancyTypeOK
<1>3. Idle \in Request /\ DOMAIN Idle.answer = {}
  BY IdleOK DEF Idle, NoAnswer
<1>4. q \in Request /\ q.pc = "visible"
  BY <1>3 DEF Request, householdsForUser
<1>5. RequestOK(q, members')
  <2>1. \A g \in q.mine : u \in members'[g]
    BY <1>2, <1>3 DEF householdsForUser, Request
  <2>2. /\ q.user = u /\ q.answer = Idle.answer
    BY DEF Idle
  <2> QED BY <1>3, <1>4, <2>1, <2>2 DEF RequestOK
<1>6. /\ request' \in [Handlers -> Request]
      /\ \A g \in Handlers :
            /\ RequestOK(request'[g], members')
            /\ request'[g].pc = "create" => RowOK(request'[g].row, request'[g].new, members')
  BY <1>1, <1>2, <1>4, <1>5, RequestStep DEF Continue
<1>7. TenancyTypeOK' /\ RequestsOK'
  BY <1>1, <1>2, <1>6 DEF IInv, TenancyTypeOK, RequestsOK, At
<1>8. OwnersAreMembers'
  BY <1>1, <1>2 DEF IInv, TenancyTypeOK, OwnersAreMembers, Exists
<1>9. RowsOK'
  BY <1>1, <1>2, RowsStay DEF RowsOK
<1> QED BY <1>7, <1>8, <1>9 DEF IInv

(* Inside a household, a member's insert is one the policy lets through.   *)
LEMMA InsertIsAllowed ==
    ASSUME IInv, NEW c \in Handlers, At(c, "insert")
    PROVE  /\ request[c].household \in Households
           /\ request[c].user \in members[request[c].household]
           /\ request[c].target \in Users \/ request[c].target \in Guests
           /\ \A t : MemberPolicy(request[c].user, t, request[c].household)
BY DEF IInv, RequestsOK, RequestOK, At, MemberPolicy, fn_visible_households

LEMMA InsertMemberStep ==
    ASSUME IInv, NEW c \in Handlers, InsertMember(c)
    PROVE  IInv'
<1> DEFINE u == request[c].user
           h == request[c].household
           t == request[c].target
           inserted == t \in Users /\ MemberPolicy(u, t, h)
<1>1. /\ h \in Households /\ (t \in Users \/ t \in Guests)
      /\ t \in Users => inserted
  BY InsertIsAllowed DEF InsertMember
<1>2. /\ members' = IF inserted THEN [members EXCEPT ![h] = @ \cup {t}] ELSE members
      /\ Finish(c) /\ household' = household /\ row' = row
  BY <1>1 DEF InsertMember
<1>3. /\ members' \in [Households -> SUBSET Users]
      /\ \A g \in Households : members[g] \subseteq members'[g]
  BY <1>1, <1>2 DEF IInv, TenancyTypeOK
<1>4. Idle \in Request /\ RequestOK(Idle, members') /\ Idle.pc = "idle"
  BY IdleOK
<1>5. /\ request' \in [Handlers -> Request]
      /\ \A g \in Handlers :
            /\ RequestOK(request'[g], members')
            /\ request'[g].pc = "create" => RowOK(request'[g].row, request'[g].new, members')
  BY <1>2, <1>3, <1>4, RequestStep DEF Finish, Continue
<1>6. TenancyTypeOK' /\ RequestsOK'
  BY <1>2, <1>3, <1>5 DEF IInv, TenancyTypeOK, RequestsOK, At
<1>7. OwnersAreMembers'
  BY <1>2, <1>3 DEF IInv, OwnersAreMembers, Exists
<1>8. RowsOK'
  BY <1>2, <1>3, RowsStay DEF RowsOK
<1> QED BY <1>6, <1>7, <1>8 DEF IInv

(* The scopes a document may be made in: a private one is the user's own.  *)
LEMMA OwnScopes ==
    ASSUME NEW u \in Users, NEW s \in UploadsOf(u) \cup ReviewsFor(u)
    PROVE  s \in Scope /\ (s.household = NoVal => s.owner = u)
BY DEF UploadsOf, ReviewsFor, Scope, Visible, visibilityCond

LEMMA BeginRowStep ==
    ASSUME IInv, NEW c \in Handlers, NEW u \in Users, NEW r \in Rows,
           NEW s \in UploadsOf(u) \cup ReviewsFor(u), BeginRow(c, u, r, s)
    PROVE  IInv'
<1> DEFINE x == [owner |-> u, household |-> s.household,
                 uploader |-> IF r \in Documents THEN s.owner ELSE NoVal,
                 at |-> Cardinality({p \in Rows : Started(p)}) + 1]
           q == [Idle EXCEPT !.pc = "create", !.user = u, !.row = r, !.new = x]
<1>1. s \in Scope /\ (s.household = NoVal => s.owner = u)
  BY OwnScopes
<1>2. /\ ~Started(r) /\ (s.household # NoVal => u \in members[s.household])
      /\ Continue(c, q) /\ UNCHANGED <<household, members, row>>
  BY DEF BeginRow, BeginAnyRow, isMember
<1>3. x \in Row
  <2>1. x.at \in 1 .. Cardinality(Rows)
    BY <1>2, NextTime
  <2> QED BY <1>1, <2>1 DEF Row, Scope
<1>4. Idle \in Request /\ DOMAIN Idle.answer = {}
  BY IdleOK DEF Idle, NoAnswer
<1> HIDE DEF x
<1>5. q \in Request /\ q.pc = "create" /\ q.row = r /\ q.new = x /\ q.user = u
  BY <1>3, <1>4 DEF Request
<1>6. x.owner = u /\ q.answer = Idle.answer
  BY DEF x, Idle
<1>7. RequestOK(q, members)
  BY <1>3, <1>4, <1>5, <1>6 DEF RequestOK
<1>8. RowOK(q.row, q.new, members)
  BY <1>1, <1>2, <1>5 DEF RowOK, x
<1> QED BY <1>2, <1>5, <1>7, <1>8, ReadStep

(* What the transaction looked up before lets the database accept the row. *)
LEMMA RowIsAllowed ==
    ASSUME IInv, NEW c \in Handlers, At(c, "create")
    PROVE  /\ IsolationPolicy(request[c].user, request[c].new)
           /\ enforceHouseholdMembership(request[c].user, request[c].new.household)
BY DEF IInv, RequestsOK, RequestOK, RowOK, At, IsolationPolicy, enforceHouseholdMembership

LEMMA InsertRowStep ==
    ASSUME IInv, NEW c \in Handlers, InsertRow(c)
    PROVE  IInv'
<1> DEFINE x == request[c].new
           r == request[c].row
<1>1. /\ row' = [row EXCEPT ![r] = x] /\ Finish(c) /\ UNCHANGED <<household, members>>
  BY RowIsAllowed DEF InsertRow
<1>2. r \in Rows /\ x \in Row /\ RowOK(r, x, members)
  BY DEF InsertRow, IInv, RequestsOK, RequestOK, At
<1>3. /\ request' \in [Handlers -> Request]
      /\ \A g \in Handlers :
            /\ RequestOK(request'[g], members)
            /\ request'[g].pc = "create" => RowOK(request'[g].row, request'[g].new, members)
  <2>1. Idle \in Request /\ RequestOK(Idle, members) /\ Idle.pc = "idle"
    BY IdleOK
  <2>2. members \in [Households -> SUBSET Users]
    BY DEF IInv, TenancyTypeOK
  <2> QED BY <1>1, <2>1, <2>2, RequestStep DEF Finish, Continue
<1>4. TenancyTypeOK' /\ RequestsOK'
  BY <1>1, <1>2, <1>3 DEF IInv, TenancyTypeOK, RequestsOK, At
<1>5. OwnersAreMembers'
  BY <1>1 DEF IInv, OwnersAreMembers, Exists
<1>6. RowsOK'
  BY <1>1, <1>2 DEF IInv, TenancyTypeOK, RowsOK
<1> QED BY <1>4, <1>5, <1>6 DEF IInv

-----------------------------------------------------------------------------
LEMMA InitIInv == TenancyInit => IInv
<1> SUFFICES ASSUME TenancyInit PROVE IInv
  OBVIOUS
<1> USE DEF TenancyInit
<1>1. Idle \in Request /\ RequestOK(Idle, members) /\ Idle.pc = "idle"
  BY IdleOK
<1>2. TenancyTypeOK
  BY <1>1 DEF TenancyTypeOK
<1>3. OwnersAreMembers /\ RowsOK
  BY DEF OwnersAreMembers, Exists, RowsOK
<1>4. RequestsOK
  BY <1>1 DEF RequestsOK, At
<1> QED BY <1>2, <1>3, <1>4 DEF IInv

LEMMA StepIInv == IInv /\ [TenancyNext]_tenancyVars => IInv'
<1> SUFFICES ASSUME IInv, [TenancyNext]_tenancyVars PROVE IInv'
  OBVIOUS
<1>1. CASE UNCHANGED tenancyVars
  <2> USE <1>1 DEF tenancyVars
  <2>1. TenancyTypeOK' /\ OwnersAreMembers' /\ RowsOK'
    BY DEF IInv, TenancyTypeOK, OwnersAreMembers, Exists, RowsOK
  <2>2. RequestsOK'
    BY DEF IInv, RequestsOK, At
  <2> QED BY <2>1, <2>2 DEF IInv
<1>2. ASSUME NEW c \in Handlers, NEW u \in Users,
             \/ ListMyHouseholds(c, u)
             \/ \E h \in Households : GetHousehold(c, u, h)
      PROVE  IInv'
  BY <1>2, ReadHouseholdsStep DEF ListMyHouseholds, GetHousehold
<1>3. ASSUME NEW c \in Handlers, NEW u \in Users, NEW h \in Households,
             \/ CreateHousehold(c, u, h)
             \/ \E t \in Users \cup Guests : AddMember(c, u, h, t)
      PROVE  IInv'
  BY <1>3, CreateHouseholdStep, AddMemberStep
<1>4. ASSUME NEW c \in Handlers, NEW u \in Users, NEW r \in Rows,
             NEW s \in UploadsOf(u) \cup ReviewsFor(u), BeginRow(c, u, r, s)
      PROVE  IInv'
  BY <1>4, BeginRowStep
<1>5. ASSUME NEW c \in Handlers, NEW h \in Households, ListMembers(c, h)
      PROVE  IInv'
  BY <1>5, ListMembersStep
<1>6. ASSUME NEW c \in Handlers, Respond(c) PROVE IInv'
  BY <1>6, FinishStep DEF Respond
<1>7. ASSUME NEW c \in Handlers,
             \/ ReadVisible(c) \/ CheckMember(c) \/ InsertMember(c) \/ InsertRow(c)
      PROVE  IInv'
  BY <1>7, ReadVisibleStep, CheckMemberStep, InsertMemberStep, InsertRowStep
<1> QED BY <1>1, <1>2, <1>3, <1>4, <1>5, <1>6, <1>7 DEF TenancyNext

LEMMA Inductive == TenancySpec => []IInv
BY InitIInv, StepIInv, PTL DEF TenancySpec

(* Type correctness of households, members, rows and requests.             *)
THEOREM TenancyTypeCorrect == TenancySpec => []TenancyTypeOK
<1>1. IInv => TenancyTypeOK
  BY DEF IInv
<1> QED BY Inductive, <1>1, PTL

(* Every household in an answer names the requester among its members,     *)
(* however reads and writes of other requests interleave with its three    *)
(* reads: memberships only grow, and an owner is a member from the start.  *)
THEOREM RequestersAreNamed == TenancySpec => []AnswersNameTheRequester
<1>1. IInv => AnswersNameTheRequester
  BY DEF IInv, RequestsOK, RequestOK, AnswersNameTheRequester
<1> QED BY Inductive, <1>1, PTL

(* No insert is stopped by a policy or the trigger: the application's      *)
(* earlier look at the membership implies them both.                       *)
THEOREM NeverRefused == TenancySpec => []NothingIsRefused
<1>1. IInv => NothingIsRefused
  BY DEF IInv, RequestsOK, RequestOK, NothingIsRefused, At
<1> QED BY Inductive, <1>1, PTL

(* The rows a user sees have a source the user sees.                       *)
LEMMA NothingIsLost ==
    ASSUME IInv, NEW r \in Documents, NEW u \in Users, row[r] # NoVal,
           visibilityCond(u, householdsForUser(u), ScopeOf(r))
    PROVE  IsolationPolicy(u, SourceScopeOf(r))
<1>1. r \in Rows /\ row[r] \in Row /\ RowOK(r, row[r], members)
  BY TenancyAssumption DEF IInv, TenancyTypeOK, RowsOK, TenancyAssumption
<1>2. CASE row[r].household = NoVal
  BY <1>1, <1>2 DEF RowOK, visibilityCond, ScopeOf, SourceScopeOf, IsolationPolicy
<1>3. CASE row[r].household # NoVal
  <2>1. u \in members[row[r].household] /\ row[r].household \in Households
    BY <1>1, <1>3 DEF RowOK, Row, visibilityCond, ScopeOf, householdsForUser
  <2> QED BY <1>3, <2>1 DEF IsolationPolicy, SourceScopeOf, fn_visible_households
<1> QED BY <1>2, <1>3

(* The join of a document with its source loses no document: the two have  *)
(* the same household, or none and then the same owner.                    *)
THEOREM JoinIsWhole == TenancySpec => []JoinHidesNothing
<1>1. IInv => JoinHidesNothing
  BY NothingIsLost DEF JoinHidesNothing
<1> QED BY Inductive, <1>1, PTL

(* Nobody enters a household but as its creator or on the request of one   *)
(* who is a member already.                                                *)
THEOREM InvitationOnly == TenancySpec => MembersAreInvited
<1> DEFINE Invited ==
      \A h \in Households : \A t \in members'[h] \ members[h] :
          \/ household[h] = NoVal /\ household'[h] = t
          \/ \E c \in Handlers : /\ At(c, "insert")
                                 /\ request[c].household = h /\ request[c].target = t
                                 /\ request[c].user \in members[h]
<1>1. ASSUME IInv, [TenancyNext]_tenancyVars PROVE Invited
  <2>1. CASE members' = members
    BY <2>1
  <2>2. ASSUME NEW c \in Handlers, NEW u \in Users, NEW h \in Households,
               CreateHousehold(c, u, h)
        PROVE  Invited
    BY <1>1, <2>2 DEF CreateHousehold, Exists, IInv, TenancyTypeOK
  <2>3. ASSUME NEW c \in Handlers, InsertMember(c) PROVE Invited
    BY <1>1, <2>3, InsertIsAllowed DEF InsertMember, IInv, TenancyTypeOK
  <2> QED BY <1>1, <2>1, <2>2, <2>3
       DEF TenancyNext, tenancyVars, ListMyHouseholds, GetHousehold, AddMember, BeginRow,
           BeginAnyRow, ListMembers, ReadVisible, Respond, CheckMember, InsertRow
<1>2. IInv /\ [TenancyNext]_tenancyVars => [Invited]_<<household, members>>
  BY <1>1
<1> QED BY Inductive, <1>2, PTL DEF TenancySpec, MembersAreInvited

-----------------------------------------------------------------------------
(* What only grows: memberships, and the rows with their times.            *)

(* Rows made and rows in the making: no two of one time, none of a time to *)
(* come.                                                                   *)
HasTime(r, t) ==
    \/ row[r] # NoVal /\ row[r].at = t
    \/ \E c \in Handlers : At(c, "create") /\ request[c].row = r /\ request[c].new.at = t

StartedRows == {r \in Rows : Started(r)}

TimesOK ==
    /\ \A c \in Handlers : ~At(c, "create") => request[c].row = NoVal
    /\ \A c \in Handlers : At(c, "create") =>
          /\ row[request[c].row] = NoVal
          /\ \A d \in Handlers : At(d, "create") /\ request[d].row = request[c].row => d = c
    /\ \A q, r \in Rows : \A t \in 1 .. Cardinality(Rows) : HasTime(r, t) =>
          /\ t <= Cardinality(StartedRows)
          /\ HasTime(q, t) => q = r

Grown ==
    /\ \A h \in Households : members[h] \subseteq members'[h]
    /\ \A r \in Rows : row[r] # NoVal => row'[r] = row[r]

LEMMA StartedAreFinite == IsFiniteSet(StartedRows) /\ Cardinality(StartedRows) \in Nat
<1>1. IsFiniteSet(Rows)
  BY TenancyAssumption DEF TenancyAssumption
<1> QED BY <1>1, FS_Subset, FS_CardinalityType DEF StartedRows

(* A request that makes no row.                                            *)
LEMMA TimesUntouched ==
    ASSUME IInv, TimesOK, NEW c \in Handlers, ~At(c, "create"), NEW q,
           q.pc # "create", q.row = NoVal, Continue(c, q), UNCHANGED row
    PROVE  TimesOK'
<1>1. \A d \in Handlers : request'[d] = IF d = c THEN q ELSE request[d]
  BY DEF Continue, IInv, TenancyTypeOK
<1>2. \A d \in Handlers : /\ At(d, "create")' <=> At(d, "create")
                          /\ At(d, "create") => request'[d] = request[d]
  BY <1>1 DEF At
<1>3. NoVal \notin Rows
  BY TenancyAssumption DEF TenancyAssumption
<1>4. \A r \in Rows : Started(r)' <=> Started(r)
  BY <1>1, <1>3 DEF Started, TimesOK
<1>5. StartedRows' = StartedRows
  BY <1>4 DEF StartedRows
<1>6. \A r \in Rows, t \in 1 .. Cardinality(Rows) : HasTime(r, t)' <=> HasTime(r, t)
  BY <1>2 DEF HasTime
<1>7. \A d \in Handlers : ~At(d, "create")' => request'[d].row = NoVal
  BY <1>1, <1>2 DEF TimesOK
<1>8. \A d \in Handlers : At(d, "create")' =>
         /\ row'[request'[d].row] = NoVal
         /\ \A e \in Handlers : At(e, "create")' /\ request'[e].row = request'[d].row => e = d
  BY <1>2 DEF TimesOK
<1> QED BY <1>5, <1>6, <1>7, <1>8 DEF TimesOK

LEMMA TimesBegin ==
    ASSUME IInv, TimesOK, NEW c \in Handlers, NEW u \in Users, NEW r \in Rows,
           NEW s, BeginAnyRow(c, u, r, s)
    PROVE  TimesOK'
<1> DEFINE n == Cardinality(StartedRows)
           q == [Idle EXCEPT !.pc = "create", !.user = u, !.row = r,
                    !.new = [owner |-> u, household |-> s.household,
                             uploader |-> IF r \in Documents THEN s.owner ELSE NoVal,
                             at |-> n + 1]]
<1>1. ~At(c, "create") /\ ~Started(r) /\ Continue(c, q) /\ UNCHANGED row
  BY DEF BeginAnyRow, At, StartedRows
<1>2. q.pc = "create" /\ q.row = r /\ q.new.at = n + 1
  BY DEF Idle
<1> HIDE DEF q
<1>3. \A d \in Handlers : request'[d] = IF d = c THEN q ELSE request[d]
  BY <1>1 DEF Continue, IInv, TenancyTypeOK
<1>4. NoVal \notin Rows
  BY TenancyAssumption DEF TenancyAssumption
<1>5. \A p \in Rows : Started(p)' <=> Started(p) \/ p = r
  BY <1>1, <1>2, <1>3, <1>4 DEF Started, TimesOK
<1>6. Cardinality(StartedRows') = n + 1 /\ n \in Nat
  <2>1. StartedRows' = StartedRows \cup {r} /\ r \notin StartedRows
    BY <1>1, <1>5 DEF StartedRows
  <2> QED BY <2>1, StartedAreFinite, FS_AddElement
<1>7. \A p \in Rows, t \in 1 .. Cardinality(Rows) :
         HasTime(p, t)' => HasTime(p, t) \/ (p = r /\ t = n + 1)
  BY <1>1, <1>2, <1>3 DEF HasTime, At
<1>8. \A p \in Rows, t \in 1 .. Cardinality(Rows) : HasTime(p, t) => t <= n
  BY DEF TimesOK
<1> HIDE DEF n
<1>9. \A p, k \in Rows : \A t \in 1 .. Cardinality(Rows) : HasTime(p, t)' =>
          /\ t <= Cardinality(StartedRows')
          /\ HasTime(k, t)' => k = p
  <2> SUFFICES ASSUME NEW p \in Rows, NEW k \in Rows, NEW t \in 1 .. Cardinality(Rows), HasTime(p, t)'
               PROVE  t <= n + 1 /\ (HasTime(k, t)' => k = p)
    BY <1>6
  <2>1. t \in Nat
    OBVIOUS
  <2>2. CASE HasTime(p, t)
    <3>1. t <= n
      BY <1>8, <2>2
    <3>2. HasTime(k, t)' => HasTime(k, t)
      BY <1>6, <1>7, <2>1, <3>1
    <3> QED BY <1>6, <2>1, <2>2, <3>1, <3>2 DEF TimesOK
  <2>3. CASE p = r /\ t = n + 1
    <3>1. HasTime(k, t)' => k = r
      BY <1>6, <1>7, <1>8, <2>3
    <3> QED BY <1>6, <2>3, <3>1
  <2> QED BY <1>7, <2>2, <2>3
<1>10. \A d \in Handlers : ~At(d, "create")' => request'[d].row = NoVal
  BY <1>2, <1>3 DEF TimesOK, At
<1>11. \A d \in Handlers : At(d, "create")' =>
         /\ row'[request'[d].row] = NoVal
         /\ \A e \in Handlers : At(e, "create")' /\ request'[e].row = request'[d].row => e = d
  BY <1>1, <1>2, <1>3 DEF TimesOK, At, Started
<1> QED BY <1>9, <1>10, <1>11 DEF TimesOK

LEMMA TimesInsert ==
    ASSUME IInv, TimesOK, NEW c \in Handlers, InsertRow(c)
    PROVE  TimesOK' /\ Grown
<1> DEFINE x == request[c].new
           r == request[c].row
<1>1. At(c, "create") /\ row' = [row EXCEPT ![r] = x] /\ Finish(c) /\ UNCHANGED members
  BY RowIsAllowed DEF InsertRow
<1>2. r \in Rows /\ x # NoVal /\ row[r] = NoVal
  <2>1. r \in Rows /\ x \in Row
    BY <1>1 DEF IInv, RequestsOK, RequestOK, At
  <2> QED BY <1>1, <2>1, TenancyAssumption DEF TimesOK, TenancyAssumption
<1>3. Idle.pc = "idle" /\ Idle.row = NoVal /\ NoVal \notin Rows
  BY TenancyAssumption DEF Idle, TenancyAssumption
<1>4. \A d \in Handlers : request'[d] = IF d = c THEN Idle ELSE request[d]
  BY <1>1 DEF Finish, Continue, IInv, TenancyTypeOK
<1>5. \A p \in Rows : row'[p] = IF p = r THEN x ELSE row[p]
  BY <1>1 DEF IInv, TenancyTypeOK
<1>6. Grown
  BY <1>1, <1>2, <1>5 DEF Grown
<1>7. \A p \in Rows : Started(p)' <=> Started(p)
  BY <1>2, <1>3, <1>4, <1>5 DEF Started
<1>8. StartedRows' = StartedRows
  BY <1>7 DEF StartedRows
<1>9. \A p \in Rows, t \in 1 .. Cardinality(Rows) : HasTime(p, t)' => HasTime(p, t)
  BY <1>1, <1>3, <1>4, <1>5 DEF HasTime, At
<1>10. \A d \in Handlers : ~At(d, "create")' => request'[d].row = NoVal
  BY <1>3, <1>4 DEF TimesOK, At
<1>11. \A d \in Handlers : At(d, "create")' =>
         /\ row'[request'[d].row] = NoVal
         /\ \A e \in Handlers : At(e, "create")' /\ request'[e].row = request'[d].row => e = d
  <2> SUFFICES ASSUME NEW d \in Handlers, At(d, "create")'
               PROVE  /\ row'[request'[d].row] = NoVal
                      /\ \A e \in Handlers : At(e, "create")' /\ request'[e].row = request'[d].row => e = d
    OBVIOUS
  <2>1. d # c /\ request'[d] = request[d] /\ At(d, "create")
    BY <1>3, <1>4 DEF At
  <2>2. request[d].row # r /\ request[d].row \in Rows
    BY <1>1, <2>1 DEF TimesOK, IInv, RequestsOK, RequestOK, At
  <2> QED BY <1>3, <1>4, <1>5, <2>1, <2>2 DEF TimesOK, At
<1> QED BY <1>6, <1>8, <1>9, <1>10, <1>11 DEF TimesOK

LEMMA TimesStep ==
    ASSUME IInv, TimesOK, [TenancyNext]_tenancyVars
    PROVE  TimesOK' /\ Grown
<1>1. ASSUME UNCHANGED row, \A h \in Households : members[h] \subseteq members'[h] PROVE Grown
  BY <1>1 DEF Grown
<1>2. ASSUME NEW c \in Handlers, Finish(c), ~At(c, "create"), UNCHANGED row PROVE TimesOK'
  <2>1. Idle.pc # "create" /\ Idle.row = NoVal
    BY DEF Idle
  <2> QED BY <1>2, <2>1, TimesUntouched DEF Finish
<1>3. ASSUME NEW c \in Handlers, request[c].pc # "create"
      PROVE  request[c] \in Request /\ request[c].row = NoVal
  BY <1>3 DEF IInv, TenancyTypeOK, TimesOK, At
<1>4. CASE UNCHANGED tenancyVars
  <2>1. TimesOK'
    BY <1>4 DEF tenancyVars, TimesOK, HasTime, StartedRows, Started, At
  <2> QED BY <1>1, <1>4, <2>1 DEF tenancyVars
<1>5. ASSUME NEW c \in Handlers, NEW u \in Users, NEW mine, NEW todo,
             ~At(c, "create"), UNCHANGED row,
             Continue(c, [Idle EXCEPT !.pc = "visible", !.user = u, !.mine = mine, !.todo = todo])
      PROVE  TimesOK'
  <2> DEFINE q == [Idle EXCEPT !.pc = "visible", !.user = u, !.mine = mine, !.todo = todo]
  <2>1. q.pc # "create" /\ q.row = NoVal
    BY DEF Idle
  <2> HIDE DEF q
  <2> QED BY <1>5, <2>1, TimesUntouched DEF q
<1>6. ASSUME NEW c \in Handlers, NEW u \in Users,
             \/ ListMyHouseholds(c, u)
             \/ \E h \in Households : GetHousehold(c, u, h) \/ CreateHousehold(c, u, h)
      PROVE  TimesOK' /\ Grown
  <2>1. \A h \in Households : members[h] \subseteq members'[h]
    BY <1>6 DEF ListMyHouseholds, GetHousehold, CreateHousehold, IInv, TenancyTypeOK
  <2>2. ~At(c, "create") /\ UNCHANGED row
    BY <1>6 DEF ListMyHouseholds, GetHousehold, CreateHousehold, At
  <2> QED BY <1>1, <1>5, <1>6, <2>1, <2>2
       DEF ListMyHouseholds, GetHousehold, CreateHousehold, ReadHouseholds
<1>7. ASSUME NEW c \in Handlers, NEW u \in Users, NEW h \in Households, NEW t, AddMember(c, u, h, t)
      PROVE  TimesOK' /\ Grown
  <2> DEFINE q == [Idle EXCEPT !.pc = "member", !.user = u, !.household = h, !.target = t]
  <2>1. q.pc # "create" /\ q.row = NoVal
    BY DEF Idle
  <2>2. Continue(c, q) /\ ~At(c, "create") /\ UNCHANGED <<members, row>>
    BY <1>7 DEF AddMember, At
  <2> HIDE DEF q
  <2> QED BY <1>1, <2>1, <2>2, TimesUntouched
<1>8. ASSUME NEW c \in Handlers, NEW u \in Users, NEW r \in Rows, NEW s, BeginRow(c, u, r, s)
      PROVE  TimesOK' /\ Grown
  BY <1>1, <1>8, TimesBegin DEF BeginRow, BeginAnyRow
<1>9. ASSUME NEW c \in Handlers, NEW h \in Households, ListMembers(c, h)
      PROVE  TimesOK' /\ Grown
  <2>1. request[c].pc = "members" /\ ~At(c, "create") /\ UNCHANGED <<members, row>>
    BY <1>9 DEF ListMembers, At
  <2>2. PICK todo, answer : Continue(c, [request[c] EXCEPT !.todo = todo, !.answer = answer])
    BY <1>9 DEF ListMembers
  <2> DEFINE q == [request[c] EXCEPT !.todo = todo, !.answer = answer]
  <2>3. q.pc # "create" /\ q.row = NoVal
    BY <1>3, <2>1 DEF Request
  <2> HIDE DEF q
  <2> QED BY <1>1, <2>1, <2>2, <2>3, TimesUntouched DEF q
<1>10. ASSUME NEW c \in Handlers, ReadVisible(c) PROVE TimesOK' /\ Grown
  <2>1. request[c].pc = "visible" /\ ~At(c, "create") /\ UNCHANGED <<members, row>>
    BY <1>10 DEF ReadVisible, At
  <2>2. Finish(c) \/ \E todo : Continue(c, [request[c] EXCEPT !.pc = "members", !.todo = todo])
    BY <1>10 DEF ReadVisible
  <2>3. ASSUME NEW todo, Continue(c, [request[c] EXCEPT !.pc = "members", !.todo = todo]) PROVE TimesOK'
    <3> DEFINE q == [request[c] EXCEPT !.pc = "members", !.todo = todo]
    <3>1. q.pc # "create" /\ q.row = NoVal
      BY <1>3, <2>1 DEF Request
    <3> HIDE DEF q
    <3> QED BY <2>1, <2>3, <3>1, TimesUntouched DEF q
  <2> QED BY <1>1, <1>2, <2>1, <2>2, <2>3
<1>11. ASSUME NEW c \in Handlers, Respond(c) PROVE TimesOK' /\ Grown
  <2>1. Finish(c) /\ ~At(c, "create") /\ UNCHANGED <<members, row>>
    BY <1>11 DEF Respond, At
  <2> QED BY <1>1, <1>2, <2>1
<1>12. ASSUME NEW c \in Handlers, CheckMember(c) PROVE TimesOK' /\ Grown
  <2> DEFINE q == [request[c] EXCEPT !.pc = "insert"]
  <2>1. request[c].pc = "member" /\ ~At(c, "create") /\ UNCHANGED <<members, row>>
    BY <1>12 DEF CheckMember, At
  <2>2. Finish(c) \/ Continue(c, q)
    BY <1>12 DEF CheckMember
  <2>3. q.pc # "create" /\ q.row = NoVal
    BY <1>3, <2>1 DEF Request
  <2> HIDE DEF q
  <2> QED BY <1>1, <1>2, <2>1, <2>2, <2>3, TimesUntouched
<1>13. ASSUME NEW c \in Handlers, InsertMember(c) PROVE TimesOK' /\ Grown
  <2>1. ~At(c, "create") /\ UNCHANGED row /\ Finish(c)
    BY <1>13, InsertIsAllowed DEF InsertMember, At
  <2>2. \A h \in Households : members[h] \subseteq members'[h]
    BY <1>13 DEF InsertMember, IInv, TenancyTypeOK
  <2> QED BY <1>1, <1>2, <2>1, <2>2
<1>14. ASSUME NEW c \in Handlers, InsertRow(c) PROVE TimesOK' /\ Grown
  BY <1>14, TimesInsert
<1> QED BY <1>4, <1>6, <1>7, <1>8, <1>9, <1>10, <1>11, <1>12, <1>13, <1>14 DEF TenancyNext

-----------------------------------------------------------------------------
(* The search.                                                             *)

(* The place of a row's kind among the hits.                               *)
KindIndex(r) == CHOOSE i \in DOMAIN Kinds : Kinds[i] = KindOf[r]

(* The order of the hits, given the rows rw.                               *)
Precedes(q, r, rw) ==
    \/ KindIndex(q) < KindIndex(r)
    \/ KindIndex(q) = KindIndex(r) /\ rw[q].at > rw[r].at

HouseholdsOf(u, mem) == {h \in Households : u \in mem[h]}

(* A row x that a search of the user finds with the memberships `mine` that *)
(* it read, when there are the memberships mem.                            *)
Finds(u, mine, mem, r, x) ==
    /\ x # NoVal
    /\ x.owner = u \/ (x.household # NoVal /\ x.household \in mine)
    /\ x.owner = u \/ (x.household # NoVal /\ x.household \in HouseholdsOf(u, mem))
    /\ r \in Documents =>
          x.uploader = u \/ (x.household # NoVal /\ x.household \in HouseholdsOf(u, mem))

(* The memberships by which the rows of the i-th kind are, or will be, found. *)
MineFor(cl, mem, i) ==
    IF cl.pc = "select" /\ i = cl.stage THEN cl.mine ELSE HouseholdsOf(cl.user, mem)

(* The hits before a row, those read already and those that will be, of    *)
(* which the rows rem were deleted.                                        *)
Ahead(r, cl, rw, mem, rem) ==
    {q \in Rows :
        /\ \/ q \in Shown(cl.hits)
           \/ /\ KindIndex(q) >= cl.stage /\ q \notin rem
              /\ Finds(cl.user, MineFor(cl, mem, KindIndex(q)), mem, q, rw[q])
        /\ Precedes(q, r, rw)}

(* The missed rows that slipped over the edge of a page that was shown.    *)
Skipped(cl, rw, mem, rem) ==
    {r \in cl.missed : Cardinality(Ahead(r, cl, rw, mem, rem)) < (cl.page - 1) * PageSize}

(* Hits deleted since they were read: the next page is short of them.      *)
Due(cl, rem) == Shown(cl.hits) \cap rem

Client == [pc : {"idle", "households", "select", "page", "done"}, user : Users \cup {NoVal},
           page : Nat, stage : Nat, mine : SUBSET Households, hits : Seq(Rows), missed : SUBSET Rows,
           gone : SUBSET Rows]

Searching(cl) == cl.pc = "households" \/ cl.pc = "select" \/ cl.pc = "page"

StageOK(cl, mem) ==
    /\ cl.page >= 1
    /\ cl.pc # "page" => cl.stage \in DOMAIN Kinds
    /\ cl.pc = "page" => cl.stage = Len(Kinds) + 1
    /\ cl.pc = "select" => cl.mine \subseteq HouseholdsOf(cl.user, mem)

HitsOK(cl, rw, mem) ==
    /\ \A i \in DOMAIN cl.hits :
          /\ Finds(cl.user, HouseholdsOf(cl.user, mem), mem, cl.hits[i], rw[cl.hits[i]])
          /\ KindIndex(cl.hits[i]) < cl.stage
    /\ \A i, j \in DOMAIN cl.hits : i < j => Precedes(cl.hits[i], cl.hits[j], rw)

(* A row still missed is found by this search too.                         *)
MissedOK(r, cl, rw, mem, rem) ==
    /\ r \notin rem
    /\ Finds(cl.user, HouseholdsOf(cl.user, mem), mem, r, rw[r])
    /\ cl.pc = "select" => Finds(cl.user, cl.mine, mem, r, rw[r])
    /\ KindIndex(r) < cl.stage => r \in Shown(cl.hits)

(* What precedes a missed row fills the pages that were shown, but for one *)
(* row for each deletion.                                                  *)
CountOK(cl, rw, mem, rem) ==
    Cardinality(Skipped(cl, rw, mem, rem)) + Cardinality(Due(cl, rem)) <= Cardinality(cl.gone)

SearchOK(cl, rw, mem, rem) ==
    /\ cl \in Client /\ cl.gone \subseteq rem
    /\ Searching(cl) => /\ StageOK(cl, mem) /\ HitsOK(cl, rw, mem)
                        /\ \A r \in cl.missed : MissedOK(r, cl, rw, mem, rem)
                        /\ CountOK(cl, rw, mem, rem)
    /\ cl.pc = "done" => Cardinality(cl.missed) <= Cardinality(cl.gone)

SearchInv == SearchOK(client, row, members, removed)

LEMMA KindsInPlace ==
    ASSUME NEW r \in Rows
    PROVE  /\ KindIndex(r) \in Nat /\ KindIndex(r) >= 1 /\ KindIndex(r) <= Len(Kinds)
           /\ \A i \in DOMAIN Kinds : KindOf[r] = Kinds[i] <=> KindIndex(r) = i
           /\ DOMAIN Kinds = 1 .. Len(Kinds) /\ Len(Kinds) \in Nat
<1>1. DOMAIN Kinds = 1 .. Len(Kinds) /\ Len(Kinds) \in Nat
  BY SearchAssumption DEF SearchAssumption
<1>2. \E i \in DOMAIN Kinds : Kinds[i] = KindOf[r]
  BY SearchAssumption DEF SearchAssumption
<1>3. KindIndex(r) \in DOMAIN Kinds /\ Kinds[KindIndex(r)] = KindOf[r]
  BY <1>2 DEF KindIndex
<1>4. \A i \in DOMAIN Kinds : KindOf[r] = Kinds[i] <=> KindIndex(r) = i
  BY <1>3, SearchAssumption DEF SearchAssumption
<1> QED BY <1>1, <1>3, <1>4

LEMMA NoTwoOfOneTime ==
    ASSUME IInv, TimesOK, NEW q \in Rows, NEW r \in Rows, row[q] # NoVal, row[r] # NoVal
    PROVE  row[r].at \in Nat /\ (row[q].at = row[r].at => q = r)
<1>1. row[r] \in Row
  BY DEF IInv, TenancyTypeOK
<1>2. row[r].at \in 1 .. Cardinality(Rows)
  BY <1>1 DEF Row
<1>3. HasTime(r, row[r].at) /\ (row[q].at = row[r].at => HasTime(q, row[r].at))
  BY DEF HasTime
<1> QED BY <1>2, <1>3 DEF TimesOK

(* The rows of one kind, each in its place.                                *)
LEMMA NewestFirstSorts ==
    ASSUME NEW rows \in SUBSET Rows,
           \A r \in rows : row[r].at \in Nat,
           \A q, r \in rows : row[q].at = row[r].at => q = r
    PROVE  /\ NewestFirst(rows) \in Seq(rows)
           /\ DOMAIN NewestFirst(rows) = 1 .. Cardinality(rows)
           /\ \A r \in rows : \E i \in DOMAIN NewestFirst(rows) : NewestFirst(rows)[i] = r
           /\ \A i, j \in DOMAIN NewestFirst(rows) :
                 i < j => row[NewestFirst(rows)[i]].at > row[NewestFirst(rows)[j]].at
<1> DEFINE From(r) == {q \in rows : row[q].at >= row[r].at}
           Place(r) == Cardinality(From(r))
           c == Cardinality(rows)
           s == NewestFirst(rows)
           f == [r \in rows |-> Place(r)]
<1>1. IsFiniteSet(rows) /\ c \in Nat
  BY FS_Subset, FS_CardinalityType, TenancyAssumption DEF TenancyAssumption
<1>2. \A r \in rows : IsFiniteSet(From(r)) /\ Place(r) \in Nat /\ Place(r) <= c
  BY <1>1, FS_Subset, FS_CardinalityType
<1>3. ASSUME NEW r \in rows PROVE Place(r) \in 1 .. c
  <2>1. r \in From(r)
    OBVIOUS
  <2>2. Place(r) # 0
    BY <1>2, <2>1, FS_EmptySet
  <2> QED BY <1>1, <1>2, <2>2
<1>4. ASSUME NEW q \in rows, NEW r \in rows, row[q].at > row[r].at PROVE Place(q) < Place(r)
  <2>1. From(q) \in SUBSET From(r) /\ From(q) # From(r)
    <3>1. \A p \in rows : row[p].at >= row[q].at => row[p].at >= row[r].at
      BY <1>4
    <3>2. r \in From(r) /\ r \notin From(q)
      BY <1>4
    <3> QED BY <3>1, <3>2
  <2>2. Place(q) <= Place(r) /\ Place(q) # Place(r)
    <3>1. IsFiniteSet(From(r))
      BY <1>2
    <3>2. \A A, B : IsFiniteSet(B) /\ A \in SUBSET B /\ A # B =>
             Cardinality(A) <= Cardinality(B) /\ Cardinality(A) # Cardinality(B)
      BY FS_Subset
    <3> HIDE DEF From
    <3> QED BY <2>1, <3>1, <3>2
  <2>3. Place(q) \in Nat /\ Place(r) \in Nat
    BY <1>2
  <2> HIDE DEF Place
  <2> QED BY <2>2, <2>3
<1> HIDE DEF From, Place
<1>5. ASSUME NEW q \in rows, NEW r \in rows, Place(q) = Place(r) PROVE q = r
  <2>1. Place(q) \in Nat /\ Place(r) \in Nat
    BY <1>2
  <2>2. ~(row[q].at > row[r].at) /\ ~(row[r].at > row[q].at)
    BY <1>4, <1>5, <2>1
  <2> QED BY <2>2
<1>6. \A i \in 1 .. c : \E r \in rows : Place(r) = i
  <2>1. f \in Injection(rows, 1 .. c)
    <3>1. f \in [rows -> 1 .. c]
      BY <1>3
    <3>2. \A q, r \in rows : f[q] = f[r] => q = r
      BY <1>5
    <3> QED BY <3>1, <3>2 DEF Injection, IsInjective
  <2>2. IsFiniteSet(1 .. c) /\ Cardinality(1 .. c) = c
    BY <1>1, FS_Interval
  <2>3. f \in Surjection(rows, 1 .. c)
    <3> HIDE DEF f, c
    <3>1. Cardinality(rows) = c
      BY DEF c
    <3> QED BY <1>1, <2>1, <2>2, <3>1, FS_Injection
  <2>4. \A i \in 1 .. c : \E r \in rows : f[r] = i
    <3> HIDE DEF f
    <3> QED BY <2>3 DEF Surjection
  <2> QED BY <2>4
<1>7. s = [i \in 1 .. c |-> CHOOSE r \in rows : Place(r) = i]
  BY DEF NewestFirst, Place, From
<1>8. \A i \in 1 .. c : s[i] \in rows /\ Place(s[i]) = i
  BY <1>6, <1>7
<1>9. DOMAIN s = 1 .. c
  BY <1>7
<1>10. s \in Seq(rows)
  <2>1. s \in [1 .. c -> rows]
    BY <1>7, <1>8
  <2> QED BY <1>1, <2>1, SeqDef
<1> HIDE DEF s
<1>11. \A r \in rows : \E i \in 1 .. c : s[i] = r
  BY <1>3, <1>5, <1>8
<1>12. ASSUME NEW i \in 1 .. c, NEW j \in 1 .. c, i < j PROVE row[s[i]].at > row[s[j]].at
  <2>1. s[i] \in rows /\ s[j] \in rows /\ Place(s[i]) < Place(s[j])
    BY <1>8, <1>12
  <2>2. ~(row[s[j]].at > row[s[i]].at) /\ s[i] # s[j]
    BY <1>2, <1>4, <2>1
  <2> QED BY <2>1, <2>2
<1> QED BY <1>9, <1>10, <1>11, <1>12 DEF s, c

LEMMA SeenIsFound ==
    ASSUME IInv, NEW u \in Users, NEW r \in RowsSeen(u, householdsForUser(u))
    PROVE  Finds(u, HouseholdsOf(u, members), members, r, row[r])
<1>1. r \in Documents => IsolationPolicy(u, SourceScopeOf(r))
  BY NothingIsLost DEF RowsSeen, Visible
<1> QED BY <1>1
    DEF RowsSeen, Visible, visibilityCond, IsolationPolicy, ScopeOf, SourceScopeOf,
        fn_visible_households, householdsForUser, Finds, HouseholdsOf

LEMMA FoundIsSeen ==
    ASSUME NEW u, NEW mine, mine \subseteq HouseholdsOf(u, members),
           NEW r \in Rows \ removed, Finds(u, mine, members, r, row[r])
    PROVE  r \in RowsSeen(u, householdsForUser(u))
BY DEF RowsSeen, Visible, visibilityCond, IsolationPolicy, ScopeOf, fn_visible_households,
       householdsForUser, Finds, HouseholdsOf

LEMMA FoundIs ==
    ASSUME NEW u, NEW mine, NEW i \in DOMAIN Kinds
    PROVE  Found(u, mine, Kinds[i]) =
              {r \in Rows \ removed : KindIndex(r) = i /\ Finds(u, mine, members, r, row[r])}
<1>1. \A r \in Rows : KindOf[r] = Kinds[i] <=> KindIndex(r) = i
  BY KindsInPlace
<1> QED BY <1>1
    DEF Found, RowsSeen, Visible, visibilityCond, IsolationPolicy, ScopeOf, SourceScopeOf,
        fn_visible_households, Finds, HouseholdsOf

(* What is found stays found, with more memberships read and more there.   *)
LEMMA FoundStays ==
    ASSUME NEW u, NEW mine, NEW more, mine \subseteq more,
           NEW mem, NEW mem2, \A h \in Households : mem[h] \subseteq mem2[h],
           NEW r, NEW x, Finds(u, mine, mem, r, x)
    PROVE  Finds(u, more, mem2, r, x)
BY DEF Finds, HouseholdsOf

(* Counts of rows.                                                         *)
LEMMA Few ==
    ASSUME NEW A \in SUBSET Rows
    PROVE  IsFiniteSet(A) /\ Cardinality(A) \in Nat
BY FS_Subset, FS_CardinalityType, TenancyAssumption DEF TenancyAssumption

LEMMA Fewer ==
    ASSUME NEW B \in SUBSET Rows, NEW A \in SUBSET B
    PROVE  Cardinality(A) <= Cardinality(B)
BY Few, FS_Subset

LEMMA Together ==
    ASSUME NEW A \in SUBSET Rows, NEW B \in SUBSET Rows
    PROVE  Cardinality(A \cup B) <= Cardinality(A) + Cardinality(B)
<1>1. Cardinality(A \cup B) = Cardinality(A) + Cardinality(B) - Cardinality(A \cap B)
  BY Few, FS_Union
<1>2. A \cap B \in SUBSET Rows
  OBVIOUS
<1> QED BY <1>1, <1>2, Few

LEMMA Without ==
    ASSUME NEW A \in SUBSET Rows, NEW B \in SUBSET Rows
    PROVE  Cardinality(A \ B) >= Cardinality(A) - Cardinality(B)
<1>1. Cardinality(A \ B) = Cardinality(A) - Cardinality(A \cap B)
  BY Few, FS_Difference
<1>2. A \cap B \in SUBSET Rows /\ A \cap B \in SUBSET B
  OBVIOUS
<1>3. Cardinality(A \cap B) <= Cardinality(B)
  BY <1>2, Fewer
<1> QED BY <1>1, <1>2, <1>3, Few

LEMMA AtMostOne ==
    ASSUME NEW A \in SUBSET Rows, \A q, r \in A : q = r
    PROVE  Cardinality(A) <= 1
<1>1. CASE A = {}
  BY <1>1, FS_EmptySet
<1>2. CASE A # {}
  <2>1. \E x : A = {x}
    BY <1>2
  <2> QED BY <2>1, FS_Singleton
<1> QED BY <1>1, <1>2

LEMMA Turned ==
    ASSUME NEW cl \in Client
    PROVE  /\ cl.page \in Nat /\ (cl.page - 1) * PageSize \in Int
           /\ cl.hits \in Seq(Rows) /\ DOMAIN cl.hits = 1 .. Len(cl.hits) /\ Len(cl.hits) \in Nat
           /\ \A i \in DOMAIN cl.hits : cl.hits[i] \in Rows
<1>1. cl.page \in Nat /\ cl.hits \in Seq(Rows)
  BY DEF Client
<1>2. PageSize \in Int
  BY SearchAssumption DEF SearchAssumption
<1>3. (cl.page - 1) * PageSize \in Int
  BY <1>1, <1>2
<1> QED BY <1>1, <1>3

LEMMA CountsAre ==
    ASSUME NEW cl \in Client, NEW rw, NEW mem, NEW rem
    PROVE  /\ Skipped(cl, rw, mem, rem) \in SUBSET Rows
           /\ Due(cl, rem) \in SUBSET Rows
           /\ cl.gone \in SUBSET Rows
           /\ Cardinality(Skipped(cl, rw, mem, rem)) \in Nat
           /\ Cardinality(Due(cl, rem)) \in Nat /\ Cardinality(cl.gone) \in Nat
<1>1. /\ Skipped(cl, rw, mem, rem) \in SUBSET Rows /\ cl.gone \in SUBSET Rows
      /\ Shown(cl.hits) \in SUBSET Rows
  BY DEF Skipped, Client, Shown
<1>2. Due(cl, rem) \in SUBSET Rows
  BY <1>1 DEF Due
<1> QED BY <1>1, <1>2, Few

(* A row that is not skipped with fewer rows before it is not with more.   *)
LEMMA AheadGrows ==
    ASSUME NEW cl \in Client, NEW cl2 \in Client, NEW rw, NEW rw2, NEW mem, NEW mem2,
           NEW rem, NEW rem2, cl2.page = cl.page, cl2.missed \subseteq cl.missed,
           NEW r \in Skipped(cl2, rw2, mem2, rem2),
           Ahead(r, cl, rw, mem, rem) \subseteq Ahead(r, cl2, rw2, mem2, rem2)
    PROVE  r \in Skipped(cl, rw, mem, rem)
<1> DEFINE A == Ahead(r, cl, rw, mem, rem)
           B == Ahead(r, cl2, rw2, mem2, rem2)
<1>1. A \in SUBSET B /\ B \in SUBSET Rows
  BY DEF Ahead
<1>2. r \in cl.missed /\ Cardinality(B) < (cl.page - 1) * PageSize
  BY DEF Skipped
<1> HIDE DEF A, B
<1>3. Cardinality(A) <= Cardinality(B) /\ Cardinality(A) \in Nat /\ Cardinality(B) \in Nat
  BY <1>1, Few, Fewer
<1>4. (cl.page - 1) * PageSize \in Int
  BY Turned
<1>5. Cardinality(A) < (cl.page - 1) * PageSize
  BY <1>2, <1>3, <1>4
<1> QED BY <1>2, <1>5 DEF Skipped, A

(* More before each missed row, and no more of the hits deleted.           *)
LEMMA CountKept ==
    ASSUME NEW cl \in Client, NEW cl2 \in Client, NEW rw, NEW rw2, NEW mem, NEW mem2,
           NEW rem, NEW rem2, CountOK(cl, rw, mem, rem),
           cl2.page = cl.page, cl2.missed \subseteq cl.missed, cl2.gone = cl.gone,
           \A r \in cl2.missed : Ahead(r, cl, rw, mem, rem) \subseteq Ahead(r, cl2, rw2, mem2, rem2),
           Due(cl2, rem2) \subseteq Due(cl, rem)
    PROVE  CountOK(cl2, rw2, mem2, rem2)
<1>1. Skipped(cl2, rw2, mem2, rem2) \subseteq Skipped(cl, rw, mem, rem)
  BY AheadGrows DEF Skipped
<1>2. /\ Cardinality(Skipped(cl2, rw2, mem2, rem2)) <= Cardinality(Skipped(cl, rw, mem, rem))
      /\ Cardinality(Due(cl2, rem2)) <= Cardinality(Due(cl, rem))
  BY <1>1, CountsAre, Fewer
<1> QED BY <1>2, CountsAre DEF CountOK

-----------------------------------------------------------------------------
(* What others do while the pages are turned.                              *)
LEMMA SearchUndisturbed ==
    ASSUME NEW cl, NEW rw, NEW rw2, NEW mem, NEW mem2, NEW rem, SearchOK(cl, rw, mem, rem),
           \A h \in Households : mem[h] \subseteq mem2[h],
           \A r \in Rows : rw[r] # NoVal => rw2[r] = rw[r]
    PROVE  SearchOK(cl, rw2, mem2, rem)
<1>1. CASE ~Searching(cl)
  BY <1>1 DEF SearchOK
<1>2. CASE Searching(cl)
  <2>1. /\ cl \in Client /\ StageOK(cl, mem) /\ HitsOK(cl, rw, mem)
        /\ \A r \in cl.missed : MissedOK(r, cl, rw, mem, rem)
        /\ CountOK(cl, rw, mem, rem) /\ cl.gone \subseteq rem
    BY <1>2 DEF SearchOK
  <2>2. \A u : HouseholdsOf(u, mem) \subseteq HouseholdsOf(u, mem2)
    BY DEF HouseholdsOf
  <2>3. \A r \in Rows : \A mine, more : Finds(cl.user, mine, mem, r, rw[r]) /\ mine \subseteq more =>
           rw2[r] = rw[r] /\ Finds(cl.user, more, mem2, r, rw2[r])
    <3>1. \A r \in Rows : \A mine : Finds(cl.user, mine, mem, r, rw[r]) => rw2[r] = rw[r]
      BY DEF Finds
    <3> QED BY <3>1, FoundStays
  <2>4. \A i : MineFor(cl, mem, i) \subseteq MineFor(cl, mem2, i)
    BY <2>2 DEF MineFor
  <2>5. StageOK(cl, mem2)
    BY <2>1, <2>2 DEF StageOK
  <2>6. HitsOK(cl, rw2, mem2)
    <3>1. \A i \in DOMAIN cl.hits : cl.hits[i] \in Rows
      BY <2>1, Turned
    <3>2. \A i \in DOMAIN cl.hits :
             /\ Finds(cl.user, HouseholdsOf(cl.user, mem2), mem2, cl.hits[i], rw2[cl.hits[i]])
             /\ rw2[cl.hits[i]] = rw[cl.hits[i]]
      BY <2>1, <2>2, <2>3, <3>1 DEF HitsOK
    <3>3. \A i, j \in DOMAIN cl.hits : i < j => Precedes(cl.hits[i], cl.hits[j], rw2)
      BY <2>1, <3>2 DEF HitsOK, Precedes
    <3> QED BY <2>1, <3>2, <3>3 DEF HitsOK
  <2>7. ASSUME NEW r \in cl.missed
        PROVE  /\ MissedOK(r, cl, rw2, mem2, rem)
               /\ Ahead(r, cl, rw, mem, rem) \subseteq Ahead(r, cl, rw2, mem2, rem)
    <3>1. r \in Rows /\ MissedOK(r, cl, rw, mem, rem)
      BY <2>1 DEF Client
    <3>2. rw2[r] = rw[r] /\ Finds(cl.user, HouseholdsOf(cl.user, mem2), mem2, r, rw2[r])
      BY <2>2, <2>3, <3>1 DEF MissedOK
    <3>3. cl.pc = "select" => Finds(cl.user, cl.mine, mem2, r, rw2[r])
      BY <2>3, <3>1 DEF MissedOK
    <3>4. Ahead(r, cl, rw, mem, rem) \subseteq Ahead(r, cl, rw2, mem2, rem)
      <4> SUFFICES ASSUME NEW q \in Ahead(r, cl, rw, mem, rem)
                   PROVE  q \in Ahead(r, cl, rw2, mem2, rem)
        OBVIOUS
      <4>1. /\ q \in Rows /\ Precedes(q, r, rw)
            /\ \/ q \in Shown(cl.hits)
               \/ /\ KindIndex(q) >= cl.stage /\ q \notin rem
                  /\ Finds(cl.user, MineFor(cl, mem, KindIndex(q)), mem, q, rw[q])
        BY DEF Ahead
      <4>2. CASE q \in Shown(cl.hits)
        <5>1. rw2[q] = rw[q]
          BY <2>1, <2>3, <4>1, <4>2 DEF HitsOK, Shown
        <5> QED BY <3>2, <4>1, <4>2, <5>1 DEF Ahead, Precedes
      <4>3. CASE /\ KindIndex(q) >= cl.stage /\ q \notin rem
                 /\ Finds(cl.user, MineFor(cl, mem, KindIndex(q)), mem, q, rw[q])
        <5>1. rw2[q] = rw[q] /\ Finds(cl.user, MineFor(cl, mem2, KindIndex(q)), mem2, q, rw2[q])
          BY <2>3, <2>4, <4>1, <4>3
        <5> QED BY <3>2, <4>1, <4>3, <5>1 DEF Ahead, Precedes
      <4> QED BY <4>1, <4>2, <4>3
    <3> QED BY <3>1, <3>2, <3>3, <3>4 DEF MissedOK
  <2>8. CountOK(cl, rw2, mem2, rem)
    BY <2>1, <2>7, CountKept
  <2> QED BY <1>2, <2>1, <2>5, <2>6, <2>7, <2>8 DEF SearchOK, Searching
<1> QED BY <1>1, <1>2

-----------------------------------------------------------------------------
(* The statements of the search itself.                                    *)
LEMMA HouseholdsAre == \A u : householdsForUser(u) = HouseholdsOf(u, members)
BY DEF householdsForUser, HouseholdsOf

LEMMA StartSearchOK ==
    ASSUME IInv, SearchInv, NEW u \in Readers, StartSearch(u)
    PROVE  SearchOK(client', row, members, removed)
<1> DEFINE m == RowsSeen(u, householdsForUser(u))
           cl == [NoClient EXCEPT !.pc = "households", !.user = u, !.page = 1, !.stage = 1, !.missed = m]
<1>1. client' = cl
  BY DEF StartSearch
<1>2. /\ cl.pc = "households" /\ cl.user = u /\ cl.page = 1 /\ cl.stage = 1 /\ cl.mine = {}
      /\ cl.hits = <<>> /\ cl.missed = m /\ cl.gone = {}
  <2> HIDE DEF m
  <2> QED BY DEF NoClient
<1>3. u \in Users
  BY SearchAssumption DEF SearchAssumption
<1>4. m \in SUBSET Rows
  BY DEF RowsSeen
<1>5. cl \in Client
  <2>1. NoClient \in Client
    BY DEF NoClient, Client
  <2> HIDE DEF m
  <2> QED BY <1>3, <1>4, <2>1 DEF Client
<1> HIDE DEF cl
<1>6. 1 \in DOMAIN Kinds /\ \A r \in Rows : ~(KindIndex(r) < 1)
  <2>1. DOMAIN Kinds = 1 .. Len(Kinds) /\ Len(Kinds) \in Nat /\ Kinds # <<>>
    BY SearchAssumption DEF SearchAssumption
  <2>2. Len(Kinds) # 0
    BY <2>1, SearchAssumption DEF SearchAssumption
  <2> QED BY <2>1, <2>2, KindsInPlace
<1>7. ASSUME NEW r \in m PROVE MissedOK(r, cl, row, members, removed)
  <2>1. r \in Rows /\ Finds(u, HouseholdsOf(u, members), members, r, row[r]) /\ r \notin removed
    BY <1>3, <1>4, SeenIsFound DEF RowsSeen
  <2> QED BY <1>2, <1>6, <2>1 DEF MissedOK
<1>10. CountOK(cl, row, members, removed)
  <2>1. ASSUME NEW r \in Rows PROVE r \notin Skipped(cl, row, members, removed)
    <3> DEFINE A == Ahead(r, cl, row, members, removed)
    <3>1. A \in SUBSET Rows
      BY DEF Ahead
    <3> HIDE DEF A
    <3>2. Cardinality(A) \in Nat
      BY <3>1, Few
    <3>3. (cl.page - 1) * PageSize = 0
      <4>1. PageSize \in Int
        BY SearchAssumption DEF SearchAssumption
      <4>2. cl.page - 1 = 0
        BY <1>2
      <4>3. \A n \in Int : 0 * n = 0
        OBVIOUS
      <4> QED BY <4>1, <4>2, <4>3
    <3> QED BY <3>2, <3>3 DEF A, Skipped
  <2>2. Skipped(cl, row, members, removed) = {}
    <3>1. Skipped(cl, row, members, removed) \in SUBSET Rows
      BY <1>5, CountsAre
    <3> QED BY <2>1, <3>1
  <2>3. Due(cl, removed) = {} /\ cl.gone = {}
    BY <1>2 DEF Due, Shown
  <2>4. Cardinality({}) + Cardinality({}) <= Cardinality({})
    BY FS_EmptySet
  <2> QED BY <2>2, <2>3, <2>4 DEF CountOK
<1>8. StageOK(cl, members)
  BY <1>2, <1>6 DEF StageOK
<1>9. HitsOK(cl, row, members)
  BY <1>2 DEF HitsOK
<1> QED BY <1>1, <1>2, <1>5, <1>7, <1>8, <1>9, <1>10 DEF SearchOK

LEMMA HouseholdsReadOK ==
    ASSUME SearchInv, SearchHouseholds
    PROVE  SearchOK(client', row, members, removed)
<1> DEFINE now == HouseholdsOf(client.user, members)
           cl == [client EXCEPT !.pc = "select", !.mine = now]
<1>1. client' = cl
  BY HouseholdsAre DEF SearchHouseholds
<1>2. /\ client \in Client /\ StageOK(client, members) /\ HitsOK(client, row, members)
      /\ \A r \in client.missed : MissedOK(r, client, row, members, removed)
      /\ CountOK(client, row, members, removed) /\ client.gone \subseteq removed
      /\ client.pc = "households"
  BY DEF SearchInv, SearchOK, Searching, SearchHouseholds
<1>3. now \in SUBSET Households
  BY DEF HouseholdsOf
<1>4. /\ cl \in Client /\ cl.pc = "select" /\ cl.mine = now /\ cl.user = client.user
      /\ cl.page = client.page /\ cl.stage = client.stage /\ cl.hits = client.hits
      /\ cl.missed = client.missed /\ cl.gone = client.gone
  <2> HIDE DEF now
  <2> QED BY <1>2, <1>3 DEF Client
<1> HIDE DEF cl
<1>5. StageOK(cl, members)
  BY <1>2, <1>4 DEF StageOK
<1>6. HitsOK(cl, row, members)
  BY <1>2, <1>4 DEF HitsOK
<1>7. \A r \in client.missed : MissedOK(r, cl, row, members, removed)
  BY <1>2, <1>4 DEF MissedOK
<1>8. CountOK(cl, row, members, removed)
  <2>1. \A i : MineFor(cl, members, i) = MineFor(client, members, i)
    BY <1>2, <1>4 DEF MineFor
  <2>2. \A r : Ahead(r, cl, row, members, removed) = Ahead(r, client, row, members, removed)
    BY <1>4, <2>1 DEF Ahead
  <2>3. Due(cl, removed) = Due(client, removed)
    BY <1>4 DEF Due
  <2> QED BY <1>2, <1>4, <2>2, <2>3, CountKept
<1> QED BY <1>1, <1>2, <1>4, <1>5, <1>6, <1>7, <1>8 DEF SearchOK

LEMMA SelectOK ==
    ASSUME IInv, TimesOK, SearchInv, Select
    PROVE  SearchOK(client', row, members, removed)
<1> DEFINE u == client.user
           k == client.stage
           now == HouseholdsOf(u, members)
           F == Found(u, client.mine, Kinds[k])
           more == NewestFirst(F)
           hits == client.hits \o more
           cl == [client EXCEPT !.hits = hits, !.stage = k + 1, !.mine = {},
                     !.pc = IF k = Len(Kinds) THEN "page" ELSE "households"]
<1>1. client' = cl
  BY DEF Select
<1>2. /\ client \in Client /\ StageOK(client, members) /\ HitsOK(client, row, members)
      /\ \A r \in client.missed : MissedOK(r, client, row, members, removed)
      /\ CountOK(client, row, members, removed) /\ client.gone \subseteq removed
      /\ client.pc = "select"
  BY DEF SearchInv, SearchOK, Searching, Select
<1>3. k \in DOMAIN Kinds /\ k \in Nat /\ client.mine \subseteq now
  BY <1>2 DEF StageOK, Client
<1>4. F = {r \in Rows \ removed : KindIndex(r) = k /\ Finds(u, client.mine, members, r, row[r])}
  BY <1>3, FoundIs
<1>5. /\ more \in Seq(F)
      /\ \A r \in F : \E i \in DOMAIN more : more[i] = r
      /\ \A i, j \in DOMAIN more : i < j => row[more[i]].at > row[more[j]].at
  <2>1. F \in SUBSET Rows /\ \A r \in F : row[r] # NoVal
    BY <1>4 DEF Finds
  <2>2. /\ \A r \in F : row[r].at \in Nat
        /\ \A q, r \in F : row[q].at = row[r].at => q = r
    BY <2>1, NoTwoOfOneTime
  <2> HIDE DEF F
  <2> QED BY <2>1, <2>2, NewestFirstSorts
<1>6. \A i \in DOMAIN more : more[i] \in F
  BY <1>5
<1>7. /\ hits \in Seq(Rows) /\ Len(hits) = Len(client.hits) + Len(more)
      /\ \A i \in DOMAIN client.hits : i \in DOMAIN hits /\ hits[i] = client.hits[i]
      /\ \A i \in DOMAIN more : Len(client.hits) + i \in DOMAIN hits /\ hits[Len(client.hits) + i] = more[i]
      /\ \A i \in DOMAIN hits : i \in DOMAIN client.hits \/ i - Len(client.hits) \in DOMAIN more
      /\ Len(client.hits) \in Nat /\ DOMAIN client.hits = 1 .. Len(client.hits)
      /\ Len(more) \in Nat /\ DOMAIN more = 1 .. Len(more) /\ DOMAIN hits = 1 .. Len(hits)
  <2>1. F \subseteq Rows
    BY <1>4
  <2>2. more \in Seq(Rows)
    <3> HIDE DEF F, more
    <3> QED BY <1>5, <2>1, SeqMonotonic
  <2>3. client.hits \in Seq(Rows)
    BY <1>2 DEF Client
  <2> HIDE DEF F, more
  <2> QED BY <2>2, <2>3
<1> HIDE DEF F, more, hits
<1>8. /\ cl \in Client /\ cl.hits = hits /\ cl.stage = k + 1 /\ cl.mine = {} /\ cl.user = u
      /\ cl.page = client.page /\ cl.missed = client.missed /\ cl.gone = client.gone
      /\ cl.pc = IF k = Len(Kinds) THEN "page" ELSE "households"
  <2> HIDE DEF u, k
  <2>1. k + 1 \in Nat /\ {} \in SUBSET Households
    BY <1>3
  <2>2. (IF k = Len(Kinds) THEN "page" ELSE "households") \in {"page", "households"}
    OBVIOUS
  <2>3. cl \in Client
    BY <1>2, <1>7, <2>1, <2>2 DEF Client
  <2> QED BY <1>2, <2>3 DEF Client, u
<1> HIDE DEF cl
<1>9. StageOK(cl, members)
  <2>1. DOMAIN Kinds = 1 .. Len(Kinds) /\ Len(Kinds) \in Nat
    BY SearchAssumption DEF SearchAssumption
  <2> QED BY <1>2, <1>3, <1>8, <2>1 DEF StageOK
<1>10. \A r \in Shown(hits) : r \in Shown(client.hits) \/ r \in F
  BY <1>6, <1>7 DEF Shown
<1>11. \A r : r \in Shown(client.hits) \/ r \in F => r \in Shown(hits)
  BY <1>5, <1>7 DEF Shown
<1>12. HitsOK(cl, row, members)
  <2>1. ASSUME NEW i \in DOMAIN hits
        PROVE  Finds(u, now, members, hits[i], row[hits[i]]) /\ KindIndex(hits[i]) < k + 1
    <3>1. CASE i \in DOMAIN client.hits
      <4>1. KindIndex(client.hits[i]) < k /\ Finds(u, now, members, client.hits[i], row[client.hits[i]])
        BY <1>2, <3>1 DEF HitsOK
      <4>2. KindIndex(client.hits[i]) \in Nat
        BY <1>2, <3>1, Turned, KindsInPlace
      <4> QED BY <1>3, <1>7, <3>1, <4>1, <4>2
    <3>2. CASE i - Len(client.hits) \in DOMAIN more
      <4>1. hits[i] = more[i - Len(client.hits)]
        BY <1>7, <3>2
      <4>2. hits[i] \in F
        BY <1>6, <3>2, <4>1
      <4>3. KindIndex(hits[i]) = k /\ Finds(u, client.mine, members, hits[i], row[hits[i]])
        BY <1>4, <4>2
      <4> QED BY <1>3, <4>3, FoundStays
    <3> QED BY <1>7, <3>1, <3>2
  <2>2. ASSUME NEW i \in DOMAIN hits, NEW j \in DOMAIN hits, i < j
        PROVE  Precedes(hits[i], hits[j], row)
    <3>1. CASE j \in DOMAIN client.hits
      <4>1. i \in DOMAIN client.hits
        BY <1>7, <2>2, <3>1
      <4> QED BY <1>2, <1>7, <2>2, <3>1, <4>1 DEF HitsOK
    <3>2. CASE j - Len(client.hits) \in DOMAIN more
      <4> DEFINE b == j - Len(client.hits)
      <4>1. hits[j] = more[b] /\ more[b] \in F
        BY <1>6, <1>7, <3>2
      <4>2. KindIndex(hits[j]) = k
        BY <1>4, <4>1
      <4>3. CASE i \in DOMAIN client.hits
        BY <1>2, <1>7, <4>2, <4>3 DEF HitsOK, Precedes
      <4>4. CASE i - Len(client.hits) \in DOMAIN more
        <5> DEFINE a == i - Len(client.hits)
        <5>1. hits[i] = more[a] /\ more[a] \in F /\ a < b
          BY <1>6, <1>7, <2>2, <4>4
        <5>2. KindIndex(hits[i]) = k
          BY <1>4, <5>1
        <5>3. row[more[a]].at > row[more[b]].at
          BY <1>5, <3>2, <4>4, <5>1
        <5> QED BY <4>1, <4>2, <5>1, <5>2, <5>3 DEF Precedes
      <4> QED BY <1>7, <4>3, <4>4
    <3> QED BY <1>7, <3>1, <3>2
  <2> QED BY <1>8, <2>1, <2>2 DEF HitsOK
<1>13. ASSUME NEW r \in client.missed
       PROVE  /\ MissedOK(r, cl, row, members, removed)
              /\ Ahead(r, client, row, members, removed) \subseteq Ahead(r, cl, row, members, removed)
  <2>1. r \in Rows /\ MissedOK(r, client, row, members, removed)
    BY <1>2 DEF Client
  <2>2. KindIndex(r) < k + 1 => r \in Shown(hits)
    <3>1. KindIndex(r) \in Nat
      BY <2>1, KindsInPlace
    <3>2. CASE KindIndex(r) < k
      BY <1>11, <2>1, <3>2 DEF MissedOK
    <3>3. CASE KindIndex(r) = k
      BY <1>2, <1>4, <1>11, <2>1, <3>3 DEF MissedOK
    <3> QED BY <1>3, <3>1, <3>2, <3>3
  <2>3. Ahead(r, client, row, members, removed) \subseteq Ahead(r, cl, row, members, removed)
    <3> SUFFICES ASSUME NEW q \in Ahead(r, client, row, members, removed)
                 PROVE  q \in Ahead(r, cl, row, members, removed)
      OBVIOUS
    <3>1. /\ q \in Rows /\ Precedes(q, r, row)
          /\ \/ q \in Shown(client.hits)
             \/ /\ KindIndex(q) >= k /\ q \notin removed
                /\ Finds(u, MineFor(client, members, KindIndex(q)), members, q, row[q])
      BY DEF Ahead
    <3>2. KindIndex(q) \in Nat
      BY <3>1, KindsInPlace
    <3>3. CASE q \in Shown(client.hits)
      BY <1>8, <1>11, <3>1, <3>3 DEF Ahead
    <3>4. CASE /\ KindIndex(q) = k /\ q \notin removed
               /\ Finds(u, MineFor(client, members, KindIndex(q)), members, q, row[q])
      <4>1. q \in F
        BY <1>2, <1>4, <3>1, <3>4 DEF MineFor
      <4> QED BY <1>8, <1>11, <3>1, <4>1 DEF Ahead
    <3>5. CASE /\ KindIndex(q) > k /\ q \notin removed
               /\ Finds(u, MineFor(client, members, KindIndex(q)), members, q, row[q])
      <4>1. MineFor(client, members, KindIndex(q)) = MineFor(cl, members, KindIndex(q))
        BY <1>2, <1>3, <1>8, <3>5 DEF MineFor
      <4>2. KindIndex(q) >= k + 1
        BY <1>3, <3>2, <3>5
      <4> QED BY <1>8, <3>1, <3>5, <4>1, <4>2 DEF Ahead
    <3> QED BY <1>3, <3>1, <3>2, <3>3, <3>4, <3>5
  <2>5. cl.pc # "select"
    BY <1>8
  <2> QED BY <1>8, <2>1, <2>2, <2>3, <2>5 DEF MissedOK
<1>14. cl.pc # "done"
  BY <1>8
<1>15. CountOK(cl, row, members, removed)
  <2>1. F \cap removed = {}
    BY <1>4
  <2>2. Due(cl, removed) \subseteq Due(client, removed)
    BY <1>8, <1>10, <2>1 DEF Due
  <2> QED BY <1>2, <1>8, <1>13, <2>2, CountKept
<1> QED BY <1>1, <1>2, <1>8, <1>9, <1>12, <1>13, <1>14, <1>15 DEF SearchOK

(* What a page shows of the hits.                                          *)
LEMMA PageShows ==
    ASSUME NEW hits \in Seq(Rows), NEW page \in Nat, page >= 1,
           NEW i \in 1 .. Len(hits), i - 1 >= (page - 1) * PageSize, i <= page * PageSize
    PROVE  hits[i] \in Shown(Paged(hits, page))
<1> DEFINE start == (page - 1) * PageSize
           end == Smaller(start + PageSize, Len(hits))
<1>1. PageSize \in Nat /\ Len(hits) \in Nat
  BY SearchAssumption DEF SearchAssumption
<1>2. page - 1 \in Nat
  OBVIOUS
<1>3. start \in Nat /\ start + PageSize = page * PageSize
  BY <1>1, <1>2
<1>4. i \in Nat /\ start < i /\ i <= start + PageSize /\ i <= Len(hits)
  BY <1>1, <1>3
<1> HIDE DEF start
<1>5. end \in Nat /\ i <= end /\ end <= Len(hits)
  BY <1>1, <1>3, <1>4 DEF Smaller
<1>6. Paged(hits, page) = SubSeq(hits, start + 1, end)
  <2>1. Paged(hits, page) = Slice(hits, start)
    BY DEF Paged, start
  <2>2. ~(start >= Len(hits))
    BY <1>1, <1>3, <1>4
  <2> QED BY <2>1, <2>2 DEF Slice, end
<1> HIDE DEF end
<1>7. /\ SubSeq(hits, start + 1, end) \in Seq(Rows)
      /\ Len(SubSeq(hits, start + 1, end)) = end - start
      /\ SubSeq(hits, start + 1, end)[i - start] = hits[i]
  <2>1. \A k \in start + 1 .. end : hits[k] \in Rows
    BY <1>1, <1>3, <1>5
  <2>2. /\ SubSeq(hits, start + 1, end) \in Seq(Rows)
        /\ Len(SubSeq(hits, start + 1, end)) = IF start + 1 <= end THEN end - (start + 1) + 1 ELSE 0
        /\ \A k \in 1 .. end - (start + 1) + 1 : SubSeq(hits, start + 1, end)[k] = hits[(start + 1) + k - 1]
    <3>1. start + 1 \in Int /\ end \in Int
      BY <1>3, <1>5
    <3> QED BY <2>1, <3>1, SubSeqProperties
  <2> DEFINE k == i - start
  <2>3. k \in 1 .. end - (start + 1) + 1 /\ (start + 1) + k - 1 = i
    BY <1>3, <1>4, <1>5
  <2>4. end - start = IF start + 1 <= end THEN end - (start + 1) + 1 ELSE 0
    BY <1>3, <1>4, <1>5
  <2> HIDE DEF k
  <2>5. SubSeq(hits, start + 1, end)[k] = hits[i]
    BY <2>2, <2>3
  <2>6. Len(SubSeq(hits, start + 1, end)) = end - start
    BY <2>2, <2>4
  <2>7. SubSeq(hits, start + 1, end) \in Seq(Rows)
    BY <2>2
  <2> QED BY <2>5, <2>6, <2>7 DEF k
<1>8. i - start \in DOMAIN SubSeq(hits, start + 1, end)
  BY <1>3, <1>4, <1>5, <1>7
<1> QED BY <1>6, <1>7, <1>8 DEF Shown

LEMMA InFront ==
    ASSUME NEW hits \in Seq(Rows), \A j, k \in DOMAIN hits : hits[j] = hits[k] => j = k,
           NEW i \in DOMAIN hits
    PROVE  Cardinality({hits[j] : j \in 1 .. i - 1}) = i - 1
<1> DEFINE A == {hits[j] : j \in 1 .. i - 1}
           g == [j \in 1 .. i - 1 |-> hits[j]]
<1>1. i \in Nat /\ i >= 1 /\ 1 .. i - 1 \subseteq DOMAIN hits
  OBVIOUS
<1>2. g \in [1 .. i - 1 -> A] /\ (\A j, k \in 1 .. i - 1 : g[j] = g[k] => j = k) /\ \A a \in A : \E j \in 1 .. i - 1 : g[j] = a
  BY <1>1
<1> HIDE DEF g, A
<1>3. g \in Bijection(1 .. i - 1, A)
  BY <1>2 DEF Bijection, Injection, Surjection, IsInjective
<1>4. IsFiniteSet(1 .. i - 1) /\ Cardinality(1 .. i - 1) = i - 1
  <2> DEFINE n == i - 1
  <2>1. n \in Nat
    BY <1>1
  <2> HIDE DEF n
  <2>2. IsFiniteSet(1 .. n) /\ Cardinality(1 .. n) = n
    BY <2>1, FS_Interval
  <2> QED BY <2>2 DEF n
<1> QED BY <1>3, <1>4, FS_Bijection DEF ExistsBijection, A

LEMMA ShowPageOK ==
    ASSUME IInv, TimesOK, SearchInv, ShowPage
    PROVE  SearchOK(client', row, members, removed)
<1> DEFINE u == client.user
           p == client.page
           hits == client.hits
           now == HouseholdsOf(u, members)
           left == client.missed \ Shown(Paged(hits, p))
           next == [client EXCEPT !.pc = "households", !.page = p + 1, !.stage = 1,
                                  !.hits = <<>>, !.missed = left]
           last == [client EXCEPT !.pc = "done", !.hits = <<>>, !.missed = left]
<1>1. client' = IF p * PageSize < Len(hits) THEN next ELSE last
  BY DEF ShowPage
<1>2. /\ client \in Client /\ StageOK(client, members) /\ HitsOK(client, row, members)
      /\ \A r \in client.missed : MissedOK(r, client, row, members, removed)
      /\ CountOK(client, row, members, removed) /\ client.gone \subseteq removed
      /\ client.pc = "page"
  BY DEF SearchInv, SearchOK, Searching, ShowPage
<1>3. /\ p \in Nat /\ p >= 1 /\ hits \in Seq(Rows) /\ DOMAIN hits = 1 .. Len(hits) /\ Len(hits) \in Nat
      /\ \A i \in DOMAIN hits : hits[i] \in Rows
  BY <1>2, Turned DEF StageOK
<1>4. PageSize \in Nat /\ p * PageSize \in Nat /\ (p - 1) * PageSize \in Nat
  <2>1. PageSize \in Nat /\ p - 1 \in Nat
    BY <1>3, SearchAssumption DEF SearchAssumption
  <2> QED BY <1>3, <2>1
<1>5. \A r \in Rows : KindIndex(r) \in Nat /\ KindIndex(r) >= 1 /\ KindIndex(r) < client.stage
  <2>1. client.stage = Len(Kinds) + 1 /\ Len(Kinds) \in Nat
    BY <1>2, SearchAssumption DEF StageOK, SearchAssumption
  <2> QED BY <2>1, KindsInPlace
<1>6. \A i, j \in DOMAIN hits : (Precedes(hits[j], hits[i], row) <=> j < i) /\ (hits[j] = hits[i] => j = i)
  <2> SUFFICES ASSUME NEW i \in DOMAIN hits, NEW j \in DOMAIN hits
               PROVE  (Precedes(hits[j], hits[i], row) <=> j < i) /\ (hits[j] = hits[i] => j = i)
    OBVIOUS
  <2>1. \A k \in DOMAIN hits : row[hits[k]].at \in Nat /\ KindIndex(hits[k]) \in Nat
    <3>1. \A k \in DOMAIN hits : row[hits[k]] # NoVal
      BY <1>2 DEF HitsOK, Finds
    <3> QED BY <1>3, <1>5, <3>1, NoTwoOfOneTime
  <2>2. j < i => Precedes(hits[j], hits[i], row)
    BY <1>2 DEF HitsOK
  <2>3. i < j => Precedes(hits[i], hits[j], row)
    BY <1>2 DEF HitsOK
  <2>4. ~(Precedes(hits[i], hits[j], row) /\ Precedes(hits[j], hits[i], row)) /\ ~Precedes(hits[i], hits[i], row)
    BY <2>1 DEF Precedes
  <2>5. i \in Nat /\ j \in Nat
    BY <1>3
  <2>6. CASE i = j
    BY <2>4, <2>5, <2>6
  <2>7. CASE i < j
    BY <2>3, <2>4, <2>5, <2>7
  <2>8. CASE j < i
    BY <2>2, <2>4, <2>5, <2>8
  <2> QED BY <2>5, <2>6, <2>7, <2>8
<1>7. \A i \in DOMAIN hits :
         /\ Ahead(hits[i], client, row, members, removed) = {hits[j] : j \in 1 .. i - 1}
         /\ Cardinality({hits[j] : j \in 1 .. i - 1}) = i - 1
  <2> SUFFICES ASSUME NEW i \in DOMAIN hits
               PROVE  /\ Ahead(hits[i], client, row, members, removed) = {hits[j] : j \in 1 .. i - 1}
                      /\ Cardinality({hits[j] : j \in 1 .. i - 1}) = i - 1
    OBVIOUS
  <2>1. Cardinality({hits[j] : j \in 1 .. i - 1}) = i - 1
    <3> HIDE DEF hits
    <3> QED BY <1>3, <1>6, InFront
  <2>2. \A q \in Rows : KindIndex(q) \in Nat /\ ~(KindIndex(q) >= client.stage)
    BY <1>2, <1>5 DEF Client
  <2>3. Ahead(hits[i], client, row, members, removed) = {q \in Rows : q \in Shown(hits) /\ Precedes(q, hits[i], row)}
    BY <2>2 DEF Ahead
  <2>4. \A q : q \in {hits[j] : j \in 1 .. i - 1} <=> \E j \in DOMAIN hits : j < i /\ q = hits[j]
    BY <1>3
  <2>5. \A q : q \in {x \in Rows : x \in Shown(hits) /\ Precedes(x, hits[i], row)}
               <=> \E j \in DOMAIN hits : j < i /\ q = hits[j]
    BY <1>3, <1>6 DEF Shown
  <2> HIDE DEF hits
  <2> QED BY <2>1, <2>3, <2>4, <2>5
<1>8. ASSUME NEW r \in left
      PROVE  \E i \in DOMAIN hits :
                r = hits[i] /\ (i > p * PageSize \/ r \in Skipped(client, row, members, removed))
  <2>1. r \in client.missed /\ r \in Rows /\ r \notin Shown(Paged(hits, p))
    BY <1>2 DEF Client
  <2>2. r \in Shown(hits)
    BY <1>2, <1>5, <2>1 DEF MissedOK
  <2>3. PICK i \in DOMAIN hits : r = hits[i]
    BY <2>2 DEF Shown
  <2>4. Cardinality(Ahead(r, client, row, members, removed)) = i - 1
    BY <1>7, <2>3
  <2>5. i \in 1 .. Len(hits) /\ i \in Nat
    BY <1>3
  <2>6. CASE i - 1 >= (p - 1) * PageSize
    <3> HIDE DEF hits, p
    <3>1. ~(i <= p * PageSize)
      BY <1>3, <2>1, <2>3, <2>5, <2>6, PageShows
    <3> QED BY <1>4, <2>3, <2>5, <3>1
  <2>7. CASE i - 1 < (p - 1) * PageSize
    BY <2>1, <2>3, <2>4, <2>7 DEF Skipped
  <2> QED BY <1>4, <2>5, <2>6, <2>7
<1>9. left \in SUBSET Rows
  BY <1>2 DEF Client
<1>10. CASE ~(p * PageSize < Len(hits))
  <2>1. Cardinality(left) <= Cardinality(client.gone)
    <3>1. left \subseteq Skipped(client, row, members, removed)
      <4> HIDE DEF left, hits, p
      <4> QED BY <1>3, <1>4, <1>8, <1>10
    <3>2. Cardinality(left) <= Cardinality(Skipped(client, row, members, removed)) /\ Cardinality(left) \in Nat
      <4> HIDE DEF left
      <4> QED BY <1>2, <1>9, <3>1, CountsAre, Few, Fewer
    <3> HIDE DEF left
    <3> QED BY <1>2, <3>2, CountsAre DEF CountOK
  <2>2. last \in Client /\ last.pc = "done" /\ last.missed = left /\ last.gone = client.gone
    <3> HIDE DEF left
    <3>1. <<>> \in Seq(Rows)
      OBVIOUS
    <3> QED BY <1>2, <1>9, <3>1 DEF Client
  <2> HIDE DEF last, next, left, hits, p
  <2> QED BY <1>1, <1>2, <1>10, <2>1, <2>2 DEF SearchOK, Searching
<1>11. CASE p * PageSize < Len(hits)
  <2> DEFINE cl == next
  <2>1. /\ cl \in Client /\ cl.pc = "households" /\ cl.page = p + 1 /\ cl.stage = 1 /\ cl.user = u
        /\ cl.hits = <<>> /\ cl.missed = left /\ cl.gone = client.gone
    <3> HIDE DEF left
    <3>1. p + 1 \in Nat
      BY <1>3
    <3>2. <<>> \in Seq(Rows) /\ 1 \in Nat
      OBVIOUS
    <3> HIDE DEF p
    <3>3. next \in Client
      BY <1>2, <1>9, <3>1, <3>2 DEF Client
    <3> QED BY <1>2, <3>3 DEF Client
  <2> HIDE DEF cl, left
  <2>2. StageOK(cl, members)
    <3>1. DOMAIN Kinds = 1 .. Len(Kinds) /\ Len(Kinds) \in Nat /\ Len(Kinds) # 0
      BY SearchAssumption DEF SearchAssumption
    <3> QED BY <1>3, <2>1, <3>1 DEF StageOK
  <2>3. HitsOK(cl, row, members)
    BY <2>1 DEF HitsOK
  <2>4. ASSUME NEW r \in left PROVE MissedOK(r, cl, row, members, removed)
    <3>1. r \in client.missed /\ r \in Rows
      BY <1>2 DEF Client, left
    <3> QED BY <1>2, <1>5, <2>1, <3>1 DEF MissedOK
  <2>7. CountOK(cl, row, members, removed)
    <3> DEFINE S1 == Skipped(client, row, members, removed)
               S2 == Skipped(cl, row, members, removed)
               D == Due(client, removed)
               k == Cardinality(D)
               N == {r \in Rows : \E i \in DOMAIN hits :
                        r = hits[i] /\ i >= p * PageSize + 1 /\ i <= p * PageSize + k}
    <3>1. /\ S1 \in SUBSET Rows /\ D \in SUBSET Rows /\ S2 \in SUBSET Rows
          /\ Cardinality(S1) \in Nat /\ k \in Nat /\ Cardinality(client.gone) \in Nat
      BY <1>2, <2>1, CountsAre
    <3>2. N \in SUBSET Rows
      OBVIOUS
    <3>3. Cardinality(N) <= k
      <4> DEFINE a == p * PageSize
                 g == [r \in N |-> CHOOSE i \in DOMAIN hits : r = hits[i] /\ i >= a + 1 /\ i <= a + k]
      <4>1. a \in Nat
        BY <1>4
      <4> HIDE DEF a, k, hits
      <4>2. \A r \in N : /\ g[r] \in DOMAIN hits /\ r = hits[g[r]]
                         /\ g[r] >= a + 1 /\ g[r] <= a + k
        BY DEF a
      <4> HIDE DEF N, g
      <4>3. g \in Injection(N, a + 1 .. a + k)
        <5>1. \A r \in N : g[r] \in a + 1 .. a + k
          BY <1>3, <3>1, <4>1, <4>2
        <5>2. g \in [N -> a + 1 .. a + k]
          BY <5>1 DEF g
        <5>3. \A q, r \in N : g[q] = g[r] => q = r
          BY <4>2
        <5> QED BY <5>2, <5>3 DEF Injection, IsInjective
      <4>4. IsFiniteSet(a + 1 .. a + k) /\ Cardinality(a + 1 .. a + k) = k
        <5> DEFINE b == a + 1
                   e == a + k
        <5>1. b \in Int /\ e \in Int /\ (IF b > e THEN 0 ELSE e - b + 1) = k
          BY <3>1, <4>1
        <5> HIDE DEF b, e
        <5>2. IsFiniteSet(b .. e) /\ Cardinality(b .. e) = IF b > e THEN 0 ELSE e - b + 1
          BY <5>1, FS_Interval
        <5> QED BY <5>1, <5>2 DEF b, e
      <4> QED BY <4>3, <4>4, FS_Injection
    <3>4. S2 \subseteq S1 \cup N
      <4> SUFFICES ASSUME NEW r \in S2, r \notin S1 PROVE r \in N
        OBVIOUS
      <4> DEFINE B == Ahead(r, cl, row, members, removed)
      <4>1. r \in left /\ Cardinality(B) < (cl.page - 1) * PageSize
        BY <2>1 DEF Skipped
      <4>2. PICK i \in DOMAIN hits : r = hits[i] /\ i > p * PageSize
        BY <1>8, <4>1
      <4> DEFINE Before == {hits[j] : j \in 1 .. i - 1}
      <4>3. Before \in SUBSET Rows /\ Cardinality(Before) = i - 1 /\ i \in Nat
        BY <1>3, <1>7
      <4>4. Before \ D \subseteq B
        <5> SUFFICES ASSUME NEW q \in Before, q \notin D PROVE q \in B
          OBVIOUS
        <5>1. PICK j \in DOMAIN hits : q = hits[j] /\ j < i
          BY <1>3
        <5>2. q \in Rows /\ Precedes(q, r, row) /\ q \notin removed
          BY <1>3, <1>6, <4>2, <5>1 DEF Due, Shown
        <5>3. Finds(u, now, members, q, row[q]) /\ KindIndex(q) >= 1
          BY <1>2, <1>5, <5>1, <5>2 DEF HitsOK
        <5>4. MineFor(cl, members, KindIndex(q)) = now
          BY <2>1 DEF MineFor
        <5> QED BY <2>1, <5>2, <5>3, <5>4 DEF Ahead
      <4>5. B \in SUBSET Rows
        BY DEF Ahead
      <4> HIDE DEF B, Before, D
      <4>6. Cardinality(Before \ D) >= Cardinality(Before) - k
        BY <3>1, <4>3, Without
      <4>7. Cardinality(Before \ D) <= Cardinality(B)
        BY <4>4, <4>5, Fewer
      <4>8. Cardinality(Before \ D) \in Nat /\ Cardinality(B) \in Nat
        <5>1. Before \ D \in SUBSET Rows
          BY <4>3
        <5> QED BY <4>5, <5>1, Few
      <4>9. (cl.page - 1) * PageSize = p * PageSize
        BY <1>3, <2>1
      <4>10. i >= p * PageSize + 1 /\ i <= p * PageSize + k
        <5> HIDE DEF k
        <5> QED BY <1>4, <3>1, <4>1, <4>2, <4>3, <4>6, <4>7, <4>8, <4>9
      <4> QED BY <1>3, <4>2, <4>10
    <3> HIDE DEF S1, S2, D, N
    <3>5. Cardinality(S2) <= Cardinality(S1) + k
      <4>1. S1 \cup N \in SUBSET Rows
        BY <3>1, <3>2
      <4>2. Cardinality(S2) <= Cardinality(S1 \cup N)
        BY <3>4, <4>1, Fewer
      <4>3. Cardinality(S1 \cup N) <= Cardinality(S1) + Cardinality(N)
        BY <3>1, <3>2, Together
      <4>4. Cardinality(S2) \in Nat /\ Cardinality(N) \in Nat /\ Cardinality(S1 \cup N) \in Nat
        BY <3>1, <3>2, <4>1, Few
      <4> HIDE DEF k
      <4> QED BY <3>1, <3>3, <4>2, <4>3, <4>4
    <3>6. Cardinality(Due(cl, removed)) = 0
      <4>1. Due(cl, removed) = {}
        BY <2>1 DEF Due, Shown
      <4> QED BY <4>1, FS_EmptySet
    <3>7. Cardinality(S1) + k <= Cardinality(client.gone)
      BY <1>2 DEF CountOK, S1, D
    <3>8. Cardinality(S2) \in Nat
      BY <3>1, Few
    <3>9. Cardinality(S2) + 0 <= Cardinality(client.gone)
      <4> HIDE DEF k
      <4> QED BY <3>1, <3>5, <3>7, <3>8
    <3> QED BY <2>1, <3>6, <3>9 DEF CountOK, S2
  <2>5. client' = cl
    BY <1>1, <1>11 DEF cl
  <2>6. \A r \in cl.missed : MissedOK(r, cl, row, members, removed)
    BY <2>1, <2>4
  <2> QED BY <1>2, <2>1, <2>2, <2>3, <2>5, <2>6, <2>7 DEF SearchOK
<1> QED BY <1>10, <1>11

-----------------------------------------------------------------------------
(* What a deletion does to the search.                                     *)

(* Before no two missed rows are there equally many.                       *)
LEMMA AheadDiffers ==
    ASSUME IInv, TimesOK, SearchInv, Searching(client),
           NEW q \in client.missed, NEW r \in client.missed, q # r
    PROVE  Cardinality(Ahead(q, client, row, members, removed))
              # Cardinality(Ahead(r, client, row, members, removed))
<1> DEFINE A(x) == Ahead(x, client, row, members, removed)
<1>1. /\ client \in Client /\ StageOK(client, members) /\ HitsOK(client, row, members)
      /\ \A x \in client.missed : x \in Rows /\ MissedOK(x, client, row, members, removed)
  BY DEF SearchInv, SearchOK, Client
<1>2. ASSUME NEW x \in client.missed
      PROVE  /\ x \in Rows /\ row[x] # NoVal
             /\ \/ x \in Shown(client.hits)
                \/ /\ KindIndex(x) >= client.stage /\ x \notin removed
                   /\ Finds(client.user, MineFor(client, members, KindIndex(x)), members, x, row[x])
  <2>1. x \in Rows /\ MissedOK(x, client, row, members, removed)
    BY <1>1
  <2>2. KindIndex(x) \in Nat /\ client.stage \in Nat
    BY <1>1, <2>1, KindsInPlace DEF Client
  <2>3. CASE KindIndex(x) < client.stage
    BY <2>1, <2>3 DEF MissedOK, Finds
  <2>4. CASE KindIndex(x) >= client.stage
    BY <2>1, <2>4 DEF MissedOK, MineFor, Finds
  <2> QED BY <2>2, <2>3, <2>4
<1>3. ASSUME NEW x, NEW y \in client.missed, x \in A(y)
      PROVE  x \in Rows /\ row[x] # NoVal
  <2>1. x \in Rows /\ (x \in Shown(client.hits) \/ row[x] # NoVal)
    BY <1>3 DEF Ahead, Finds
  <2>2. x \in Shown(client.hits) => row[x] # NoVal
    BY <1>1 DEF Shown, HitsOK, Finds
  <2> QED BY <2>1, <2>2
<1>4. ASSUME NEW x \in client.missed, NEW y \in client.missed, Precedes(x, y, row)
      PROVE  Cardinality(A(x)) # Cardinality(A(y))
  <2>1. /\ row[x].at \in Nat /\ row[y].at \in Nat
        /\ KindIndex(x) \in Nat /\ KindIndex(y) \in Nat
    BY <1>2, NoTwoOfOneTime, KindsInPlace
  <2>2. A(x) \subseteq A(y)
    <3> SUFFICES ASSUME NEW z \in A(x) PROVE z \in A(y)
      OBVIOUS
    <3>1. z \in Rows /\ row[z] # NoVal
      BY <1>3
    <3>2. row[z].at \in Nat /\ KindIndex(z) \in Nat
      BY <1>2, <3>1, NoTwoOfOneTime, KindsInPlace
    <3>3. Precedes(z, x, row)
      BY DEF Ahead
    <3>4. Precedes(z, y, row)
      BY <1>4, <2>1, <3>2, <3>3 DEF Precedes
    <3> QED BY <3>4 DEF Ahead
  <2>3. x \in A(y)
    BY <1>2, <1>4 DEF Ahead
  <2>4. x \notin A(x)
    <3>1. ~Precedes(x, x, row)
      BY <2>1 DEF Precedes
    <3> QED BY <3>1 DEF Ahead
  <2>5. A(y) \in SUBSET Rows
    BY DEF Ahead
  <2> HIDE DEF A
  <2> QED BY <2>2, <2>3, <2>4, <2>5, Few, FS_Subset
<1>5. Precedes(q, r, row) \/ Precedes(r, q, row)
  <2>1. /\ row[q].at \in Nat /\ row[r].at \in Nat /\ row[q].at # row[r].at
        /\ KindIndex(q) \in Nat /\ KindIndex(r) \in Nat
    BY <1>2, NoTwoOfOneTime, KindsInPlace
  <2> QED BY <2>1 DEF Precedes
<1> QED BY <1>4, <1>5

LEMMA DeleteMovementOK ==
    ASSUME IInv, TimesOK, SearchInv, NEW x \in Removable, DeleteMovement(x)
    PROVE  SearchOK(client', row, members, removed')
<1> DEFINE u == client.user
           now == HouseholdsOf(u, members)
           seen == Searching(client) /\ x \in RowsSeen(u, householdsForUser(u))
           more == removed \cup {x}
           cl == [client EXCEPT !.missed = @ \ {x}, !.gone = IF seen THEN @ \cup {x} ELSE @]
<1>1. x \in Rows /\ x \notin removed /\ row[x] # NoVal
  BY SearchAssumption DEF SearchAssumption, DeleteMovement
<1>2. client \in Client /\ client.gone \subseteq removed
  BY DEF SearchInv, SearchOK
<1>3. client' = cl /\ removed' = more
  <2>1. client.pc \notin {"idle", "done"} <=> Searching(client)
    BY <1>2 DEF Client, Searching
  <2> QED BY <2>1 DEF DeleteMovement
<1>4. /\ cl \in Client /\ cl.pc = client.pc /\ cl.user = u /\ cl.page = client.page
      /\ cl.stage = client.stage /\ cl.mine = client.mine /\ cl.hits = client.hits
      /\ cl.missed = client.missed \ {x}
      /\ cl.gone = IF seen THEN client.gone \cup {x} ELSE client.gone
  <2> HIDE DEF seen, u
  <2>1. client.missed \ {x} \in SUBSET Rows /\ client.gone \cup {x} \in SUBSET Rows
    BY <1>1, <1>2 DEF Client
  <2>2. cl \in Client
    BY <1>2, <2>1 DEF Client
  <2> QED BY <1>2, <2>2 DEF Client, u
<1> HIDE DEF cl, more
<1>5. cl.gone \subseteq more
  BY <1>2, <1>4 DEF more
<1>6. Cardinality(client.gone) \in Nat
      /\ Cardinality(cl.gone) = IF seen THEN Cardinality(client.gone) + 1 ELSE Cardinality(client.gone)
  <2>1. client.gone \in SUBSET Rows /\ x \notin client.gone
    BY <1>1, <1>2 DEF Client
  <2> HIDE DEF seen
  <2> QED BY <1>4, <2>1, Few, FS_AddElement
<1>7. CASE ~Searching(client)
  <2>1. cl.pc = "done" => Cardinality(cl.missed) <= Cardinality(cl.gone)
    <3>1. client.missed \in SUBSET Rows /\ cl.missed \in SUBSET client.missed
      BY <1>2, <1>4 DEF Client
    <3>2. /\ Cardinality(cl.missed) <= Cardinality(client.missed)
          /\ Cardinality(cl.missed) \in Nat /\ Cardinality(client.missed) \in Nat
      BY <3>1, Few, Fewer
    <3>3. cl.pc = "done" => Cardinality(client.missed) <= Cardinality(client.gone)
      BY <1>4 DEF SearchInv, SearchOK
    <3>4. ~seen
      BY <1>7
    <3> HIDE DEF seen
    <3> QED BY <1>6, <3>2, <3>3, <3>4
  <2>2. ~Searching(cl)
    BY <1>4, <1>7 DEF Searching
  <2> QED BY <1>3, <1>4, <1>5, <2>1, <2>2 DEF SearchOK
<1>8. CASE Searching(client)
  <2>1. /\ StageOK(client, members) /\ HitsOK(client, row, members)
        /\ \A r \in client.missed : MissedOK(r, client, row, members, removed)
        /\ CountOK(client, row, members, removed)
    BY <1>8 DEF SearchInv, SearchOK
  <2>2. StageOK(cl, members) /\ HitsOK(cl, row, members)
    BY <1>4, <2>1 DEF StageOK, HitsOK
  <2>3. \A r \in cl.missed : MissedOK(r, cl, row, members, more)
    BY <1>4, <2>1 DEF MissedOK, more
  <2>4. ASSUME NEW mine, mine \subseteq now, Finds(u, mine, members, x, row[x]) PROVE seen
    BY <1>1, <1>8, <2>4, FoundIsSeen
  <2>5. \A i : MineFor(client, members, i) \subseteq now /\ MineFor(cl, members, i) = MineFor(client, members, i)
    BY <1>4, <2>1 DEF MineFor, StageOK
  <2>6. ~seen => x \notin Shown(client.hits)
    BY <2>1, <2>4 DEF HitsOK, Shown
  <2>7. ASSUME NEW r
        PROVE  /\ Ahead(r, client, row, members, removed) \ {x} \subseteq Ahead(r, cl, row, members, more)
               /\ ~seen \/ x \in Shown(client.hits) =>
                     Ahead(r, client, row, members, removed) \subseteq Ahead(r, cl, row, members, more)
    <3>1. Ahead(r, client, row, members, removed) \ {x} \subseteq Ahead(r, cl, row, members, more)
      BY <1>4, <2>5 DEF Ahead, more
    <3>2. ~seen => x \notin Ahead(r, client, row, members, removed)
      BY <2>4, <2>5, <2>6 DEF Ahead
    <3>3. x \in Shown(client.hits) /\ x \in Ahead(r, client, row, members, removed) =>
             x \in Ahead(r, cl, row, members, more)
      BY <1>4 DEF Ahead
    <3> HIDE DEF seen
    <3> QED BY <3>1, <3>2, <3>3
  <2> DEFINE S1 == Skipped(client, row, members, removed)
             S2 == Skipped(cl, row, members, more)
             D1 == Due(client, removed)
             D2 == Due(cl, more)
  <2>8. /\ S1 \in SUBSET Rows /\ S2 \in SUBSET Rows /\ D1 \in SUBSET Rows /\ D2 \in SUBSET Rows
        /\ Cardinality(S1) \in Nat /\ Cardinality(S2) \in Nat
        /\ Cardinality(D1) \in Nat /\ Cardinality(D2) \in Nat
        /\ Cardinality(S1) + Cardinality(D1) <= Cardinality(client.gone)
    BY <1>2, <1>4, <2>1, CountsAre DEF CountOK
  <2>9. D2 = IF x \in Shown(client.hits) THEN D1 \cup {x} ELSE D1
    BY <1>4 DEF Due, more
  <2>10. ASSUME ~seen \/ x \in Shown(client.hits)
         PROVE  Cardinality(S2) <= Cardinality(S1)
    <3>1. S2 \subseteq S1
      BY <1>2, <1>4, <2>7, <2>10, AheadGrows DEF Skipped
    <3> HIDE DEF S1, S2
    <3> QED BY <2>8, <3>1, Fewer
  <2>11. ASSUME ~seen PROVE CountOK(cl, row, members, more)
    <3>1. D2 = D1
      BY <2>6, <2>9, <2>11
    <3>2. Cardinality(cl.gone) = Cardinality(client.gone)
      BY <1>6, <2>11
    <3>3. Cardinality(S2) <= Cardinality(S1)
      BY <2>10, <2>11
    <3> HIDE DEF S1, S2, D1, D2
    <3>4. Cardinality(S2) + Cardinality(D2) <= Cardinality(cl.gone)
      BY <1>6, <2>8, <3>1, <3>2, <3>3
    <3> QED BY <3>4 DEF CountOK, S2, D2
  <2>12. ASSUME seen /\ x \in Shown(client.hits) PROVE CountOK(cl, row, members, more)
    <3>1. D2 = D1 \cup {x}
      BY <2>9, <2>12
    <3>2. Cardinality(cl.gone) = Cardinality(client.gone) + 1
      BY <1>6, <2>12
    <3>3. Cardinality(S2) <= Cardinality(S1)
      BY <2>10, <2>12
    <3> HIDE DEF S1, S2, D1, D2
    <3>4. Cardinality(D2) <= Cardinality(D1) + 1
      <4>1. IsFiniteSet(D1)
        BY <2>8, Few
      <4>2. Cardinality(D1 \cup {x}) = IF x \in D1 THEN Cardinality(D1) ELSE Cardinality(D1) + 1
        BY <4>1, FS_AddElement
      <4> QED BY <2>8, <3>1, <4>2
    <3>5. Cardinality(S2) + Cardinality(D2) <= Cardinality(cl.gone)
      BY <1>6, <2>8, <3>2, <3>3, <3>4
    <3> QED BY <3>5 DEF CountOK, S2, D2
  <2>13. ASSUME seen /\ x \notin Shown(client.hits) PROVE CountOK(cl, row, members, more)
    <3> DEFINE T == (client.page - 1) * PageSize
               E == {r \in client.missed : Cardinality(Ahead(r, client, row, members, removed)) = T}
    <3>1. E \in SUBSET Rows
      BY <1>2 DEF Client
    <3>2. Cardinality(E) <= 1
      <4>1. \A q, r \in E : q = r
        BY <1>8, AheadDiffers
      <4> HIDE DEF E
      <4> QED BY <3>1, <4>1, AtMostOne
    <3>3. S2 \subseteq S1 \cup E
      <4> SUFFICES ASSUME NEW r \in S2 PROVE r \in S1 \cup E
        OBVIOUS
      <4> DEFINE A == Ahead(r, client, row, members, removed)
                 B == Ahead(r, cl, row, members, more)
      <4>1. r \in client.missed /\ Cardinality(B) < T
        BY <1>4 DEF Skipped
      <4>2. A \in SUBSET Rows /\ B \in SUBSET Rows /\ A \ {x} \subseteq B
        BY <2>7 DEF Ahead
      <4> HIDE DEF A, B
      <4>3. Cardinality(A \ {x}) <= Cardinality(B) /\ Cardinality(A) \in Nat /\ Cardinality(B) \in Nat
        BY <4>2, Few, Fewer
      <4>4. Cardinality(A) <= Cardinality(A \ {x}) + 1 /\ Cardinality(A \ {x}) \in Nat
        <5>1. IsFiniteSet(A) /\ A \ {x} \in SUBSET Rows
          BY <4>2, Few
        <5>2. Cardinality(A \ {x}) = IF x \in A THEN Cardinality(A) - 1 ELSE Cardinality(A)
          BY <5>1, FS_RemoveElement
        <5> QED BY <4>3, <5>1, <5>2, Few
      <4>5. T \in Int
        BY <1>2, Turned
      <4>6. Cardinality(A) < T \/ Cardinality(A) = T
        <5> HIDE DEF T
        <5> QED BY <4>1, <4>3, <4>4, <4>5
      <4> QED BY <4>1, <4>6 DEF A, Skipped
    <3>6. D2 = D1
      BY <2>9, <2>13
    <3>7. Cardinality(cl.gone) = Cardinality(client.gone) + 1
      BY <1>6, <2>13
    <3> HIDE DEF S1, S2, D1, D2, seen, E
    <3>4. Cardinality(S2) <= Cardinality(S1) + 1
      <4>1. S1 \cup E \in SUBSET Rows
        BY <2>8, <3>1
      <4>2. Cardinality(S2) <= Cardinality(S1 \cup E) /\ Cardinality(S1 \cup E) \in Nat
        BY <3>3, <4>1, Few, Fewer
      <4>3. Cardinality(S1 \cup E) <= Cardinality(S1) + Cardinality(E) /\ Cardinality(E) \in Nat
        BY <2>8, <3>1, Few, Together
      <4> QED BY <2>8, <3>2, <4>2, <4>3
    <3>5. Cardinality(S2) + Cardinality(D2) <= Cardinality(cl.gone)
      BY <1>6, <2>8, <3>4, <3>6, <3>7
    <3> QED BY <3>5 DEF CountOK, S2, D2
  <2>14. CountOK(cl, row, members, more)
    BY <2>11, <2>12, <2>13
  <2>15. cl.pc # "done"
    BY <1>4, <1>8 DEF Searching
  <2> QED BY <1>3, <1>4, <1>5, <2>2, <2>3, <2>14, <2>15 DEF SearchOK
<1> QED BY <1>7, <1>8

-----------------------------------------------------------------------------
LEMMA NoClientOK == SearchOK(NoClient, row, members, removed)
<1>1. NoClient \in Client
  BY DEF NoClient, Client
<1> QED BY <1>1 DEF NoClient, SearchOK, Searching

LEMMA TimesInit == TenancyInit => TimesOK
<1> SUFFICES ASSUME TenancyInit PROVE TimesOK
  OBVIOUS
<1>1. Idle.pc # "create" /\ Idle.row = NoVal
  BY DEF Idle
<1>2. \A c \in Handlers : request[c] = Idle
  BY DEF TenancyInit
<1>3. \A r \in Rows : row[r] = NoVal
  BY DEF TenancyInit
<1> QED BY <1>1, <1>2, <1>3 DEF TimesOK, HasTime, At

(* Of what a search does the tenancy takes no notice.                      *)
THEOREM SearchIsTenancy == Spec => TenancySpec
<1>1. Init => TenancyInit
  BY DEF Init
<1>2. [Next]_vars => [TenancyNext]_tenancyVars
  BY DEF Next, SearchNext, DeleteMovement, vars, StartSearch, SearchHouseholds, Select,
         ShowPage, Leave
<1> QED BY <1>1, <1>2, PTL DEF Spec, TenancySpec

LEMMA PagesInductive == Spec => [](IInv /\ TimesOK /\ SearchInv)
<1>1. Init => TimesOK /\ SearchInv
  BY TimesInit, NoClientOK DEF Init, SearchInv
<1>2. IInv /\ TimesOK /\ SearchInv /\ [Next]_vars => TimesOK' /\ SearchInv'
  <2> SUFFICES ASSUME IInv, TimesOK, SearchInv, [Next]_vars PROVE TimesOK' /\ SearchInv'
    OBVIOUS
  <2>1. [TenancyNext]_tenancyVars
    BY DEF Next, SearchNext, DeleteMovement, vars, StartSearch, SearchHouseholds, Select,
           ShowPage, Leave
  <2>2. TimesOK' /\ Grown
    BY <2>1, TimesStep
  <2>3. CASE UNCHANGED <<removed, client>>
    BY <2>2, <2>3, SearchUndisturbed DEF SearchInv, Grown
  <2>4. CASE SearchNext /\ UNCHANGED removed
    <3>1. row' = row /\ members' = members
      BY <2>4 DEF SearchNext, tenancyVars, StartSearch, SearchHouseholds, Select, ShowPage, Leave
    <3>2. SearchOK(client', row, members, removed)
      BY <2>4, StartSearchOK, HouseholdsReadOK, SelectOK, ShowPageOK, NoClientOK DEF SearchNext, Leave
    <3> QED BY <2>2, <2>4, <3>1, <3>2 DEF SearchInv
  <2>5. CASE \E x \in Removable : DeleteMovement(x)
    <3>1. row' = row /\ members' = members
      BY <2>5 DEF DeleteMovement, tenancyVars
    <3>2. SearchOK(client', row, members, removed')
      BY <2>5, DeleteMovementOK
    <3> QED BY <2>2, <3>1, <3>2 DEF SearchInv
  <2> QED BY <2>2, <2>3, <2>4, <2>5 DEF Next, vars
<1>3. Spec => []IInv
  BY SearchIsTenancy, Inductive, PTL
<1> QED BY <1>1, <1>2, <1>3, PTL DEF Spec

(* Whoever turns the pages to the end has seen every row that could be     *)
(* seen when the search began and is there still, but for one for each row *)
(* deleted before the user's eyes, whatever is inserted or shared between  *)
(* the pages and between the reads of one page: such a row keeps its place *)
(* in the order, and what precedes it fills the pages that were shown      *)
(* already, until a deletion makes it one less.                            *)
THEOREM OneSkippedPerDeletion == Spec => []PagingSkipsOnePerDeletion
<1>1. SearchInv => PagingSkipsOnePerDeletion
  BY DEF SearchInv, SearchOK, PagingSkipsOnePerDeletion
<1> QED BY PagesInductive, <1>1, PTL

(* The application never asks for a row or a household that the policy     *)
(* hides: a membership it read before is one still.                        *)
THEOREM ThePolicyHidesNothing == Spec => []PolicyHidesNothing
<1>1. ASSUME IInv, SearchInv PROVE PolicyHidesNothing
  <2>1. client.pc = "select" => client.mine \subseteq HouseholdsOf(client.user, members)
    BY <1>1 DEF SearchInv, SearchOK, Searching, StageOK
  <2>2. client.pc = "select" =>
          \A r \in Rows : row[r] # NoVal /\ visibilityCond(client.user, client.mine, ScopeOf(r)) =>
              IsolationPolicy(client.user, ScopeOf(r))
    BY <2>1 DEF visibilityCond, IsolationPolicy, ScopeOf, fn_visible_households, HouseholdsOf
  <2>3. \A c \in Handlers : At(c, "visible") =>
          \A h \in request[c].todo :
              householdVisibilityCond(request[c].user, request[c].mine, h) =>
                  HouseholdPolicy(request[c].user, h)
    <3> SUFFICES ASSUME NEW c \in Handlers, At(c, "visible"), NEW h \in request[c].todo,
                        householdVisibilityCond(request[c].user, request[c].mine, h)
                 PROVE  HouseholdPolicy(request[c].user, h)
      OBVIOUS
    <3>1. request[c] \in Request /\ RequestOK(request[c], members) /\ request[c].pc = "visible"
      BY <1>1 DEF IInv, TenancyTypeOK, RequestsOK, At
    <3>2. h \in request[c].mine => h \in Households /\ request[c].user \in members[h]
      BY <3>1 DEF RequestOK, Request
    <3> QED BY <3>2 DEF householdVisibilityCond, HouseholdPolicy, fn_visible_households
  <2> QED BY <2>2, <2>3 DEF PolicyHidesNothing
<1> QED BY PagesInductive, <1>1, PTL

=============================================================================

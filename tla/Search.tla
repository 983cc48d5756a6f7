-------------------------------- MODULE Search --------------------------------
(***************************************************************************)
(* Search over the rows a user may see (core/search): each kind is read by *)
(* a transaction of its own and newest first, put together in a fixed      *)
(* order and cut into pages.  A client turns the pages one by one,         *)
(* each page a new search, while others insert rows, delete movements and  *)
(* enter households.                                                       *)
(*                                                                         *)
(* Every row matches the query and goes on matching it: a row edited to    *)
(* match no longer leaves a gap as a deleted one does.  No search looks at *)
(* deleted_at: what removes a row from the hits is the deletion of a       *)
(* movement that was entered by hand.                                      *)
(***************************************************************************)
EXTENDS Tenancy, Sequences

CONSTANTS
    Kinds,         \* the kinds of row, in the order of the hits: five in the code
    KindOf,        \* Rows -> the kind of row
    Removable,     \* the rows that requests delete: the manual movements
    PageSize,
    Readers        \* the users who search

VARIABLES
    removed,       \* the rows deleted
    client         \* the client that turns pages

vars == <<tenancyVars, removed, client>>

NoClient == [pc |-> "idle", user |-> NoVal, page |-> 0, stage |-> 0, mine |-> {},
             hits |-> <<>>, missed |-> {}, gone |-> {}]

ASSUME SearchAssumption ==
    /\ Kinds \in Seq({Kinds[i] : i \in DOMAIN Kinds}) /\ Kinds # <<>>
    /\ \A i, j \in DOMAIN Kinds : Kinds[i] = Kinds[j] => i = j
    /\ KindOf \in [Rows -> {Kinds[i] : i \in DOMAIN Kinds}]
    /\ Removable \subseteq Rows
    /\ PageSize \in 1 .. 100
    /\ Readers \subseteq Users

Init == TenancyInit /\ removed = {} /\ client = NoClient

-----------------------------------------------------------------------------
Smaller(m, n) == IF m < n THEN m ELSE n

(* At most a page of the hits beyond `start`; none when it is past them.   *)
Slice(hits, start) ==
    IF start >= Len(hits) THEN <<>>
    ELSE SubSeq(hits, start + 1, Smaller(start + PageSize, Len(hits)))

(* A mutant: pages counted from nought.                                    *)
PagedFromNought(hits, page) == Slice(hits, page * PageSize)

Paged(hits, page) == Slice(hits, (page - 1) * PageSize)

Shown(page) == {page[i] : i \in DOMAIN page}

(* Each row in the place that its time gives it.                           *)
NewestFirst(rows) ==
    [i \in 1 .. Cardinality(rows) |->
        CHOOSE r \in rows : Cardinality({q \in rows : row[q].at >= row[r].at}) = i]

RowsSeen(u, mine) ==
    {r \in Rows \ removed : row[r] # NoVal /\ Visible(u, mine, ScopeOf(r))}

(* Documents are joined with their sources, which have a policy too.       *)
Found(u, mine, kind) ==
    {r \in RowsSeen(u, mine) :
        /\ KindOf[r] = kind
        /\ r \in Documents => IsolationPolicy(u, SourceScopeOf(r))}

(* The first page.  `missed` are the rows that could be read at this time  *)
(* and were not shown yet; `gone` will be those the user could see that    *)
(* were deleted since.                                                     *)
StartSearch(u) ==
    /\ client.pc = "idle"
    /\ client' = [NoClient EXCEPT !.pc = "households", !.user = u, !.page = 1, !.stage = 1,
                                  !.missed = RowsSeen(u, householdsForUser(u))]
    /\ UNCHANGED tenancyVars

(* The two statements of the transaction that reads one kind.              *)
SearchHouseholds ==
    /\ client.pc = "households"
    /\ client' = [client EXCEPT !.pc = "select", !.mine = householdsForUser(client.user)]
    /\ UNCHANGED tenancyVars

Select ==
    /\ client.pc = "select"
    /\ client' = [client EXCEPT
            !.hits = @ \o NewestFirst(Found(client.user, client.mine, Kinds[client.stage])),
            !.stage = @ + 1, !.mine = {},
            !.pc = IF client.stage = Len(Kinds) THEN "page" ELSE "households"]
    /\ UNCHANGED tenancyVars

(* The page is shown; while there are hits beyond it the next is asked for. *)
ShowPage ==
    LET missed == client.missed \ Shown(Paged(client.hits, client.page))
    IN  /\ client.pc = "page"
        /\ client' = IF client.page * PageSize < Len(client.hits)
                     THEN [client EXCEPT !.pc = "households", !.page = @ + 1, !.stage = 1,
                                         !.hits = <<>>, !.missed = missed]
                     ELSE [client EXCEPT !.pc = "done", !.hits = <<>>, !.missed = missed]
        /\ UNCHANGED tenancyVars

Leave ==
    /\ client.pc = "done"
    /\ client' = NoClient
    /\ UNCHANGED tenancyVars

(* The DELETE of a movement by its owner, who found it a manual one; no    *)
(* row is ever another kind of movement than it was.                       *)
DeleteMovement(r) ==
    LET seen == /\ client.pc \notin {"idle", "done"}
                /\ r \in RowsSeen(client.user, householdsForUser(client.user))
    IN  /\ r \in Removable \ removed /\ row[r] # NoVal
        /\ removed' = removed \cup {r}
        /\ client' = [client EXCEPT !.missed = @ \ {r},
                                    !.gone = IF seen THEN @ \cup {r} ELSE @]
        /\ UNCHANGED tenancyVars

SearchNext ==
    \/ \E u \in Readers : StartSearch(u)
    \/ SearchHouseholds \/ Select \/ ShowPage \/ Leave

Next ==
    \/ SearchNext /\ UNCHANGED removed
    \/ \E r \in Removable : DeleteMovement(r)
    \/ TenancyNext /\ UNCHANGED <<removed, client>>

Spec == Init /\ [][Next]_vars

-----------------------------------------------------------------------------
(* The rows a user could see when a search began, and that are there       *)
(* still, are on the pages that follow, whatever is inserted or shared     *)
(* meanwhile, but for one for each row that was taken from the user's      *)
(* sight by a deletion: newcomers push rows back, a deletion pulls one row *)
(* over the edge of a page that was shown.                                 *)
PagingSkipsOnePerDeletion ==
    client.pc = "done" => Cardinality(client.missed) <= Cardinality(client.gone)

(* The application's condition never asks for a row the policy hides,      *)
(* though it was put together from an earlier statement's memberships.     *)
PolicyHidesNothing ==
    /\ client.pc = "select" =>
          \A r \in Rows : row[r] # NoVal /\ visibilityCond(client.user, client.mine, ScopeOf(r)) =>
              IsolationPolicy(client.user, ScopeOf(r))
    /\ \A c \in Handlers : At(c, "visible") =>
          \A h \in request[c].todo :
              householdVisibilityCond(request[c].user, request[c].mine, h) =>
                  HouseholdPolicy(request[c].user, h)

=============================================================================

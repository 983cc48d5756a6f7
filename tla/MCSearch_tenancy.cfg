SPECIFICATION Spec
CONSTANTS
    NoVal = NoVal
    r1 = r1
    r2 = r2
    c1 = c1
    c2 = c2
    Users = {u1, u2}
    Guests = {g}
    Households = {h1}
    Rows = {r1, r2}
    Handlers = {c1, c2}
    Kinds <- KindsInOrder
    Documents = {r2}
    KindOf <- KindsOfRows
    Removable = {r1}
    PageSize = 1
    Readers = {u2}
SYMMETRY Symmetry
INVARIANTS
    TenancyTypeOK
    AnswersNameTheRequester
    NothingIsRefused
    JoinHidesNothing
    PagingSkipsOnePerDeletion
    PolicyHidesNothing
PROPERTIES
    MembersAreInvited

SPECIFICATION Spec
CONSTANTS
    NoVal = NoVal
    Blank = Blank
    S1 = S1
    B = B
    M = M
    AssetIds = {1, 2}
    CandidateLimit = 2
    DefaultCandidateLimit = 10
    Handlers = {h1, h2}
    Purgers = {p1}
    MaxPurged = 1
    Contents = {c1}
    SourceIds = {1}
    ReviewIds = {r1}
    Extractions <- UnitOrProduct
SYMMETRY Symmetry
INVARIANTS
    PendingReviewIsApprovable

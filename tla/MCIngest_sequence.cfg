SPECIFICATION Spec
CONSTANTS
    NoVal = NoVal
    Blank = Blank
    S1 = S1
    B = B
    M = M
    AssetIds = {1, 2}
    CandidateLimit = 2
    DefaultCandidateLimit = 10
    Handlers = {h1}
    Purgers = {p1}
    MaxPurged = 1
    Contents = {c1, c2}
    SourceIds = {1, 2}
    ReviewIds = {r1}
    Extractions <- OnlyProduct
SYMMETRY Symmetry
INVARIANTS
    TypeOK
    OneOutcomePerUpload
    ApprovedReviewHasItsDocument
    DocumentTargetsExist
PROPERTIES
    ApprovalKeepsItsMatch
    OnlyRestoreUndeletes
    ImplementsRegister

SPECIFICATION Spec
CONSTANTS
    NoVal = NoVal
    Blank = Blank
    S1 = S1
    B = B
    M = M
    AssetIds = {1, 2}
    CandidateLimit = 1
    DefaultCandidateLimit = 10
    Handlers = {h1, h2}
    Purgers = {}
    MaxPurged = 1
    Contents = {c1}
    SourceIds = {1, 2}
    ReviewIds = {}
    Extractions <- UnitOrNothing
SYMMETRY Symmetry
INVARIANTS
    LiveSerialUnique
PROPERTIES
    AssetsAppearWithTheirDocument

SPECIFICATION Spec
CONSTANTS
    None = None
    NWorkers = 3
    Threshold = 7
    Words <- W
    White <- Whites
    Space = "space"
    Lower <- LowerOf
    WithDigit <- Digits
    Descriptors <- Colours
    Compounds <- Joins
    Lexicon <- Brands
    Mentions <- Inside
    DocTypes <- Types
    Answers <- FewAnswers
    Categories <- Vocabulary
    Keywords <- Table
    Beginnings <- Starts
    Endings <- Finishes
    NotText = NotText
    Blank = Blank
INVARIANTS
    NothingHeardIsLost
    CommitHasTwoWitnesses
    LateIsHeld
    ModelIsNoDescription
    OrderDoesNotDecide
    WarrantyEndsOnTime
    CategoryIsHeard
PROPERTIES
    RequestsEnd

SPECIFICATION Spec
CONSTANTS
    NoVal = NoVal
    Documents = {d1}
    AssetIds = {a1}
    Notes = {n1}
    Handlers = {h1, h2}
    BypassRLS = TRUE
    MaxFaults = 1
INVARIANTS
    ChoiceTypeOK
    ResolvedForAReason
PROPERTIES
    DeletedStaysDeleted
    ChoicesEnd

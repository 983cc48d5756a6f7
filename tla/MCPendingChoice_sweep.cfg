SPECIFICATION Spec
CONSTANTS
    NoVal = NoVal
    Documents = {d1}
    AssetIds = {a1}
    Notes = {n1}
    Handlers = {h1}
    BypassRLS = FALSE
    MaxFaults = 0
PROPERTIES
    ChoicesEnd

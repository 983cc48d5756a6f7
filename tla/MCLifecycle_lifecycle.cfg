SPECIFICATION Spec
CONSTANTS
    NoVal = NoVal
    Gone = Gone
    AssetIds = {a1, a2, a3}
    Documents = {d1, d2}
    Serials = {S1}
    Handlers = {h1, h2}
    MaxNow = 2
SYMMETRY Symmetry
INVARIANTS
    LifecycleTypeOK
PROPERTIES
    ImplementsRegister
    

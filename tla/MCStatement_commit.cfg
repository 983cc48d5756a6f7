SPECIFICATION Spec
CONSTANTS
    NoVal = NoVal
    Gone = Gone
    D1 = D1
    A1 = A1
    A2 = A2
    T1 = T1
    R1 = R1
    Receipt = Receipt
    Quote = Quote
    MaxMovements = 4
    Dates = {D1}
    Amounts = {A1, A2}
    Texts = {T1}
    Refs = {R1}
    Docs = {Receipt}
    Price <- MCPrice
    Users = {u1}
    Importers = {i1, i2}
    BatchIds = {b1}
    Origins <- MCOrigins
    Files <- MCOneFile
    MaxLines = 3
    Blank = Blank
    Malformed = Malformed
    Title = Title
SYMMETRY Symmetry
PROPERTIES
    BatchesAreDecidedOnce

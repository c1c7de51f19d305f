SPECIFICATION Spec
CONSTANTS
    h1 = h1
    h2 = h2
    NoHandle = NoHandle
    Handles <- MCHandles
    OtherProcess = TRUE
    MaxSchema = 2
    MaxVersion = 5
SYMMETRY MCSymmetry
INVARIANTS
    ColumnsAreCurrent
PROPERTIES
    SchemaNeverGoesBack
CHECK_DEADLOCK FALSE

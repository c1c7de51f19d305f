SPECIFICATION Spec
CONSTANTS
    MaxSize = 4
    MaxIndex = 9
    MaxArg = 4
    Rows = {r1, r2, r3, leaf}
    Linking = {r1, r2, r3}
    MaxDepth = 3
    Tables <- MCTables
    Changes <- MCChanges
INVARIANTS
    CallsAreRight
    AnswersAreRight

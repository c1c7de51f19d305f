SPECIFICATION Spec
CONSTANTS
    InitialSize = 3
    MaxRow = 5
    MaxEdits = 4
INVARIANTS
    ChangesExplainList
    OneMoveIsTold
CHECK_DEADLOCK FALSE

SPECIFICATION Spec
CONSTANTS
    InitialSize = 3
    MaxRow = 4
    MaxEdits = 3
    Everything = 8
    MaxKey = 2
INVARIANTS
    ChangesTrackRows
    ChangesGiveTheResults
    ModifiedRowsReload
CHECK_DEADLOCK FALSE

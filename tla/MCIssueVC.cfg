SPECIFICATION Spec
CONSTANTS
    Routes = {"r"}
    NoIssue = NoIssue
    Texts <- MCTexts
    ValidEmails <- MCValidEmails
    Opened <- MCOpened
    Typed <- MCTyped
    TextCells = {c1, c2}
    NoCell = NoCell
    NoRow = NoRow
    MaxPending = 1
INVARIANTS
    RowsShowTheirField
    LastEntryOrOriginal
PROPERTIES
    SavedIsTheControllersCopy
CHECK_DEADLOCK FALSE
SYMMETRY MCSymmetry

------------------------------ MODULE IssueVC ------------------------------
(***************************************************************************)
(* The UIKit form of an issue: the controller IssueVC with its copy of the *)
(* issue, the table IssueView with another, and the cells that the table   *)
(* fills from its own copy whenever a row comes on screen.                 *)
(*                                                                         *)
(* The four text rows share reusable cells; the date and the report have   *)
(* one cell each.  Which rows are on screen is up to the user's scrolling. *)
(* A cell that is being edited stays with its row.  UITableView, the main  *)
(* queue and the interactor are modelled from how the form uses them.      *)
(***************************************************************************)
EXTENDS IssueData, FiniteSets

CONSTANTS Opened,      \* the issues a form may be opened on
          Typed,       \* Typed[f]: what the user may enter into field f
          TextCells,   \* the reusable cells of the text rows
          NoCell,      \* a row that is not on screen has no cell
          NoRow,       \* no row has the focus
          MaxPending   \* bound: dismissals waiting on the main queue

TextRows == {"name", "surename", "email", "phone"}

Rows == TextRows \cup {"timestamp", "report"}

\* The cells a row may be shown with; a row of its own kind is its own cell.
CellsFor(f) == IF f \in TextRows THEN TextCells ELSE {f}

Cells == TextCells \cup {"timestamp", "report"}

ASSUME FormAssumption ==
    /\ Opened \subseteq Issue
    /\ NoCell \notin Cells /\ NoRow \notin Rows
    /\ TextCells \cap {"timestamp", "report"} = {}
    /\ \A f \in TextRows : Typed[f] \subseteq Texts
    /\ Typed["timestamp"] \subseteq Int /\ Typed["report"] \subseteq Nat
    /\ MaxPending \in Nat

VARIABLES issueVM,   \* IssueVC's copy: what a save will store
          original,  \* IssueView's copy: what a row is filled from
          cellOf,    \* the cell of each row on screen
          cell,      \* what each cell is for and what it shows
          focus,     \* the row being edited
          alert,     \* the alert about the mandatory fields is up
          hud,       \* the progress HUD is on the form
          pending,   \* dismissals posted to the main queue
          on,        \* the form is on the navigation stack
          saved,     \* the last issue passed to create
          last       \* history: the last value entered into each field

vars == <<issueVM, original, cellOf, cell, focus, alert, hud, pending, on,
          saved, last>>

TypeOK ==
    /\ issueVM \in Issue /\ original \in Issue
    /\ cellOf \in [Rows -> Cells \cup {NoCell}]
    /\ \A c \in Cells : cell[c].type \in Rows \cup {NoRow}
    /\ focus \in Rows \cup {NoRow}
    /\ alert \in BOOLEAN /\ hud \in BOOLEAN /\ on \in BOOLEAN
    /\ pending \in 0..MaxPending + 1
    /\ saved \in Issue \cup {NoIssue}

OnScreen == {f \in Rows : cellOf[f] # NoCell}

Shown(f) == cell[cellOf[f]].text

\* IssueVM(issue:), instantiate and viewDidLoad: both copies are the issue.
Init ==
    /\ issueVM \in {IssueUI(i, 1) : i \in Opened}
    /\ original = issueVM
    /\ cellOf = [f \in Rows |-> NoCell]
    /\ cell = [c \in Cells |-> [type |-> NoRow, text |-> EmptyText]]
    /\ focus = NoRow
    /\ alert = FALSE /\ hud = FALSE /\ pending = 0 /\ on = TRUE
    /\ saved = NoIssue
    /\ last = [f \in Rows |-> issueVM[f]]
-----------------------------------------------------------------------------
(* The table *)

\* Mutant of Fill: a reused cell keeps the row it was first set up for.
FillKeepsType(c, f) ==
    cell' = [cell EXCEPT ![c] =
        [type |-> IF @.type = NoRow THEN f ELSE @.type, text |-> original[f]]]

\* set(attributePersonType:) and refreshView: from the table's own copy.
Fill(c, f) == cell' = [cell EXCEPT ![c] = [type |-> f, text |-> original[f]]]

\* tableView(_:cellForRowAt:): a row comes on screen in a free cell.
cellForRowAt(f) ==
    /\ on /\ f \notin OnScreen
    /\ \E c \in CellsFor(f) \ {cellOf[g] : g \in Rows} :
          cellOf' = [cellOf EXCEPT ![f] = c] /\ Fill(c, f)
    /\ UNCHANGED <<issueVM, original, focus, alert, hud, pending, on, saved,
                   last>>

ScrollAway(f) ==
    /\ on /\ f \in OnScreen /\ focus # f
    /\ cellOf' = [cellOf EXCEPT ![f] = NoCell]
    /\ UNCHANGED <<issueVM, original, cell, focus, alert, hud, pending, on,
                   saved, last>>
-----------------------------------------------------------------------------
(* The cells *)

\* onValueChanged: the callback of the cell's type writes into IssueVC.
onValueChanged(c, value) ==
    issueVM' = [issueVM EXCEPT ![cell[c].type] = value]

Focus(f) ==
    /\ on /\ ~alert /\ focus = NoRow
    /\ f \in OnScreen \ {"timestamp"}
    /\ focus' = f
    /\ UNCHANGED <<issueVM, original, cellOf, cell, alert, hud, pending, on,
                   saved, last>>

\* textFieldDidChange, textViewDidChange and datePickerChanged.
Enter(f, v) ==
    /\ cell' = [cell EXCEPT ![cellOf[f]].text = v]
    /\ onValueChanged(cellOf[f], v)
    /\ last' = [last EXCEPT ![f] = v]

\* The user types into the row with the focus, or turns the date picker.
Type(f) ==
    /\ on /\ ~alert
    /\ f = focus \/ (f = "timestamp" /\ f \in OnScreen)
    /\ \E v \in Typed[f] : Enter(f, v)
    /\ UNCHANGED <<original, cellOf, focus, alert, hud, pending, on, saved>>

\* Mutant of EndEditing: the report view writes its text back too.
EndEditingAlways ==
    /\ on /\ ~alert /\ focus # NoRow
    /\ issueVM' = [issueVM EXCEPT ![focus] = Shown(focus)]
    /\ focus' = NoRow
    /\ UNCHANGED <<original, cellOf, cell, alert, hud, pending, on, saved,
                   last>>

\* textFieldDidEndEditing and textFieldShouldReturn write what the cell shows,
\* changed or not; the report's text view only writes changes.
EndEditing ==
    /\ on /\ ~alert /\ focus # NoRow
    /\ IF focus \in TextRows
       THEN onValueChanged(cellOf[focus], Shown(focus))
       ELSE UNCHANGED issueVM
    /\ focus' = NoRow
    /\ UNCHANGED <<original, cellOf, cell, alert, hud, pending, on, saved,
                   last>>
-----------------------------------------------------------------------------
(* Saving *)

\* onSaveAction when the form is not properly filled.
RejectForm ==
    /\ on /\ ~alert /\ ~isFormProperlyFilled(issueVM)
    /\ alert' = TRUE
    /\ UNCHANGED <<issueVM, original, cellOf, cell, focus, hud, pending, on,
                   saved, last>>

CloseAlert ==
    /\ alert /\ alert' = FALSE
    /\ UNCHANGED <<issueVM, original, cellOf, cell, focus, hud, pending, on,
                   saved, last>>

\* Mutant of onSaveAction: the table's copy is saved.
onSaveActionOfView ==
    /\ on /\ ~alert /\ isFormProperlyFilled(issueVM) /\ pending < MaxPending
    /\ saved' = IssueFromUI(original)
    /\ hud' = TRUE
    /\ pending' \in {pending + 1, pending + 2}
    /\ UNCHANGED <<issueVM, original, cellOf, cell, focus, alert, on, last>>

\* onSaveAction and IssuePresenter.save: the HUD, then create, which calls
\* onComplete once, or twice when its commit fails.
onSaveAction ==
    /\ on /\ ~alert /\ isFormProperlyFilled(issueVM) /\ pending < MaxPending
    /\ saved' = IssueFromUI(issueVM)
    /\ hud' = TRUE
    /\ pending' \in {pending + 1, pending + 2}
    /\ UNCHANGED <<issueVM, original, cellOf, cell, focus, alert, on, last>>

\* The block onComplete posts: nothing when the controller is gone.
RunDismiss ==
    /\ pending > 0
    /\ pending' = pending - 1
    /\ hud' = (hud /\ ~on)
    /\ on' = FALSE
    /\ UNCHANGED <<issueVM, original, cellOf, cell, focus, alert, saved, last>>

Back ==
    /\ on /\ ~alert
    /\ on' = FALSE
    /\ UNCHANGED <<issueVM, original, cellOf, cell, focus, alert, hud, pending,
                   saved, last>>

Next ==
    \/ \E f \in Rows : cellForRowAt(f) \/ ScrollAway(f) \/ Focus(f) \/ Type(f)
    \/ EndEditing
    \/ RejectForm \/ CloseAlert \/ onSaveAction \/ RunDismiss \/ Back

Spec == Init /\ [][Next]_vars
-----------------------------------------------------------------------------
\* A row on screen belongs to the field it is for, and shows what a save would
\* store or what the form was opened with: refreshView fills a row from
\* IssueView's copy, which edits never reach.
RowsShowTheirField ==
    \A f \in OnScreen :
       /\ cell[cellOf[f]].type = f
       /\ Shown(f) \in {issueVM[f], original[f]}

\* What a save would store is the user's last entry.  A text field may have
\* fallen back to what the form was opened with, when a row that was scrolled
\* away and back is focused and left; date and report never do.
LastEntryOrOriginal ==
    \A f \in Rows :
       \/ issueVM[f] = last[f]
       \/ f \in TextRows /\ issueVM[f] = original[f]

\* What is passed to create is IssueVC's copy as it passed the test: every
\* field of it was entered, or was there when the form was opened.
SavedIsTheControllersCopy ==
    [][saved' # saved => /\ isFormProperlyFilled(saved')
                         /\ \A f \in Rows :
                               saved'[f] \in {last[f], original[f]}
                         /\ \A f \in Rows \ OnScreen :
                               f \notin TextRows => saved'[f] = last[f]]_vars
=============================================================================

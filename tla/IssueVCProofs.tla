--------------------------- MODULE IssueVCProofs ---------------------------
(***************************************************************************)
(* Proofs about IssueVC: what a row of the UIKit form shows, and what a    *)
(* save stores, for every issue the form may be opened on, every text the  *)
(* user may enter, every number of reusable cells and every order of       *)
(* scrolling, editing and saving.                                          *)
(*                                                                         *)
(* Neither property is inductive by itself.  An edit reaches IssueVC       *)
(* through the cell's type, so it changes the right field only if the cell *)
(* of the row is that row's and no other row's, and if the row with the    *)
(* focus still has a cell: that is what the other conjuncts of IInv say.   *)
(***************************************************************************)
EXTENDS IssueVC, TLAPS

\* No two rows on screen share a cell.
OneRowPerCell ==
    \A f, g \in OnScreen : cellOf[f] = cellOf[g] => f = g

\* The row being edited is on screen: its cell stays with it.
FocusIsOnScreen == focus # NoRow => focus \in OnScreen

\* The cells and the last entries are functions; the values are not typed.
Tables ==
    /\ cell = [c \in Cells |-> [type |-> cell[c].type, text |-> cell[c].text]]
    /\ last = [f \in Rows |-> last[f]]

\* The inductive invariant.
IInv ==
    /\ TypeOK
    /\ Tables
    /\ OneRowPerCell
    /\ FocusIsOnScreen
    /\ RowsShowTheirField
    /\ LastEntryOrOriginal
-----------------------------------------------------------------------------
(* The data of an issue, by its rows *)

\* What a row may hold.
Values(f) ==
    IF f \in TextRows THEN Texts ELSE IF f = "timestamp" THEN Int ELSE Nat

\* A field of an issue holds a value of its type.
LEMMA FieldIs ==
    ASSUME NEW i \in Issue, NEW f \in Rows
    PROVE  i[f] \in Values(f)
  BY DEF Issue, Rows, TextRows, Values

\* The issue i after the value v was entered into row f.
Entered(i, f, v) == [i EXCEPT ![f] = v]

\* Entering a value of its type into a row gives an issue that differs in that
\* row only: onValueChanged.
LEMMA EnterIs ==
    ASSUME NEW i \in Issue, NEW f \in Rows, NEW v \in Values(f), NEW j,
           j = Entered(i, f, v)
    PROVE  /\ j \in Issue
           /\ j[f] = v
           /\ \A g \in Rows \ {f} : j[g] = i[g]
<1>1. f \in {"name", "surename", "email", "phone", "timestamp", "report"}
  BY DEF Rows, TextRows
<1>2. CASE f = "name"
  BY <1>2 DEF Issue, Rows, TextRows, Values, Entered
<1>3. CASE f = "surename"
  BY <1>3 DEF Issue, Rows, TextRows, Values, Entered
<1>4. CASE f = "email"
  BY <1>4 DEF Issue, Rows, TextRows, Values, Entered
<1>5. CASE f = "phone"
  BY <1>5 DEF Issue, Rows, TextRows, Values, Entered
<1>6. CASE f = "timestamp"
  BY <1>6 DEF Issue, Rows, TextRows, Values, Entered
<1>7. CASE f = "report"
  BY <1>7 DEF Issue, Rows, TextRows, Values, Entered
<1> QED
  BY <1>1, <1>2, <1>3, <1>4, <1>5, <1>6, <1>7

\* The conversion of a save loses nothing: Issue(issueUI:).
LEMMA FromUIIs ==
    ASSUME NEW i \in Issue
    PROVE  /\ IssueFromUI(i) \in Issue
           /\ \A f \in Rows : IssueFromUI(i)[f] = i[f]
           /\ isFormProperlyFilled(i) => isFormProperlyFilled(IssueFromUI(i))
  BY DEF Issue, Rows, TextRows, IssueFromUI, WithContent, isFormProperlyFilled

\* The issue a form is opened on is converted to an issue: IssueUI(issue:).
LEMMA UIIs ==
    ASSUME NEW i \in Issue
    PROVE  IssueUI(i, 1) \in Issue
  BY DEF Issue, IssueUI, WithContent

\* What the user may enter into a row is a value of its type.
LEMMA TypedIs ==
    ASSUME NEW f \in Rows, NEW v \in Typed[f]
    PROVE  v \in Values(f)
  BY FormAssumption DEF Rows, TextRows, Values

\* The cells a row may be shown with are cells, and NoCell is none.
LEMMA CellsAre ==
    /\ \A f \in Rows : CellsFor(f) \subseteq Cells
    /\ NoCell \notin Cells /\ NoRow \notin Rows
  BY FormAssumption DEF CellsFor, Cells, Rows, TextRows
-----------------------------------------------------------------------------
(* The inductive invariant holds at the start and across every step *)

\* The form opens with both copies of the issue equal and no row on screen.
LEMMA InitIInv == Init => IInv
<1> SUFFICES ASSUME Init PROVE IInv
  OBVIOUS
<1>1. issueVM \in Issue /\ original = issueVM
  BY UIIs, FormAssumption DEF Init
<1>2. TypeOK
  <2>1. cellOf \in [Rows -> Cells \cup {NoCell}]
    BY DEF Init
  <2>2. \A c \in Cells : cell[c].type \in Rows \cup {NoRow}
    BY DEF Init
  <2>3. pending \in 0..MaxPending + 1
    BY FormAssumption DEF Init
  <2> QED
    BY <1>1, <2>1, <2>2, <2>3 DEF Init, TypeOK
<1>3. Tables
  BY DEF Init, Tables
<1>4. OnScreen = {} /\ focus = NoRow
  BY DEF Init, OnScreen
<1>5. LastEntryOrOriginal
  BY DEF Init, LastEntryOrOriginal
<1> QED
  BY <1>2, <1>3, <1>4, <1>5
  DEF IInv, OneRowPerCell, FocusIsOnScreen, RowsShowTheirField

\* A row that comes on screen takes a cell that no row has: cellForRowAt.
LEMMA ShowKeeps ==
    ASSUME IInv, NEW f \in Rows, cellForRowAt(f)
    PROVE  IInv'
<1>1. PICK c \in CellsFor(f) \ {cellOf[g] : g \in Rows} :
           cellOf' = [cellOf EXCEPT ![f] = c] /\ Fill(c, f)
  BY DEF cellForRowAt
<1>2. /\ c \in Cells /\ c # NoCell
      /\ \A g \in Rows : cellOf[g] # c
      /\ f \notin OnScreen
  BY CellsAre DEF cellForRowAt
<1>3. /\ UNCHANGED <<issueVM, original, focus, last>>
      /\ UNCHANGED <<alert, hud, pending, on, saved>>
  BY DEF cellForRowAt
<1>4. /\ cellOf \in [Rows -> Cells \cup {NoCell}]
      /\ cell = [d \in Cells |-> [type |-> cell[d].type, text |-> cell[d].text]]
  BY DEF IInv, TypeOK, Tables
<1>5. /\ cellOf' \in [Rows -> Cells \cup {NoCell}]
      /\ cellOf'[f] = c
      /\ \A g \in Rows \ {f} : cellOf'[g] = cellOf[g]
  BY <1>1, <1>2, <1>4
<1>6. cell' = [cell EXCEPT ![c] = [type |-> f, text |-> original[f]]]
  BY <1>1 DEF Fill
<1>7. /\ cell'[c].type = f /\ cell'[c].text = original[f]
      /\ \A d \in Cells \ {c} : cell'[d] = cell[d]
      /\ cell' = [d \in Cells |->
                    [type |-> cell'[d].type, text |-> cell'[d].text]]
  BY <1>2, <1>4, <1>6
<1>8. OnScreen' = OnScreen \cup {f}
  BY <1>2, <1>5 DEF OnScreen
<1>9. TypeOK'
  BY <1>3, <1>5, <1>7 DEF IInv, TypeOK
<1>10. Tables'
  BY <1>3, <1>7 DEF IInv, Tables
<1>11. OneRowPerCell' /\ FocusIsOnScreen'
  <2>1. OnScreen \subseteq Rows
    BY DEF OnScreen
  <2> QED
    BY <1>2, <1>3, <1>5, <1>8, <2>1 DEF IInv, OneRowPerCell, FocusIsOnScreen
<1>12. RowsShowTheirField'
  <2> SUFFICES ASSUME NEW g \in OnScreen'
               PROVE  /\ cell'[cellOf'[g]].type = g
                      /\ cell'[cellOf'[g]].text \in {issueVM'[g], original'[g]}
    BY DEF RowsShowTheirField, Shown
  <2>1. CASE g = f
    BY <1>3, <1>5, <1>7, <2>1
  <2>2. CASE g # f
    <3>1. g \in OnScreen /\ g \in Rows /\ cellOf'[g] = cellOf[g]
      BY <1>5, <1>8, <2>2 DEF OnScreen
    <3>2. cellOf[g] \in Cells \ {c}
      BY <1>2, <1>4, <3>1 DEF OnScreen
    <3> QED
      BY <1>3, <1>7, <3>1, <3>2 DEF IInv, RowsShowTheirField, Shown
  <2> QED
    BY <2>1, <2>2
<1>13. LastEntryOrOriginal'
  BY <1>3 DEF IInv, LastEntryOrOriginal
<1> QED
  BY <1>9, <1>10, <1>11, <1>12, <1>13 DEF IInv

\* A row that leaves the screen frees its cell; it is not the one being edited.
LEMMA ScrollKeeps ==
    ASSUME IInv, NEW f \in Rows, ScrollAway(f)
    PROVE  IInv'
<1>1. /\ cellOf' = [cellOf EXCEPT ![f] = NoCell] /\ focus # f
      /\ UNCHANGED <<issueVM, original, cell, focus, last>>
      /\ UNCHANGED <<alert, hud, pending, on, saved>>
  BY DEF ScrollAway
<1>2. cellOf \in [Rows -> Cells \cup {NoCell}]
  BY DEF IInv, TypeOK
<1>3. /\ cellOf' \in [Rows -> Cells \cup {NoCell}]
      /\ \A g \in Rows \ {f} : cellOf'[g] = cellOf[g]
      /\ OnScreen' = OnScreen \ {f}
  BY <1>1, <1>2 DEF OnScreen
<1>4. TypeOK' /\ Tables'
  BY <1>1, <1>3 DEF IInv, TypeOK, Tables
<1>5. OneRowPerCell' /\ FocusIsOnScreen' /\ LastEntryOrOriginal'
  <2>1. OnScreen \subseteq Rows
    BY DEF OnScreen
  <2> QED
    BY <1>1, <1>3, <2>1
    DEF IInv, OneRowPerCell, FocusIsOnScreen, LastEntryOrOriginal
<1>6. RowsShowTheirField'
  <2>1. OnScreen \subseteq Rows
    BY DEF OnScreen
  <2> QED
    BY <1>1, <1>3, <2>1 DEF IInv, RowsShowTheirField, Shown
<1> QED
  BY <1>4, <1>5, <1>6 DEF IInv

\* An entry reaches the field of its row and the cell of its row, and nothing
\* else: the cell's type is the row, and no other row has the cell.
LEMMA TypeKeeps ==
    ASSUME IInv, NEW f \in Rows, Type(f)
    PROVE  IInv'
<1>1. PICK v \in Typed[f] : Enter(f, v)
  BY DEF Type
<1>2. /\ UNCHANGED <<original, cellOf, focus>>
      /\ UNCHANGED <<alert, hud, pending, on, saved>>
  BY DEF Type
<1>3. f \in OnScreen
  BY CellsAre DEF Type, IInv, FocusIsOnScreen
<1> DEFINE c == cellOf[f]
<1>4. c \in Cells /\ cell[c].type = f
  BY <1>3 DEF IInv, TypeOK, RowsShowTheirField, OnScreen
<1>5. /\ issueVM' = [issueVM EXCEPT ![f] = v]
      /\ cell' = [cell EXCEPT ![c].text = v]
      /\ last' = [last EXCEPT ![f] = v]
  BY <1>1, <1>4 DEF Enter, onValueChanged
<1> HIDE DEF c
<1>6. /\ issueVM' \in Issue /\ issueVM'[f] = v
      /\ \A g \in Rows \ {f} : issueVM'[g] = issueVM[g]
  <2>1. issueVM \in Issue /\ v \in Values(f)
    BY <1>1, TypedIs DEF IInv, TypeOK
  <2>2. issueVM' = Entered(issueVM, f, v)
    BY <1>5, Zenon DEF Entered
  <2> QED
    BY <2>1, <2>2, EnterIs
<1>7. /\ cell = [d \in Cells |-> [type |-> cell[d].type, text |-> cell[d].text]]
      /\ last = [g \in Rows |-> last[g]]
  BY DEF IInv, Tables
<1>8. /\ cell'[c] = [type |-> cell[c].type, text |-> v]
      /\ \A d \in Cells \ {c} : cell'[d] = cell[d]
      /\ cell' = [d \in Cells |->
                    [type |-> cell'[d].type, text |-> cell'[d].text]]
  BY <1>4, <1>5, <1>7
<1>9. /\ last'[f] = v
      /\ \A g \in Rows \ {f} : last'[g] = last[g]
      /\ last' = [g \in Rows |-> last'[g]]
  BY <1>5, <1>7
<1>10. TypeOK'
  BY <1>2, <1>4, <1>6, <1>8 DEF IInv, TypeOK
<1>11. Tables'
  BY <1>8, <1>9 DEF Tables
<1>12. OnScreen' = OnScreen
  BY <1>2 DEF OnScreen
<1>13. OneRowPerCell' /\ FocusIsOnScreen'
  BY <1>2, <1>12 DEF IInv, OneRowPerCell, FocusIsOnScreen
<1>14. RowsShowTheirField'
  <2> SUFFICES ASSUME NEW g \in OnScreen
               PROVE  /\ cell'[cellOf[g]].type = g
                      /\ cell'[cellOf[g]].text \in {issueVM'[g], original[g]}
    BY <1>2, <1>12 DEF RowsShowTheirField, Shown
  <2>1. CASE g = f
    BY <1>4, <1>6, <1>8, <2>1 DEF c
  <2>2. CASE g # f
    <3>1. cellOf[g] \in Cells \ {c}
      BY <1>3, <2>2 DEF c, IInv, TypeOK, OneRowPerCell, OnScreen
    <3>2. g \in Rows
      BY DEF OnScreen
    <3> QED
      BY <1>6, <1>8, <2>2, <3>1, <3>2 DEF IInv, RowsShowTheirField, Shown
  <2> QED
    BY <2>1, <2>2
<1>15. LastEntryOrOriginal'
  BY <1>2, <1>6, <1>9 DEF IInv, LastEntryOrOriginal
<1> QED
  BY <1>10, <1>11, <1>13, <1>14, <1>15 DEF IInv

\* Leaving a row writes back what its cell shows: the field as it is, or the
\* text the form was opened with.
LEMMA EndKeeps ==
    ASSUME IInv, EndEditing
    PROVE  IInv'
<1>1. /\ focus' = NoRow /\ focus # NoRow
      /\ UNCHANGED <<original, cellOf, cell, last>>
      /\ UNCHANGED <<alert, hud, pending, on, saved>>
  BY DEF EndEditing
<1> DEFINE f == focus
<1>2. f \in Rows /\ f \in OnScreen
  BY <1>1 DEF IInv, TypeOK, FocusIsOnScreen
<1>3. /\ issueVM' \in Issue
      /\ f \in TextRows => issueVM'[f] \in {issueVM[f], original[f]}
      /\ f \notin TextRows => issueVM' = issueVM
      /\ \A g \in Rows \ {f} : issueVM'[g] = issueVM[g]
  <2>1. CASE f \in TextRows
    <3>1. /\ issueVM' = Entered(issueVM, f, Shown(f))
          /\ Shown(f) \in {issueVM[f], original[f]}
      BY <1>2, <2>1
      DEF Entered, EndEditing, onValueChanged, IInv, RowsShowTheirField
    <3>2. issueVM \in Issue /\ original \in Issue
      BY DEF IInv, TypeOK
    <3>3. Shown(f) \in Values(f)
      BY <1>2, <3>1, <3>2, FieldIs
    <3> HIDE DEF f
    <3>4. /\ issueVM' \in Issue /\ issueVM'[f] = Shown(f)
          /\ \A g \in Rows \ {f} : issueVM'[g] = issueVM[g]
      BY <1>2, <3>1, <3>2, <3>3, EnterIs
    <3> QED
      BY <2>1, <3>1, <3>4
  <2>2. CASE f \notin TextRows
    BY <2>2 DEF EndEditing, IInv, TypeOK
  <2> QED
    BY <2>1, <2>2
<1>4. OnScreen' = OnScreen /\ OnScreen \subseteq Rows
  BY <1>1 DEF OnScreen
<1>5. TypeOK' /\ Tables'
  BY <1>1, <1>3 DEF IInv, TypeOK, Tables
<1>6. OneRowPerCell' /\ FocusIsOnScreen'
  BY <1>1, <1>4 DEF IInv, OneRowPerCell, FocusIsOnScreen
<1>7. RowsShowTheirField'
  <2> SUFFICES ASSUME NEW g \in OnScreen
               PROVE  /\ cell[cellOf[g]].type = g
                      /\ cell[cellOf[g]].text \in {issueVM'[g], original[g]}
    BY <1>1, <1>4 DEF RowsShowTheirField, Shown
  <2>1. /\ cell[cellOf[g]].type = g /\ g \in Rows
        /\ cell[cellOf[g]].text \in {issueVM[g], original[g]}
    BY <1>4 DEF IInv, RowsShowTheirField, Shown
  <2>2. CASE g = f /\ f \in TextRows
    <3>1. issueVM' = Entered(issueVM, f, Shown(f))
      BY <1>2, <2>2
      DEF Entered, EndEditing, onValueChanged, IInv, RowsShowTheirField
    <3>2. issueVM \in Issue /\ original \in Issue
      BY DEF IInv, TypeOK
    <3>3. Shown(f) \in Values(f)
      BY <1>2, <2>1, <2>2, <3>2, FieldIs DEF Shown
    <3>4. issueVM'[f] = Shown(f)
      BY <1>2, <3>1, <3>2, <3>3, EnterIs
    <3> QED
      BY <2>1, <2>2, <3>4 DEF Shown
  <2>3. CASE g # f \/ f \notin TextRows
    BY <1>3, <2>1, <2>3
  <2> QED
    BY <2>2, <2>3
<1>8. LastEntryOrOriginal'
  BY <1>1, <1>2, <1>3 DEF IInv, LastEntryOrOriginal
<1> QED
  BY <1>5, <1>6, <1>7, <1>8 DEF IInv

\* Across every step of the form.
LEMMA NextIInv == IInv /\ [Next]_vars => IInv'
<1> SUFFICES ASSUME IInv, [Next]_vars PROVE IInv'
  OBVIOUS
<1>1. ASSUME NEW f \in Rows, cellForRowAt(f) PROVE IInv'
  BY <1>1, ShowKeeps
<1>2. ASSUME NEW f \in Rows, ScrollAway(f) PROVE IInv'
  BY <1>2, ScrollKeeps
<1>3. ASSUME NEW f \in Rows, Type(f) PROVE IInv'
  BY <1>3, TypeKeeps
<1>4. CASE EndEditing
  BY <1>4, EndKeeps
<1>5. ASSUME TypeOK', UNCHANGED <<issueVM, original, cellOf, cell, last>>,
             focus' = focus \/ focus' \in OnScreen
      PROVE  IInv'
  <2>1. OnScreen' = OnScreen /\ Tables'
    BY <1>5 DEF IInv, Tables, OnScreen
  <2>2. OneRowPerCell' /\ FocusIsOnScreen'
    BY <1>5, <2>1 DEF IInv, OneRowPerCell, FocusIsOnScreen
  <2>3. RowsShowTheirField' /\ LastEntryOrOriginal'
    BY <1>5, <2>1 DEF IInv, RowsShowTheirField, LastEntryOrOriginal, Shown
  <2> QED
    BY <1>5, <2>1, <2>2, <2>3 DEF IInv
<1>6. ASSUME NEW f \in Rows, Focus(f) PROVE IInv'
  <2>1. TypeOK'
    BY <1>6 DEF Focus, IInv, TypeOK
  <2> QED
    BY <1>5, <1>6, <2>1 DEF Focus
<1>7. CASE RejectForm
  <2>1. TypeOK'
    BY <1>7 DEF RejectForm, IInv, TypeOK
  <2> QED
    BY <1>5, <1>7, <2>1 DEF RejectForm
<1>8. CASE CloseAlert
  <2>1. TypeOK'
    BY <1>8 DEF CloseAlert, IInv, TypeOK
  <2> QED
    BY <1>5, <1>8, <2>1 DEF CloseAlert
<1>9. CASE onSaveAction
  <2>1. saved' \in Issue
    BY <1>9, FromUIIs DEF onSaveAction, IInv, TypeOK
  <2>2. pending' \in 0..MaxPending + 1
    BY <1>9, FormAssumption DEF onSaveAction, IInv, TypeOK
  <2>3. TypeOK'
    BY <1>9, <2>1, <2>2 DEF onSaveAction, IInv, TypeOK
  <2> QED
    BY <1>5, <1>9, <2>3 DEF onSaveAction
<1>10. CASE RunDismiss
  <2>1. pending' \in 0..MaxPending + 1
    BY <1>10, FormAssumption DEF RunDismiss, IInv, TypeOK
  <2>2. hud' \in BOOLEAN /\ on' \in BOOLEAN
    BY <1>10, Zenon DEF RunDismiss
  <2>3. TypeOK'
    BY <1>10, <2>1, <2>2 DEF RunDismiss, IInv, TypeOK
  <2> QED
    BY <1>5, <1>10, <2>3 DEF RunDismiss
<1>11. CASE Back
  <2>1. TypeOK'
    BY <1>11 DEF Back, IInv, TypeOK
  <2> QED
    BY <1>5, <1>11, <2>1 DEF Back
<1>12. CASE UNCHANGED vars
  <2>1. TypeOK'
    BY <1>12 DEF vars, IInv, TypeOK
  <2> QED
    BY <1>5, <1>12, <2>1 DEF vars
<1> QED
  BY <1>1, <1>2, <1>3, <1>4, <1>6, <1>7, <1>8, <1>9, <1>10, <1>11, <1>12
  DEF Next
-----------------------------------------------------------------------------
(* Theorems *)

\* The inductive invariant is an invariant of the form.
THEOREM InvariantHolds == Spec => []IInv
  BY InitIInv, NextIInv, PTL DEF Spec

\* Every variable keeps its type.
THEOREM TypeCorrect == Spec => []TypeOK
  BY InvariantHolds, PTL DEF IInv

\* A row on screen is shown by a cell of that row, with what a save would store
\* or what the form was opened with, however the cells have been reused.
THEOREM RowsAreRight == Spec => []RowsShowTheirField
  BY InvariantHolds, PTL DEF IInv

\* What a save would store is the last entry into each field, or, for a text
\* field, what the form was opened with.
THEOREM EntriesAreKept == Spec => []LastEntryOrOriginal
  BY InvariantHolds, PTL DEF IInv

\* A save passes to create an issue that passes the test of the form, and each
\* field of which was entered or was there when the form was opened.
THEOREM SavesAreRight == Spec => SavedIsTheControllersCopy
<1> DEFINE Saves ==
        saved' # saved => /\ isFormProperlyFilled(saved')
                          /\ \A f \in Rows :
                                saved'[f] \in {last[f], original[f]}
                          /\ \A f \in Rows \ OnScreen :
                                f \notin TextRows => saved'[f] = last[f]
<1>1. IInv /\ [Next]_vars => [Saves]_vars
  <2> SUFFICES ASSUME IInv, Next, saved' # saved
               PROVE  Saves
    BY Zenon
  <2>1. onSaveAction
    BY DEF Next, cellForRowAt, ScrollAway, Focus, Type, EndEditing, RejectForm,
           CloseAlert, RunDismiss, Back
  <2>2. saved' = IssueFromUI(issueVM) /\ isFormProperlyFilled(issueVM)
    BY <2>1 DEF onSaveAction
  <2>3. issueVM \in Issue
    BY DEF IInv, TypeOK
  <2>4. /\ \A f \in Rows : saved'[f] = issueVM[f]
        /\ isFormProperlyFilled(saved')
    BY <2>2, <2>3, FromUIIs
  <2> QED
    BY <2>4 DEF IInv, LastEntryOrOriginal
<1> QED
  BY <1>1, InvariantHolds, PTL DEF Spec, SavedIsTheControllersCopy
=============================================================================

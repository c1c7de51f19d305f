---------------------------- MODULE TableChanges ----------------------------
(***************************************************************************)
(* What the notifiers are told of the rows of a table.  A table's rows are  *)
(* not in order: a row that goes away is replaced by the last one.  Every   *)
(* instruction of the transaction log goes to a builder, whose moves are    *)
(* made out at the end of the log (parse_complete); the changes of          *)
(* consecutive logs are merged when a notifier starts from an earlier       *)
(* version than another one (IncrementalChangeInfo).  A row is a number     *)
(* given to it when it is created.                                          *)
(***************************************************************************)
EXTENDS ChangeBuilder

CONSTANTS InitialSize,  \* rows at first
          MaxRow,       \* bound: rows there ever are
          MaxEdits,     \* bound: instructions
          Everything    \* the number of rows clear_table deletes, for SIZE_MAX

ASSUME TableAssumption ==
    /\ InitialSize \in Nat /\ MaxRow \in Nat /\ MaxEdits \in Nat
    /\ InitialSize <= MaxRow /\ Everything \in Nat /\ MaxRow < Everything

VARIABLES table,    \* the rows, by position
          seen,     \* the table at the first version
          before,   \* the table when the log that is being read begins
          changes,  \* the builder of that log
          merged,   \* the changes from `seen` to `before`
          touched,  \* rows that this log has modified
          marked,   \* rows that the logs from `seen` to `before` modified
          rows,     \* rows created
          edits     \* instructions read

tableVars == <<table, seen, before, changes, merged, touched, marked, rows,
               edits>>

TableTypeOK ==
    /\ table \in Seq(1..MaxRow) /\ seen \in Seq(1..MaxRow)
    /\ before \in Seq(1..MaxRow)
    /\ \A b \in {changes, merged} :
          /\ b.insertions \subseteq 0..MaxRow
          /\ b.modifications \subseteq 0..MaxRow
          /\ \A x \in b.deletions : x >= 0
          /\ \A m \in Moves(b) : m.from \in Nat /\ m.to \in Nat
          /\ \A k \in DOMAIN b.mapping : k \in Nat /\ b.mapping[k] \in Nat
    /\ touched \subseteq 1..rows /\ marked \subseteq 1..rows
    /\ rows \in InitialSize..MaxRow /\ edits \in 0..MaxEdits

TableInit ==
    /\ table = [i \in 1..InitialSize |-> i]
    /\ seen = table /\ before = table
    /\ changes = NoChanges /\ merged = NoChanges
    /\ touched = {} /\ marked = {} /\ rows = InitialSize /\ edits = 0

Edit(t, b) ==
    /\ edits < MaxEdits /\ edits' = edits + 1
    /\ table' = t /\ changes' = b
    /\ UNCHANGED <<seen, before, merged, marked>>

\* Rows are created behind the last one.
insert_empty_rows ==
    /\ rows < MaxRow /\ rows' = rows + 1
    /\ Edit(Append(table, rows + 1), insert(changes, Len(table), 1))
    /\ UNCHANGED touched

mark_dirty(i) ==
    /\ Edit(table, modify(changes, i))
    /\ touched' = touched \cup {table[i + 1]}
    /\ UNCHANGED rows

\* The table without the row at i, whose place the last row takes.
MovedOver(t, i) == Front([t EXCEPT ![i + 1] = Last(t)])

erase_rows(i) ==
    /\ Edit(MovedOver(table, i), move_over(changes, i, Len(table) - 1))
    /\ UNCHANGED <<touched, rows>>

swap_rows(i, j) ==
    /\ Edit([table EXCEPT ![i + 1] = table[j + 1], ![j + 1] = table[i + 1]],
            swap(changes, i, j))
    /\ UNCHANGED <<touched, rows>>

\* A row is merged into one that was created in this transaction, and is then
\* moved over.
merge_rows(i, j) ==
    /\ j \in changes.insertions /\ j \notin DOMAIN changes.mapping
    /\ Edit(MovedOver([table EXCEPT ![j + 1] = table[i + 1]], i),
            move_over(subsume(changes, i, j), i, Len(table) - 1))
    /\ touched' = IF table[j + 1] \in touched
                  THEN touched \cup {table[i + 1]} ELSE touched
    /\ UNCHANGED rows

clear_table ==
    /\ Edit(<<>>, [NoChanges EXCEPT !.deletions = 0 .. Everything - 1])
    /\ UNCHANGED <<touched, rows>>

\* The end of a log, whose changes are merged with those of the logs before.
parse_complete_and_merge ==
    /\ table # before \/ ~empty(changes)
    /\ merged' = merge(merged, parse_complete(changes))
    /\ marked' = marked \cup touched
    /\ changes' = NoChanges /\ before' = table /\ touched' = {}
    /\ UNCHANGED <<table, seen, rows, edits>>

\* The changes of the logs read so far have served.
StartOver ==
    /\ seen' = before /\ merged' = NoChanges /\ marked' = {}
    /\ UNCHANGED <<table, before, changes, touched, rows, edits>>
-----------------------------------------------------------------------------
(* Properties *)

\* Where the row that was at position i is now: a deleted one where its move
\* leads, if it has one.
Destinations(b, i) ==
    IF i \in b.deletions THEN {m.to : m \in {m \in Moves(b) : m.from = i}}
    ELSE {shift(b.insertions, unshift(b.deletions, i))}

\* Every row that is still in the table is found, and no other row in its
\* place.
Tracks(b, old, new) ==
    \A i \in Positions(old) :
       Destinations(b, i) = {j \in Positions(new) : new[j + 1] = old[i + 1]}

\* The changes of one log find every row, whatever rows were created, deleted,
\* swapped and merged in the transaction, and so do the changes of several logs
\* merged; the rows that these mark as modified and that are not new are those
\* that were modified.
ChangesTrackRows ==
    /\ Tracks(parse_complete(changes), before, table)
    /\ Tracks(merged, seen, before)
    /\ \A j \in Positions(before) :
          (j \notin merged.insertions \/ \E m \in Moves(merged) : m.to = j)
          => (j \in merged.modifications <=> before[j + 1] \in marked)
=============================================================================

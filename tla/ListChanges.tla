---------------------------- MODULE ListChanges -----------------------------
(***************************************************************************)
(* What the observers of a list are told.  Transactions change the list;    *)
(* the reader of the transaction log (TransactLogObserver) passes every     *)
(* instruction on to a builder; at the end of the log the builder is tidied *)
(* and merged into the changes the notifier has accumulated since it last   *)
(* called back.  A row is a number given to it when it is put into the list: *)
(* a link that is set is a new row in the place of an old one.              *)
(***************************************************************************)
EXTENDS ChangeBuilder

CONSTANTS InitialSize,  \* rows at first
          MaxRow,       \* bound: rows there ever are
          MaxEdits      \* bound: instructions

ASSUME ListAssumption ==
    InitialSize \in Nat /\ MaxRow \in Nat /\ MaxEdits \in Nat
       /\ InitialSize <= MaxRow

VARIABLES list,     \* the rows, in order
          seen,     \* the list when its observers were last called
          before,   \* the list when the log that is being read begins
          changes,  \* the builder of that log
          accumulated, \* the merged changes since `seen`
          touched,  \* rows marked as modified since `seen`
          rows,     \* rows given out
          edits     \* instructions read

vars == <<list, seen, before, changes, accumulated, touched, rows, edits>>

Changes ==
    [deletions : SUBSET (0..MaxRow), insertions : SUBSET (0..MaxRow),
     modifications : SUBSET (0..MaxRow),
     moves : Seq([from : 0..MaxRow, to : 0..MaxRow]), mapping : {<<>>}]

TypeOK ==
    /\ list \in Seq(1..MaxRow) /\ seen \in Seq(1..MaxRow)
    /\ before \in Seq(1..MaxRow)
    /\ changes \in Changes /\ accumulated \in Changes
    /\ touched \subseteq 1..rows
    /\ rows \in InitialSize..MaxRow /\ edits \in 0..MaxEdits

Init ==
    /\ list = [i \in 1..InitialSize |-> i]
    /\ seen = list /\ before = list
    /\ changes = NoChanges /\ accumulated = NoChanges
    /\ touched = {} /\ rows = InitialSize /\ edits = 0

\* An instruction: the list becomes l, and the builder b.
Edit(l, b) ==
    /\ edits < MaxEdits /\ edits' = edits + 1
    /\ list' = l /\ changes' = b
    /\ UNCHANGED <<seen, before, accumulated>>

link_list_insert(i) ==
    /\ rows < MaxRow /\ rows' = rows + 1
    /\ Edit(InsertAt(list, i + 1, rows + 1), insert(changes, i, 1))
    /\ UNCHANGED touched

link_list_set(i) ==
    /\ rows < MaxRow /\ rows' = rows + 1
    /\ Edit([list EXCEPT ![i + 1] = rows + 1], modify(changes, i))
    /\ touched' = touched \cup {rows + 1}

\* A row of the target table changes: the notifier marks it (ListNotifier).
RowChanges(i) ==
    /\ Edit(list, modify(changes, i))
    /\ touched' = touched \cup {list[i + 1]}
    /\ UNCHANGED rows

link_list_erase(i) ==
    /\ Edit(RemoveAt(list, i + 1), erase(changes, i))
    /\ UNCHANGED <<touched, rows>>

link_list_swap(i, j) ==
    /\ Edit([list EXCEPT ![i + 1] = list[j + 1], ![j + 1] = list[i + 1]],
            modify(modify(changes, i), j))
    /\ touched' = touched \cup {list[i + 1], list[j + 1]}
    /\ UNCHANGED rows

link_list_move(from, to) ==
    /\ from # to
    /\ Edit(InsertAt(RemoveAt(list, from + 1), to + 1, list[from + 1]),
            move(changes, from, to))
    /\ UNCHANGED <<touched, rows>>

\* In a list of values two of them change places by two moves.
swap_rows(i, j) ==
    LET once == move(changes, i, j)
    IN  /\ Edit([list EXCEPT ![i + 1] = list[j + 1], ![j + 1] = list[i + 1]],
                IF i + 1 # j THEN move(once, j - 1, i) ELSE once)
        /\ UNCHANGED <<touched, rows>>

link_list_clear ==
    /\ Edit(<<>>, clear(changes, Len(list)))
    /\ UNCHANGED <<touched, rows>>

\* parse_complete tidies the moves, and add_changes merges.
parse_complete_and_merge ==
    /\ ~empty(changes)
    /\ accumulated' = merge(accumulated, clean_up_stale_moves(changes))
    /\ changes' = NoChanges /\ before' = list
    /\ UNCHANGED <<list, seen, touched, rows, edits>>

\* The observers are called, between two logs.
deliver ==
    /\ empty(changes) /\ ~empty(accumulated)
    /\ accumulated' = NoChanges /\ seen' = list /\ touched' = {}
    /\ UNCHANGED <<list, before, changes, rows, edits>>

Next ==
    \/ \E i \in Positions(list) \cup {Len(list)} : link_list_insert(i)
    \/ \E i \in Positions(list) :
          link_list_set(i) \/ RowChanges(i) \/ link_list_erase(i)
    \/ \E i, j \in Positions(list) :
          i < j /\ (link_list_swap(i, j) \/ swap_rows(i, j))
    \/ \E i, j \in Positions(list) : link_list_move(i, j)
    \/ link_list_clear
    \/ parse_complete_and_merge
    \/ deliver

Spec == Init /\ [][Next]_vars
-----------------------------------------------------------------------------
(* Key-value observation (KVOAdapter) *)

\* Mutant of MovedIndices: only the positions the moves name.
MovedIndicesNamed(b) == b.deletions

\* Moves alone are told as assignments to the positions they may have shifted:
\* by[i] is by how much the rows at i are shifted.
MovedIndices(b) ==
    LET both == b.deletions \cup b.insertions
        start == Min(both)
        by[i \in start - 1 .. Max(both)] ==
           IF i < start THEN 0
           ELSE IF i \in b.deletions THEN by[i - 1] - 1
           ELSE IF i + by[i - 1] \in b.insertions THEN by[i - 1] + 1
           ELSE by[i - 1]
    IN  b.deletions \cup {i \in start .. Max(both) : by[i] # 0}

\* What an observer of the list is told of the changes of one log.
KVOChange(b) ==
    LET mods == b.modifications \ b.insertions
        n == Len(b.moves)
        Kind(kind, indices) == [kind |-> kind, indices |-> indices]
    IN  IF empty(b) THEN Kind("None", {})
        ELSE IF n > 0 /\ Cardinality(b.insertions) = n
                     /\ Cardinality(b.deletions) = n
        THEN Kind("Set", mods \cup MovedIndices(b))
        ELSE IF Cardinality({s \in {1, 2, 3} :
                   <<b.insertions, mods, b.deletions>>[s] = {}}) < 2
        THEN Kind("SetAll", {})
        ELSE IF b.insertions # {} THEN Kind("Insert", b.insertions)
        ELSE IF mods # {} THEN Kind("Set", mods)
        ELSE Kind("Remove", b.deletions)
-----------------------------------------------------------------------------
(* Properties *)

\* The changes b lead from the list old to the list new: taking the deletions
\* away and putting the insertions in gives every row that is not marked as
\* modified its position, and every move is from the deletion to the insertion
\* of one row.
Explains(b, old, new) ==
    /\ b.deletions \subseteq Positions(old)
    /\ b.insertions \subseteq Positions(new)
    /\ Len(old) - Cardinality(b.deletions)
          = Len(new) - Cardinality(b.insertions)
    /\ \A j \in Positions(new) \ b.insertions :
          j \in b.modifications
             \/ new[j + 1] = old[shift(b.deletions,
                                       unshift(b.insertions, j)) + 1]

MovesAreRight(b, old, new) ==
    \A m \in Moves(b) :
       /\ m.from \in b.deletions /\ m.to \in b.insertions
       /\ m.to \in b.modifications \/ new[m.to + 1] = old[m.from + 1]

\* Between logs, the rows that are marked as modified and are not new are
\* those that were: none is lost when it is shifted, moved or merged, and none
\* is marked in place of another.
MarksAreRight ==
    empty(changes) =>
       \A j \in Positions(list) :
          (j \notin accumulated.insertions
             \/ \E m \in Moves(accumulated) : m.to = j)
          => (j \in accumulated.modifications <=> list[j + 1] \in touched)

\* The changes of a log explain the list (the check calculate makes of its own
\* result in a debug build, asked of the changes that are recorded), and so do
\* the merged changes, whatever the logs they were merged from: an observer
\* that deletes, then inserts, has the new list.  Moves are pairs of a deletion
\* and an insertion (verify) of the same row, and modifications follow their
\* rows, in the log and after any number of merges.
ChangesExplainList ==
    /\ Explains(changes, before, list)
    /\ MovesAreRight(changes, before, list)
    /\ Explains(accumulated, seen, before)
    /\ MovesAreRight(accumulated, seen, before)
    /\ MarksAreRight

\* An observer is told of everything that changed: the entries that a Set does
\* not name are as they were, an Insert or a Remove names all that is inserted
\* or removed.
ObserversAreTold ==
    LET told == KVOChange(clean_up_stale_moves(changes))
    IN  CASE told.kind = "None" -> list = before
          [] told.kind = "Set" ->
               /\ Len(list) = Len(before)
               /\ \A i \in Positions(list) \ told.indices :
                     list[i + 1] = before[i + 1]
          [] told.kind = "Insert" -> Rest(list, told.indices) = before
          [] told.kind = "Remove" -> list = Rest(before, told.indices)
          [] told.kind = "SetAll" -> TRUE

\* So they are when the log moves at most one entry.  (Of two moves the scan of
\* KVOAdapter can miss an entry between them.)
OneMoveIsTold ==
    Len(clean_up_stale_moves(changes).moves) <= 1 => ObserversAreTold
=============================================================================

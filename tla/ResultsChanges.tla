-------------------------- MODULE ResultsChanges ----------------------------
(***************************************************************************)
(* What the callbacks of a query are told.  The worker advances the query   *)
(* by one log at a time: it moves the rows the query had to where the log   *)
(* has put them, runs the query again, and calculates the changes between   *)
(* the two (ResultsNotifier).  The changes of several runs are merged until *)
(* they are delivered (CollectionNotifier::add_changes).                    *)
(***************************************************************************)
EXTENDS TableChanges, ChangeCalculation

CONSTANT MaxKey  \* bound: keys that the query sorts by

ASSUME ResultsAssumption == MaxKey \in Nat \ {0}

VARIABLES in_table_order,   \* the query has no sort
          key,              \* of each row; those with key 0 do not match
          m_previous_rows,  \* the positions of the rows the query had
          results,          \* those rows
          shown,            \* the rows it had when a callback was last called
          accumulated       \* the changes since then

resultsVars == <<in_table_order, m_previous_rows, results, shown, accumulated>>

vars == <<tableVars, key, resultsVars>>

\* Without a sort all that counts is whether a row matches.
Keys == 0 .. (IF in_table_order THEN 1 ELSE MaxKey)

\* The positions of the rows that match, in the order of the results: rows with
\* equal keys stay in table order.
find_all(t, k) ==
    SortSeq(InOrder({i \in Positions(t) : k[At(t, i)] # 0}),
       LAMBDA i, j : IF in_table_order \/ k[At(t, i)] = k[At(t, j)] THEN i < j
                     ELSE k[At(t, i)] < k[At(t, j)])

RowsAt(t, positions) == [i \in DOMAIN positions |-> At(t, positions[i])]

TypeOK ==
    /\ TableTypeOK /\ in_table_order \in BOOLEAN
    /\ key \in [1..MaxRow -> 0..MaxKey]
    /\ m_previous_rows \in Seq(0 .. MaxRow - 1)
    /\ results \in Seq(1..MaxRow) /\ shown \in Seq(1..MaxRow)
    /\ \A s \in {accumulated.deletions, accumulated.insertions,
                 accumulated.modifications} : s \subseteq 0..MaxRow

Init ==
    /\ TableInit /\ in_table_order \in BOOLEAN
    /\ key \in {k \in [1..MaxRow -> Keys] :
                  \A r \in InitialSize + 1 .. MaxRow : k[r] = 0}
    /\ m_previous_rows = find_all(table, key)
    /\ results = RowsAt(table, m_previous_rows) /\ shown = results
    /\ accumulated = NoChanges

\* A value that the query looks at, or another one, is set.
Set(i, k) ==
    /\ mark_dirty(i)
    /\ key' = [key EXCEPT ![At(table, i)] = k]
    /\ UNCHANGED resultsVars

\* Rows come, go and change places.  (The calculation for a query in table
\* order does not allow for swapped rows; the tables whose logs swap rows are
\* those of lists of values and of synchronised files.)
Structure ==
    /\ \/ insert_empty_rows
       \/ \E i \in Positions(table) : erase_rows(i)
       \/ \E i, j \in Positions(table) : ~in_table_order /\ i < j
             /\ swap_rows(i, j)
       \/ clear_table
    /\ UNCHANGED <<key, resultsVars>>

\* A new row subsumes one that has the key of the row that goes on.
Merge ==
    \E i, j \in Positions(table) : i # j /\ merge_rows(i, j)
       /\ key' = [key EXCEPT ![At(table, i)] = key[At(table, j)]]
       /\ UNCHANGED resultsVars

add_changes(c) == accumulated' = merge(accumulated, c)

\* The worker reads the log and runs the query.
run ==
    LET info == parse_complete(changes)
        prev == [i \in DOMAIN m_previous_rows |->
                   MovedTo(info, m_previous_rows[i])]
        next == find_all(table, key)
        kept_old == CHOOSE k \in Paired(prev, next) : TRUE
        kept == CHOOSE k \in Paired(next, prev) : TRUE
    IN  /\ parse_complete_and_merge
        /\ m_previous_rows' = next /\ results' = RowsAt(table, next)
        /\ add_changes(calculate(prev, next, kept_old, kept,
                                 info.modifications,
                                 IF in_table_order THEN {info.insertions}
                                 ELSE {}))
        /\ UNCHANGED <<in_table_order, key, shown>>

\* The callbacks are called.
after_advance ==
    /\ ~empty(accumulated)
    /\ accumulated' = NoChanges /\ shown' = results
    /\ StartOver
    /\ UNCHANGED <<in_table_order, key, m_previous_rows, results>>

Next ==
    \/ \E i \in Positions(table), k \in Keys : Set(i, k)
    \/ Structure
    \/ Merge
    \/ run
    \/ after_advance

Spec == Init /\ [][Next]_vars
-----------------------------------------------------------------------------
(* Properties *)

\* The rows that a callback has, without the deletions, are those it is given,
\* without the insertions: a list on screen that applies the changes shows the
\* new results.
ChangesGiveTheResults ==
    LET old == InOrder(Positions(shown) \ accumulated.deletions)
        new == InOrder(Positions(results) \ accumulated.insertions)
    IN  /\ accumulated.deletions \subseteq Positions(shown)
        /\ accumulated.insertions \subseteq Positions(results)
        /\ Len(old) = Len(new)
        /\ \A k \in DOMAIN old : At(shown, old[k]) = At(results, new[k])

\* A row that stays in the list on screen is marked for a reload if and only if
\* it was modified.
ModifiedRowsReload ==
    \A j \in Positions(results) \ accumulated.insertions :
       j \in finalize(accumulated).modifications_new
          <=> At(results, j) \in marked
=============================================================================

------------------------- MODULE ChangeCalculation --------------------------
(***************************************************************************)
(* CollectionChangeBuilder::calculate: the changes that turn the rows a     *)
(* query had into the rows it has.  The rows it had are given by where they *)
(* are in the table now, npos for those that are gone.  Positions count     *)
(* from 0; At(s, i) is what the sequence s has at position i.               *)
(***************************************************************************)
EXTENDS ChangeBuilder

At(s, i) == s[i + 1]

\* The elements of a set of positions, in order.
InOrder(s) ==
    IF s = {} THEN <<>>
    ELSE SelectSeq([i \in 1 .. Max(s) + 1 |-> i - 1], LAMBDA x : x \in s)
-----------------------------------------------------------------------------
(* Rows that are both in the old results and in the new *)

Copies(s, row) == {i \in Positions(s) : At(s, i) = row}

\* The positions in s that are paired with equal rows of t.  A row may be there
\* several times (a query on a list); the sort by row leaves the order of equal
\* ones open, so any of them may be paired.
Paired(s, t) ==
    {k \in SUBSET Positions(s) :
       \A row \in {At(s, i) : i \in Positions(s)} :
          LET n == Cardinality(Copies(s, row)) m == Cardinality(Copies(t, row))
          IN  Cardinality(k \cap Copies(s, row))
                = IF row = npos THEN 0 ELSE IF n < m THEN n ELSE m}
-----------------------------------------------------------------------------
(* Results in table order *)

\* Mutant of CouldHaveMoved: every row is looked for where it was.
CouldHaveMovedNot(row, candidates) == FALSE

CouldHaveMoved(row, candidates) == row \in candidates

\* The rows that stay are gone through in their new order; r holds the changes
\* so far, the old positions that were removed and the next old position that
\* is expected.  `gone` are the old positions of deleted rows, which the old
\* positions that are compared do not count.
calculate_moves_unsorted(prev, next, kept, candidates, changes, removed) ==
    LET gone == Copies(prev, npos)
        Old(j) == CHOOSE i \in Positions(prev) : At(prev, i) = At(next, j)
        Step(r, j) ==
           LET shifted == unshift(gone, Old(j))
               calc_expected == unshift(r.changes.insertions, j)
                                  + count(r.removed, 0, Old(j))
           IN  IF shifted = r.expected
                  \/ ~CouldHaveMoved(At(next, j), candidates)
                  \/ shifted = calc_expected
               THEN [r EXCEPT !.expected = shifted + 1]
               ELSE [r EXCEPT
                       !.changes.moves = Append(@, Move(Old(j), j)),
                       !.changes.insertions = @ \cup {j},
                       !.removed = @ \cup {Old(j)}]
        result == FoldLeft(Step, [changes |-> changes, removed |-> removed,
                                  expected |-> 0], InOrder(kept))
    IN  [result.changes EXCEPT !.deletions = @ \cup result.removed]
-----------------------------------------------------------------------------
(* Sorted results *)

\* The number of modified rows in a match of the given size that begins at j;
\* `modified` are positions of the new results.
ModifiedIn(modified, first, size) == count(modified, first, first + size)

\* The longest block that is both in a[begin1, end1) and in b[begin2, end2).  Of
\* two equally long ones the first in the order of the search is replaced by one
\* that has fewer modified rows; those of the first are counted in the `size`
\* positions that end with its first one.
find_longest_match(a, b, modified, begin1, end1, begin2, end2) ==
    LET \* the length of the block that ends at i and j
        Size(i, j) ==
           CHOOSE n \in 1 .. i - begin1 + 1 :
              /\ \A k \in 0 .. n - 1 :
                    j - k >= begin2 /\ At(a, i - k) = At(b, j - k)
              /\ \/ n = i - begin1 + 1 \/ j - n < begin2
                 \/ At(a, i - n) # At(b, j - n)
        pairs == {p \in (begin1 .. end1 - 1) \X (begin2 .. end2 - 1) :
                    At(a, p[1]) = At(b, p[2])}
        order == [k \in 1 .. (end1 - begin1) * (end2 - begin2) |->
                    <<begin1 + ((k - 1) \div (end2 - begin2)),
                      begin2 + ((k - 1) % (end2 - begin2))>>]
        Block(p, size, n) == [i |-> p[1] - size + 1, j |-> p[2] - size + 1,
                              size |-> size, modified |-> n]
        Step(best, p) ==
           LET size == Size(p[1], p[2])
               old == IF best.modified = npos
                      THEN count(modified, best.j - size + 1, best.j + 1)
                      ELSE best.modified
               new == ModifiedIn(modified, p[2] - size + 1, size)
           IN  IF size > best.size THEN Block(p, size, npos)
               ELSE IF size < best.size THEN best
               ELSE IF new < old THEN Block(p, size, new)
               ELSE [best EXCEPT !.modified = old]
    IN  FoldLeft(Step, [i |-> begin1, j |-> begin2, size |-> 0, modified |-> 0],
                 SelectSeq(order, LAMBDA p : p \in pairs))

\* The longest block, with those before and behind it, in order.  Both ends of
\* the block are compared with end2.
RECURSIVE find_longest_matches(_, _, _, _, _, _, _)
find_longest_matches(a, b, modified, begin1, end1, begin2, end2) ==
    LET m == find_longest_match(a, b, modified, begin1, end1, begin2, end2)
    IN  IF m.size = 0 THEN <<>>
        ELSE (IF m.i > begin1 /\ m.j > begin2
              THEN find_longest_matches(a, b, modified, begin1, m.i,
                                        begin2, m.j)
              ELSE <<>>)
             \o <<m>> \o
             (IF m.i + m.size < end2 /\ m.j + m.size < end2
              THEN find_longest_matches(a, b, modified, m.i + m.size, end1,
                                        m.j + m.size, end2)
              ELSE <<>>)

\* The positions that are in no match.
Outside(n, starts, matches) ==
    {k \in 0 .. n - 1 : \A x \in DOMAIN matches :
       ~(starts[x] <= k /\ k < starts[x] + matches[x].size)}

\* The rows in no match are deleted where they were and inserted where they are.
calculate_moves_sorted(prev, next, kept_old, kept, changes) ==
    LET old == InOrder(kept_old)
        new == InOrder(kept)
        a == [k \in DOMAIN old |-> At(prev, old[k])]
        b == [k \in DOMAIN new |-> At(next, new[k])]
        differ == {k \in Positions(a) : At(a, k) # At(b, k)}
        first == CHOOSE k \in differ : \A l \in differ : k <= l
        matches == find_longest_matches(a, b, changes.modifications,
                                        first, Len(a), first, Len(b))
        starts_a == [x \in DOMAIN matches |-> matches[x].i]
        starts_b == [x \in DOMAIN matches |-> matches[x].j]
    IN  IF differ = {} THEN changes
        ELSE [changes EXCEPT
                !.deletions = @ \cup {At(old, k) : k \in
                   {k \in Outside(Len(a), starts_a, matches) : k >= first}},
                !.insertions = @ \cup {At(new, k) : k \in
                   {k \in Outside(Len(b), starts_b, matches) : k >= first}}]
-----------------------------------------------------------------------------
(* calculate *)

DeletedOutright(prev) == Copies(prev, npos)

\* Mutant of Modified: positions are taken for rows.
ModifiedPosition(next, kept, row_did_change) == kept \cap row_did_change

Modified(next, kept, row_did_change) ==
    {j \in kept : At(next, j) \in row_did_change}

\* kept_old and kept are the positions of the paired rows, row_did_change the
\* rows that were modified; move_candidates holds the set of rows that may
\* have moved, or nothing: for results in table order.
calculate(prev, next, kept_old, kept, row_did_change, move_candidates) ==
    LET removed == Positions(prev) \ (kept_old \cup Copies(prev, npos))
        changes == [NoChanges EXCEPT
                      !.deletions = DeletedOutright(prev),
                      !.insertions = Positions(next) \ kept,
                      !.modifications = Modified(next, kept, row_did_change)]
    IN  IF move_candidates = {}
        THEN [calculate_moves_sorted(prev, next, kept_old, kept, changes)
                EXCEPT !.deletions = @ \cup removed]
        ELSE calculate_moves_unsorted(
                prev, next, kept, CHOOSE c \in move_candidates : TRUE,
                changes, removed)
=============================================================================

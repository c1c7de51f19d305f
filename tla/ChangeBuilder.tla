--------------------------- MODULE ChangeBuilder ----------------------------
(***************************************************************************)
(* CollectionChangeBuilder: the changes of a collection from one version to *)
(* another, as positions deleted from the old one, inserted in the new one  *)
(* and modified in the new one, with the pairs that are moves.  An operation *)
(* takes the builder and returns it; IndexSets are their sets.  The sets    *)
(* kept per column go through the same calls as modifications, and are      *)
(* represented by it.  While a transaction log is read the moves of a       *)
(* table's rows are in `mapping`, from new position to old.                 *)
(***************************************************************************)
EXTENDS IndexSets, Sequences, SequencesExt

NoChanges == [deletions |-> {}, insertions |-> {}, modifications |-> {},
              moves |-> <<>>, mapping |-> <<>>]

empty(b) ==
    b.deletions = {} /\ b.insertions = {} /\ b.modifications = {}
       /\ b.moves = <<>>

\* The positions of a sequence count from 0.
Positions(s) == 0 .. Len(s) - 1

Move(from, to) == [from |-> from, to |-> to]

Moves(b) == {b.moves[i] : i \in DOMAIN b.moves}

\* A sequence without its entries at the positions gone.
Rest(s, gone) ==
    [i \in 1 .. Len(s) - Cardinality(gone) |-> s[shift(gone, i - 1) + 1]]

\* The place in the moves that std::lower_bound finds for a row that was at idx;
\* it takes them to be in the order of their origins.
lower_bound(moves, idx) ==
    LET n == Len(moves)
        Find[first \in 1 .. n + 1, len \in 0 .. n] ==
           LET half == len \div 2
           IN  IF len = 0 THEN first
               ELSE IF moves[first + half].from < idx
               THEN Find[first + half + 1, len - half - 1]
               ELSE Find[first, half]
    IN  Find[1, n]

\* Where the row that was at idx is: a deleted one where its move leads.
MovedTo(b, idx) ==
    LET it == lower_bound(b.moves, idx)
    IN  IF idx \notin b.deletions
        THEN shift(b.insertions, unshift(b.deletions, idx))
        ELSE IF it <= Len(b.moves) /\ b.moves[it].from = idx
        THEN b.moves[it].to ELSE npos

\* The map m_move_mapping with and without a key.
With(map, key, value) ==
    [k \in DOMAIN map \cup {key} |-> IF k = key THEN value ELSE map[k]]

Without(map, key) == [k \in DOMAIN map \ {key} |-> map[k]]
-----------------------------------------------------------------------------
(* Operations of lists and of tables *)

modify(b, ndx) == [b EXCEPT !.modifications = @ \cup {ndx}]

insert(b, index, n) ==
    LET Up(x) == IF x >= index THEN x + n ELSE x
    IN  [deletions |-> b.deletions,
         insertions |-> insert_at(b.insertions, index, n),
         modifications |-> shift_for_insert_at(b.modifications, index, n),
         moves |-> [i \in DOMAIN b.moves |->
                      Move(b.moves[i].from, Up(b.moves[i].to))],
         mapping |-> [k \in {Up(x) : x \in DOMAIN b.mapping} |->
                        b.mapping[CHOOSE x \in DOMAIN b.mapping : Up(x) = k]]]

\* What erase_or_unshift and add_shifted do to an index that goes away: a new
\* row is forgotten, an old one is deleted from where it was.
Deleted(b, index) ==
    IF index \in b.insertions THEN b.deletions
    ELSE b.deletions \cup {shift(b.deletions, unshift(b.insertions, index))}

erase(b, index) ==
    LET left == Rest(b.moves, {k \in Positions(b.moves) :
                                 b.moves[k + 1].to = index})
    IN  [deletions |-> Deleted(b, index),
         insertions |-> erase_at(b.insertions, index),
         modifications |-> erase_at(b.modifications, index),
         moves |-> [i \in DOMAIN left |->
                      Move(left[i].from, IF left[i].to > index
                                         THEN left[i].to - 1 ELSE left[i].to)],
         mapping |-> b.mapping]

clear(b, old_size) ==
    [NoChanges EXCEPT !.deletions =
        0 .. old_size + Cardinality(b.deletions)
                      - Cardinality(b.insertions) - 1]
-----------------------------------------------------------------------------
(* Operations of lists *)

\* Rows between the two positions make way.
Passed(x, from, to) ==
    IF x >= to /\ x < from THEN x + 1
    ELSE IF x <= to /\ x > from THEN x - 1 ELSE x

MovePosition(s, from, to) ==
    IF from \in s THEN insert_at(erase_at(s, from), to, 1)
    ELSE shift_for_insert_at(erase_at(s, from), to, 1)

move(b, from, to) ==
    LET moved == \E m \in Moves(b) : m.to = from
        passed == [i \in DOMAIN b.moves |->
                     Move(b.moves[i].from,
                          IF b.moves[i].to = from THEN to
                          ELSE Passed(b.moves[i].to, from, to))]
        at == shift(b.deletions, unshift(b.insertions, from))
    IN  [deletions |-> Deleted(b, from),
         insertions |-> insert_at(erase_at(b.insertions, from), to, 1),
         modifications |-> MovePosition(b.modifications, from, to),
         moves |-> IF moved \/ from \in b.insertions THEN passed
                   ELSE Append(passed, Move(at, to)),
         mapping |-> b.mapping]

\* A move that is undone by the other changes goes with its insertion and its
\* deletion.
Cleaned(c, m) ==
    IF unshift(c.deletions, m.from) = unshift(c.insertions, m.to)
    THEN [c EXCEPT !.deletions = @ \ {m.from}, !.insertions = @ \ {m.to}]
    ELSE [c EXCEPT !.moves = Append(@, m)]

clean_up_stale_moves(b) ==
    LET cleaned[i \in 0 .. Len(b.moves)] ==
           IF i = 0 THEN [b EXCEPT !.moves = <<>>]
           ELSE Cleaned(cleaned[i - 1], b.moves[i])
    IN  cleaned[Len(b.moves)]
-----------------------------------------------------------------------------
(* Operations of tables *)

\* Mutant of MappingAfter: a move to the row that goes away is kept.
MappingAfterKept(b, row, last) ==
    IF last \in b.insertions /\ last \in DOMAIN b.mapping
    THEN Without(With(b.mapping, row, b.mapping[last]), last)
    ELSE b.mapping

\* A move to the last row is a move to the row it replaces; otherwise a move to
\* that row is over.
MappingAfter(b, row, last) ==
    IF last \in b.insertions /\ last \in DOMAIN b.mapping
    THEN Without(With(b.mapping, row, b.mapping[last]), last)
    ELSE IF row \in b.insertions THEN Without(b.mapping, row)
    ELSE b.mapping

\* The last row replaces the row that goes away.
move_over(b, row, last) ==
    LET mods == IF last \in b.modifications /\ row # last
                THEN (b.modifications \ {last}) \cup {row}
                ELSE b.modifications \ {row}
        map1 == MappingAfter(b, row, last)
        shifted_last == shift(b.deletions, unshift(b.insertions, last))
        b1 == IF last \in b.insertions
              THEN [b EXCEPT !.insertions = @ \ {last}, !.mapping = map1]
              ELSE [b EXCEPT !.deletions = @ \cup {shifted_last},
                             !.mapping = With(map1, row, shifted_last)]
        b2 == IF row \in b.insertions THEN b1
              ELSE [b1 EXCEPT
                      !.deletions = @ \cup {shift(b1.deletions,
                                              unshift(b1.insertions, row))},
                      !.insertions = @ \cup {row}]
    IN  IF row = last
        THEN [b EXCEPT !.modifications = mods, !.deletions = Deleted(b, row),
                       !.insertions = erase_at(@, row),
                       !.mapping = Without(@, row)]
        ELSE [b2 EXCEPT !.modifications = mods]

\* A row that is not new becomes a move to `to`.
MoveRow(b, from, to) ==
    IF from \in b.insertions THEN b
    ELSE LET at == shift(b.deletions, unshift(b.insertions, from))
         IN  [b EXCEPT !.deletions = @ \cup {at},
                       !.insertions = @ \cup {from},
                       !.mapping = With(@, to, at)]

\* Two rows change places (ndx_1 < ndx_2).
swap(b, ndx_1, ndx_2) ==
    LET Other(x) == IF x = ndx_1 THEN ndx_2 ELSE IF x = ndx_2 THEN ndx_1 ELSE x
        mods == {Other(x) : x \in b.modifications}
        \* the move to ndx_2 is a move to ndx_1 now
        Update(n1, n2) == MoveRow([b EXCEPT !.mapping =
                             With(Without(@, n2), n1, b.mapping[n2])], n1, n2)
        have_1 == ndx_1 \in DOMAIN b.mapping
        have_2 == ndx_2 \in DOMAIN b.mapping
        swapped ==
           IF have_1 /\ have_2
           THEN [b EXCEPT !.mapping[ndx_1] = b.mapping[ndx_2],
                          !.mapping[ndx_2] = b.mapping[ndx_1]]
           ELSE IF have_1 THEN Update(ndx_2, ndx_1)
           ELSE IF have_2 THEN Update(ndx_1, ndx_2)
           ELSE MoveRow(MoveRow(b, ndx_2, ndx_1), ndx_1, ndx_2)
    IN  [swapped EXCEPT !.modifications = mods]

\* The new row new_ndx takes the place of old_ndx, which is then moved over.
subsume(b, old_ndx, new_ndx) ==
    [b EXCEPT
       !.modifications = IF old_ndx \in @ THEN @ \cup {new_ndx} ELSE @,
       !.mapping =
          IF old_ndx \in DOMAIN @
          THEN Without(With(@, new_ndx, @[old_ndx]), old_ndx)
          ELSE IF old_ndx \in b.insertions THEN @
          ELSE With(@, new_ndx, shift(b.deletions,
                                      unshift(b.insertions, old_ndx)))]

\* The mapping becomes the list of moves, by old position.
parse_complete(b) ==
    LET same == {k \in DOMAIN b.mapping : b.mapping[k] = k}
        moved == {Move(b.mapping[k], k) : k \in DOMAIN b.mapping \ same}
    IN  [b EXCEPT !.deletions = @ \ same, !.insertions = @ \ same,
                  !.moves = @ \o SetToSortSeq(moved,
                                    LAMBDA m, n : m.from < n.from),
                  !.mapping = <<>>]
-----------------------------------------------------------------------------
(* Merging *)

\* Mutant of MergedDeletions: the new deletions are added where they are.
MergedDeletionsAsIs(b, c) == b.deletions \cup (c.deletions \ b.insertions)

MergedDeletions(b, c) == add_shifted_by(b.deletions, b.insertions, c.deletions)

\* Rows that b modified and c moved, but for those that b inserted.
CarriedModifications(b, c) ==
    {n.to : n \in {n \in Moves(c) :
       /\ n.from \in b.modifications
       /\ \/ n.from \notin b.insertions
          \/ \E m \in Moves(b) : m.to = n.from}}

\* Where the row at index is after the changes c that neither move nor delete
\* it.
Shifted(c, index) == shift(c.insertions, unshift(c.deletions, index))

\* The changes b followed by the changes c.
merge(b, c) ==
    LET again(m) == {n \in Moves(c) : n.from = m.to}
        \* moves of b: moved again, deleted, or where the row is now
        followed ==
           [i \in DOMAIN b.moves |->
              LET m == b.moves[i]
              IN  IF again(m) # {}
                  THEN Move(m.from, (CHOOSE n \in again(m) : TRUE).to)
                  ELSE IF m.to \in c.deletions THEN Move(m.from, npos)
                  ELSE Move(m.from, Shifted(c, m.to))]
        old == Rest(followed, {k \in Positions(followed) :
                                 followed[k + 1].to = npos})
        \* moves of c: of rows that b neither moved nor inserted
        fresh == Rest(c.moves, {k \in Positions(c.moves) :
                    LET from == c.moves[k + 1].from
                    IN  from \in b.insertions \/ \E m \in Moves(b) : m.to = from})
        new == [i \in DOMAIN fresh |->
                  Move(shift(b.deletions, unshift(b.insertions, fresh[i].from)),
                       fresh[i].to)]
        merged ==
          [deletions |-> MergedDeletions(b, c),
           insertions |-> insert_at_set(erase_at_set(b.insertions,
                                                     c.deletions),
                                        c.insertions),
           modifications |-> b.modifications, moves |-> old \o new,
           mapping |-> <<>>]
    IN  IF empty(c) THEN b
        ELSE IF empty(b) THEN c
        ELSE [clean_up_stale_moves(merged) EXCEPT !.modifications =
                shift_for_insert_at_set(erase_at_set(@, c.deletions),
                                        c.insertions)
                   \cup c.modifications
                   \cup CarriedModifications(b, c)]

\* What a callback is given: positions in the old collection and in the new.
finalize(b) ==
    [deletions |-> b.deletions, insertions |-> b.insertions,
     modifications |-> shift_for_insert_at_set(
                          erase_at_set(b.modifications, b.insertions),
                          b.deletions),
     modifications_new |-> b.modifications \ b.insertions,
     moves |-> b.moves]
=============================================================================

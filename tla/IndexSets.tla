----------------------------- MODULE IndexSets ------------------------------
(***************************************************************************)
(* What index_set.hpp promises of an IndexSet: a set of positions, and how  *)
(* positions move when others are inserted or deleted.  The names are those *)
(* of the methods; an overload for one index or for a set of them has its   *)
(* argument's kind in its name.                                             *)
(***************************************************************************)
EXTENDS Integers, FiniteSets

npos == -1

count(s, first, end) == Cardinality({x \in s : first <= x /\ x < end})

\* The position an index moves to when the indexes of s are inserted: as many
\* positions outside s stand before it.
shift(s, index) ==
    CHOOSE k \in index .. index + Cardinality(s) :
       k \notin s /\ k - count(s, 0, k) = index

\* The position an index outside s moves to when those of s are deleted.
unshift(s, index) == index - count(s, 0, index)

insert_at(s, index, n) ==
    {x \in s : x < index} \cup (index .. index + n - 1)
       \cup {x + n : x \in {y \in s : y >= index}}

insert_at_set(s, positions) == positions \cup {shift(positions, x) : x \in s}

shift_for_insert_at(s, index, n) ==
    {x \in s : x < index} \cup {x + n : x \in {y \in s : y >= index}}

shift_for_insert_at_set(s, positions) == {shift(positions, x) : x \in s}

erase_at(s, index) ==
    {x \in s : x < index} \cup {x - 1 : x \in {y \in s : y > index}}

erase_at_set(s, positions) == {unshift(positions, x) : x \in s \ positions}

\* Indexes that have had shifted_by added and s removed.
add_shifted_by(s, shifted_by, values) ==
    s \cup {shift(s, unshift(shifted_by, x)) : x \in values \ shifted_by}
=============================================================================

---------------------------- MODULE DeepChanges -----------------------------
(***************************************************************************)
(* DeepChangeChecker: a row of a collection counts as modified when a row   *)
(* that it links to is.  The search is limited in depth, does not follow a  *)
(* link that it is already following, and remembers rows that it found to   *)
(* lead to nothing modified, from one row of the collection to the next.    *)
(* A row has columns of links; a column has a list of rows, at most one for *)
(* a single link.                                                           *)
(***************************************************************************)
EXTENDS Integers, Sequences

CONSTANTS Rows,     \* of all tables
          Linking,  \* rows of the tables that have links
          Tables,   \* for each table there can be, the columns its rows may have
          Changes,  \* the rows that a log may have modified
          MaxDepth  \* the length of m_current_path (4 in the code)

ASSUME DeepAssumption ==
    /\ Linking \subseteq Rows /\ Tables \subseteq SUBSET Seq(Seq(Rows))
    /\ Changes \subseteq (SUBSET Rows) \ {{}}
    /\ MaxDepth \in Nat \ {0}

VARIABLES links,          \* the columns of each row
          modified,       \* the rows the log has modified
          m_not_modified, \* rows that lead to nothing modified
          asked,          \* the row asked for last
          answer          \* and the answer

deepVars == <<links, modified, m_not_modified, asked, answer>>

DeepInit ==
    /\ \E columns \in Tables : \E to \in [Linking -> columns] :
          links = [r \in Rows |-> IF r \in Linking THEN to[r] ELSE <<>>]
    /\ modified \in Changes /\ asked \in modified
    /\ m_not_modified = {} /\ answer = TRUE
-----------------------------------------------------------------------------
(* The search *)

\* What a search has: the answer so far, the cache and the current path.
Link == [row : Rows, col : Nat, exceeded : BOOLEAN]
Search == [ret : BOOLEAN, cache : SUBSET Rows, path : [1..MaxDepth -> Link]]

\* std::any_of: the search goes through steps 1 to n until it has its answer.
any_of(step, s, n) ==
    LET after[i \in 0..n] ==
           IF i = 0 THEN s
           ELSE LET t == after[i - 1] IN IF t.ret THEN t ELSE step[i][t]
    IN  after[n]

\* The links at these places of the path lead further than the search looked.
Exceed(s, places) ==
    [s EXCEPT !.path = [k \in 1..MaxDepth |->
       IF k \in places THEN [s.path[k] EXCEPT !.exceeded = TRUE]
       ELSE s.path[k]]]

\* Mutant of CacheRow: a row is remembered although the search from it was cut.
CacheRowCut(s, row, depth) == IF s.ret THEN {} ELSE {row}

\* A row is remembered unless the search from it was cut short.
CacheRow(s, row, depth) ==
    IF s.ret \/ (depth > 0 /\ s.path[depth].exceeded) THEN {} ELSE {row}

\* The rows in a column of links, until one is modified; deeper is check_row
\* one level down.
linked_object_changed(deeper, s, row, col, depth) ==
    LET match == {k \in 1..depth : s.path[k].row = row /\ s.path[k].col = col}
        list == links[row][col]
        entered == [s EXCEPT !.path[depth + 1] =
                      [row |-> row, col |-> col, exceeded |-> FALSE]]
    IN  IF match # {}
        THEN Exceed(s, {k \in 1..depth : \E m \in match : m <= k})
        ELSE any_of([j \in 1..Len(list) |-> deeper[list[j]]], entered, Len(list))

check_outgoing_links(deeper, s, row, depth) ==
    any_of([col \in 1..Len(links[row]) |->
              [t \in Search |->
                 linked_object_changed(deeper, t, row, col, depth)]],
           s, Len(links[row]))

\* One function for each depth.
check_row[depth \in 0..MaxDepth] ==
    [row \in Rows |-> [s \in Search |->
       IF depth = MaxDepth THEN Exceed(s, 1..MaxDepth)
       ELSE IF depth > 0 /\ row \in modified THEN [s EXCEPT !.ret = TRUE]
       ELSE IF row \in s.cache THEN s
       ELSE LET t == check_outgoing_links(check_row[depth + 1], s, row, depth)
            IN  [t EXCEPT !.cache = @ \cup CacheRow(t, row, depth)]]]

\* Whether a row of the collection is modified.
Ask(row) ==
    LET blank == [k \in 1..MaxDepth |->
                    [row |-> row, col |-> 0, exceeded |-> FALSE]]
        found == check_row[0][row][[ret |-> FALSE, cache |-> m_not_modified,
                                    path |-> blank]]
    IN  /\ asked' = row
        /\ IF row \in modified
           THEN answer' = TRUE /\ UNCHANGED m_not_modified
           ELSE answer' = found.ret /\ m_not_modified' = found.cache
        /\ UNCHANGED <<links, modified>>

DeepNext == \E row \in Linking : Ask(row)

DeepSpec == DeepInit /\ [][DeepNext]_deepVars
-----------------------------------------------------------------------------
(* Properties *)

LinksTo(row, rows) ==
    \E c \in DOMAIN links[row] : \E k \in DOMAIN links[row][c] :
       links[row][c][k] \in rows

\* The rows that lead to a modified one over at most n links.
Affected[n \in 0..MaxDepth] ==
    IF n = 0 THEN modified
    ELSE Affected[n - 1] \cup {r \in Rows : LinksTo(r, Affected[n - 1])}

\* The answer does not depend on the rows that were asked for before, on the
\* order of the links or on cycles: a row is modified if and only if it, or a
\* row it leads to over fewer links than the limit, is.
AnswersAreRight == answer <=> asked \in Affected[MaxDepth - 1]
=============================================================================

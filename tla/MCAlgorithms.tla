---------------------------- MODULE MCAlgorithms ----------------------------
(* The two algorithms of the change calculation that keep data structures of *)
(* their own, IndexSet and DeepChanges, on small instances: a behaviour is   *)
(* one of either.                                                            *)
EXTENDS IndexSet, DeepChanges

\* A table has a list of links, or two single ones; one row is modified.
MCTables == {{<<list>> : list \in BoundedSeq(Rows, 2)},
             {<<l, m>> : l, m \in BoundedSeq(Rows, 1)}}
MCChanges == {{r} : r \in Rows}

\* No graph is searched.
NoGraph ==
    /\ links = [r \in Rows |-> <<>>] /\ m_not_modified = {} /\ answer = TRUE
    /\ \E r \in Rows \ Linking : modified = {r} /\ asked = r

Init == IndexInit /\ (NoGraph \/ DeepInit)

Next ==
    \/ NoGraph /\ IndexNext /\ UNCHANGED deepVars
    \/ DeepNext /\ UNCHANGED m_data

Spec == Init /\ [][Next]_<<m_data, deepVars>>
-----------------------------------------------------------------------------
\* Every call on every small set leaves the chunks consistent, does to the set
\* what index_set.hpp says, and answers that.
CallsAreRight ==
    NoGraph => Verified /\ IndexCallsAreRight /\ SetCallsAreRight
=============================================================================

----------------------------- MODULE IssueStore -----------------------------
(***************************************************************************)
(* What the persistence layer promises: a durable map from routes to       *)
(* issues, at most one issue per route, that changes only by saving one    *)
(* of the issues it is asked to save, whole, or by clearing everything.    *)
(* Restarts, thread changes and failed transactions are invisible here.    *)
(***************************************************************************)
EXTENDS IssueData

CONSTANT Requests   \* the issues that callers ask to save

VARIABLE store      \* store[r]: the issue of route r, or NoIssue

Init == store = [r \in Routes |-> NoIssue]

Save(issue) == store' = [store EXCEPT ![issue.route] = issue]

Clear == store' = [r \in Routes |-> NoIssue]

Next == Clear \/ \E issue \in Requests : Save(issue)

Spec == Init /\ [][Next]_store
=============================================================================

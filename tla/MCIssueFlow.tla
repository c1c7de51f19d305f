---------------------------- MODULE MCIssueFlow ----------------------------
(***************************************************************************)
(* IssueFlow with two routes and two drafts: one that is dated exactly     *)
(* 1970, and one that is dated before it and as long as a report may be.   *)
(* The form of a route without an issue is one that is rejected.           *)
(***************************************************************************)
EXTENDS IssueFlow

MCTexts == {"", "a", "b", "a@x.es", "b@x.es"}

MCValidEmails == {"a@x.es", "b@x.es"}

AtEpoch ==
    [name |-> "a", surename |-> "a", email |-> "a@x.es",
     timestamp |-> 0, report |-> 0, phone |-> ""]

BeforeEpoch ==
    [name |-> "b", surename |-> "b", email |-> "b@x.es",
     timestamp |-> -1, report |-> MaxReportLength, phone |-> "b"]

MCDrafts == {AtEpoch, BeforeEpoch}

\* What the form may pass to create: a draft, or its date replaced by "now".
MCRequests ==
    {WithContent(r, [c EXCEPT !.timestamp = t]) :
        r \in Routes, c \in Drafts, t \in -1..MaxNow}
=============================================================================

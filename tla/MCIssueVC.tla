----------------------------- MODULE MCIssueVC -----------------------------
(***************************************************************************)
(* IssueVC opened on a new issue or on one dated 1970 with everything      *)
(* filled in.  Two cells serve the four text rows, so that a cell passes   *)
(* from a row to another.                                                  *)
(***************************************************************************)
EXTENDS IssueVC, TLC

MCTexts == {"", "a", "b", "a@x.es", "b@x.es"}

MCValidEmails == {"a@x.es", "b@x.es"}

MCOpened ==
    {IssueOrDefaults("r", NoIssue),
     [route |-> "r", name |-> "a", surename |-> "a", email |-> "a@x.es",
      timestamp |-> 0, report |-> MaxReportLength, phone |-> "a"]}

\* Entries into an optional and a mandatory text field, the date and the
\* report; the other two text fields go through the same cells.
MCTyped ==
    [name |-> {}, surename |-> {}, email |-> {"b@x.es"},
     phone |-> {"b"}, timestamp |-> {-1}, report |-> {MaxReportLength + 1}]

MCSymmetry == Permutations(TextCells)
=============================================================================

----------------------------- MODULE IssueData -----------------------------
(***************************************************************************)
(* The data of an issue and the conversions it goes through between the    *)
(* database object (IssueDB), the domain struct (Issue) and the form's     *)
(* observable object (IssueUI), and the test the form applies before it    *)
(* lets an issue be saved.                                                 *)
(*                                                                         *)
(* Texts are opaque apart from the empty one and from the ones that match  *)
(* the form's e-mail pattern; a report is represented by its length, the   *)
(* only thing the code asks of it; a timestamp is a whole number of        *)
(* seconds since 1970, negative before it.                                 *)
(***************************************************************************)
EXTENDS Integers

CONSTANTS Routes,       \* keys of the issues: the "route" of a trip
          Texts,        \* values of the text fields
          ValidEmails,  \* the texts that match emailRegEx
          NoIssue       \* what a lookup returns when there is no issue

EmptyText == ""

MaxReportLength == 200

\* The fields a form shows: everything but the route.
Content == [name : Texts, surename : Texts, email : Texts,
            timestamp : Int, report : Nat, phone : Texts]

\* Issue, IssueDB and IssueUI have the same seven fields.
Issue == [route : Routes, name : Texts, surename : Texts, email : Texts,
          timestamp : Int, report : Nat, phone : Texts]

ASSUME DataAssumption ==
    /\ EmptyText \in Texts
    /\ ValidEmails \subseteq Texts \ {EmptyText}
    /\ NoIssue \notin Issue
-----------------------------------------------------------------------------
\* The issue of route r with the fields of c.
WithContent(r, c) ==
    [route |-> r, name |-> c.name, surename |-> c.surename,
     email |-> c.email, timestamp |-> c.timestamp,
     report |-> c.report, phone |-> c.phone]

\* IssueDB(issue:) and Issue(issueDB:); there may be no object to convert.
IssueDB(issue) == WithContent(issue.route, issue)

IssueFromDB(issueDB) ==
    IF issueDB = NoIssue THEN NoIssue ELSE WithContent(issueDB.route, issueDB)

\* fetchIssue replaces a missing issue by empty texts and timestamp -1.
IssueOrDefaults(r, found) ==
    IF found = NoIssue
    THEN [route |-> r, name |-> EmptyText, surename |-> EmptyText,
          email |-> EmptyText, timestamp |-> -1, report |-> 0,
          phone |-> EmptyText]
    ELSE WithContent(r, found)

\* Mutant of IssueUI: the first second of 1970 counts as "no date" too.
IssueUIEpoch(issue, now) ==
    [WithContent(issue.route, issue) EXCEPT
        !.timestamp = IF issue.timestamp <= 0 THEN now ELSE issue.timestamp]

\* IssueUI(issue:): a negative timestamp becomes the current date.
IssueUI(issue, now) ==
    [WithContent(issue.route, issue) EXCEPT
        !.timestamp = IF issue.timestamp < 0 THEN now ELSE issue.timestamp]

\* Issue(issueUI:): the date goes back to seconds since 1970.
IssueFromUI(ui) == WithContent(ui.route, ui)

\* Mutant of Renamed: the wrong field is copied into the report.
RenamedMixesFields(issueDB, newIssueDB) ==
    [WithContent(issueDB.route, newIssueDB) EXCEPT
        !.report = newIssueDB.timestamp]

\* Mutant of Renamed: the copy of the phone is forgotten.
RenamedKeepsPhone(issueDB, newIssueDB) ==
    [WithContent(issueDB.route, newIssueDB) EXCEPT !.phone = issueDB.phone]

\* rename: the stored object keeps its route and takes the other six fields.
Renamed(issueDB, newIssueDB) ==
    [issueDB EXCEPT !.name = newIssueDB.name,
                    !.surename = newIssueDB.surename,
                    !.email = newIssueDB.email,
                    !.timestamp = newIssueDB.timestamp,
                    !.report = newIssueDB.report,
                    !.phone = newIssueDB.phone]

isValidEmail(email) == email \in ValidEmails

isFormProperlyFilled(f) ==
    /\ f.report = 0 \/ f.report <= MaxReportLength
    /\ isValidEmail(f.email)
    /\ f.name # EmptyText
    /\ f.surename # EmptyText
    /\ f.email # EmptyText
=============================================================================

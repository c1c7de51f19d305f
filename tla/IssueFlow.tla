----------------------------- MODULE IssueFlow -----------------------------
(***************************************************************************)
(* From a tap on the issue button of a route to the stored issue: the      *)
(* list's presenter, the coordinator with its navigation stack, the form   *)
(* and its presenter, the interactor that sets the icon's badge, and the   *)
(* database of module DBManager under them.                                *)
(*                                                                         *)
(* Everything runs on the main thread.  What DispatchQueue.main.async      *)
(* posts is a queue of blocks that run in order, one after the other,      *)
(* between the user's actions; nothing else runs while a call of DBManager *)
(* is in progress.  The navigation stack, the badge and the main queue are *)
(* the system's, modelled from how the app uses them.                      *)
(***************************************************************************)
EXTENDS DBManager, Sequences, FiniteSets

CONSTANTS Main,      \* the main thread
          Drafts,    \* contents the user may type into a form
          MaxForms,  \* bound: forms and blocks are told apart by 1..MaxForms
          MaxQueue,  \* bound: posted blocks
          MaxNow     \* bound: the clock

ASSUME FlowAssumption ==
    /\ Main \in Threads
    /\ Drafts \subseteq Content
    /\ MaxForms \in Nat /\ MaxQueue \in Nat /\ MaxNow \in Nat \ {0}

\* Requests has what the forms may pass to create: what the user typed, and a
\* stored issue as its form shows it.
ASSUME RequestsAssumption ==
    /\ \A r \in Routes : \A c \in Drafts : WithContent(r, c) \in Requests
    /\ \A i \in Requests : \A n \in 1..MaxNow : IssueUI(i, n) \in Requests

VARIABLES nav,    \* the forms on the navigation stack, above the list
          queue,  \* the blocks posted to the main queue
          badge,  \* applicationIconBadgeNumber: the system keeps it
          now,    \* the current date
          crowd,  \* history: an issue was asked for while another was coming
          lost    \* history: the last write block was not committed

flowVars == <<nav, queue, badge, now, crowd, lost>>
vars == <<dbVars, flowVars>>

Ids == 1..MaxForms

\* A form: what it shows, whether its alert is up and, as history, the issue
\* it was opened on or last saved, and whether the user has changed it.
Form == [id : Ids, issueUI : Issue, isWrongFilled : BOOLEAN,
         base : Issue \cup {NoIssue}, edited : BOOLEAN, saved : BOOLEAN]

\* "present" carries what was found for the route; "dismiss" what was saved.
Block == [kind : {"present", "dismiss"}, id : Ids, route : Routes,
          issue : Issue \cup {NoIssue}]

FlowTypeOK ==
    /\ TypeOK
    /\ nav \in Seq(Form) /\ Len(nav) <= MaxForms
    /\ queue \in Seq(Block) /\ Len(queue) <= MaxQueue + 1
    /\ badge \in Nat
    /\ now \in 1..MaxNow
    /\ crowd \in BOOLEAN
    /\ lost \in BOOLEAN

FlowInit ==
    /\ Init
    /\ nav = <<>>
    /\ queue = <<>>
    /\ badge = 0
    /\ now = 1
    /\ crowd = FALSE
    /\ lost = FALSE
-----------------------------------------------------------------------------
Top == nav[Len(nav)]

SetTop(form) == [nav EXCEPT ![Len(nav)] = form]

\* popViewController: nothing happens when the list is on top.
Pop(stack) == IF stack = <<>> THEN <<>> ELSE SubSeq(stack, 1, Len(stack) - 1)

Pending(kind) == {i \in DOMAIN queue : queue[i].kind = kind}

FreeIds ==
    Ids \ ({nav[i].id : i \in DOMAIN nav}
             \cup {queue[i].id : i \in DOMAIN queue})

\* The stored issue of a route as the app would read it now.
Stored(r) == AsMap(View)[r]

\* The history of crowding ends when only the list is left.
Settle == crowd' = (crowd /\ (nav' # <<>> \/ queue' # <<>>))

\* The user can act on the form on top.
FormActive == Idle /\ nav # <<>> /\ ~Top.isWrongFilled
-----------------------------------------------------------------------------
(* The list *)

\* A response with the routes makes DataManager look every route's issue up.
RefreshList == Query(Main) /\ UNCHANGED flowVars

\* The block that fetchIssue posts.
PresentBlock(id, r) ==
    [kind |-> "present", id |-> id, route |-> r,
     issue |-> IssueFromDB(Stored(r))]

\* Mutant of TapIssue: the form overtakes the blocks already posted.
TapIssueJumpsQueue(r) ==
    /\ nav = <<>> /\ Len(queue) < MaxQueue
    /\ Query(Main) /\ proc' = "running"
    /\ \E id \in FreeIds : queue' = <<PresentBlock(id, r)>> \o queue
    /\ crowd' = (crowd \/ Pending("present") # {})
    /\ UNCHANGED <<nav, badge, now, lost>>

\* fetchIssue: the issue is read at once, and presented by a posted block,
\* unless the database ended the process.
TapIssue(r) ==
    /\ nav = <<>> /\ Len(queue) < MaxQueue
    /\ Query(Main)
    /\ \/ /\ proc' = "running"
          /\ \E id \in FreeIds : queue' = Append(queue, PresentBlock(id, r))
          /\ crowd' = (crowd \/ Pending("present") # {})
       \/ proc' = "crashed" /\ UNCHANGED <<queue, crowd>>
    /\ UNCHANGED <<nav, badge, now, lost>>

\* The block of fetchIssue: presentIssue pushes a form.
RunPresent ==
    /\ Idle /\ queue # <<>> /\ Head(queue).kind = "present"
    /\ LET b == Head(queue) IN
          nav' = Append(nav,
             [id |-> b.id,
              issueUI |-> IssueUI(IssueOrDefaults(b.route, b.issue), now),
              isWrongFilled |-> FALSE,
              base |-> b.issue, edited |-> FALSE, saved |-> FALSE])
    /\ queue' = Tail(queue)
    /\ UNCHANGED <<dbVars, badge, now, crowd, lost>>
-----------------------------------------------------------------------------
(* The form *)

Edit ==
    /\ FormActive
    /\ \E c \in Drafts :
          nav' = SetTop([Top EXCEPT
                             !.issueUI = WithContent(Top.issueUI.route, c),
                             !.edited = TRUE])
    /\ UNCHANGED <<dbVars, queue, badge, now, crowd, lost>>

\* OK on a form that is not properly filled: the alert, and nothing else.
RejectForm ==
    /\ FormActive /\ ~isFormProperlyFilled(Top.issueUI)
    /\ nav' = SetTop([Top EXCEPT !.isWrongFilled = TRUE])
    /\ UNCHANGED <<dbVars, queue, badge, now, crowd, lost>>

CloseAlert ==
    /\ Idle /\ nav # <<>> /\ Top.isWrongFilled
    /\ nav' = SetTop([Top EXCEPT !.isWrongFilled = FALSE])
    /\ UNCHANGED <<dbVars, queue, badge, now, crowd, lost>>

\* Mutant of onComplete: the badge counts what was stored before the write.
onCompleteCountsFile(objects, form, issue) ==
    /\ badge' = Cardinality(disk)
    /\ queue' = Append(queue, [kind |-> "dismiss", id |-> form.id,
                               route |-> issue.route, issue |-> issue])

\* What create's onComplete does: the badge counts the issues as the handle
\* sees them, and the form's dismissal is posted.
onComplete(objects, form, issue) ==
    /\ badge' = Cardinality(objects)
    /\ queue' = Append(queue, [kind |-> "dismiss", id |-> form.id,
                               route |-> issue.route, issue |-> issue])

\* Mutant of SaveForm: the dismissal is posted by nobody.
SaveFormSilently ==
    /\ FormActive /\ isFormProperlyFilled(Top.issueUI) /\ Len(queue) < MaxQueue
    /\ LET issue == IssueFromUI(Top.issueUI) IN
          /\ Create(Main, IssueDB(issue))
          /\ nav' = SetTop([Top EXCEPT !.saved = TRUE, !.base = issue])
    /\ UNCHANGED <<queue, badge, now, crowd, lost>>

\* OK on a properly filled form: create runs its transaction's block, with
\* onComplete in it; a crash of the database ends everything.
SaveForm ==
    /\ FormActive /\ isFormProperlyFilled(Top.issueUI) /\ Len(queue) < MaxQueue
    /\ LET issue == IssueFromUI(Top.issueUI) IN
          /\ Create(Main, IssueDB(issue))
          /\ IF proc' = "running"
             THEN /\ onComplete(work', Top, issue)
                  /\ nav' = SetTop([Top EXCEPT !.saved = TRUE, !.base = issue])
             ELSE UNCHANGED <<nav, queue, badge>>
    /\ UNCHANGED <<now, crowd, lost>>

\* The write commits: the handler of the OK button returns.
CommitForm ==
    /\ Commit
    /\ lost' = FALSE
    /\ UNCHANGED <<nav, queue, badge, now, crowd>>

\* The commit fails.  rename's catch calls onComplete a second time, outside
\* the transaction's block; the catch of the other path does nothing.
CommitFormFails ==
    /\ CommitFails
    /\ lost' = TRUE
    /\ IF call = "rename" THEN onComplete(View', Top, req)
                          ELSE UNCHANGED <<queue, badge>>
    /\ UNCHANGED <<nav, now, crowd>>

\* The posted block of save: the coordinator pops whatever is on top.
RunDismiss ==
    /\ Idle /\ queue # <<>> /\ Head(queue).kind = "dismiss"
    /\ nav' = Pop(nav)
    /\ queue' = Tail(queue)
    /\ UNCHANGED <<dbVars, badge, now, lost>>
    /\ Settle

\* The user leaves the form with the navigation bar's back button.
Back ==
    /\ FormActive
    /\ nav' = Pop(nav)
    /\ UNCHANGED <<dbVars, queue, badge, now, lost>>
    /\ Settle
-----------------------------------------------------------------------------
(* The process and the clock *)

KillApp ==
    /\ Kill
    /\ lost' = (lost \/ call # "idle")
    /\ UNCHANGED <<nav, queue, badge, now, crowd>>

LaunchApp ==
    /\ Launch
    /\ nav' = <<>>
    /\ queue' = <<>>
    /\ crowd' = FALSE
    /\ UNCHANGED <<badge, now, lost>>

Tick ==
    /\ now < MaxNow
    /\ now' = now + 1
    /\ UNCHANGED <<dbVars, nav, queue, badge, crowd, lost>>

FlowNext ==
    \/ RefreshList
    \/ \E r \in Routes : TapIssue(r)
    \/ RunPresent
    \/ Edit
    \/ RejectForm
    \/ CloseAlert
    \/ SaveForm
    \/ CommitForm
    \/ CommitFormFails
    \/ RunDismiss
    \/ Back
    \/ KillApp
    \/ LaunchApp
    \/ Tick

FlowSpec == FlowInit /\ [][FlowNext]_vars

\* The run loop serves the main queue between the user's events, however many
\* of these there are, and a write in progress ends.  Nothing is assumed of
\* the user, of failures or of the system.
FlowFairness ==
    /\ SF_vars(RunPresent \/ RunDismiss)
    /\ WF_vars(CommitForm \/ CommitFormFails)

FairFlowSpec == FlowSpec /\ FlowFairness
-----------------------------------------------------------------------------
(* Properties *)

\* Between two calls the icon's badge is the number of stored issues.  It is
\* computed inside the transaction, so it can be one too many when that
\* transaction was the last one and was not committed; never anything else.
BadgeCountsIssues ==
    Idle => \/ badge = Cardinality(disk)
            \/ lost /\ badge = Cardinality(disk) + 1

\* As long as the list answers one tap at a time and no commit failed, a form
\* that is open or about to open was filled with the issue now stored for its
\* route, so that its OK never overwrites one it has not seen.
FormsAreFresh ==
    Idle /\ ~crowd /\ "commit" \notin faults =>
        /\ \A i \in DOMAIN nav : nav[i].base = Stored(nav[i].issueUI.route)
        /\ \A i \in Pending("present") : queue[i].issue = Stored(queue[i].route)

\* The coordinator pops whatever is on top.  As long as the list answers one
\* tap at a time, that is the form whose save asked for it, or nothing.
DismissHitsItsForm ==
    ~crowd /\ queue # <<>> /\ Head(queue).kind = "dismiss" =>
        nav = <<>> \/ Top.id = Head(queue).id

\* A form's dismissal is posted inside the transaction, before the commit.
\* Still, when it can run the issue is in the file, unless a commit failed.
DismissMeansStored ==
    Idle /\ "commit" \notin faults =>
        \A i \in Pending("dismiss") :
            AsMap(disk)[queue[i].route] = queue[i].issue
              \/ \E j \in Pending("dismiss") :
                    j > i /\ queue[j].route = queue[i].route

\* Opening a stored issue and pressing OK without touching anything writes
\* the same issue back: the conversions between the database object, the
\* domain struct and the form lose nothing.  An issue dated before 1970 is
\* the exception: the form reads a negative timestamp as "no date yet".
ConfirmingChangesNothing ==
    [][(call = "idle" /\ call' = "rename" /\ ~crowd /\ "commit" \notin faults
          /\ ~Top.edited /\ Top.base.timestamp >= 0)
         => work' = disk]_vars

FormOpen(id) ==
    proc = "running" /\ \E i \in DOMAIN nav : nav[i].id = id

\* A form that was saved closes, whether or not its commit succeeds, as long
\* as the list answers one tap at a time.
SavedFormCloses ==
    \A id \in Ids :
        (/\ FormOpen(id) /\ ~crowd
         /\ \E i \in DOMAIN nav : nav[i].id = id /\ nav[i].saved)
        ~> ~FormOpen(id)
=============================================================================

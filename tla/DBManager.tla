----------------------------- MODULE DBManager -----------------------------
(***************************************************************************)
(* The DBManager singleton and the Realm database under it.                *)
(*                                                                         *)
(* DBManager keeps one Realm handle and the thread it was opened on.       *)
(* Every operation starts by re-opening the handle when the caller runs on *)
(* another thread.  create() looks the route up and either updates the     *)
(* object it finds or adds a new one, in both cases inside a write         *)
(* transaction whose block also calls onComplete, so a call is two steps   *)
(* here: the block, and the commit that follows it.                        *)
(*                                                                         *)
(* Calls do not overlap: every caller in the app runs on the main queue.   *)
(* Opening a file and committing may fail, and the process may be killed   *)
(* between any two steps.                                                  *)
(***************************************************************************)
EXTENDS IssueData

CONSTANTS Threads,   \* threads that call DBManager
          NoThread,  \* "thread" and "realm" before the singleton exists
          Requests   \* the issues that callers pass to create

ASSUME DBAssumption == NoThread \notin Threads /\ Requests \subseteq Issue

VARIABLES disk,     \* the committed IssueDB objects
          proc,     \* the process: "running", "killed" or "crashed"
          thread,   \* DBManager.thread
          realm,    \* the thread DBManager.realm was opened on
          writing,  \* the handle is in a write transaction
          work,     \* the objects as that transaction sees them
          call,     \* the write in progress
          req,      \* the issue it saves
          faults    \* failures met since launch: "open", "commit"

dbVars == <<disk, proc, thread, realm, writing, work, call, req, faults>>

TypeOK ==
    /\ disk \subseteq Issue
    /\ proc \in {"running", "killed", "crashed"}
    /\ thread \in Threads \cup {NoThread}
    /\ realm \in Threads \cup {NoThread}
    /\ writing \in BOOLEAN
    /\ work \subseteq Issue
    /\ call \in {"idle", "add", "rename", "reset"}
    /\ req \in Issue \cup {NoIssue}
    /\ faults \subseteq {"open", "commit"}

Init ==
    /\ disk = {}
    /\ proc = "running"
    /\ thread = NoThread
    /\ realm = NoThread
    /\ writing = FALSE
    /\ work = {}
    /\ call = "idle"
    /\ req = NoIssue
    /\ faults = {}
-----------------------------------------------------------------------------
(* Realm *)

\* What a query on the handle returns: a transaction sees its own changes.
View == IF writing THEN work ELSE disk

\* Two objects with the same primary key.
SameKey(o, p) == o.route = p.route

\* Mutant of RealmUpdate: a new object is written beside the one found.
RealmUpdateKeepsOld(objects, old, new) == objects \cup {new}

\* Setting the properties of a managed object.
RealmUpdate(objects, old, new) == (objects \ {old}) \cup {new}

\* Begins a transaction and runs its block, which leaves the objects "after".
BeginWrite(after, kind, issue) ==
    /\ writing' = TRUE
    /\ work' = after
    /\ call' = kind
    /\ req' = issue
    /\ UNCHANGED <<disk, proc>>

\* An exception of Realm, or the unwrapping of a nil handle, is not caught.
Crash ==
    /\ proc' = "crashed"
    /\ UNCHANGED <<disk, writing, work, call, req>>
-----------------------------------------------------------------------------
(* DBManager *)

Idle == proc = "running" /\ call = "idle"

\* Mutant of resetHandlerIfNecessary: the first handle serves every thread.
resetHandlerOnce(t, opens) ==
    /\ thread' = t
    /\ realm' = IF thread = NoThread /\ opens THEN t ELSE realm
    /\ faults' = IF thread = NoThread /\ ~opens THEN faults \cup {"open"}
                                                ELSE faults

\* On another thread the handle is opened again; when that fails the old one
\* stays, and the thread is recorded all the same.
resetHandlerIfNecessary(t, opens) ==
    /\ thread' = t
    /\ realm' = IF thread # t /\ opens THEN t ELSE realm
    /\ faults' = IF thread # t /\ ~opens THEN faults \cup {"open"} ELSE faults

\* The handle cannot be used from t: it is nil or belongs to another thread,
\* or the one it replaced was released inside its transaction, which cannot
\* be cancelled from here.
Unusable(t) == realm' # t \/ (writing /\ realm' # realm)

\* Mutant of getIssue: the filter on the route is missing.
getAnyIssue(r) == View

getIssue(r) == {o \in View : o.route = r}

\* Realm refuses a second object with the same primary key.
Add(issue) ==
    IF \E o \in View : SameKey(o, issue)
    THEN Crash
    ELSE BeginWrite(View \cup {issue}, "add", issue)

rename(found, issue) ==
    BeginWrite(RealmUpdate(View, found, Renamed(found, issue)), "rename", issue)

\* create: the lookup and the block of the transaction it leads to.  A
\* transaction left open by a failed commit makes beginWrite throw.
Create(t, issue) ==
    /\ Idle
    /\ \E opens \in BOOLEAN : resetHandlerIfNecessary(t, opens)
    /\ \/ (Unusable(t) \/ writing) /\ Crash
       \/ /\ ~Unusable(t) /\ ~writing
          /\ \/ getIssue(issue.route) = {} /\ Add(issue)
             \/ \E found \in getIssue(issue.route) : rename(found, issue)

\* reset: the block of its transaction deletes every object.
Reset(t) ==
    /\ Idle
    /\ \E opens \in BOOLEAN : resetHandlerIfNecessary(t, opens)
    /\ \/ (Unusable(t) \/ writing) /\ Crash
       \/ ~Unusable(t) /\ ~writing /\ BeginWrite({}, "reset", NoIssue)

\* getIssue and getIssues: a query.
Query(t) ==
    /\ Idle
    /\ \E opens \in BOOLEAN : resetHandlerIfNecessary(t, opens)
    /\ \/ Unusable(t) /\ Crash
       \/ ~Unusable(t) /\ UNCHANGED <<disk, proc, writing, work, call, req>>

\* Mutant of Commit: the transaction is left open.
CommitForgotten ==
    /\ proc = "running" /\ call # "idle"
    /\ call' = "idle"
    /\ req' = NoIssue
    /\ UNCHANGED <<disk, proc, thread, realm, writing, work, faults>>

\* The write block is over: write commits and the call returns.
Commit ==
    /\ proc = "running" /\ call # "idle"
    /\ disk' = work
    /\ writing' = FALSE
    /\ work' = {}
    /\ call' = "idle"
    /\ req' = NoIssue
    /\ UNCHANGED <<proc, thread, realm, faults>>

\* The commit throws.  DBManager catches the error and never cancels the
\* transaction; whether it is still open is up to the storage engine.
CommitFails ==
    /\ proc = "running" /\ call # "idle"
    /\ writing' \in BOOLEAN
    /\ work' = IF writing' THEN work ELSE {}
    /\ call' = "idle"
    /\ req' = NoIssue
    /\ faults' = faults \cup {"commit"}
    /\ UNCHANGED <<disk, proc, thread, realm>>
-----------------------------------------------------------------------------
(* The process *)

Kill ==
    /\ proc = "running"
    /\ proc' = "killed"
    /\ UNCHANGED <<disk, thread, realm, writing, work, call, req, faults>>

\* A new process has no singleton yet; an open transaction left no trace.
Launch ==
    /\ proc # "running"
    /\ proc' = "running"
    /\ thread' = NoThread
    /\ realm' = NoThread
    /\ writing' = FALSE
    /\ work' = {}
    /\ call' = "idle"
    /\ req' = NoIssue
    /\ faults' = {}
    /\ UNCHANGED disk

Next ==
    \/ \E t \in Threads, issue \in Requests : Create(t, issue)
    \/ \E t \in Threads : Reset(t)
    \/ \E t \in Threads : Query(t)
    \/ Commit
    \/ CommitFails
    \/ Kill
    \/ Launch

Spec == Init /\ [][Next]_dbVars
-----------------------------------------------------------------------------
(* Properties *)

\* Two objects of a set never have the same route.
UniqueKeys(objects) == \A o, p \in objects : SameKey(o, p) => o = p

\* Neither the file nor an open transaction, one that a failed commit left open
\* included, ever holds two issues for one route: what create looks up is what
\* its transaction then sees.
OneIssuePerRoute == UniqueKeys(disk) /\ UniqueKeys(work)

\* Calling DBManager from any thread, in any order, is safe: it terminates
\* the process only after Realm failed to open or to commit, both of which
\* the code catches and ignores.
CrashNeedsFault == proc = "crashed" => faults # {}

\* Unless a commit failed since launch, what a query answers between two
\* calls is what it would answer after a restart.
QueriesAreDurable == Idle /\ "commit" \notin faults => View = disk

\* The map that a set of objects with unique routes represents.
AsMap(objects) ==
    [r \in Routes |-> IF \E o \in objects : o.route = r
                      THEN CHOOSE o \in objects : o.route = r
                      ELSE NoIssue]

Store == INSTANCE IssueStore WITH store <- AsMap(disk)

\* DBManager over Realm implements the durable map: whatever the thread, the
\* fault or the moment the process dies, the file changes only by the whole
\* of one saved issue, in the entry of its own route, or by a reset.
ImplementsIssueStore == Store!Spec

\* An open transaction differs from the file by exactly the call that opened
\* it, so that committing it does what the caller asked and nothing else; and
\* a transaction outlives its call only when its commit failed.
PendingWriteIsTheCall ==
    /\ call # "idle" => writing
    /\ call \in {"add", "rename"} =>
          /\ req \in Requests
          /\ AsMap(work) = [AsMap(disk) EXCEPT ![req.route] = req]
    /\ call = "reset" => work = {}
    /\ call = "idle" /\ writing => "commit" \in faults
    /\ ~writing => work = {}
=============================================================================

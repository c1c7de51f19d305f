-------------------------- MODULE IssueFlowProofs --------------------------
(***************************************************************************)
(* Proofs about DBManager and about IssueFlow, which is built on it, for    *)
(* all routes, texts, threads, requests, faults, and numbers of forms and   *)
(* blocks.                                                                  *)
(*                                                                          *)
(* Of DBManager the inductive invariant (IInv) adds to the properties that  *)
(* are wanted what they rest on: between two calls the handle belongs to    *)
(* the recorded thread as long as the process runs (HandleInv), and an open *)
(* transaction differs from the file by the call that opened it.            *)
(*                                                                          *)
(* The way from a tap to the stored issue drives DBManager only as its own  *)
(* specification allows, so that what is proved of DBManager holds in the   *)
(* flow.  The flow's own properties speak of moments between two calls.     *)
(* What makes them inductive is what is true within a call: the forms, the  *)
(* blocks and the badge then already agree with the objects of the open     *)
(* transaction.                                                             *)
(***************************************************************************)
EXTENDS IssueFlow, SequenceTheorems, FiniteSetTheorems, TLAPS
-----------------------------------------------------------------------------
(* DBManager *)

\* As long as the process runs, the handle was opened on the thread that
\* DBManager recorded; while a call is in progress there is such a thread.
HandleInv == proc = "running" => realm = thread

IInv ==
    /\ TypeOK
    /\ OneIssuePerRoute
    /\ PendingWriteIsTheCall
    /\ HandleInv
    /\ CrashNeedsFault
-----------------------------------------------------------------------------
(* Sets of objects with unique routes, and the maps they represent. *)

\* The entry of a route is the only object that has it.
LEMMA AsMapEntry ==
    ASSUME NEW objects, UniqueKeys(objects), NEW o \in objects,
           o.route \in Routes
    PROVE  AsMap(objects)[o.route] = o
<1>1. (CHOOSE p \in objects : p.route = o.route) = o
  BY DEF UniqueKeys, SameKey
<1> QED
  BY <1>1 DEF AsMap

\* A route that no object has maps to NoIssue.
LEMMA AsMapMissing ==
    ASSUME NEW objects, NEW r \in Routes, \A o \in objects : o.route # r
    PROVE  AsMap(objects)[r] = NoIssue
BY DEF AsMap

\* Replacing the object of a route, or adding the first one, changes the map
\* in that route only and keeps the routes unique.
LEMMA AsMapSave ==
    ASSUME NEW before \in SUBSET Issue, UniqueKeys(before),
           NEW issue \in Issue,
           NEW after,
           after = {o \in before : o.route # issue.route} \cup {issue}
    PROVE  /\ UniqueKeys(after)
           /\ after \subseteq Issue
           /\ AsMap(after) = [AsMap(before) EXCEPT ![issue.route] = issue]
<1>1. UniqueKeys(after)
  BY DEF UniqueKeys, SameKey
<1>2. after \subseteq Issue
  OBVIOUS
<1>3. \A o \in after : o.route \in Routes
  BY <1>2 DEF Issue
<1>4. \A o \in before : o.route \in Routes
  BY DEF Issue
<1>5. ASSUME NEW r \in Routes
      PROVE  AsMap(after)[r] = [AsMap(before) EXCEPT ![issue.route] = issue][r]
  <2> DEFINE target == [AsMap(before) EXCEPT ![issue.route] = issue]
  <2>0. target = [q \in Routes |-> IF q = issue.route THEN issue
                                   ELSE AsMap(before)[q]]
    BY DEF AsMap
  <2>1. CASE r = issue.route
    BY <1>1, <1>3, <2>0, <2>1, AsMapEntry
  <2>2. CASE r # issue.route /\ \E o \in before : o.route = r
    <3>1. PICK o \in before : o.route = r
      BY <2>2
    <3>2. o \in after
      BY <2>2, <3>1
    <3>3. AsMap(after)[r] = o /\ AsMap(before)[r] = o
      BY <1>1, <1>3, <1>4, <3>1, <3>2, AsMapEntry
    <3> QED
      BY <2>0, <2>2, <3>3
  <2>3. CASE r # issue.route /\ \A o \in before : o.route # r
    <3>1. \A o \in after : o.route # r
      BY <2>3
    <3> QED
      BY <2>0, <2>3, <3>1, AsMapMissing
  <2> QED
    BY <2>1, <2>2, <2>3
<1>6. AsMap(after) = [AsMap(before) EXCEPT ![issue.route] = issue]
  BY <1>5 DEF AsMap
<1> QED
  BY <1>1, <1>2, <1>6

\* The empty set of objects is the empty map.
LEMMA AsMapEmpty == AsMap({}) = [r \in Routes |-> NoIssue] /\ UniqueKeys({})
BY DEF AsMap, UniqueKeys

\* rename writes the requested issue over the object it found.
LEMMA RenamedIsRequest ==
    ASSUME NEW old \in Issue, NEW new \in Issue, old.route = new.route
    PROVE  Renamed(old, new) = new
BY DEF Renamed, Issue

\* What rename leaves is what saving the request should leave.
LEMMA RenameSaves ==
    ASSUME NEW objects \in SUBSET Issue, UniqueKeys(objects),
           NEW issue \in Issue, NEW found \in objects,
           found.route = issue.route
    PROVE  RealmUpdate(objects, found, Renamed(found, issue))
             = {o \in objects : o.route # issue.route} \cup {issue}
<1>1. Renamed(found, issue) = issue
  BY RenamedIsRequest
<1>2. \A o \in objects : o.route = issue.route <=> o = found
  BY DEF UniqueKeys, SameKey
<1> QED
  BY <1>1, <1>2 DEF RealmUpdate
-----------------------------------------------------------------------------
(* The inductive invariant. *)

\* What resetHandlerIfNecessary guarantees to the call that made it: either
\* the handle is usable from t, or a fault is recorded.
LEMMA HandlerReady ==
    ASSUME IInv, Idle, NEW t \in Threads, NEW opens \in BOOLEAN,
           resetHandlerIfNecessary(t, opens)
    PROVE  /\ thread' \in Threads /\ realm' \in Threads \cup {NoThread}
           /\ faults' \subseteq {"open", "commit"} /\ faults \subseteq faults'
           /\ thread' = t
           /\ Unusable(t) => faults' # {}
           /\ writing => faults' # {}
           /\ ~Unusable(t) => realm' = thread'
BY DEF IInv, TypeOK, HandleInv, PendingWriteIsTheCall, Idle,
       resetHandlerIfNecessary, Unusable

\* A call that terminates the process after a fault keeps the invariant.
LEMMA CrashKeepsIInv ==
    ASSUME IInv, Idle, NEW t \in Threads, NEW opens \in BOOLEAN,
           resetHandlerIfNecessary(t, opens), Crash, faults' # {}
    PROVE  IInv'
<1>1. TypeOK'
  BY HandlerReady DEF IInv, TypeOK, Crash
<1>2. OneIssuePerRoute'
  BY DEF IInv, OneIssuePerRoute, UniqueKeys, Crash
<1>3. PendingWriteIsTheCall'
  BY HandlerReady DEF IInv, PendingWriteIsTheCall, AsMap, Crash
<1> QED
  BY <1>1, <1>2, <1>3 DEF IInv, HandleInv, CrashNeedsFault, Crash

\* Opening a transaction whose block saves one request keeps the invariant.
LEMMA SaveKeepsIInv ==
    ASSUME IInv, Idle, ~writing, NEW t \in Threads, NEW opens \in BOOLEAN,
           resetHandlerIfNecessary(t, opens), ~Unusable(t),
           NEW issue \in Requests, NEW kind \in {"add", "rename"}, NEW after,
           after = {o \in disk : o.route # issue.route} \cup {issue},
           BeginWrite(after, kind, issue)
    PROVE  IInv'
<1>1. issue \in Issue /\ disk \subseteq Issue /\ UniqueKeys(disk)
  BY DBAssumption DEF IInv, TypeOK, OneIssuePerRoute
<1>2. /\ UniqueKeys(after)
      /\ after \subseteq Issue
      /\ AsMap(after) = [AsMap(disk) EXCEPT ![issue.route] = issue]
  BY <1>1, AsMapSave
<1>3. TypeOK'
  BY <1>1, <1>2, HandlerReady DEF IInv, TypeOK, BeginWrite
<1>4. OneIssuePerRoute'
  BY <1>1, <1>2 DEF OneIssuePerRoute, BeginWrite
<1>5. PendingWriteIsTheCall'
  BY <1>2 DEF PendingWriteIsTheCall, BeginWrite
<1>6. HandleInv' /\ CrashNeedsFault'
  BY HandlerReady DEF HandleInv, CrashNeedsFault, BeginWrite, Idle
<1> QED
  BY <1>3, <1>4, <1>5, <1>6 DEF IInv

\* An app that was never started has nothing stored and nothing open.
LEMMA InitIInv == Init => IInv
<1> SUFFICES ASSUME Init PROVE IInv
  OBVIOUS
<1>1. TypeOK
  BY DEF Init, TypeOK
<1>2. OneIssuePerRoute
  BY DEF Init, OneIssuePerRoute, UniqueKeys
<1>3. PendingWriteIsTheCall
  BY DEF Init, PendingWriteIsTheCall
<1> QED
  BY <1>1, <1>2, <1>3 DEF Init, IInv, HandleInv, CrashNeedsFault

\* create: looking the route up and adding or renaming, or ending the process.
LEMMA CreateKeepsIInv ==
    ASSUME IInv, NEW t \in Threads, NEW issue \in Requests, Create(t, issue)
    PROVE  IInv'
<1>1. Idle
  BY DEF Create
<1>2. PICK opens \in BOOLEAN : resetHandlerIfNecessary(t, opens)
  BY DEF Create
<1>3. CASE (Unusable(t) \/ writing) /\ Crash
  <2>1. faults' # {}
    BY <1>1, <1>2, <1>3, HandlerReady
  <2> QED
    BY <1>1, <1>2, <1>3, <2>1, CrashKeepsIInv
<1>4. CASE /\ ~Unusable(t) /\ ~writing
           /\ getIssue(issue.route) = {} /\ Add(issue)
  <2>1. \A o \in disk : o.route # issue.route
    BY <1>4 DEF getIssue, View
  <2>2. BeginWrite(disk \cup {issue}, "add", issue)
    BY <1>4, <2>1 DEF Add, View, SameKey
  <2>3. disk \cup {issue} = {o \in disk : o.route # issue.route} \cup {issue}
    BY <2>1
  <2> QED
    BY <1>1, <1>2, <1>4, <2>2, <2>3, SaveKeepsIInv
<1>5. CASE /\ ~Unusable(t) /\ ~writing
           /\ \E found \in getIssue(issue.route) : rename(found, issue)
  <2>1. PICK found \in getIssue(issue.route) : rename(found, issue)
    BY <1>5
  <2>2. found \in disk /\ found.route = issue.route
    BY <1>5, <2>1 DEF getIssue, View
  <2>3. issue \in Issue /\ disk \subseteq Issue /\ UniqueKeys(disk)
    BY DBAssumption DEF IInv, TypeOK, OneIssuePerRoute
  <2> DEFINE after == RealmUpdate(disk, found, Renamed(found, issue))
  <2>4. after = {o \in disk : o.route # issue.route} \cup {issue}
    BY <2>2, <2>3, RenameSaves
  <2>5. BeginWrite(after, "rename", issue)
    BY <1>5, <2>1 DEF rename, View
  <2> QED
    BY <1>1, <1>2, <1>5, <2>4, <2>5, SaveKeepsIInv
<1> QED
  BY <1>3, <1>4, <1>5 DEF Create

\* reset: deleting everything, or ending the process.
LEMMA ResetKeepsIInv ==
    ASSUME IInv, NEW t \in Threads, Reset(t)
    PROVE  IInv'
<1>1. Idle
  BY DEF Reset
<1>2. PICK opens \in BOOLEAN : resetHandlerIfNecessary(t, opens)
  BY DEF Reset
<1>3. CASE (Unusable(t) \/ writing) /\ Crash
  <2>1. faults' # {}
    BY <1>1, <1>2, <1>3, HandlerReady
  <2> QED
    BY <1>1, <1>2, <1>3, <2>1, CrashKeepsIInv
<1>4. CASE ~Unusable(t) /\ ~writing /\ BeginWrite({}, "reset", NoIssue)
  <2>1. TypeOK'
    BY <1>1, <1>2, <1>4, HandlerReady DEF IInv, TypeOK, BeginWrite
  <2>2. OneIssuePerRoute'
    BY <1>4 DEF IInv, OneIssuePerRoute, UniqueKeys, BeginWrite
  <2>3. PendingWriteIsTheCall'
    BY <1>4 DEF PendingWriteIsTheCall, BeginWrite
  <2>4. HandleInv' /\ CrashNeedsFault'
    BY <1>1, <1>2, <1>4, HandlerReady
    DEF HandleInv, CrashNeedsFault, BeginWrite, Idle
  <2> QED
    BY <2>1, <2>2, <2>3, <2>4 DEF IInv
<1> QED
  BY <1>3, <1>4 DEF Reset

\* getIssue and getIssues change the handle only, or end the process.
LEMMA QueryKeepsIInv ==
    ASSUME IInv, NEW t \in Threads, Query(t)
    PROVE  IInv'
<1>1. Idle
  BY DEF Query
<1>2. PICK opens \in BOOLEAN : resetHandlerIfNecessary(t, opens)
  BY DEF Query
<1>3. CASE Unusable(t) /\ Crash
  <2>1. faults' # {}
    BY <1>1, <1>2, <1>3, HandlerReady
  <2> QED
    BY <1>1, <1>2, <1>3, <2>1, CrashKeepsIInv
<1>4. CASE ~Unusable(t) /\ UNCHANGED <<disk, proc, writing, work, call, req>>
  <2>1. TypeOK'
    BY <1>1, <1>2, <1>4, HandlerReady DEF IInv, TypeOK
  <2>2. OneIssuePerRoute'
    BY <1>4 DEF IInv, OneIssuePerRoute, UniqueKeys
  <2>3. PendingWriteIsTheCall'
    BY <1>1, <1>2, <1>4, HandlerReady DEF IInv, PendingWriteIsTheCall, AsMap
  <2>4. HandleInv' /\ CrashNeedsFault'
    BY <1>1, <1>2, <1>4, HandlerReady DEF HandleInv, CrashNeedsFault, Idle
  <2> QED
    BY <2>1, <2>2, <2>3, <2>4 DEF IInv
<1> QED
  BY <1>3, <1>4 DEF Query

\* Across every step of the database layer.
LEMMA NextIInv == IInv /\ [Next]_dbVars => IInv'
<1> SUFFICES ASSUME IInv, [Next]_dbVars PROVE IInv'
  OBVIOUS
<1>1. ASSUME NEW t \in Threads, NEW issue \in Requests, Create(t, issue)
      PROVE  IInv'
  BY <1>1, CreateKeepsIInv
<1>2. ASSUME NEW t \in Threads, Reset(t) PROVE IInv'
  BY <1>2, ResetKeepsIInv
<1>3. ASSUME NEW t \in Threads, Query(t) PROVE IInv'
  BY <1>3, QueryKeepsIInv
<1>4. CASE Commit
  <2>1. TypeOK' /\ HandleInv' /\ CrashNeedsFault'
    BY <1>4 DEF IInv, TypeOK, HandleInv, CrashNeedsFault, Commit
  <2>2. OneIssuePerRoute'
    BY <1>4 DEF IInv, OneIssuePerRoute, UniqueKeys, Commit
  <2>3. PendingWriteIsTheCall'
    BY <1>4 DEF PendingWriteIsTheCall, Commit
  <2> QED
    BY <2>1, <2>2, <2>3 DEF IInv
<1>5. CASE CommitFails
  <2>1. TypeOK' /\ HandleInv' /\ CrashNeedsFault'
    BY <1>5 DEF IInv, TypeOK, HandleInv, CrashNeedsFault, CommitFails
  <2>2. OneIssuePerRoute'
    BY <1>5 DEF IInv, OneIssuePerRoute, UniqueKeys, CommitFails
  <2>3. PendingWriteIsTheCall'
    BY <1>5 DEF PendingWriteIsTheCall, CommitFails
  <2> QED
    BY <2>1, <2>2, <2>3 DEF IInv
<1>6. CASE Kill
  <2>1. TypeOK' /\ HandleInv' /\ CrashNeedsFault'
    BY <1>6 DEF IInv, TypeOK, HandleInv, CrashNeedsFault, Kill
  <2>2. OneIssuePerRoute'
    BY <1>6 DEF IInv, OneIssuePerRoute, UniqueKeys, Kill
  <2>3. PendingWriteIsTheCall'
    BY <1>6 DEF IInv, PendingWriteIsTheCall, AsMap, Kill
  <2> QED
    BY <2>1, <2>2, <2>3 DEF IInv
<1>7. CASE Launch
  <2>1. TypeOK' /\ HandleInv' /\ CrashNeedsFault'
    BY <1>7 DEF IInv, TypeOK, HandleInv, CrashNeedsFault, Launch
  <2>2. OneIssuePerRoute'
    BY <1>7 DEF IInv, OneIssuePerRoute, UniqueKeys, Launch
  <2>3. PendingWriteIsTheCall'
    BY <1>7 DEF PendingWriteIsTheCall, Launch
  <2> QED
    BY <2>1, <2>2, <2>3 DEF IInv
<1>8. CASE UNCHANGED dbVars
  BY <1>8 DEF IInv, TypeOK, OneIssuePerRoute, UniqueKeys, HandleInv,
              PendingWriteIsTheCall, AsMap, CrashNeedsFault, dbVars
<1> QED
  BY <1>1, <1>2, <1>3, <1>4, <1>5, <1>6, <1>7, <1>8 DEF Next
-----------------------------------------------------------------------------
(* The theorems. *)

\* The inductive invariant holds in every reachable state.
THEOREM InvariantHolds == Spec => []IInv
BY InitIInv, NextIInv, PTL DEF Spec

\* Every variable of DBManager keeps its type: what is read back from the
\* database is an issue.
THEOREM TypeCorrect == Spec => []TypeOK
<1>1. IInv => TypeOK
  BY DEF IInv
<1> QED
  BY <1>1, InvariantHolds, PTL

\* create never stores a second issue for a route, in the file or in a
\* transaction, whatever the thread, the failures and the restarts.
THEOREM RoutesAreUnique == Spec => []OneIssuePerRoute
<1>1. IInv => OneIssuePerRoute
  BY DEF IInv
<1> QED
  BY <1>1, InvariantHolds, PTL

\* DBManager crashes only after an ignored failure to open or to commit.
THEOREM CrashesAreFaults == Spec => []CrashNeedsFault
<1>1. IInv => CrashNeedsFault
  BY DEF IInv
<1> QED
  BY <1>1, InvariantHolds, PTL

\* Without a failed commit, queries never show what a restart would lose.
THEOREM NoDirtyReads == Spec => []QueriesAreDurable
<1>1. IInv => QueriesAreDurable
  BY DEF IInv, PendingWriteIsTheCall, QueriesAreDurable, Idle, View
<1> QED
  BY <1>1, InvariantHolds, PTL

\* An open transaction holds exactly the write its caller asked for.
THEOREM PendingWrites == Spec => []PendingWriteIsTheCall
<1>1. IInv => PendingWriteIsTheCall
  BY DEF IInv
<1> QED
  BY <1>1, InvariantHolds, PTL

\* The file starts as the empty map.
LEMMA InitRefines == Init => Store!Init
BY AsMapEmpty DEF Init, Store!Init

\* Every step saves one request, clears the map or leaves it alone.
LEMMA NextRefines == IInv /\ [Next]_dbVars => [Store!Next]_(AsMap(disk))
<1> SUFFICES ASSUME IInv, [Next]_dbVars
             PROVE  Store!Next \/ AsMap(disk)' = AsMap(disk)
  OBVIOUS
<1>1. CASE Commit
  <2>1. AsMap(disk)' = AsMap(work)
    BY <1>1 DEF Commit, AsMap
  <2>2. CASE call \in {"add", "rename"}
    <3>1. /\ req \in Requests
          /\ AsMap(disk)' = [AsMap(disk) EXCEPT ![req.route] = req]
      BY <2>1, <2>2 DEF IInv, PendingWriteIsTheCall
    <3>2. Store!Save(req)
      BY <3>1 DEF Store!Save
    <3> QED
      BY <3>1, <3>2 DEF Store!Next
  <2>3. CASE call = "reset"
    <3>1. Store!Clear
      BY <2>1, <2>3, AsMapEmpty DEF IInv, PendingWriteIsTheCall, Store!Clear
    <3> QED
      BY <3>1 DEF Store!Next
  <2> QED
    BY <1>1, <2>2, <2>3 DEF IInv, TypeOK, Commit
<1>2. CASE disk' = disk
  BY <1>2 DEF AsMap
<1>3. Commit \/ disk' = disk
  BY DEF Next, Create, Reset, Query, CommitFails, Kill, Launch, Add, rename,
         BeginWrite, Crash, dbVars
<1> QED
  BY <1>1, <1>2, <1>3

\* DBManager over Realm implements the abstract durable map from routes to
\* issues.
THEOREM Refinement == Spec => ImplementsIssueStore
BY InitRefines, NextRefines, InitIInv, NextIInv, PTL
DEF Spec, ImplementsIssueStore, Store!Spec
-----------------------------------------------------------------------------
(* IssueFlow *)

\* The objects that the calls made so far lead to: within a call, those of its
\* transaction.
Current == IF call = "idle" THEN disk ELSE work

\* No commit failed since launch.
Sound == proc = "running" /\ "commit" \notin faults

Typed ==
    /\ nav \in Seq(Form)
    /\ queue \in Seq(Block)
    /\ badge \in Nat
    /\ now \in 1..MaxNow
    /\ crowd \in BOOLEAN
    /\ lost \in BOOLEAN

\* A form that may be saved shows something that callers save, and an untouched
\* one shows the issue it was opened on.
FormIsRight(f) ==
    /\ isFormProperlyFilled(f.issueUI) => f.issueUI \in Requests
    /\ ~f.edited /\ f.base # NoIssue =>
          f.base.timestamp < 0 \/ f.issueUI = f.base

\* A form will be presented for nothing or for an issue of its route.
BlockIsRight(b) ==
    b.kind = "present" =>
       b.issue = NoIssue \/ (b.issue \in Requests /\ b.issue.route = b.route)

FormsRight ==
    /\ \A i \in DOMAIN nav : FormIsRight(nav[i])
    /\ \A i \in DOMAIN queue : BlockIsRight(queue[i])

\* The objects are finitely many, and were saved by callers.
StoreRight ==
    /\ disk \subseteq Requests /\ IsFiniteSet(disk)
    /\ work \subseteq Requests /\ IsFiniteSet(work)

\* A call is one of a form that is still open, and a later one may be posted.
CallRight ==
    /\ call \in {"idle", "add", "rename"}
    /\ proc = "running" /\ call # "idle" => nav # <<>>
    /\ Len(queue) <= IF call = "idle" THEN MaxQueue + 1 ELSE MaxQueue

\* The badge within a call, and after one that was not committed.
BadgeRight ==
    /\ proc # "running" /\ call # "idle" => lost
    /\ call # "idle" => badge = Cardinality(work)
    /\ call = "add" => Cardinality(work) = Cardinality(disk) + 1
    /\ call = "rename" => Cardinality(work) = Cardinality(disk)
    /\ call = "idle" => \/ badge = Cardinality(disk)
                        \/ lost /\ badge = Cardinality(disk) + 1

\* Without a crowd there is one form at most; while one is on its way nothing
\* is behind it, and all that is posted is about the form that is open.
Orderly ==
    ~crowd =>
       /\ Len(nav) <= 1
       /\ \A i \in Pending("present") : nav = <<>> /\ i = Len(queue)
       /\ nav # <<>> => \A i \in DOMAIN queue : queue[i].id = nav[1].id

FormsAgree ==
    Sound /\ ~crowd =>
       /\ \A i \in DOMAIN nav :
             nav[i].base = AsMap(Current)[nav[i].issueUI.route]
       /\ \A i \in Pending("present") :
             queue[i].issue = AsMap(Current)[queue[i].route]

DismissalsAgree ==
    Sound =>
       \A i \in Pending("dismiss") :
          \/ AsMap(Current)[queue[i].route] = queue[i].issue
          \/ \E j \in Pending("dismiss") :
                j > i /\ queue[j].route = queue[i].route

\* The forms and the forms on their way have ids of their own.
IdsDiffer ==
    /\ \A i, j \in DOMAIN nav : nav[i].id = nav[j].id => i = j
    /\ \A i \in Pending("present") :
          /\ \A j \in DOMAIN nav : queue[i].id # nav[j].id
          /\ \A j \in Pending("present") : queue[i].id = queue[j].id => i = j

\* The inductive invariant.
FlowInv ==
    /\ IInv
    /\ Typed
    /\ FormsRight
    /\ StoreRight
    /\ CallRight
    /\ BadgeRight
    /\ Orderly
    /\ FormsAgree
    /\ DismissalsAgree
    /\ IdsDiffer
-----------------------------------------------------------------------------
(* Sequences of forms and of blocks *)

\* Appending keeps the other elements where they are.
LEMMA AppendIs ==
    ASSUME NEW S, NEW s \in Seq(S), NEW e \in S
    PROVE  /\ Append(s, e) \in Seq(S) /\ Append(s, e) # <<>>
           /\ Len(Append(s, e)) = Len(s) + 1
           /\ Len(s) \in Nat /\ DOMAIN s = 1..Len(s)
           /\ DOMAIN Append(s, e) = 1..Len(s) + 1
           /\ \A i \in 1..Len(s) : Append(s, e)[i] = s[i]
           /\ Append(s, e)[Len(s) + 1] = e
  BY AppendProperties, LenProperties

\* Running the first block moves each other one a place forward.
LEMMA TailIs ==
    ASSUME NEW S, NEW s \in Seq(S), s # <<>>
    PROVE  /\ Tail(s) \in Seq(S) /\ Len(Tail(s)) = Len(s) - 1
           /\ Len(s) \in Nat /\ DOMAIN s = 1..Len(s)
           /\ DOMAIN Tail(s) = 1..Len(s) - 1
           /\ Head(s) = s[1] /\ 1 \in DOMAIN s /\ s[1] \in S
           /\ \A i \in 1..Len(s) - 1 : Tail(s)[i] = s[i + 1]
<1>1. /\ Tail(s) \in Seq(S) /\ Len(Tail(s)) = Len(s) - 1 /\ Head(s) = s[1]
      /\ \A i \in 1..Len(Tail(s)) : Tail(s)[i] = s[i + 1]
  BY HeadTailProperties
<1>2. Len(s) \in Nat /\ Len(s) # 0 /\ DOMAIN s = 1..Len(s)
  BY LenProperties, EmptySeq
<1>3. DOMAIN Tail(s) = 1..Len(s) - 1
  BY <1>1, LenProperties
<1>4. 1 \in DOMAIN s /\ s[1] \in S
  BY <1>2, ElementOfSeq
<1> QED
  BY <1>1, <1>2, <1>3, <1>4

\* The form on top is one of the stack.
LEMMA TopIs ==
    ASSUME nav \in Seq(Form), nav # <<>>
    PROVE  /\ Len(nav) \in Nat \ {0} /\ DOMAIN nav = 1..Len(nav)
           /\ Len(nav) \in DOMAIN nav /\ Top = nav[Len(nav)] /\ Top \in Form
<1>1. Len(nav) \in Nat /\ Len(nav) # 0 /\ DOMAIN nav = 1..Len(nav)
  BY LenProperties, EmptySeq
<1>2. Len(nav) \in DOMAIN nav
  BY <1>1
<1>3. nav[Len(nav)] \in Form
  BY <1>1, <1>2, ElementOfSeq
<1> QED
  BY <1>1, <1>2, <1>3 DEF Top

\* Changing the form on top leaves the others alone.
LEMMA SetTopIs ==
    ASSUME nav \in Seq(Form), nav # <<>>, NEW form \in Form, NEW stack,
           stack = SetTop(form)
    PROVE  /\ stack \in Seq(Form) /\ stack # <<>>
           /\ Len(stack) = Len(nav) /\ DOMAIN stack = DOMAIN nav
           /\ stack[Len(nav)] = form
           /\ \A i \in DOMAIN nav : i # Len(nav) => stack[i] = nav[i]
<1>1. Len(nav) \in Nat \ {0} /\ DOMAIN nav = 1..Len(nav)
  BY TopIs
<1>2. /\ stack \in Seq(Form) /\ Len(stack) = Len(nav)
      /\ \A i \in 1..Len(nav) : stack[i] = IF i = Len(nav) THEN form ELSE nav[i]
  BY <1>1, ExceptSeq DEF SetTop
<1>3. DOMAIN stack = 1..Len(nav) /\ stack # <<>>
  BY <1>1, <1>2, LenProperties, EmptySeq
<1>4. stack[Len(nav)] = form
  <2>1. Len(nav) \in 1..Len(nav)
    BY <1>1
  <2> QED
    BY <1>2, <2>1
<1>5. \A i \in DOMAIN nav : i # Len(nav) => stack[i] = nav[i]
  BY <1>1, <1>2
<1> QED
  BY <1>1, <1>2, <1>3, <1>4, <1>5

\* popViewController leaves the forms below the one on top.
LEMMA PopIs ==
    ASSUME nav \in Seq(Form), NEW stack, stack = Pop(nav)
    PROVE  /\ stack \in Seq(Form) /\ Len(stack) <= Len(nav)
           /\ \A i \in DOMAIN stack : i \in DOMAIN nav /\ stack[i] = nav[i]
           /\ Len(nav) <= 1 => stack = <<>>
<1>1. CASE nav = <<>>
  BY <1>1 DEF Pop
<1>2. CASE nav # <<>>
  <2>1. Len(nav) \in Nat \ {0} /\ DOMAIN nav = 1..Len(nav)
    BY <1>2, TopIs
  <2>2. stack = SubSeq(nav, 1, Len(nav) - 1)
    BY <1>2 DEF Pop
  <2>3. /\ stack \in Seq(Form) /\ Len(stack) = Len(nav) - 1
        /\ \A i \in 1..Len(nav) - 1 : stack[i] = nav[i]
    BY <2>1, <2>2, SubSeqProperties
  <2>4. DOMAIN stack = 1..Len(nav) - 1
    BY <2>3, LenProperties
  <2>5. Len(nav) <= 1 => stack = <<>>
    BY <2>1, <2>3, EmptySeq
  <2> QED
    BY <2>1, <2>3, <2>4, <2>5
<1> QED
  BY <1>1, <1>2
-----------------------------------------------------------------------------
(* Issues on their way to a form and back *)

\* What is found for a route is nothing or an object that has it.
LEMMA StoredIs ==
    ASSUME NEW objects, NEW r \in Routes
    PROVE  \/ AsMap(objects)[r] = NoIssue
           \/ AsMap(objects)[r] \in objects /\ AsMap(objects)[r].route = r
<1>1. CASE \E o \in objects : o.route = r
  BY <1>1 DEF AsMap
<1>2. CASE ~\E o \in objects : o.route = r
  BY <1>2 DEF AsMap
<1> QED
  BY <1>1, <1>2

\* The conversions lose nothing: Issue(issueDB:), Issue(issueUI:) and
\* IssueDB(issue:).
LEMMA ConversionsAre ==
    ASSUME NEW i \in Issue
    PROVE  /\ WithContent(i.route, i) = i
           /\ IssueFromUI(i) = i /\ IssueDB(i) = i
           /\ IssueFromDB(i) = i
           /\ i # NoIssue
<1>1. WithContent(i.route, i) = i
  BY DEF WithContent, Issue
<1>2. i # NoIssue
  BY DataAssumption
<1> QED
  BY <1>1, <1>2 DEF IssueFromUI, IssueDB, IssueFromDB

\* The form that a block presents.
FormOf(b, n) ==
    [id |-> b.id, issueUI |-> IssueUI(IssueOrDefaults(b.route, b.issue), n),
     isWrongFilled |-> FALSE, base |-> b.issue, edited |-> FALSE,
     saved |-> FALSE]

\* A form opens on the issue that was found, or empty; an empty one cannot be
\* saved as it is.
LEMMA FormOfIs ==
    ASSUME NEW b \in Block, b.kind = "present", BlockIsRight(b),
           NEW n \in 1..MaxNow
    PROVE  /\ FormOf(b, n) \in Form /\ FormIsRight(FormOf(b, n))
           /\ FormOf(b, n).id = b.id /\ FormOf(b, n).base = b.issue
           /\ FormOf(b, n).issueUI.route = b.route
<1> DEFINE u == IssueUI(IssueOrDefaults(b.route, b.issue), n)
<1>1. /\ b.route \in Routes /\ b.id \in Ids
      /\ b.issue = NoIssue \/ (b.issue \in Requests /\ b.issue.route = b.route)
  BY DEF Block, BlockIsRight
<1>2. n \in Int
  BY FlowAssumption
<1>3. /\ u \in Issue /\ u.route = b.route
      /\ isFormProperlyFilled(u) => u \in Requests
      /\ b.issue # NoIssue => b.issue.timestamp < 0 \/ u = b.issue
  <2>1. CASE b.issue = NoIssue
    <3>1. IssueOrDefaults(b.route, b.issue) =
             [route |-> b.route, name |-> EmptyText, surename |-> EmptyText,
              email |-> EmptyText, timestamp |-> -1, report |-> 0,
              phone |-> EmptyText]
      BY <2>1 DEF IssueOrDefaults
    <3>2. u \in Issue /\ u.route = b.route /\ u.email = EmptyText
      BY <1>1, <1>2, <3>1, DataAssumption DEF IssueUI, WithContent, Issue
    <3> QED
      BY <2>1, <3>2, DataAssumption DEF isFormProperlyFilled, isValidEmail
  <2>2. CASE b.issue # NoIssue
    <3>1. b.issue \in Requests /\ b.issue.route = b.route /\ b.issue \in Issue
      BY <1>1, <2>2, DBAssumption
    <3>2. IssueOrDefaults(b.route, b.issue) = b.issue
      BY <2>2, <3>1, ConversionsAre DEF IssueOrDefaults
    <3>3. u = IssueUI(b.issue, n) /\ u \in Requests
      BY <3>1, <3>2, RequestsAssumption
    <3>4. u = [b.issue EXCEPT !.timestamp =
                  IF b.issue.timestamp < 0 THEN n ELSE b.issue.timestamp]
      BY <3>1, <3>3, ConversionsAre DEF IssueUI
    <3>5. u.route = b.route /\ (b.issue.timestamp < 0 \/ u = b.issue)
      BY <3>1, <3>4 DEF Issue
    <3> QED
      BY <3>3, <3>5, DBAssumption
  <2> QED
    BY <2>1, <2>2
<1>4. /\ FormOf(b, n).issueUI = u /\ FormOf(b, n).id = b.id
      /\ FormOf(b, n).base = b.issue
  BY DEF FormOf
<1> HIDE DEF u
<1>5. FormOf(b, n) \in Form
  <2>1. b.issue \in Issue \cup {NoIssue}
    BY <1>1, DBAssumption
  <2>2. FormOf(b, n) =
          [id |-> b.id, issueUI |-> u, isWrongFilled |-> FALSE,
           base |-> b.issue, edited |-> FALSE, saved |-> FALSE]
    BY DEF FormOf, u
  <2> QED
    BY <1>1, <1>3, <2>1, <2>2 DEF Form
<1>6. FormIsRight(FormOf(b, n))
  BY <1>3, <1>4 DEF FormIsRight
<1> QED
  BY <1>3, <1>4, <1>5, <1>6

\* The block that a tap posts.
LEMMA PresentIs ==
    ASSUME FlowInv, NEW r \in Routes, NEW id \in Ids
    PROVE  /\ PresentBlock(id, r) \in Block /\ BlockIsRight(PresentBlock(id, r))
           /\ PresentBlock(id, r).kind = "present"
           /\ PresentBlock(id, r).id = id /\ PresentBlock(id, r).route = r
           /\ PresentBlock(id, r).issue = Stored(r)
<1>1. View \subseteq Requests /\ Requests \subseteq Issue
  BY DBAssumption DEF FlowInv, StoreRight, View
<1>2. Stored(r) = NoIssue \/ (Stored(r) \in View /\ Stored(r).route = r)
  BY StoredIs DEF Stored
<1>3. IssueFromDB(Stored(r)) = Stored(r)
  <2>1. CASE Stored(r) = NoIssue
    BY <2>1 DEF IssueFromDB
  <2>2. CASE Stored(r) # NoIssue
    BY <1>1, <1>2, <2>2, ConversionsAre
  <2> QED
    BY <2>1, <2>2
<1>4. PresentBlock(id, r) =
        [kind |-> "present", id |-> id, route |-> r, issue |-> Stored(r)]
  BY <1>3 DEF PresentBlock
<1>5. Stored(r) \in Issue \cup {NoIssue}
  BY <1>1, <1>2
<1>6. PresentBlock(id, r) \in Block
  BY <1>4, <1>5 DEF Block
<1>7. BlockIsRight(PresentBlock(id, r))
  BY <1>1, <1>2, <1>4 DEF BlockIsRight
<1> QED
  BY <1>4, <1>6, <1>7
-----------------------------------------------------------------------------
(* Steps of the database *)

\* A query only opens the handle, or ends the process.
LEMMA QueryIs ==
    ASSUME FlowInv, Query(Main)
    PROVE  /\ Idle /\ \E t \in Threads : Query(t)
           /\ UNCHANGED <<disk, writing, work, call, req>>
           /\ proc' \in {"running", "crashed"}
           /\ "commit" \in faults => "commit" \in faults'
<1>1. Idle /\ \E t \in Threads : Query(t)
  BY FlowAssumption DEF Query
<1>2. PICK opens \in BOOLEAN : resetHandlerIfNecessary(Main, opens)
  BY DEF Query
<1>3. "commit" \in faults => "commit" \in faults'
  BY <1>2 DEF resetHandlerIfNecessary
<1>4. /\ UNCHANGED <<disk, writing, work, call, req>>
      /\ proc' \in {"running", "crashed"}
  BY <1>1 DEF Query, Crash, Idle
<1> QED
  BY <1>1, <1>3, <1>4

\* A call of create that does not end the process opens a transaction whose
\* objects are those of the file, with the issue added or in place of the one
\* of its route.
LEMMA CreateIs ==
    ASSUME FlowInv, NEW issue \in Requests, Create(Main, issue),
           proc' = "running"
    PROVE  /\ Idle /\ ~writing
           /\ UNCHANGED disk /\ call' \in {"add", "rename"} /\ req' = issue
           /\ "commit" \in faults => "commit" \in faults'
           /\ work' \subseteq disk \cup {issue} /\ IsFiniteSet(work')
           /\ call' = "add" => Cardinality(work') = Cardinality(disk) + 1
           /\ call' = "rename" =>
                 /\ Cardinality(work') = Cardinality(disk)
                 /\ \E found \in disk : /\ found.route = issue.route
                                        /\ work' = (disk \ {found}) \cup {issue}
<1>1. Idle
  BY DEF Create
<1>2. PICK opens \in BOOLEAN : resetHandlerIfNecessary(Main, opens)
  BY DEF Create
<1>3. "commit" \in faults => "commit" \in faults'
  BY <1>2 DEF resetHandlerIfNecessary
<1>4. ~Crash
  BY DEF Crash
<1>5. /\ ~writing
      /\ \/ getIssue(issue.route) = {} /\ Add(issue)
         \/ \E found \in getIssue(issue.route) : rename(found, issue)
  BY <1>4 DEF Create
<1>6. /\ View = disk /\ IsFiniteSet(disk) /\ disk \subseteq Issue
      /\ issue \in Issue /\ UniqueKeys(disk)
  BY <1>5, DBAssumption
  DEF View, FlowInv, StoreRight, IInv, TypeOK, OneIssuePerRoute
<1>7. CASE getIssue(issue.route) = {} /\ Add(issue)
  <2>1. BeginWrite(disk \cup {issue}, "add", issue)
    BY <1>4, <1>6, <1>7 DEF Add
  <2>2. issue \notin disk
    BY <1>6, <1>7 DEF getIssue
  <2>3. /\ IsFiniteSet(disk \cup {issue})
        /\ Cardinality(disk \cup {issue}) = Cardinality(disk) + 1
    BY <1>6, <2>2, FS_AddElement
  <2> QED
    BY <1>1, <1>3, <1>5, <2>1, <2>3 DEF BeginWrite
<1>8. CASE \E found \in getIssue(issue.route) : rename(found, issue)
  <2>1. PICK found \in disk : found.route = issue.route /\ rename(found, issue)
    BY <1>6, <1>8 DEF getIssue
  <2> DEFINE after == (disk \ {found}) \cup {issue}
  <2>2. Renamed(found, issue) = issue
    BY <1>6, <2>1, RenamedIsRequest
  <2>3. BeginWrite(after, "rename", issue)
    BY <1>6, <2>1, <2>2 DEF rename, RealmUpdate
  <2>4. issue \notin disk \ {found}
    BY <1>6, <2>1 DEF UniqueKeys, SameKey
  <2>5. PICK rest : rest = disk \ {found}
    OBVIOUS
  <2>6. /\ IsFiniteSet(rest) /\ Cardinality(rest) = Cardinality(disk) - 1
        /\ Cardinality(disk) \in Nat
    BY <1>6, <2>1, <2>5, FS_RemoveElement, FS_CardinalityType
  <2>7. /\ IsFiniteSet(rest \cup {issue})
        /\ Cardinality(rest \cup {issue}) = Cardinality(rest) + 1
    BY <2>4, <2>5, <2>6, FS_AddElement
  <2>8. IsFiniteSet(after) /\ Cardinality(after) = Cardinality(disk)
    BY <2>5, <2>6, <2>7
  <2>9. after \subseteq disk \cup {issue}
    OBVIOUS
  <2>10. work' = after /\ UNCHANGED disk /\ call' = "rename" /\ req' = issue
    BY <2>3 DEF BeginWrite
  <2> QED
    BY <1>1, <1>3, <1>5, <2>1, <2>8, <2>9, <2>10
<1> QED
  BY <1>5, <1>7, <1>8

\* What a form that may be saved passes to create is one of the requests.
LEMMA SaveIs ==
    ASSUME FlowInv, nav # <<>>, isFormProperlyFilled(Top.issueUI)
    PROVE  /\ Top \in Form /\ FormIsRight(Top) /\ Top.issueUI \in Requests
           /\ IssueFromUI(Top.issueUI) = Top.issueUI
           /\ IssueDB(IssueFromUI(Top.issueUI)) = Top.issueUI
<1>1. Top \in Form /\ FormIsRight(Top)
  BY TopIs DEF FlowInv, Typed, FormsRight
<1>2. Top.issueUI \in Requests /\ Top.issueUI \in Issue
  BY <1>1, DBAssumption DEF FormIsRight
<1> QED
  BY <1>1, <1>2, ConversionsAre

\* Every step of the flow is a step of DBManager, or leaves it alone.
LEMMA FlowSimulates == FlowInv /\ [FlowNext]_vars => [Next]_dbVars
<1> SUFFICES ASSUME FlowInv, [FlowNext]_vars PROVE [Next]_dbVars
  OBVIOUS
<1>1. CASE RefreshList
  BY <1>1, QueryIs DEF RefreshList, Next
<1>2. ASSUME NEW r \in Routes, TapIssue(r) PROVE [Next]_dbVars
  BY <1>2, QueryIs DEF TapIssue, Next
<1>3. CASE SaveForm
  <2>1. Create(Main, Top.issueUI) /\ Top.issueUI \in Requests
    BY <1>3, SaveIs DEF SaveForm, FormActive
  <2> QED
    BY <2>1, FlowAssumption DEF Next
<1>4. CASE CommitForm \/ CommitFormFails \/ KillApp \/ LaunchApp
  BY <1>4 DEF CommitForm, CommitFormFails, KillApp, LaunchApp, Next
<1>5. CASE \/ RunPresent \/ Edit \/ RejectForm \/ CloseAlert \/ RunDismiss
           \/ Back \/ Tick \/ UNCHANGED vars
  BY <1>5 DEF RunPresent, Edit, RejectForm, CloseAlert, RunDismiss, Back, Tick,
              vars
<1> QED
  BY <1>1, <1>2, <1>3, <1>4, <1>5 DEF FlowNext

\* What is proved of DBManager's steps holds of the flow's.
LEMMA DatabaseKeeps == FlowInv /\ [FlowNext]_vars => IInv'
  BY FlowSimulates, NextIInv DEF FlowInv
-----------------------------------------------------------------------------
(* The inductive invariant at the start and across the steps *)

\* The map of a set of objects has an entry for every route.
LEMMA AsMapIs ==
    ASSUME NEW objects
    PROVE  AsMap(objects) = [r \in Routes |-> AsMap(objects)[r]]
  BY DEF AsMap

\* Between two calls, unless a commit failed, the app reads what is stored.
LEMMA ViewIs ==
    ASSUME FlowInv, Idle, Sound
    PROVE  View = disk /\ View = Current
  BY DEF FlowInv, IInv, PendingWriteIsTheCall, Idle, Sound, View, Current

\* The app starts with the list alone and nothing stored.
LEMMA FlowInitInv == FlowInit => FlowInv
<1> SUFFICES ASSUME FlowInit PROVE FlowInv
  OBVIOUS
<1>1. IInv
  BY InitIInv DEF FlowInit
<1>2. /\ nav = <<>> /\ queue = <<>> /\ badge = 0 /\ now = 1
      /\ crowd = FALSE /\ lost = FALSE
      /\ disk = {} /\ work = {} /\ call = "idle"
  BY DEF FlowInit, Init
<1>3. /\ nav \in Seq(Form) /\ queue \in Seq(Block)
      /\ DOMAIN nav = {} /\ DOMAIN queue = {} /\ Len(nav) = 0 /\ Len(queue) = 0
  BY <1>2
<1>4. Typed
  <2>1. now \in 1..MaxNow
    BY <1>2, FlowAssumption
  <2>2. crowd \in BOOLEAN /\ lost \in BOOLEAN /\ badge \in Nat
    BY <1>2
  <2> QED
    BY <1>3, <2>1, <2>2 DEF Typed
<1>5. FormsRight /\ IdsDiffer /\ FormsAgree /\ DismissalsAgree
  BY <1>3 DEF FormsRight, IdsDiffer, FormsAgree, DismissalsAgree, Pending
<1>6. StoreRight
  BY <1>2, FS_EmptySet DEF StoreRight
<1>7. CallRight /\ Orderly
  BY <1>2, <1>3, FlowAssumption DEF CallRight, Orderly, Pending
<1>8. BadgeRight
  BY <1>2, FS_EmptySet DEF BadgeRight
<1> QED
  BY <1>1, <1>4, <1>5, <1>6, <1>7, <1>8 DEF FlowInv

\* A step that leaves the screen, the blocks and the objects as they are: a
\* query, the death of the process, the clock.
LEMMA StillKeeps ==
    ASSUME FlowInv, IInv',
           UNCHANGED <<disk, work, call, nav, queue, badge, crowd>>,
           now' \in 1..MaxNow, lost' \in BOOLEAN, lost => lost',
           Sound' => Sound, proc' = "running" => proc = "running",
           proc' # "running" /\ call # "idle" => lost'
    PROVE  FlowInv'
<1>1. Typed'
  BY DEF FlowInv, Typed
<1>2. FormsRight' /\ StoreRight' /\ CallRight'
  BY DEF FlowInv, FormsRight, StoreRight, CallRight
<1>3. BadgeRight'
  BY DEF FlowInv, BadgeRight
<1>4. Pending("present")' = Pending("present")
         /\ Pending("dismiss")' = Pending("dismiss")
  BY DEF Pending
<1>5. Orderly' /\ IdsDiffer'
  BY <1>4 DEF FlowInv, Orderly, IdsDiffer
<1>6. Current' = Current
  BY DEF Current
<1>7. FormsAgree' /\ DismissalsAgree'
  BY <1>4, <1>6 DEF FlowInv, FormsAgree, DismissalsAgree
<1> QED
  BY <1>1, <1>2, <1>3, <1>5, <1>7 DEF FlowInv

\* The user changes the form on top, which stays the form it is.
LEMMA EditKeeps ==
    ASSUME FlowInv, nav # <<>>, NEW form \in Form, FormIsRight(form),
           form.id = Top.id, form.base = Top.base,
           form.issueUI.route = Top.issueUI.route,
           nav' = SetTop(form),
           UNCHANGED <<dbVars, queue, badge, now, crowd, lost>>
    PROVE  FlowInv'
<1>1. IInv'
  BY NextIInv DEF FlowInv
<1>2. nav \in Seq(Form)
  BY DEF FlowInv, Typed
<1>3. /\ Len(nav) \in Nat \ {0} /\ DOMAIN nav = 1..Len(nav)
      /\ Top = nav[Len(nav)]
  BY <1>2, TopIs
<1>4. PICK stack : stack = SetTop(form)
  OBVIOUS
<1>5. /\ nav' = stack
      /\ stack \in Seq(Form) /\ stack # <<>>
      /\ Len(stack) = Len(nav) /\ DOMAIN stack = DOMAIN nav
      /\ stack[Len(nav)] = form
      /\ \A i \in DOMAIN nav : i # Len(nav) => stack[i] = nav[i]
  BY <1>2, <1>4, SetTopIs
<1>6. \A i \in DOMAIN nav : /\ nav'[i].id = nav[i].id
                            /\ nav'[i].base = nav[i].base
                            /\ nav'[i].issueUI.route = nav[i].issueUI.route
                            /\ FormIsRight(nav'[i])
  BY <1>3, <1>5 DEF FlowInv, FormsRight
<1>7. Typed'
  BY <1>5 DEF FlowInv, Typed
<1>8. FormsRight'
  BY <1>5, <1>6 DEF FlowInv, FormsRight
<1>9. StoreRight' /\ CallRight' /\ BadgeRight'
  BY <1>5 DEF FlowInv, StoreRight, CallRight, BadgeRight, dbVars
<1>10. /\ Pending("present")' = Pending("present")
       /\ Pending("dismiss")' = Pending("dismiss")
       /\ Current' = Current /\ Sound' = Sound
  BY DEF Pending, Current, Sound, dbVars
<1>11. Orderly'
  <2>1. 1 \in DOMAIN nav /\ nav'[1].id = nav[1].id
    BY <1>3, <1>6
  <2> QED
    BY <1>5, <1>10, <2>1 DEF FlowInv, Orderly
<1>12. IdsDiffer'
  BY <1>5, <1>6, <1>10 DEF FlowInv, IdsDiffer
<1>13. FormsAgree' /\ DismissalsAgree'
  BY <1>5, <1>6, <1>10 DEF FlowInv, FormsAgree, DismissalsAgree
<1> QED
  BY <1>1, <1>7, <1>8, <1>9, <1>11, <1>12, <1>13 DEF FlowInv

\* A tap: the block of the form that is on its way is the last one, and has
\* what is stored for its route.
LEMMA TapKeeps ==
    ASSUME FlowInv, NEW r \in Routes, TapIssue(r)
    PROVE  FlowInv'
<1>1. IInv'
  BY DatabaseKeeps DEF FlowNext
<1>2. /\ Idle /\ nav = <<>> /\ Len(queue) < MaxQueue
      /\ UNCHANGED <<nav, badge, now, lost>>
      /\ UNCHANGED <<disk, writing, work, call, req>>
      /\ "commit" \in faults => "commit" \in faults'
  BY QueryIs DEF TapIssue
<1>3. CASE proc' = "crashed" /\ UNCHANGED <<queue, crowd>>
  <2>1. now' \in 1..MaxNow /\ lost' \in BOOLEAN
    BY <1>2 DEF FlowInv, Typed
  <2> QED
    BY <1>1, <1>2, <1>3, <2>1, StillKeeps DEF Idle, Sound
<1>4. CASE /\ proc' = "running"
           /\ \E id \in FreeIds : queue' = Append(queue, PresentBlock(id, r))
           /\ crowd' = (crowd \/ Pending("present") # {})
  <2>1. PICK id \in FreeIds : queue' = Append(queue, PresentBlock(id, r))
    BY <1>4
  <2>2. PICK b : b = PresentBlock(id, r)
    OBVIOUS
  <2>3. id \in Ids /\ \A i \in DOMAIN queue : queue[i].id # id
    BY <2>1 DEF FreeIds
  <2>4. /\ b \in Block /\ BlockIsRight(b) /\ b.kind = "present"
        /\ b.id = id /\ b.route = r /\ b.issue = Stored(r)
    BY <2>2, <2>3, PresentIs
  <2>5. /\ queue' \in Seq(Block) /\ Len(queue') = Len(queue) + 1
        /\ Len(queue) \in Nat /\ DOMAIN queue = 1..Len(queue)
        /\ DOMAIN queue' = 1..Len(queue) + 1
        /\ \A i \in 1..Len(queue) : queue'[i] = queue[i]
        /\ queue'[Len(queue) + 1] = b
    BY <2>1, <2>2, <2>4, AppendIs DEF FlowInv, Typed
  <2>6. crowd' \in BOOLEAN /\ (~crowd' => ~crowd /\ Pending("present") = {})
    BY <1>4, Zenon
  <2>7. /\ Pending("present")' = Pending("present") \cup {Len(queue) + 1}
        /\ Pending("dismiss")' = Pending("dismiss")
    BY <2>4, <2>5 DEF Pending
  <2>8. DOMAIN nav = {} /\ Len(nav) = 0
    BY <1>2
  <2>9. Typed'
    BY <1>2, <2>5, <2>6 DEF FlowInv, Typed
  <2>10. FormsRight'
    BY <1>2, <2>4, <2>5 DEF FlowInv, FormsRight
  <2>11. StoreRight' /\ CallRight' /\ BadgeRight'
    BY <1>2, <1>4, <2>5, FlowAssumption
    DEF FlowInv, StoreRight, CallRight, BadgeRight, Idle
  <2>12. Orderly'
    BY <1>2, <2>5, <2>6, <2>7, <2>8 DEF Orderly
  <2>13. Current' = Current /\ (Sound' => Sound)
    BY <1>2 DEF Current, Sound, Idle
  <2>14. FormsAgree'
    <3> SUFFICES ASSUME Sound', ~crowd'
                 PROVE  queue'[Len(queue) + 1].issue =
                           AsMap(Current)[queue'[Len(queue) + 1].route]
      BY <1>2, <2>6, <2>7, <2>8, <2>13 DEF FormsAgree
    <3> QED
      BY <1>2, <2>4, <2>5, <2>13, ViewIs DEF Stored
  <2>15. DismissalsAgree'
    BY <2>5, <2>7, <2>13 DEF FlowInv, DismissalsAgree, Pending
  <2>16. IdsDiffer'
    BY <1>2, <2>3, <2>4, <2>5, <2>7, <2>8 DEF FlowInv, IdsDiffer, Pending
  <2> QED
    BY <1>1, <2>9, <2>10, <2>11, <2>12, <2>14, <2>15, <2>16 DEF FlowInv
<1> QED
  BY <1>3, <1>4 DEF TapIssue

\* The head of the queue runs: what is behind it is about the same issues, and
\* a later dismissal stays later.
LEMMA RunKeeps ==
    ASSUME FlowInv, queue # <<>>, queue' = Tail(queue), UNCHANGED dbVars
    PROVE  /\ queue' \in Seq(Block) /\ Len(queue') = Len(queue) - 1
           /\ Len(queue) \in Nat \ {0}
           /\ DOMAIN queue' = 1..Len(queue) - 1 /\ DOMAIN queue = 1..Len(queue)
           /\ Head(queue) = queue[1] /\ Head(queue) \in Block
           /\ \A i \in DOMAIN queue' : queue'[i] = queue[i + 1]
           /\ \A i \in DOMAIN queue' : BlockIsRight(queue'[i])
           /\ \A i \in Pending("present")' : i + 1 \in Pending("present")
           /\ StoreRight'
           /\ Current' = Current /\ Sound' = Sound
           /\ DismissalsAgree'
<1>1. queue \in Seq(Block)
  BY DEF FlowInv, Typed
<1>2. /\ queue' \in Seq(Block) /\ Len(queue') = Len(queue) - 1
      /\ Len(queue) \in Nat /\ DOMAIN queue = 1..Len(queue)
      /\ DOMAIN queue' = 1..Len(queue) - 1
      /\ Head(queue) = queue[1] /\ 1 \in DOMAIN queue /\ queue[1] \in Block
      /\ \A i \in 1..Len(queue) - 1 : queue'[i] = queue[i + 1]
  <2>1. PICK t : t = Tail(queue)
    OBVIOUS
  <2> QED
    BY <1>1, <2>1, TailIs
<1>3. \A i \in DOMAIN queue' :
         i + 1 \in DOMAIN queue /\ queue'[i] = queue[i + 1]
  BY <1>2
<1>4. \A i \in DOMAIN queue' : BlockIsRight(queue'[i])
  BY <1>3 DEF FlowInv, FormsRight
<1>5. /\ \A i \in Pending("present")' : i + 1 \in Pending("present")
      /\ \A i \in Pending("dismiss")' : i + 1 \in Pending("dismiss")
  BY <1>3 DEF Pending
<1>6. Current' = Current /\ Sound' = Sound
  BY DEF Current, Sound, dbVars
<1>7. StoreRight'
  BY DEF FlowInv, StoreRight, dbVars
<1>8. DismissalsAgree'
  <2> SUFFICES ASSUME Sound, NEW i \in Pending("dismiss")'
               PROVE  \/ AsMap(Current)[queue'[i].route] = queue'[i].issue
                      \/ \E j \in Pending("dismiss")' :
                            j > i /\ queue'[j].route = queue'[i].route
    BY <1>6 DEF DismissalsAgree
  <2>1. i \in DOMAIN queue' /\ i + 1 \in Pending("dismiss")
    BY <1>5 DEF Pending
  <2>2. queue'[i] = queue[i + 1] /\ i \in Nat
    BY <1>2, <1>3, <2>1
  <2>3. CASE AsMap(Current)[queue[i + 1].route] = queue[i + 1].issue
    BY <2>2, <2>3
  <2>4. CASE \E j \in Pending("dismiss") :
                j > i + 1 /\ queue[j].route = queue[i + 1].route
    <3>1. PICK j \in Pending("dismiss") :
                j > i + 1 /\ queue[j].route = queue[i + 1].route
      BY <2>4
    <3>2. PICK k : k = j - 1
      OBVIOUS
    <3>3. j \in 1..Len(queue) /\ queue[j].kind = "dismiss"
      BY <1>2 DEF Pending
    <3>4. k \in DOMAIN queue' /\ k > i /\ k + 1 = j
      BY <1>2, <2>2, <3>1, <3>2, <3>3
    <3>5. k \in Pending("dismiss")' /\ queue'[k] = queue[j]
      BY <1>3, <3>3, <3>4 DEF Pending
    <3> QED
      BY <2>2, <3>1, <3>4, <3>5
  <2> QED
    BY <2>1, <2>3, <2>4 DEF FlowInv, DismissalsAgree
<1>9. Len(queue) \in Nat \ {0}
  BY <1>2
<1> QED
  BY <1>2, <1>3, <1>4, <1>5, <1>6, <1>7, <1>8, <1>9

\* A form opens: its block was the head, and without a crowd the only one.
LEMMA PresentKeeps ==
    ASSUME FlowInv, RunPresent
    PROVE  FlowInv'
<1>1. /\ Idle /\ queue # <<>> /\ Head(queue).kind = "present"
      /\ queue' = Tail(queue) /\ UNCHANGED dbVars
      /\ UNCHANGED <<badge, now, crowd, lost>>
      /\ nav' = Append(nav, FormOf(Head(queue), now))
  BY DEF RunPresent, FormOf
<1>2. IInv'
  BY DatabaseKeeps DEF FlowNext
<1>3. /\ queue' \in Seq(Block) /\ Len(queue') = Len(queue) - 1
      /\ Len(queue) \in Nat \ {0}
      /\ DOMAIN queue' = 1..Len(queue) - 1 /\ DOMAIN queue = 1..Len(queue)
      /\ Head(queue) = queue[1] /\ Head(queue) \in Block
      /\ \A i \in DOMAIN queue' : queue'[i] = queue[i + 1]
      /\ \A i \in DOMAIN queue' : BlockIsRight(queue'[i])
      /\ \A i \in Pending("present")' : i + 1 \in Pending("present")
      /\ StoreRight' /\ Current' = Current /\ Sound' = Sound
      /\ DismissalsAgree'
  BY <1>1, RunKeeps
<1>4. PICK b, f : b = queue[1] /\ f = FormOf(b, now)
  OBVIOUS
<1>5. b.kind = "present" /\ BlockIsRight(b) /\ 1 \in Pending("present")
  BY <1>1, <1>3, <1>4 DEF FlowInv, FormsRight, Pending
<1>6. /\ f \in Form /\ FormIsRight(f) /\ f.id = b.id /\ f.base = b.issue
      /\ f.issueUI.route = b.route
  BY <1>3, <1>4, <1>5, FormOfIs DEF FlowInv, Typed
<1>7. /\ nav' \in Seq(Form) /\ nav' # <<>> /\ Len(nav') = Len(nav) + 1
      /\ Len(nav) \in Nat /\ DOMAIN nav = 1..Len(nav)
      /\ DOMAIN nav' = 1..Len(nav) + 1
      /\ \A i \in 1..Len(nav) : nav'[i] = nav[i]
      /\ nav'[Len(nav) + 1] = f
  <2>1. nav' = Append(nav, f) /\ nav \in Seq(Form)
    BY <1>1, <1>3, <1>4 DEF FlowInv, Typed
  <2> QED
    BY <1>6, <2>1, AppendIs
<1>8. \A i \in DOMAIN nav' : i \in DOMAIN nav \/ i = Len(nav) + 1
  BY <1>7
<1>9. Typed'
  BY <1>1, <1>3, <1>7 DEF FlowInv, Typed
<1>10. FormsRight'
  BY <1>3, <1>6, <1>7, <1>8 DEF FlowInv, FormsRight
<1>11. CallRight' /\ BadgeRight'
  <2>1. CallRight'
    BY <1>1, <1>3, <1>7, FlowAssumption DEF FlowInv, CallRight, dbVars
  <2>2. BadgeRight'
    BY <1>1 DEF FlowInv, BadgeRight, dbVars
  <2> QED
    BY <2>1, <2>2
<1>12. ~crowd => nav = <<>> /\ Len(queue) = 1
  BY <1>5 DEF FlowInv, Orderly
<1>13. ~crowd => DOMAIN queue' = {} /\ Len(nav) = 0
  <2>1. Len(queue) = 1 => DOMAIN queue' = {}
    BY <1>3
  <2>2. nav = <<>> => Len(nav) = 0
    BY EmptySeq
  <2> QED
    BY <1>12, <2>1, <2>2
<1>14. Orderly'
  BY <1>1, <1>7, <1>13 DEF Orderly, Pending
<1>15. FormsAgree'
  <2> SUFFICES ASSUME Sound, ~crowd
               PROVE  f.base = AsMap(Current)[f.issueUI.route]
    BY <1>1, <1>3, <1>7, <1>13 DEF FormsAgree, Pending
  <2> QED
    BY <1>4, <1>5, <1>6 DEF FlowInv, FormsAgree
<1>16. IdsDiffer'
  <2>1. \A i, j \in DOMAIN nav' : nav'[i].id = nav'[j].id => i = j
    BY <1>4, <1>5, <1>6, <1>7, <1>8 DEF FlowInv, IdsDiffer
  <2>2. ASSUME NEW i \in Pending("present")'
        PROVE  /\ \A j \in DOMAIN nav' : queue'[i].id # nav'[j].id
               /\ \A j \in Pending("present")' :
                     queue'[i].id = queue'[j].id => i = j
    <3>1. \A j \in Pending("present")' :
             /\ j \in DOMAIN queue' /\ j \in Nat /\ j + 1 # 1
             /\ j + 1 \in Pending("present") /\ queue'[j] = queue[j + 1]
      BY <1>3 DEF Pending
    <3>2. queue'[i].id # b.id
      BY <1>4, <1>5, <2>2, <3>1 DEF FlowInv, IdsDiffer
    <3>3. \A j \in DOMAIN nav : queue'[i].id # nav[j].id
      BY <2>2, <3>1 DEF FlowInv, IdsDiffer
    <3>4. \A j \in Pending("present")' :
             queue'[i].id = queue'[j].id => i + 1 = j + 1
      BY <2>2, <3>1 DEF FlowInv, IdsDiffer
    <3>5. \A j \in DOMAIN nav' : queue'[i].id # nav'[j].id
      BY <1>6, <1>7, <1>8, <3>2, <3>3
    <3> QED
      BY <2>2, <3>1, <3>4, <3>5
  <2> QED
    BY <2>1, <2>2 DEF IdsDiffer
<1> QED
  BY <1>2, <1>3, <1>9, <1>10, <1>11, <1>14, <1>15, <1>16 DEF FlowInv

\* A dismissal pops a form, or Back does: without a crowd none is left, and a
\* crowd only ends when nothing is left at all.
LEMMA PopKeeps ==
    ASSUME FlowInv, UNCHANGED <<dbVars, badge, now, lost>>, nav' = Pop(nav),
           call = "idle", Settle,
           \/ queue' = queue /\ nav # <<>>
           \/ queue # <<>> /\ queue' = Tail(queue)
    PROVE  FlowInv'
<1>1. IInv'
  BY NextIInv DEF FlowInv
<1>2. nav \in Seq(Form) /\ queue \in Seq(Block)
  BY DEF FlowInv, Typed
<1>3. /\ nav' \in Seq(Form) /\ Len(nav') <= Len(nav)
      /\ \A i \in DOMAIN nav' : i \in DOMAIN nav /\ nav'[i] = nav[i]
      /\ Len(nav) <= 1 => nav' = <<>>
  BY <1>2, PopIs
<1>4. /\ queue' \in Seq(Block) /\ Len(queue') <= Len(queue)
      /\ Len(queue) \in Nat /\ Len(queue') \in Nat
      /\ \A i \in DOMAIN queue' : BlockIsRight(queue'[i])
      /\ StoreRight' /\ Current' = Current /\ Sound' = Sound
      /\ DismissalsAgree'
  <2>1. CASE queue' = queue
    <3>1. Current' = Current /\ Sound' = Sound /\ StoreRight'
      BY DEF Current, Sound, FlowInv, StoreRight, dbVars
    <3>2. DismissalsAgree'
      BY <2>1, <3>1 DEF FlowInv, DismissalsAgree, Pending
    <3>3. Len(queue) \in Nat
      BY <1>2, LenProperties
    <3> QED
      BY <1>2, <2>1, <3>1, <3>2, <3>3 DEF FlowInv, FormsRight
  <2>2. CASE queue # <<>> /\ queue' = Tail(queue)
    <3>1. Len(queue') = Len(queue) - 1 /\ Len(queue) \in Nat \ {0}
      BY <2>2, RunKeeps
    <3>2. Len(queue') <= Len(queue) /\ Len(queue) \in Nat /\ Len(queue') \in Nat
      BY <3>1
    <3>3. /\ queue' \in Seq(Block)
          /\ \A i \in DOMAIN queue' : BlockIsRight(queue'[i])
          /\ StoreRight' /\ Current' = Current /\ Sound' = Sound
          /\ DismissalsAgree'
      BY <2>2, RunKeeps
    <3> QED
      BY <3>2, <3>3
  <2> QED
    BY <2>1, <2>2

\* A block left in the queue was at its place, or one place behind.
<1>5. \E d \in {0, 1} :
         /\ Len(queue') = Len(queue) - d
         /\ d = 0 => nav # <<>>
         /\ \A i \in DOMAIN queue' :
               i \in Nat /\ i + d \in DOMAIN queue /\ queue'[i] = queue[i + d]
  <2>1. CASE queue' = queue /\ nav # <<>>
    <3>1. \A i \in DOMAIN queue : i \in Nat /\ i + 0 = i
      BY <1>2, LenProperties
    <3>2. Len(queue') = Len(queue) - 0
      BY <1>4, <2>1
    <3> QED
      BY <2>1, <3>1, <3>2
  <2>2. CASE queue # <<>> /\ queue' = Tail(queue)
    <3>1. /\ Len(queue') = Len(queue) - 1 /\ Len(queue) \in Nat \ {0}
          /\ DOMAIN queue' = 1..Len(queue) - 1 /\ DOMAIN queue = 1..Len(queue)
          /\ \A i \in DOMAIN queue' : queue'[i] = queue[i + 1]
      BY <2>2, RunKeeps
    <3>2. \A i \in DOMAIN queue' : i \in Nat /\ i + 1 \in DOMAIN queue
      BY <3>1
    <3> QED
      BY <3>1, <3>2
  <2> QED
    BY <2>1, <2>2
<1>6. PICK d \in {0, 1} :
         /\ Len(queue') = Len(queue) - d
         /\ d = 0 => nav # <<>>
         /\ \A i \in DOMAIN queue' :
               i \in Nat /\ i + d \in DOMAIN queue /\ queue'[i] = queue[i + d]
  BY <1>5
<1>7. \A i \in Pending("present")' :
         i + d \in Pending("present") /\ i \in Nat /\ queue'[i] = queue[i + d]
  BY <1>6 DEF Pending
<1>8. crowd' \in BOOLEAN
  BY Zenon DEF Settle
<1>9. ~crowd' => ~crowd \/ (nav' = <<>> /\ queue' = <<>>)
  BY Zenon DEF Settle
<1>10. ~crowd' => nav' = <<>>
  BY <1>3, <1>9 DEF FlowInv, Orderly
<1>11. Typed'
  BY <1>3, <1>4, <1>8 DEF FlowInv, Typed
<1>12. FormsRight'
  BY <1>3, <1>4 DEF FlowInv, FormsRight
<1>13. CallRight'
  BY <1>4, FlowAssumption DEF FlowInv, CallRight, dbVars
<1>14. BadgeRight'
  BY DEF FlowInv, BadgeRight, dbVars
<1>15. nav' = <<>> => DOMAIN nav' = {} /\ Len(nav') = 0
  BY EmptySeq
<1>16. queue' = <<>> => Pending("present")' = {}
  BY DEF Pending
<1>17. Orderly'
  <2> SUFFICES ASSUME ~crowd', NEW i \in Pending("present")'
               PROVE  i = Len(queue')
    BY <1>10, <1>15 DEF Orderly
  <2>1. ~crowd
    BY <1>9, <1>16
  <2>2. i + d = Len(queue) /\ i \in Nat
    BY <1>7, <2>1 DEF FlowInv, Orderly
  <2> QED
    BY <1>4, <1>6, <2>2
<1>18. FormsAgree'
  <2> SUFFICES ASSUME Sound, ~crowd', NEW i \in Pending("present")'
               PROVE  queue'[i].issue = AsMap(Current)[queue'[i].route]
    BY <1>4, <1>10, <1>15 DEF FormsAgree
  <2>1. ~crowd
    BY <1>9, <1>16
  <2> QED
    BY <1>7, <2>1 DEF FlowInv, FormsAgree
<1>19. IdsDiffer'
  <2>1. \A i, j \in DOMAIN nav' : nav'[i].id = nav'[j].id => i = j
    BY <1>3 DEF FlowInv, IdsDiffer
  <2>2. ASSUME NEW i \in Pending("present")'
        PROVE  /\ \A j \in DOMAIN nav' : queue'[i].id # nav'[j].id
               /\ \A j \in Pending("present")' :
                     queue'[i].id = queue'[j].id => i = j
    <3>1. \A j \in DOMAIN nav' : queue'[i].id # nav'[j].id
      BY <1>3, <1>7, <2>2 DEF FlowInv, IdsDiffer
    <3>2. \A j \in Pending("present")' :
             queue'[i].id = queue'[j].id => i + d = j + d
      BY <1>7, <2>2 DEF FlowInv, IdsDiffer
    <3> QED
      BY <1>6, <1>7, <2>2, <3>1, <3>2
  <2> QED
    BY <2>1, <2>2 DEF IdsDiffer
<1> QED
  BY <1>1, <1>4, <1>11, <1>12, <1>13, <1>14, <1>17, <1>18, <1>19 DEF FlowInv

\* The clock, the death of the process and a query change nothing of it.
LEMMA AloneKeeps ==
    ASSUME FlowInv,
           RefreshList \/ KillApp \/ Tick \/ UNCHANGED vars
    PROVE  FlowInv'
<1>1. IInv'
  BY DatabaseKeeps DEF FlowNext
<1>2. now \in 1..MaxNow /\ lost \in BOOLEAN
  BY DEF FlowInv, Typed
<1>3. CASE RefreshList
  BY <1>1, <1>2, <1>3, QueryIs, StillKeeps
  DEF RefreshList, flowVars, Idle, Sound
<1>4. CASE KillApp
  <2>1. /\ UNCHANGED <<disk, work, call, faults, nav, queue, badge, now, crowd>>
        /\ proc' = "killed"
    BY <1>4 DEF KillApp, Kill
  <2>2. lost' \in BOOLEAN /\ (lost => lost') /\ (call # "idle" => lost')
    BY <1>4, Zenon DEF KillApp
  <2> QED
    BY <1>1, <1>2, <2>1, <2>2, StillKeeps DEF Sound
<1>5. CASE Tick
  <2>1. now' \in 1..MaxNow
    BY <1>2, <1>5, FlowAssumption DEF Tick
  <2>2. UNCHANGED <<dbVars, nav, queue, badge, crowd, lost>>
    BY <1>5 DEF Tick
  <2>3. proc' # "running" /\ call # "idle" => lost'
    BY <2>2 DEF FlowInv, BadgeRight, dbVars
  <2> QED
    BY <1>1, <1>2, <2>1, <2>2, <2>3, StillKeeps DEF dbVars, Sound
<1>6. CASE UNCHANGED vars
  <2>1. proc' # "running" /\ call # "idle" => lost'
    BY <1>6 DEF FlowInv, BadgeRight, vars, dbVars, flowVars
  <2> QED
    BY <1>1, <1>2, <1>6, <2>1, StillKeeps DEF vars, dbVars, flowVars, Sound
<1> QED
  BY <1>3, <1>4, <1>5, <1>6

\* A new process has the list alone.  The badge is the system's: it is right,
\* or the process before died within a call or after one not committed.
LEMMA LaunchKeeps ==
    ASSUME FlowInv, LaunchApp
    PROVE  FlowInv'
<1>1. IInv'
  BY DatabaseKeeps DEF FlowNext
<1>2. /\ nav' = <<>> /\ queue' = <<>> /\ crowd' = FALSE
      /\ UNCHANGED <<badge, now, lost, disk>>
      /\ proc # "running" /\ proc' = "running" /\ work' = {} /\ call' = "idle"
  BY DEF LaunchApp, Launch
<1>3. /\ nav' \in Seq(Form) /\ queue' \in Seq(Block)
      /\ DOMAIN nav' = {} /\ DOMAIN queue' = {}
      /\ Len(nav') = 0 /\ Len(queue') = 0
  BY <1>2
<1>4. Typed'
  BY <1>2, <1>3 DEF FlowInv, Typed
<1>5. FormsRight' /\ IdsDiffer' /\ FormsAgree' /\ DismissalsAgree'
  BY <1>3 DEF FormsRight, IdsDiffer, FormsAgree, DismissalsAgree, Pending
<1>6. StoreRight'
  BY <1>2, FS_EmptySet DEF FlowInv, StoreRight
<1>7. CallRight'
  BY <1>2, <1>3, FlowAssumption DEF CallRight
<1>8. Orderly'
  BY <1>2, <1>3 DEF Orderly, Pending
<1>9. BadgeRight'
  BY <1>2 DEF FlowInv, BadgeRight, CallRight
<1> QED
  BY <1>1, <1>4, <1>5, <1>6, <1>7, <1>8, <1>9 DEF FlowInv

\* A form that is saved: within the call, the form, the dismissal and the badge
\* agree with the objects of the transaction.
LEMMA SaveKeeps ==
    ASSUME FlowInv, SaveForm, proc' = "running"
    PROVE  FlowInv'
<1> DEFINE issue == Top.issueUI
           b == [kind |-> "dismiss", id |-> Top.id, route |-> issue.route,
                 issue |-> issue]
           form == [Top EXCEPT !.saved = TRUE, !.base = issue]
<1>1. IInv'
  BY DatabaseKeeps DEF FlowNext
<1>2. /\ nav # <<>> /\ Len(queue) < MaxQueue
      /\ isFormProperlyFilled(Top.issueUI)
      /\ UNCHANGED <<now, crowd, lost>>
  BY DEF SaveForm, FormActive
<1>3. /\ Top \in Form /\ FormIsRight(Top) /\ issue \in Requests
      /\ IssueFromUI(issue) = issue /\ IssueDB(issue) = issue
  BY <1>2, SaveIs
<1>4. /\ Create(Main, issue)
      /\ badge' = Cardinality(work') /\ queue' = Append(queue, b)
      /\ nav' = SetTop(form)
  BY <1>3 DEF SaveForm, onComplete
<1>5. issue \in Issue /\ issue.route \in Routes
  BY <1>3, DBAssumption DEF Issue
<1>6. /\ form \in Form /\ form.id = Top.id /\ form.base = issue
      /\ form.issueUI = issue
  BY <1>3, <1>5 DEF Form
<1>7. FormIsRight(form)
  BY <1>3, <1>6 DEF FormIsRight
<1>8. /\ b \in Block /\ BlockIsRight(b) /\ b.kind = "dismiss" /\ b.id = Top.id
      /\ b.route = issue.route /\ b.issue = issue
  BY <1>3, <1>5 DEF Form, Block, BlockIsRight
<1> HIDE DEF issue, b, form
<1>9. /\ Idle /\ disk' = disk /\ call' \in {"add", "rename"} /\ req' = issue
      /\ "commit" \in faults => "commit" \in faults'
      /\ work' \subseteq disk \cup {issue} /\ IsFiniteSet(work')
      /\ call' = "add" => Cardinality(work') = Cardinality(disk) + 1
      /\ call' = "rename" => Cardinality(work') = Cardinality(disk)
  BY <1>3, <1>4, CreateIs
<1>10. nav \in Seq(Form) /\ queue \in Seq(Block)
  BY DEF FlowInv, Typed
<1>11. /\ Len(nav) \in Nat \ {0} /\ DOMAIN nav = 1..Len(nav)
       /\ Top = nav[Len(nav)]
  BY <1>2, <1>10, TopIs
<1>12. PICK stack : stack = SetTop(form)
  OBVIOUS
<1>13. /\ nav' = stack /\ stack \in Seq(Form) /\ stack # <<>>
       /\ Len(stack) = Len(nav) /\ DOMAIN stack = DOMAIN nav
       /\ stack[Len(nav)] = form
       /\ \A i \in DOMAIN nav : i # Len(nav) => stack[i] = nav[i]
  BY <1>2, <1>4, <1>6, <1>10, <1>12, SetTopIs
<1>14. /\ queue' \in Seq(Block) /\ Len(queue') = Len(queue) + 1
       /\ Len(queue) \in Nat /\ DOMAIN queue = 1..Len(queue)
       /\ DOMAIN queue' = 1..Len(queue) + 1
       /\ \A i \in 1..Len(queue) : queue'[i] = queue[i]
       /\ queue'[Len(queue) + 1] = b
  BY <1>4, <1>8, <1>10, AppendIs
<1>15. \A i \in DOMAIN queue' : i \in DOMAIN queue \/ i = Len(queue) + 1
  BY <1>14
<1>16. \A i \in DOMAIN nav : nav'[i].id = nav[i].id /\ FormIsRight(nav'[i])
  BY <1>6, <1>7, <1>11, <1>13 DEF FlowInv, FormsRight
<1>17. /\ Pending("present")' = Pending("present")
       /\ Pending("dismiss")' = Pending("dismiss") \cup {Len(queue) + 1}
  BY <1>8, <1>14 DEF Pending
<1>18. Typed'
  BY <1>2, <1>4, <1>9, <1>13, <1>14, FS_CardinalityType DEF FlowInv, Typed
<1>19. FormsRight'
  BY <1>8, <1>13, <1>14, <1>15, <1>16 DEF FlowInv, FormsRight
<1>20. StoreRight'
  BY <1>3, <1>9 DEF FlowInv, StoreRight
<1>21. CallRight'
  BY <1>2, <1>9, <1>13, <1>14, FlowAssumption DEF CallRight
<1>22. BadgeRight'
  BY <1>4, <1>9 DEF BadgeRight
<1>23. ~crowd => /\ Len(nav) = 1 /\ Pending("present") = {}
                 /\ \A i \in DOMAIN queue : queue[i].id = nav[1].id
  BY <1>2, <1>11 DEF FlowInv, Orderly
<1>31. ~crowd => /\ Len(nav) = 1 /\ Len(nav)' = 1
                 /\ \A i \in DOMAIN nav : i = Len(nav)
                 /\ nav[1].id = Top.id /\ nav'[1].id = Top.id
                 /\ Pending("present")' = {}
  <2> SUFFICES ASSUME ~crowd
               PROVE  /\ Len(nav) = 1 /\ Len(nav)' = 1
                      /\ \A i \in DOMAIN nav : i = Len(nav)
                      /\ nav[1].id = Top.id /\ nav'[1].id = Top.id
                      /\ Pending("present")' = {}
    OBVIOUS
  <2>1. Len(nav) = 1 /\ Pending("present") = {}
    BY <1>23
  <2>2. Len(nav)' = 1
    BY <1>13, <2>1
  <2>3. \A i \in DOMAIN nav : i = Len(nav)
    BY <1>11, <2>1
  <2>4. nav[1].id = Top.id
    BY <1>11, <2>1
  <2>5. 1 \in DOMAIN nav
    BY <1>11, <2>1
  <2>6. nav'[1].id = Top.id
    BY <1>16, <2>4, <2>5
  <2> QED
    BY <1>17, <2>1, <2>2, <2>3, <2>4, <2>6
<1>24. Orderly'
  <2>1. CASE crowd
    BY <1>2, <2>1 DEF Orderly
  <2>2. CASE ~crowd
    <3>1. \A i \in DOMAIN queue' : queue'[i].id = nav'[1].id
      BY <1>8, <1>14, <1>15, <1>23, <1>31, <2>2
    <3>2. Len(nav)' = 1 /\ Pending("present")' = {}
      BY <1>31, <2>2, Zenon
    <3>3. Len(nav') <= 1
      BY <3>2
    <3> QED
      BY <3>1, <3>2, <3>3 DEF Orderly
  <2> QED
    BY <2>1, <2>2
<1>25. Current' = work' /\ Current = disk /\ (Sound' => Sound)
  BY <1>9 DEF Current, Sound, Idle
<1>26. AsMap(work') = [AsMap(disk) EXCEPT ![issue.route] = issue]
  BY <1>1, <1>9 DEF IInv, PendingWriteIsTheCall
<1>27. /\ AsMap(work')[issue.route] = issue
       /\ \A r \in Routes \ {issue.route} : AsMap(work')[r] = AsMap(disk)[r]
  <2>1. AsMap(disk) = [r \in Routes |-> AsMap(disk)[r]]
    BY AsMapIs
  <2> HIDE DEF AsMap
  <2> QED
    BY <1>5, <1>26, <2>1
<1>28. FormsAgree'
  <2> SUFFICES ASSUME ~crowd, NEW i \in DOMAIN nav
               PROVE  nav'[i].base = AsMap(work')[nav'[i].issueUI.route]
    BY <1>2, <1>13, <1>17, <1>23, <1>25 DEF FormsAgree
  <2>1. i = Len(nav)
    BY <1>31
  <2> QED
    BY <1>6, <1>13, <1>27, <2>1
<1>29. DismissalsAgree'
  <2> SUFFICES ASSUME Sound, NEW i \in Pending("dismiss")'
               PROVE  \/ AsMap(work')[queue'[i].route] = queue'[i].issue
                      \/ \E j \in Pending("dismiss")' :
                            j > i /\ queue'[j].route = queue'[i].route
    BY <1>25 DEF DismissalsAgree
  <2>1. CASE i = Len(queue) + 1
    BY <1>8, <1>14, <1>27, <2>1
  <2>2. CASE i \in Pending("dismiss")
    <3>1. /\ i \in 1..Len(queue) /\ queue'[i] = queue[i]
          /\ queue[i].route \in Routes
      <4>1. i \in 1..Len(queue)
        BY <1>14, <2>2 DEF Pending
      <4>2. queue[i] \in Block
        BY <1>10, <4>1, ElementOfSeq
      <4> QED
        BY <1>14, <4>1, <4>2 DEF Block
    <3>2. CASE queue[i].route = issue.route
      BY <1>8, <1>14, <1>17, <3>1, <3>2
    <3>3. CASE queue[i].route # issue.route
      <4>1. AsMap(work')[queue[i].route] = AsMap(Current)[queue[i].route]
        BY <1>25, <1>27, <3>1, <3>3
      <4>2. CASE AsMap(Current)[queue[i].route] = queue[i].issue
        BY <3>1, <4>1, <4>2
      <4>3. CASE \E j \in Pending("dismiss") :
                    j > i /\ queue[j].route = queue[i].route
        <5>1. PICK j \in Pending("dismiss") :
                 j > i /\ queue[j].route = queue[i].route
          BY <4>3
        <5>2. j \in Pending("dismiss")' /\ queue'[j] = queue[j]
          BY <1>14, <1>17 DEF Pending
        <5> QED
          BY <3>1, <5>1, <5>2
      <4> QED
        BY <2>2, <4>2, <4>3 DEF FlowInv, DismissalsAgree
    <3> QED
      BY <3>2, <3>3
  <2> QED
    BY <1>17, <2>1, <2>2
<1>30. IdsDiffer'
  <2>1. \A i, j \in DOMAIN nav' : nav'[i].id = nav'[j].id => i = j
    BY <1>13, <1>16 DEF FlowInv, IdsDiffer
  <2>2. \A i \in Pending("present") : queue'[i] = queue[i]
    BY <1>14 DEF Pending
  <2> QED
    BY <1>13, <1>16, <1>17, <2>1, <2>2 DEF FlowInv, IdsDiffer
<1> QED
  BY <1>1, <1>18, <1>19, <1>20, <1>21, <1>22, <1>24, <1>28, <1>29, <1>30
  DEF FlowInv

\* The database ends the process during a save: nothing of the flow changed.
LEMMA SaveCrashKeeps ==
    ASSUME FlowInv, SaveForm, proc' # "running"
    PROVE  FlowInv'
<1>1. IInv'
  BY DatabaseKeeps DEF FlowNext
<1>2. /\ Create(Main, IssueDB(IssueFromUI(Top.issueUI))) /\ Idle
      /\ UNCHANGED <<nav, queue, badge, now, crowd, lost>>
  BY DEF SaveForm, FormActive
<1>3. Crash
  BY <1>2 DEF Create, Add, rename, BeginWrite, Idle
<1>4. now' \in 1..MaxNow /\ lost' \in BOOLEAN /\ call = "idle"
  BY <1>2 DEF FlowInv, Typed, Idle
<1> QED
  BY <1>1, <1>2, <1>3, <1>4, StillKeeps DEF Crash, Sound

\* The write commits: what the transaction had is now in the file.
LEMMA CommitKeeps ==
    ASSUME FlowInv, CommitForm
    PROVE  FlowInv'
<1>1. IInv'
  BY DatabaseKeeps DEF FlowNext
<1>2. /\ proc = "running" /\ call # "idle" /\ disk' = work /\ work' = {}
      /\ call' = "idle" /\ lost' = FALSE
      /\ UNCHANGED <<proc, faults, nav, queue, badge, now, crowd>>
  BY DEF CommitForm, Commit
<1>3. Typed' /\ FormsRight'
  BY <1>2 DEF FlowInv, Typed, FormsRight
<1>4. StoreRight'
  BY <1>2, FS_EmptySet DEF FlowInv, StoreRight
<1>5. CallRight'
  <2>1. Len(queue) \in Nat
    BY LenProperties DEF FlowInv, Typed
  <2> QED
    BY <1>2, <2>1, FlowAssumption DEF FlowInv, CallRight
<1>6. BadgeRight'
  BY <1>2 DEF FlowInv, BadgeRight
<1>7. /\ Pending("present")' = Pending("present")
      /\ Pending("dismiss")' = Pending("dismiss")
      /\ Current' = Current /\ Sound' = Sound
  BY <1>2 DEF Pending, Current, Sound
<1>8. Orderly' /\ IdsDiffer' /\ FormsAgree' /\ DismissalsAgree'
  BY <1>2, <1>7 DEF FlowInv, Orderly, IdsDiffer, FormsAgree, DismissalsAgree
<1> QED
  BY <1>1, <1>3, <1>4, <1>5, <1>6, <1>8 DEF FlowInv

\* The commit fails: rename's catch posts a second dismissal of the same form
\* and counts again; the badge may now be one too many.
LEMMA CommitFailsKeeps ==
    ASSUME FlowInv, CommitFormFails
    PROVE  FlowInv'
<1>1. IInv'
  BY DatabaseKeeps DEF FlowNext
<1>2. /\ proc = "running" /\ call # "idle" /\ disk' = disk
      /\ writing' \in BOOLEAN /\ work' = IF writing' THEN work ELSE {}
      /\ call' = "idle" /\ proc' = proc /\ "commit" \in faults'
      /\ lost' = TRUE /\ UNCHANGED <<nav, now, crowd>>
  BY DEF CommitFormFails, CommitFails
<1>3. nav # <<>> /\ nav \in Seq(Form) /\ queue \in Seq(Block)
  BY <1>2 DEF FlowInv, CallRight, Typed
<1>4. StoreRight'
  BY <1>2, FS_EmptySet DEF FlowInv, StoreRight
<1>5. ~Sound'
  BY <1>2 DEF Sound
<1>6. FormsAgree' /\ DismissalsAgree'
  BY <1>5 DEF FormsAgree, DismissalsAgree
<1>7. CASE call # "rename"
  <2>1. call = "add" /\ UNCHANGED <<queue, badge>>
    BY <1>2, <1>7 DEF FlowInv, CallRight, CommitFormFails
  <2>2. Typed' /\ FormsRight'
    BY <1>2, <2>1 DEF FlowInv, Typed, FormsRight
  <2>3. CallRight'
    <3>1. Len(queue) \in Nat
      BY <1>3, LenProperties
    <3> QED
      BY <1>2, <2>1, <3>1, FlowAssumption DEF FlowInv, CallRight
  <2>4. BadgeRight'
    BY <1>2, <2>1 DEF FlowInv, BadgeRight
  <2>5. Pending("present")' = Pending("present")
    BY <2>1 DEF Pending
  <2>6. Orderly' /\ IdsDiffer'
    BY <1>2, <2>1, <2>5 DEF FlowInv, Orderly, IdsDiffer
  <2> QED
    BY <1>1, <1>4, <1>6, <2>2, <2>3, <2>4, <2>6 DEF FlowInv
<1>8. CASE call = "rename"
  <2> DEFINE b == [kind |-> "dismiss", id |-> Top.id, route |-> req.route,
                   issue |-> req]
  <2>1. badge' = Cardinality(View') /\ queue' = Append(queue, b)
    BY <1>8 DEF CommitFormFails, onComplete
  <2>2. req \in Issue /\ req.route \in Routes
    BY <1>8, DBAssumption DEF FlowInv, IInv, PendingWriteIsTheCall, Issue
  <2>3. /\ Len(nav) \in Nat \ {0} /\ DOMAIN nav = 1..Len(nav)
        /\ Top = nav[Len(nav)] /\ Top \in Form
    BY <1>3, TopIs
  <2>4. /\ b \in Block /\ BlockIsRight(b) /\ b.kind = "dismiss"
        /\ b.id = Top.id
    BY <2>2, <2>3 DEF Form, Block, BlockIsRight
  <2> HIDE DEF b
  <2>5. /\ queue' \in Seq(Block) /\ Len(queue') = Len(queue) + 1
        /\ Len(queue) \in Nat /\ DOMAIN queue = 1..Len(queue)
        /\ DOMAIN queue' = 1..Len(queue) + 1
        /\ \A i \in 1..Len(queue) : queue'[i] = queue[i]
        /\ queue'[Len(queue) + 1] = b
    BY <1>3, <2>1, <2>4, AppendIs
  <2>6. \A i \in DOMAIN queue' : i \in DOMAIN queue \/ i = Len(queue) + 1
    BY <2>5
  <2>7. /\ Pending("present")' = Pending("present")
        /\ \A i \in Pending("present") : queue'[i] = queue[i]
    BY <2>4, <2>5 DEF Pending
  <2>8. Cardinality(View') = Cardinality(disk)
    BY <1>2, <1>8 DEF View, FlowInv, BadgeRight
  <2>9. Cardinality(disk) \in Nat
    BY FS_CardinalityType DEF FlowInv, StoreRight
  <2>10. Typed'
    BY <1>2, <2>1, <2>5, <2>8, <2>9 DEF FlowInv, Typed
  <2>11. FormsRight'
    BY <1>2, <2>4, <2>5, <2>6 DEF FlowInv, FormsRight
  <2>12. CallRight'
    BY <1>2, <2>5, FlowAssumption DEF FlowInv, CallRight
  <2>13. BadgeRight'
    BY <1>2, <2>1, <2>8 DEF BadgeRight
  <2>14. Orderly'
    <3> SUFFICES ASSUME ~crowd
                 PROVE  /\ Len(nav) <= 1 /\ Pending("present") = {}
                        /\ \A i \in DOMAIN queue' : queue'[i].id = nav[1].id
      BY <1>2, <2>7 DEF Orderly
    <3>1. /\ Len(nav) <= 1 /\ Pending("present") = {}
          /\ \A i \in DOMAIN queue : queue[i].id = nav[1].id
      BY <1>3 DEF FlowInv, Orderly
    <3>2. Top = nav[1]
      BY <2>3, <3>1
    <3> QED
      BY <2>4, <2>5, <2>6, <3>1, <3>2
  <2>15. IdsDiffer'
    BY <1>2, <2>7 DEF FlowInv, IdsDiffer
  <2> QED
    BY <1>1, <1>4, <1>6, <2>10, <2>11, <2>12, <2>13, <2>14, <2>15 DEF FlowInv
<1> QED
  BY <1>7, <1>8

\* Across every step of the flow.
LEMMA FlowNextInv == FlowInv /\ [FlowNext]_vars => FlowInv'
<1> SUFFICES ASSUME FlowInv, [FlowNext]_vars PROVE FlowInv'
  OBVIOUS
<1>1. CASE RefreshList \/ KillApp \/ Tick \/ UNCHANGED vars
  BY <1>1, AloneKeeps
<1>2. ASSUME NEW r \in Routes, TapIssue(r) PROVE FlowInv'
  BY <1>2, TapKeeps
<1>3. CASE RunPresent
  BY <1>3, PresentKeeps
<1>4. ASSUME nav # <<>> PROVE Top \in Form /\ FormIsRight(Top)
  BY <1>4, TopIs DEF FlowInv, Typed, FormsRight
<1>5. CASE Edit
  <2>1. PICK c \in Drafts :
           nav' = SetTop([Top EXCEPT
                             !.issueUI = WithContent(Top.issueUI.route, c),
                             !.edited = TRUE])
    BY <1>5 DEF Edit
  <2>2. nav # <<>> /\ UNCHANGED <<dbVars, queue, badge, now, crowd, lost>>
    BY <1>5 DEF Edit, FormActive
  <2> DEFINE u == WithContent(Top.issueUI.route, c)
             form == [Top EXCEPT !.issueUI = u, !.edited = TRUE]
  <2>3. Top \in Form /\ Top.issueUI \in Issue /\ Top.issueUI.route \in Routes
    BY <1>4, <2>2 DEF Form, Issue
  <2>4. u \in Requests /\ u \in Issue /\ u.route = Top.issueUI.route
    BY <2>3, RequestsAssumption, DBAssumption DEF WithContent
  <2> HIDE DEF u
  <2>5. /\ form \in Form /\ form.id = Top.id /\ form.base = Top.base
        /\ form.issueUI = u /\ form.edited = TRUE
    BY <2>3, <2>4 DEF Form
  <2>6. nav' = SetTop(form)
    BY <2>1 DEF u
  <2> HIDE DEF form
  <2>7. FormIsRight(form)
    BY <2>4, <2>5 DEF FormIsRight
  <2> QED
    BY <2>2, <2>4, <2>5, <2>6, <2>7, EditKeeps
<1>6. ASSUME NEW alert \in BOOLEAN, nav # <<>>,
             nav' = SetTop([Top EXCEPT !.isWrongFilled = alert]),
             UNCHANGED <<dbVars, queue, badge, now, crowd, lost>>
      PROVE  FlowInv'
  <2> DEFINE form == [Top EXCEPT !.isWrongFilled = alert]
  <2>1. /\ form \in Form /\ form.id = Top.id /\ form.base = Top.base
        /\ form.issueUI = Top.issueUI /\ form.edited = Top.edited
    BY <1>4, <1>6 DEF Form
  <2>2. nav' = SetTop(form)
    BY <1>6
  <2> HIDE DEF form
  <2>3. FormIsRight(form)
    BY <1>4, <1>6, <2>1 DEF FormIsRight
  <2> QED
    BY <1>6, <2>1, <2>2, <2>3, EditKeeps
<1>7. CASE RejectForm
  BY <1>6, <1>7 DEF RejectForm, FormActive
<1>8. CASE CloseAlert
  BY <1>6, <1>8 DEF CloseAlert
<1>9. CASE SaveForm
  BY <1>9, SaveKeeps, SaveCrashKeeps
<1>10. CASE CommitForm
  BY <1>10, CommitKeeps
<1>11. CASE CommitFormFails
  BY <1>11, CommitFailsKeeps
<1>12. CASE RunDismiss
  BY <1>12, PopKeeps DEF RunDismiss, Idle
<1>13. CASE Back
  BY <1>13, PopKeeps DEF Back, FormActive, Idle
<1>14. CASE LaunchApp
  BY <1>14, LaunchKeeps
<1> QED
  BY <1>1, <1>2, <1>3, <1>5, <1>7, <1>8, <1>9, <1>10, <1>11, <1>12, <1>13,
     <1>14
  DEF FlowNext
-----------------------------------------------------------------------------
(* Theorems *)

\* The forms, the blocks, the badge and the objects always agree.
THEOREM FlowInvariantHolds == FlowSpec => []FlowInv
BY FlowInitInv, FlowNextInv, PTL DEF FlowSpec

\* The flow uses the database as DBManager's specification allows: every form
\* that reaches create is a request, so that all that is proved of DBManager,
\* the durable map included, holds in the flow.
THEOREM FlowImplementsDBManager == FlowSpec => Spec
<1>1. FlowInit => Init
  BY DEF FlowInit
<1> QED
  BY <1>1, FlowInitInv, FlowNextInv, FlowSimulates, PTL DEF FlowSpec, Spec

\* Hence what the user stores through the forms is the durable map.
THEOREM FlowImplementsIssueStore == FlowSpec => ImplementsIssueStore
BY FlowImplementsDBManager, Refinement, PTL

\* Every variable of the flow keeps its type: the navigation stack never holds
\* more forms than there are ids, and a failed commit posts at most one block
\* more than the taps and the saves do.
THEOREM FlowTypeCorrect == FlowSpec => []FlowTypeOK
<1>1. FlowInv => FlowTypeOK
  <2> SUFFICES ASSUME FlowInv PROVE FlowTypeOK
    OBVIOUS
  <2>1. TypeOK /\ Typed
    BY DEF FlowInv, IInv
  <2>2. /\ Len(nav) \in Nat /\ DOMAIN nav = 1..Len(nav)
        /\ \A i \in 1..Len(nav) : nav[i] \in Form
    BY <2>1, LenProperties, ElementOfSeq DEF Typed
  <2>3. Len(nav) <= MaxForms
    <3> DEFINE f == [i \in 1..Len(nav) |-> nav[i].id]
    <3>1. f \in Injection(1..Len(nav), Ids)
      <4>1. \A i \in 1..Len(nav) : nav[i].id \in Ids
        BY <2>2 DEF Form
      <4>2. f \in [1..Len(nav) -> Ids]
        BY <4>1
      <4>3. \A i, j \in 1..Len(nav) : f[i] = f[j] => i = j
        BY <2>2 DEF FlowInv, IdsDiffer
      <4> QED
        BY <4>2, <4>3 DEF Injection, IsInjective
    <3> HIDE DEF f
    <3>2. IsFiniteSet(1..Len(nav)) /\ Cardinality(1..Len(nav)) = Len(nav)
      <4>1. PICK n \in Nat : n = Len(nav)
        BY <2>2
      <4>2. IsFiniteSet(1..n) /\ Cardinality(1..n) = n
        <5>1. 1 \in Int /\ n \in Int
          OBVIOUS
        <5> QED
          BY <5>1, FS_Interval
      <4> QED
        BY <4>1, <4>2
    <3>3. IsFiniteSet(Ids) /\ Cardinality(Ids) = MaxForms
      <4>1. 1 \in Int /\ MaxForms \in Nat
        BY FlowAssumption
      <4> QED
        BY <4>1, FS_Interval DEF Ids
    <3> QED
      BY <3>1, <3>2, <3>3, FS_Injection
  <2>4. Len(queue) <= MaxQueue + 1
    <3>1. Len(queue) \in Nat
      BY <2>1, LenProperties DEF Typed
    <3> QED
      BY <3>1, FlowAssumption DEF FlowInv, CallRight
  <2> QED
    BY <2>1, <2>3, <2>4 DEF FlowTypeOK, Typed
<1> QED
  BY <1>1, FlowInvariantHolds, PTL

\* The icon's badge is the number of stored issues, or one more after a write
\* that was not committed.
THEOREM BadgeIsRight == FlowSpec => []BadgeCountsIssues
<1>1. FlowInv => BadgeCountsIssues
  BY DEF FlowInv, BadgeRight, BadgeCountsIssues, Idle
<1> QED
  BY <1>1, FlowInvariantHolds, PTL

\* Without a crowd and a failed commit, a form shows or will show the issue
\* that is stored for its route.
THEOREM FormsStayFresh == FlowSpec => []FormsAreFresh
<1>1. FlowInv => FormsAreFresh
  <2> SUFFICES ASSUME FlowInv, Idle, ~crowd, "commit" \notin faults
               PROVE  /\ \A i \in DOMAIN nav :
                            nav[i].base = Stored(nav[i].issueUI.route)
                      /\ \A i \in Pending("present") :
                            queue[i].issue = Stored(queue[i].route)
    BY DEF FormsAreFresh
  <2>1. Sound
    BY DEF Sound, Idle
  <2>2. AsMap(View) = AsMap(Current)
    BY <2>1, ViewIs
  <2>3. \A r : Stored(r) = AsMap(Current)[r]
    BY <2>2 DEF Stored
  <2> HIDE DEF Stored
  <2> QED
    BY <2>1, <2>3 DEF FlowInv, FormsAgree
<1> QED
  BY <1>1, FlowInvariantHolds, PTL

\* Without a crowd, a dismissal pops the form whose save posted it.
THEOREM DismissalsHitTheirForm == FlowSpec => []DismissHitsItsForm
<1>1. FlowInv => DismissHitsItsForm
  <2> SUFFICES ASSUME FlowInv, ~crowd, queue # <<>>, nav # <<>>
               PROVE  Top.id = Head(queue).id
    BY DEF DismissHitsItsForm
  <2>1. nav \in Seq(Form) /\ queue \in Seq(Block)
    BY DEF FlowInv, Typed
  <2>2. Len(nav) \in Nat \ {0} /\ Top = nav[Len(nav)]
    BY <2>1, TopIs
  <2>3. Head(queue) = queue[1] /\ 1 \in DOMAIN queue
    BY <2>1, TailIs
  <2>4. Len(nav) <= 1 /\ \A i \in DOMAIN queue : queue[i].id = nav[1].id
    BY DEF FlowInv, Orderly
  <2>5. Top = nav[1]
    BY <2>2, <2>4
  <2> QED
    BY <2>3, <2>4, <2>5
<1> QED
  BY <1>1, FlowInvariantHolds, PTL

\* Unless a commit failed, the issue of a posted dismissal is in the file, or
\* a later save of its route is.
THEOREM DismissalsMeanStored == FlowSpec => []DismissMeansStored
<1>1. FlowInv => DismissMeansStored
  <2> SUFFICES ASSUME FlowInv, Idle, "commit" \notin faults
               PROVE  DismissMeansStored
    BY DEF DismissMeansStored
  <2>1. Sound /\ Current = disk
    BY DEF Sound, Idle, Current
  <2> QED
    BY <2>1 DEF FlowInv, DismissalsAgree, DismissMeansStored
<1> QED
  BY <1>1, FlowInvariantHolds, PTL

\* Only the save of a form begins to rename an issue.
LEMMA RenameIsASave ==
    ASSUME FlowInv, FlowNext, call = "idle", call' = "rename"
    PROVE  SaveForm /\ proc' = "running"
<1>1. CASE RefreshList
  BY <1>1, QueryIs DEF RefreshList
<1>2. ASSUME NEW r \in Routes, TapIssue(r) PROVE FALSE
  BY <1>2, QueryIs DEF TapIssue
<1>3. CASE SaveForm
  <2>1. CASE proc' # "running"
    <3>1. Create(Main, IssueDB(IssueFromUI(Top.issueUI))) /\ Idle
      BY <1>3 DEF SaveForm, FormActive
    <3>2. Crash
      BY <2>1, <3>1 DEF Create, Add, rename, BeginWrite, Idle
    <3> QED
      BY <3>2 DEF Crash
  <2> QED
    BY <1>3, <2>1
<1>4. CASE \/ CommitForm \/ CommitFormFails \/ KillApp \/ LaunchApp
           \/ RunPresent \/ Edit \/ RejectForm \/ CloseAlert \/ RunDismiss
           \/ Back \/ Tick
  BY <1>4 DEF CommitForm, Commit, CommitFormFails, CommitFails, KillApp, Kill,
              LaunchApp, Launch, RunPresent, Edit, RejectForm, CloseAlert,
              RunDismiss, Back, Tick, dbVars
<1> QED
  BY <1>1, <1>2, <1>3, <1>4 DEF FlowNext

\* OK on an untouched form of a stored issue writes what is there.
THEOREM ConfirmingIsHarmless == FlowSpec => ConfirmingChangesNothing
<1> DEFINE Harmless ==
       (call = "idle" /\ call' = "rename" /\ ~crowd /\ "commit" \notin faults
          /\ ~Top.edited /\ Top.base.timestamp >= 0) => work' = disk
<1>1. FlowInv /\ [FlowNext]_vars => [Harmless]_vars
  <2> SUFFICES ASSUME FlowInv, FlowNext, call = "idle", call' = "rename",
                      ~crowd, "commit" \notin faults, ~Top.edited,
                      Top.base.timestamp >= 0
               PROVE  work' = disk
    BY DEF Harmless
  <2> DEFINE issue == Top.issueUI
  <2>1. SaveForm /\ proc' = "running"
    BY RenameIsASave
  <2>2. nav # <<>> /\ isFormProperlyFilled(issue)
    BY <2>1 DEF SaveForm, FormActive
  <2>3. /\ Top \in Form /\ FormIsRight(Top) /\ issue \in Requests
        /\ Create(Main, issue)
    BY <2>1, <2>2, SaveIs DEF SaveForm
  <2>4. PICK found \in disk : /\ found.route = issue.route
                              /\ work' = (disk \ {found}) \cup {issue}
    BY <2>1, <2>3, CreateIs
  <2>5. Sound /\ Current = disk
    BY <2>1 DEF SaveForm, FormActive, Idle, Sound, Current
  <2>6. /\ Len(nav) \in DOMAIN nav /\ Top = nav[Len(nav)]
    BY <2>2, TopIs DEF FlowInv, Typed
  <2>7. Top.base = AsMap(disk)[issue.route]
    BY <2>5, <2>6 DEF FlowInv, FormsAgree
  <2>8. found \in Issue /\ issue.route \in Routes
    BY <2>3, <2>4, DBAssumption DEF FlowInv, StoreRight, Issue
  <2>9. AsMap(disk)[found.route] = found
    BY <2>4, <2>8, AsMapEntry DEF FlowInv, IInv, OneIssuePerRoute
  <2>10. Top.base = found /\ found # NoIssue
    BY <2>4, <2>7, <2>8, <2>9, DataAssumption
  <2>11. ~(found.timestamp < 0)
    BY <2>8, <2>10 DEF Issue
  <2>12. issue = found
    BY <2>3, <2>10, <2>11 DEF FormIsRight
  <2> HIDE DEF issue
  <2> QED
    BY <2>4, <2>12
<1> QED
  BY <1>1, FlowInvariantHolds, PTL DEF FlowSpec, ConfirmingChangesNothing
=============================================================================

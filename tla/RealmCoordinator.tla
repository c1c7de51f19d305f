-------------------------- MODULE RealmCoordinator --------------------------
(***************************************************************************)
(* The part of Realm under every handle the app opens: the handles with    *)
(* their read and write transactions, the notifiers that watch collections *)
(* for them, and the coordinator whose worker thread advances the          *)
(* notifiers and hands their changes over to the handles' threads.         *)
(*                                                                         *)
(* The file is the number of its last version: commit v makes version v    *)
(* out of version v - 1.  What a notifier found out is the set of commits  *)
(* it covers.  A shared group is 0 when it is ready, the version it reads  *)
(* otherwise, and Unopened before it is first opened.  Every handle has a  *)
(* thread of its own, every notifier one callback for its lifetime.  What  *)
(* happens under m_notifier_mutex is one step.  Versions, the write lock   *)
(* and the signals between threads are the storage engine's and the        *)
(* system's, modelled from how the coordinator uses them.                  *)
(***************************************************************************)
EXTENDS Integers, FiniteSets

CONSTANTS Handles,      \* instances of Realm, each with its own thread
          Notifiers,    \* instances of CollectionNotifier
          Lists,        \* the ones that track changes from their creation on
          Suppressed,   \* the ones a commit may be told not to notify
          NoHandle,     \* nobody holds the write lock; a dead notifier's realm
          OpenMayFail,  \* whether opening a helper's file may fail
          CommitMayFail, \* whether a commit may fail with an i/o error
          CallbacksWrite, \* whether callbacks may write
          OtherProcess, \* whether another process writes to the file
          Invalidated,  \* the handles whose read transaction may be ended
          MaxVersion    \* bound: versions of the file

ASSUME CoordinatorAssumption ==
    /\ Lists \subseteq Notifiers /\ Suppressed \subseteq Notifiers
    /\ Invalidated \subseteq Handles
    /\ NoHandle \notin Handles
    /\ {OpenMayFail, CommitMayFail, CallbacksWrite, OtherProcess}
          \subseteq BOOLEAN
    /\ MaxVersion \in Nat \ {0}

VARIABLES latest,    \* the last version of the file
          writer,    \* the holder of the write lock
          realm,     \* stage and version of each handle
          pc,        \* what each handle's thread is doing
          package,   \* the notifiers a handle is about to deliver or delivered
          notifier,  \* the notifiers, see Notifier
          advancer,  \* m_advancer_sg
          helper,    \* m_notifier_sg
          skip,      \* m_notifier_skip_version
          error,     \* m_async_error is set
          worker,    \* the worker's place and its locals
          wake,      \* the worker was told of a change
          signal,    \* the handles' run loops were told of a change
          jumped     \* history: it was moved past its notifiers, see Live

fileVars == <<latest, writer>>
handleVars == <<realm, pc, package, jumped>>
coordVars == <<advancer, helper, skip, error>>
vars == <<fileVars, handleVars, notifier, coordVars, worker, wake, signal>>

Unopened == -1
Ready == 0

Commits == 1..MaxVersion
Versions == 1..MaxVersion

\* m_realm; which list of the coordinator holds it; m_sg_version, m_has_run;
\* what run() found; accumulated_changes, changes_to_deliver,
\* initial_delivered and skip_next of the callback.  History: the commits the
\* callback knows of, the ones it asked not to hear of and the ones dropped.
Notifier ==
    [realm : Handles \cup {NoHandle}, list : {"none", "new", "main"},
     ver : 0..MaxVersion, hasRun : BOOLEAN,
     change : SUBSET Commits, acc : SUBSET Commits, todo : SUBSET Commits,
     initial : BOOLEAN, skipNext : BOOLEAN,
     told : SUBSET Commits, asked : SUBSET Commits, dropped : SUBSET Commits]

NewNotifier ==
    [realm |-> NoHandle, list |-> "none", ver |-> 0, hasRun |-> FALSE,
     change |-> {}, acc |-> {}, todo |-> {},
     initial |-> FALSE, skipNext |-> FALSE,
     told |-> {}, asked |-> {}, dropped |-> {}]

IdleWorker == [at |-> "idle", version |-> 0, skip |-> 0, old |-> {}, new |-> {}]

TypeOK ==
    /\ latest \in Versions
    /\ writer \in Handles \cup {NoHandle}
    /\ realm \in [Handles -> [stage : {"Ready", "Reading", "Writing"},
                              ver : Versions]]
    /\ pc \in [Handles -> {"idle", "promote", "await", "refresh", "sending",
                            "commit", "sendingCommit"}]
    /\ package \in [Handles -> [set : SUBSET Notifiers, error : BOOLEAN,
                                target : 0..MaxVersion]]
    /\ notifier \in [Notifiers -> Notifier]
    /\ advancer \in Unopened..MaxVersion /\ helper \in Unopened..MaxVersion
    /\ skip \in 0..MaxVersion
    /\ error \in BOOLEAN /\ wake \in BOOLEAN
    /\ signal \in [Handles -> BOOLEAN] /\ jumped \in [Handles -> BOOLEAN]
    /\ worker \in [at : {"idle", "skip", "skipped", "run", "ran", "signal"},
                   version : 0..MaxVersion, skip : 0..MaxVersion,
                   old : SUBSET Notifiers, new : SUBSET Notifiers]

Init ==
    /\ latest = 1 /\ writer = NoHandle
    /\ realm = [h \in Handles |-> [stage |-> "Reading", ver |-> 1]]
    /\ pc = [h \in Handles |-> "idle"]
    /\ package = [h \in Handles |->
                     [set |-> {}, error |-> FALSE, target |-> 0]]
    /\ notifier = [n \in Notifiers |-> NewNotifier]
    /\ advancer = Unopened /\ helper = Unopened
    /\ skip = 0 /\ error = FALSE
    /\ worker = IdleWorker
    /\ wake = FALSE
    /\ signal = [h \in Handles |-> FALSE]
    /\ jumped = [h \in Handles |-> FALSE]
-----------------------------------------------------------------------------
(* Notifiers *)

is_alive(n) == notifier[n].realm # NoHandle

m_new_notifiers == {n \in Notifiers : notifier[n].list = "new"}

m_notifiers == {n \in Notifiers : notifier[n].list = "main"}

notifiers_for_realm(h) ==
    {n \in m_new_notifiers \cup m_notifiers : notifier[n].realm = h}

\* Mutant of add_changes: what run() found is copied, not moved.
add_changesCopied(n) ==
    IF n.skipNext
    THEN [n EXCEPT !.skipNext = FALSE,
                   !.told = @ \cup n.change, !.dropped = @ \cup n.change]
    ELSE [n EXCEPT !.acc = @ \cup n.change]

\* add_changes: the callback gets what run() found, or is spared it once.
add_changes(n) ==
    IF n.skipNext
    THEN [n EXCEPT !.skipNext = FALSE, !.change = {},
                   !.told = @ \cup n.change, !.dropped = @ \cup n.change]
    ELSE [n EXCEPT !.change = {}, !.acc = @ \cup n.change]

\* prepare_handover, when the helper is at version v.
prepare_handover(n, v) == [add_changes(n) EXCEPT !.ver = v, !.hasRun = TRUE]

\* package_for_delivery: what has accumulated is what will be delivered.
package_for_delivery(n) == [n EXCEPT !.todo = n.acc, !.acc = {}]

\* after_advance: a callback is called unless it has nothing new to hear; the
\* first call stands for everything up to the version.
after_advance(n) ==
    IF n.initial
    THEN [n EXCEPT !.told = @ \cup n.todo, !.todo = {}]
    ELSE [n EXCEPT !.initial = TRUE, !.told = 1..n.ver, !.todo = {},
                   !.dropped = {}]

\* deliver_error: the callback hears of the error and is removed.
deliver_error(n) == [NewNotifier EXCEPT !.realm = n.realm, !.list = n.list,
                                        !.ver = n.ver, !.hasRun = n.hasRun]

\* pin_version: the advancer reads the oldest version a new notifier is at;
\* the first time its file is opened, which may fail.
pin_version(v) ==
    IF error THEN UNCHANGED <<advancer, error>>
    ELSE \/ /\ advancer = Unopened /\ OpenMayFail
            /\ error' = TRUE /\ UNCHANGED advancer
         \/ /\ advancer' = IF advancer \in {Unopened, Ready}
                              \/ m_new_notifiers = {} \/ v < advancer
                           THEN v ELSE advancer
            /\ UNCHANGED error

\* add_notification_callback: a notifier is created at the handle's version,
\* registered, and its callback wakes the worker.
register_notifier(n, h) ==
    /\ pc[h] = "idle" /\ realm[h].stage = "Reading"
    /\ notifier[n] = NewNotifier
    /\ notifier' = [notifier EXCEPT ![n] =
          [NewNotifier EXCEPT !.realm = h, !.list = "new",
                              !.ver = realm[h].ver]]
    /\ pin_version(realm[h].ver)
    /\ wake' = TRUE
    /\ UNCHANGED <<fileVars, handleVars, helper, skip, worker, signal>>

\* unregister, from any thread: the notifier is dead, and will be removed.
unregister(n) ==
    /\ is_alive(n)
    /\ notifier' = [notifier EXCEPT ![n] =
          [NewNotifier EXCEPT !.list = notifier[n].list,
                              !.ver = notifier[n].ver,
                              !.hasRun = notifier[n].hasRun]]
    /\ jumped' = [h \in Handles |->
          jumped[h] /\ \E m \in Notifiers \ {n} : notifier[m].realm = h]
    /\ UNCHANGED <<fileVars, realm, pc, package, coordVars, worker, wake,
                   signal>>
-----------------------------------------------------------------------------
(* The worker *)

Dead(list) == {n \in Notifiers : notifier[n].list = list /\ ~is_alive(n)}

\* clean_up_dead_notifiers removes the last notifier the helper reads for.
HelperEnds ==
    Dead("main") # {} /\ Dead("main") = m_notifiers /\ helper # Unopened

\* Mutant of SkipAfterCleanUp: the skip version outlives its notifiers.
SkipAfterCleanUpKept == skip

SkipAfterCleanUp == IF HelperEnds THEN 0 ELSE skip

\* What clean_up_dead_notifiers leaves of the lists and the shared groups.
Cleaned ==
    [notifier |-> [n \in Notifiers |->
         IF n \in Dead("main") \cup Dead("new") THEN NewNotifier
         ELSE notifier[n]],
     main |-> m_notifiers \ Dead("main"),
     new |-> m_new_notifiers \ Dead("new"),
     helper |-> IF HelperEnds THEN Ready ELSE helper,
     skip |-> SkipAfterCleanUp,
     advancer |-> IF Dead("new") # {} /\ Dead("new") = m_new_notifiers
                     /\ advancer # Unopened
                  THEN Ready ELSE advancer]

\* run_async_notifiers with nothing to do, or with an error to deliver.
NothingToRun(c) ==
    /\ \/ c.main \cup c.new = {} /\ UNCHANGED error
       \/ c.main \cup c.new # {} /\ error /\ UNCHANGED error
       \/ /\ c.main \cup c.new # {} /\ ~error /\ OpenMayFail
          /\ c.helper = Unopened /\ error' = TRUE
    /\ notifier' = [n \in Notifiers |->
          IF error' /\ n \in c.new /\ c.main \cup c.new # {}
          THEN [c.notifier[n] EXCEPT !.list = "main"] ELSE c.notifier[n]]
    /\ worker' = [IdleWorker EXCEPT !.at = "signal"]
    /\ helper' = c.helper /\ advancer' = c.advancer /\ skip' = c.skip

\* Otherwise, still under the lock: the helper reads, the new notifiers come
\* forward from the pinned version to the last one, and the lists are copied.
SomethingToRun(c) ==
    /\ c.main \cup c.new # {} /\ ~error
    /\ helper' = IF c.helper = Unopened \/ c.main = {} THEN latest ELSE c.helper
    /\ advancer' = Ready
    /\ worker' = [at |-> IF c.skip # 0 THEN "skip" ELSE "run",
                  version |-> latest, skip |-> c.skip,
                  old |-> c.main, new |-> c.new]
    /\ skip' = 0
    /\ notifier' = [n \in Notifiers |->
          IF n \in c.new THEN [c.notifier[n] EXCEPT !.list = "main"]
          ELSE c.notifier[n]]
    /\ UNCHANGED error

\* on_change, up to the first unlock in run_async_notifiers.
on_change ==
    /\ wake /\ worker.at = "idle"
    /\ wake' = FALSE
    /\ NothingToRun(Cleaned) \/ SomethingToRun(Cleaned)
    /\ UNCHANGED <<fileVars, handleVars, signal>>

\* run(): a notifier adds the commits the helper passes over.  A results
\* notifier does not look for changes before its first handover.
Ran(n, v) ==
    IF is_alive(n) /\ (n \in Lists \/ notifier[n].hasRun)
    THEN [notifier[n] EXCEPT !.change = @ \cup (helper + 1 .. v)]
    ELSE notifier[n]

\* A new notifier's changes begin at the version it was created at.
RanNew(n, v) ==
    IF is_alive(n) /\ n \in Lists
    THEN [notifier[n] EXCEPT !.change = notifier[n].ver + 1 .. v]
    ELSE notifier[n]

\* Unlocked: the old notifiers go to the version that a handle committed.
AdvanceToSkip ==
    /\ worker.at = "skip"
    /\ notifier' = [n \in Notifiers |->
          IF n \in worker.old THEN Ran(n, worker.skip) ELSE notifier[n]]
    /\ helper' = worker.skip
    /\ worker' = [worker EXCEPT !.at = "skipped"]
    /\ UNCHANGED <<fileVars, handleVars, advancer, skip, error, wake, signal>>

HandOver(set) ==
    [n \in Notifiers |->
       IF n \in set THEN prepare_handover(notifier[n], helper) ELSE notifier[n]]

HandOverSkip ==
    /\ worker.at = "skipped"
    /\ notifier' = HandOver(worker.old)
    /\ worker' = [worker EXCEPT !.at = "run"]
    /\ UNCHANGED <<fileVars, handleVars, coordVars, wake, signal>>

\* Unlocked: all notifiers go to the version picked under the lock.
AdvanceToVersion ==
    /\ worker.at = "run"
    /\ notifier' = [n \in Notifiers |->
          IF n \in worker.old THEN Ran(n, worker.version)
          ELSE IF n \in worker.new THEN RanNew(n, worker.version)
          ELSE notifier[n]]
    /\ helper' = worker.version
    /\ worker' = [worker EXCEPT !.at = "ran"]
    /\ UNCHANGED <<fileVars, handleVars, advancer, skip, error, wake, signal>>

\* Locked again: the changes are handed over and the waiting handles look.
HandOverAll ==
    /\ worker.at = "ran"
    /\ notifier' = [n \in Notifiers |->
          IF n \in Dead("main") \cup Dead("new") THEN NewNotifier
          ELSE HandOver(worker.old \cup worker.new)[n]]
    /\ helper' = Cleaned.helper /\ advancer' = Cleaned.advancer
    /\ skip' = Cleaned.skip
    /\ worker' = [IdleWorker EXCEPT !.at = "signal"]
    /\ UNCHANGED <<fileVars, handleVars, error, wake, signal>>

\* The rest of on_change: every handle's run loop is signalled.
SignalRealms ==
    /\ worker.at = "signal"
    /\ signal' = [h \in Handles |-> TRUE]
    /\ worker' = IdleWorker
    /\ UNCHANGED <<fileVars, handleVars, notifier, coordVars, wake>>

WorkerStep ==
    on_change \/ AdvanceToSkip \/ HandOverSkip \/ AdvanceToVersion
       \/ HandOverAll \/ SignalRealms
-----------------------------------------------------------------------------
(* Delivery *)

\* The notifiers of a set that have run and whose collection still exists.
Packable(set, h) ==
    {n \in set : notifier[n].hasRun /\ notifier[n].realm = h}

\* Mutant of NotifiersReady: the target version itself is not good enough.
NotifiersReadyAfter(h, set, target) ==
    \A n \in set : notifier[n].realm = h =>
                      notifier[n].hasRun /\ notifier[n].ver > target

\* What package_and_wait waits for: all of a package's notifiers that have a
\* callback were handed over at the target version or a later one.
NotifiersReady(h, set, target) ==
    \A n \in set : notifier[n].realm = h =>
                      notifier[n].hasRun /\ notifier[n].ver >= target

\* The callbacks of set are called by handle h.
Deliver(h, set) ==
    /\ notifier' = [n \in Notifiers |->
          IF n \in set THEN after_advance(package_for_delivery(notifier[n]))
          ELSE notifier[n]]
    /\ package' = [package EXCEPT ![h] =
                     [set |-> set, error |-> FALSE, target |-> 0]]
    /\ pc' = [pc EXCEPT ![h] = IF set = {} THEN "idle" ELSE "sending"]

DeliverError(h, set) ==
    /\ notifier' = [n \in Notifiers |->
          IF n \in set /\ notifier[n].realm = h THEN deliver_error(notifier[n])
          ELSE notifier[n]]
    /\ package' = [package EXCEPT ![h] =
                     [set |-> {}, error |-> FALSE, target |-> 0]]
    /\ pc' = [pc EXCEPT ![h] = "idle"]

\* m_version of a package: the notifiers' common version.
PackageVersion(set) == notifier[CHOOSE n \in set : TRUE].ver

\* process_available_async: deliver what was handed over for the version the
\* handle is at, or whatever there is when it is at none.
process_available_async(h, v, reading) ==
    IF error THEN DeliverError(h, notifiers_for_realm(h))
    ELSE Deliver(h, {n \in Packable(notifiers_for_realm(h), h) :
                        reading => notifier[n].ver = v})

\* Mutant of advance_to_ready: the handle goes to the last version.
advance_to_readyLast(h) ==
    /\ Deliver(h, Packable(notifiers_for_realm(h), h))
    /\ realm' = [realm EXCEPT ![h].ver = latest]

\* advance_to_ready: to the version the notifiers were handed over at; what
\* was handed over for an older version than the handle's is discarded.
advance_to_ready(h) ==
    LET set == Packable(notifiers_for_realm(h), h)
        v   == PackageVersion(set)
    IN  IF error
        THEN /\ DeliverError(h, notifiers_for_realm(h))
             /\ realm' = [realm EXCEPT ![h].ver = latest]
        ELSE IF set # {} /\ v < realm[h].ver
        THEN /\ notifier' = [n \in Notifiers |->
                    IF n \in set THEN package_for_delivery(notifier[n])
                    ELSE notifier[n]]
             /\ package' = [package EXCEPT ![h].set = {}]
             /\ UNCHANGED <<realm, pc>>
        ELSE /\ Deliver(h, set)
             /\ realm' = [realm EXCEPT ![h].ver =
                             IF set = {} THEN latest ELSE v]
-----------------------------------------------------------------------------
(* Handles *)

\* begin_read at the last version, by the first use after an invalidate.
Jump(h) ==
    /\ realm' = [realm EXCEPT ![h] = [stage |-> "Reading", ver |-> latest]]
    /\ jumped' = [jumped EXCEPT ![h] =
                     @ \/ \E n \in Notifiers : notifier[n].realm = h]

read_group(h) ==
    /\ pc[h] = "idle" /\ realm[h].stage = "Ready"
    /\ Jump(h)
    /\ UNCHANGED <<fileVars, pc, package, notifier, coordVars, worker, wake,
                   signal>>

\* The package that a blocking call makes before it waits.
Snapshot(h, target) ==
    package' = [package EXCEPT ![h] =
        [set |-> notifiers_for_realm(h), error |-> error, target |-> target]]

\* begin_transaction and promote_to_write, up to the write lock.
begin_transaction(h) ==
    /\ pc[h] = "idle" /\ realm[h].stage # "Writing"
    /\ Snapshot(h, 0)
    /\ IF realm[h].stage = "Ready" THEN Jump(h)
       ELSE UNCHANGED <<realm, jumped>>
    /\ pc' = [pc EXCEPT ![h] = "promote"]
    /\ UNCHANGED <<fileVars, notifier, coordVars, worker, wake, signal>>

\* The lock is granted: the transaction is at the last version.
promote_to_write(h) ==
    /\ pc[h] = "promote" /\ writer = NoHandle
    /\ writer' = h
    /\ realm' = [realm EXCEPT ![h] = [stage |-> "Writing", ver |-> latest]]
    /\ package' = [package EXCEPT ![h].target = latest]
    /\ pc' = [pc EXCEPT ![h] = "await"]
    /\ wake' = (wake \/ ~NotifiersReady(h, package[h].set, latest))
    /\ UNCHANGED <<latest, jumped, notifier, coordVars, worker, signal>>

\* The notifiers have caught up: callbacks are called inside the transaction.
BeginDelivers(h) ==
    /\ pc[h] = "await"
    /\ \/ package[h].error /\ DeliverError(h, package[h].set)
       \/ /\ ~package[h].error
          /\ NotifiersReady(h, package[h].set, package[h].target)
          /\ Deliver(h, Packable(package[h].set, h))
    /\ UNCHANGED <<fileVars, realm, jumped, coordVars, worker, wake, signal>>

\* begin_transaction inside a callback: nobody is waited for or notified.
BeginInCallback(h) ==
    /\ CallbacksWrite
    /\ pc[h] = "sending" /\ realm[h].stage = "Reading" /\ writer = NoHandle
    /\ writer' = h
    /\ realm' = [realm EXCEPT ![h] = [stage |-> "Writing", ver |-> latest]]
    /\ jumped' = [jumped EXCEPT ![h] = TRUE]
    /\ UNCHANGED <<latest, pc, package, notifier, coordVars, worker, wake,
                   signal>>

CallbacksReturn(h) ==
    /\ pc[h] = "sending"
    /\ pc' = [pc EXCEPT ![h] = "idle"]
    /\ package' = [package EXCEPT ![h].set = {}]
    /\ UNCHANGED <<fileVars, realm, jumped, notifier, coordVars, worker, wake,
                   signal>>

\* commitWriteTransactionWithoutNotifying, before the commit: the callbacks in
\* spared are not to hear of it (suppress_next_notification).
suppress_next_notification(h, spared) ==
    /\ pc[h] \in {"idle", "sending"} /\ realm[h].stage = "Writing"
    /\ latest < MaxVersion
    /\ spared # {}
    /\ spared \subseteq {n \in Suppressed : notifier[n].realm = h}
    /\ notifier' = [n \in Notifiers |->
          IF n \in spared THEN [notifier[n] EXCEPT !.skipNext = TRUE]
          ELSE notifier[n]]
    /\ package' = [package EXCEPT ![h].set = spared]
    /\ pc' = [pc EXCEPT ![h] = IF @ = "idle" THEN "commit" ELSE "sendingCommit"]
    /\ UNCHANGED <<fileVars, realm, jumped, coordVars, worker, wake, signal>>

AfterCommit(h) ==
    /\ pc' = [pc EXCEPT ![h] = CASE @ = "commit" -> "idle"
                                [] @ = "sendingCommit" -> "sending"
                                [] OTHER -> @]
    /\ package' = [package EXCEPT ![h].set = {}]

\* Mutant of CommitSkips: no skip version is set.
CommitSkipsNever(h) == UNCHANGED skip

\* The version is to be handed over on its own when the handle has notifiers.
CommitSkips(h) ==
    skip' = IF \E n \in m_notifiers : notifier[n].realm = h
            THEN latest + 1 ELSE skip

\* commit_transaction and commit_write, at once or after the callbacks to
\* spare have been marked.  A write begun in a callback did not wait for the
\* notifiers, so its version may take the place of a skip version that is yet
\* to be used (history: what the callbacks spared for that one then miss
\* counts as asked for).
commit_transaction(h) ==
    /\ pc[h] \in {"idle", "sending", "commit", "sendingCommit"}
    /\ realm[h].stage = "Writing" /\ latest < MaxVersion
    /\ latest' = latest + 1 /\ writer' = NoHandle
    /\ realm' = [realm EXCEPT ![h] = [stage |-> "Reading", ver |-> latest']]
    /\ CommitSkips(h)
    /\ notifier' = [n \in Notifiers |->
          IF pc[h] \in {"commit", "sendingCommit"} /\ n \in package[h].set
             /\ notifier[n].realm = h
          THEN [notifier[n] EXCEPT !.asked = @ \cup {latest'}]
          ELSE IF jumped[h] /\ notifier[n].skipNext
          THEN [notifier[n] EXCEPT !.asked =
                   @ \cup (notifier[n].ver + 1 .. latest')]
          ELSE notifier[n]]
    /\ AfterCommit(h)
    /\ wake' = TRUE
    /\ UNCHANGED <<jumped, advancer, helper, error, worker, signal>>

\* The commit throws: the transaction is still open, and the application may
\* cancel it or try again.  The callbacks stay marked (history: whatever is
\* committed next counts as asked for).
CommitFails(h) ==
    /\ CommitMayFail
    /\ pc[h] \in {"commit", "sendingCommit"}
    /\ notifier' = [n \in Notifiers |->
          IF n \in package[h].set /\ notifier[n].realm = h
          THEN [notifier[n] EXCEPT !.asked = @ \cup (latest + 1 .. MaxVersion)]
          ELSE notifier[n]]
    /\ AfterCommit(h)
    /\ UNCHANGED <<fileVars, realm, jumped, coordVars, worker, wake, signal>>

cancel_transaction(h) ==
    /\ pc[h] \in {"idle", "sending"} /\ realm[h].stage = "Writing"
    /\ writer' = NoHandle
    /\ realm' = [realm EXCEPT ![h].stage = "Reading"]
    /\ UNCHANGED <<latest, pc, package, jumped, notifier, coordVars, worker,
                   wake, signal>>

\* invalidate: a write transaction is cancelled, the read transaction ends.
invalidate(h) ==
    /\ h \in Invalidated
    /\ pc[h] = "idle" /\ realm[h].stage # "Ready"
    /\ realm' = [realm EXCEPT ![h].stage = "Ready"]
    /\ writer' = IF writer = h THEN NoHandle ELSE writer
    /\ UNCHANGED <<latest, pc, package, jumped, notifier, coordVars, worker,
                   wake, signal>>

\* refresh without a read transaction begins one at the last version.
RefreshOpens(h) ==
    /\ pc[h] = "idle" /\ realm[h].stage = "Ready"
    /\ Jump(h)
    /\ process_available_async(h, latest, TRUE)
    /\ UNCHANGED <<fileVars, coordVars, worker, wake, signal>>

\* refresh: advance_to_latest makes its package and picks its target...
refresh(h) ==
    /\ pc[h] = "idle" /\ realm[h].stage = "Reading"
    /\ Snapshot(h, latest)
    /\ pc' = [pc EXCEPT ![h] = "refresh"]
    /\ wake' = (wake \/ ~NotifiersReady(h, notifiers_for_realm(h), latest))
    /\ UNCHANGED <<fileVars, realm, jumped, notifier, coordVars, worker,
                   signal>>

\* ... and goes to the version the notifiers were handed over at.
advance_to_latest(h) ==
    LET set == Packable(package[h].set, h) IN
    /\ pc[h] = "refresh"
    /\ \/ /\ package[h].error /\ DeliverError(h, package[h].set)
          /\ realm' = [realm EXCEPT ![h].ver = latest]
       \/ /\ ~package[h].error
          /\ NotifiersReady(h, package[h].set, package[h].target)
          /\ Deliver(h, set)
          /\ realm' = [realm EXCEPT ![h].ver =
                          IF set = {} THEN latest ELSE PackageVersion(set)]
    /\ UNCHANGED <<fileVars, jumped, coordVars, worker, wake, signal>>

\* Mutant of notify: the run loop's call returns in every case.
notifyNever(h) ==
    /\ signal[h] /\ pc[h] = "idle"
    /\ signal' = [signal EXCEPT ![h] = FALSE]
    /\ UNCHANGED <<fileVars, handleVars, notifier, coordVars, worker, wake>>

\* notify, called by the run loop; auto-refresh is on.
notify(h) ==
    /\ signal[h] /\ pc[h] = "idle"
    /\ signal' = [signal EXCEPT ![h] = FALSE]
    /\ \/ /\ realm[h].stage = "Writing"
          /\ UNCHANGED <<realm, pc, package, notifier>>
       \/ /\ realm[h].stage # "Writing"
          /\ IF realm[h].stage = "Reading" /\ realm[h].ver # latest
             THEN advance_to_ready(h)
             ELSE /\ process_available_async(h, realm[h].ver,
                                             realm[h].stage = "Reading")
                  /\ UNCHANGED realm
    /\ UNCHANGED <<fileVars, jumped, coordVars, worker, wake>>

\* Another process commits: it needs the write lock, and no mutex of ours.
ExternalCommit ==
    /\ OtherProcess
    /\ writer = NoHandle /\ latest < MaxVersion
    /\ latest' = latest + 1
    /\ wake' = TRUE
    /\ UNCHANGED <<writer, handleVars, notifier, coordVars, worker, signal>>

HandleStep(h) ==
    promote_to_write(h) \/ BeginDelivers(h) \/ CallbacksReturn(h)
       \/ advance_to_latest(h) \/ notify(h)
       \/ (pc[h] \in {"commit", "sendingCommit"} /\ commit_transaction(h))

Next ==
    \/ WorkerStep
    \/ ExternalCommit
    \/ \E n \in Notifiers : unregister(n) \/ \E h \in Handles :
                                                register_notifier(n, h)
    \/ \E h \in Handles :
          \/ HandleStep(h)
          \/ begin_transaction(h) \/ BeginInCallback(h)
          \/ \E spared \in SUBSET Notifiers :
                suppress_next_notification(h, spared)
          \/ commit_transaction(h) \/ CommitFails(h) \/ cancel_transaction(h)
          \/ read_group(h) \/ invalidate(h) \/ refresh(h) \/ RefreshOpens(h)

Spec == Init /\ [][Next]_vars

\* The worker thread and the threads of the handles keep running what they
\* have begun, and a run loop calls notify when it is signalled.
FairSpec == Spec /\ WF_vars(WorkerStep)
                 /\ \A h \in Handles : WF_vars(HandleStep(h))
-----------------------------------------------------------------------------
(***************************************************************************)
(* Properties                                                              *)
(***************************************************************************)

\* A handle that ends its read transaction and begins another, or that writes
\* inside a callback, goes to the last version without its notifiers; changes
\* handed over for an older version are then thrown away (advance_to_ready),
\* and those of its own commit may wait for the next commit of somebody.
Live(n) == is_alive(n) /\ notifier[n].initial /\ ~jumped[notifier[n].realm]

\* Nothing is lost and nothing is said twice: a callback that has been called
\* has heard of, or is yet to hear of, every commit up to the version its
\* notifier was handed over at, and of no commit both.  It takes the skip
\* version, the pinned version of new notifiers and the two handovers of
\* run_async_notifiers to fit together.
EveryCommitOnce ==
    \A n \in Notifiers : Live(n) =>
       LET pending == notifier[n].acc \cup notifier[n].todo
       IN  /\ notifier[n].told \cup pending = 1..notifier[n].ver
           /\ notifier[n].told \cap pending = {}

\* A notification is suppressed only for the commits it was suppressed for:
\* what add_changes drops are changes of commits that the application made
\* with this callback's token in withoutNotifying.  A commit that failed takes
\* the promise back, because it leaves the callbacks marked; so does a write
\* begun in a callback and committed before the skip version was used.
OnlyAskedCommitsAreDropped ==
    \A n \in Notifiers :
       Live(n) => notifier[n].dropped \subseteq notifier[n].asked

\* The assertions of pin_version, clean_up_dead_notifiers and
\* run_async_notifiers on the two helper shared groups and the skip version:
\* the advancer reads, at no later version than any new notifier's, exactly
\* while there are new notifiers; the helper reads exactly while there are
\* others; and a skip version lies between the helper's and the target.  And
\* the one of package_and_wait, which takes the version of a package from any
\* of its notifiers: all that have run were handed over at one version.
WorkerAssertions ==
    /\ \A n, m \in m_notifiers :
          notifier[n].hasRun /\ notifier[m].hasRun =>
             notifier[n].ver = notifier[m].ver
    /\ ~error =>
       /\ \A n \in m_new_notifiers : advancer \in 1..notifier[n].ver
       /\ m_new_notifiers = {} => advancer \in {Unopened, Ready}
       /\ m_notifiers # {} <=> helper > 0
       /\ worker.at = "skip" =>
             worker.old # {} /\ worker.skip \in helper..worker.version

\* Whenever callbacks are called in a transaction, each has by then heard of
\* exactly the commits up to the version its handle is at: what the callback
\* is told describes what it sees.
CallbacksSeeTheirVersion ==
    [][\A h \in Handles :
          /\ pc[h] # "sending" /\ pc'[h] = "sending"
          /\ realm'[h].stage # "Ready" /\ ~jumped'[h]
          => \A n \in package'[h].set :
                notifier'[n].told = 1..realm'[h].ver]_vars

\* A thread that waits for the notifiers, in refresh or with the write lock in
\* its hands, does not wait for ever (wait_for_notifiers), unless a helper's
\* file could not be opened.
WaitsEnd ==
    \A h \in Handles :
       pc[h] \in {"await", "refresh"} ~> (pc[h] = "idle" \/ error)

\* Every commit is heard of: the callback is told, or goes, or its handle
\* gives its read transaction up or keeps writing, or an error is heard of.
CommitsAreHeardOf ==
    \A n \in Notifiers, v \in Commits :
       (latest >= v /\ is_alive(n)) ~>
          (\/ v \in notifier[n].told \/ ~is_alive(n) \/ error
           \/ realm[notifier[n].realm].stage # "Reading"
           \/ jumped[notifier[n].realm])
=============================================================================

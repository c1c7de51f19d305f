----------------------- MODULE RealmCoordinatorProofs -----------------------
(***************************************************************************)
(* Proofs about RealmCoordinator: the assertions of the worker hold, every *)
(* commit is told exactly once, at the version the callback sees, and only *)
(* commits that were asked to be are dropped, for any number of handles,   *)
(* notifiers and versions, whatever fails and whoever else commits.        *)
(*                                                                         *)
(* The properties speak of what was handed over.  What makes them          *)
(* inductive is what the worker has found out meanwhile (Running), which   *)
(* notifiers a waiting handle counts on (WaitRight) and how far a notifier *)
(* can be behind its handle (WriteRight, LagRight): at most the handle's   *)
(* own last commit.                                                        *)
(***************************************************************************)
EXTENDS RealmCoordinator, TLAPS

\* The worker has unlocked: it works on its copies of the lists.
Running == worker.at \in {"skip", "skipped", "run", "ran"}

\* The notifier is alive, and its handle was not moved past its notifiers.
Calm(n) == is_alive(n) /\ ~jumped[notifier[n].realm]

\* The lists, and how far a notifier has come.
ListsRight ==
    \A n \in Notifiers :
       /\ is_alive(n) => notifier[n].list # "none"
       /\ notifier[n].list = "none" => notifier[n] = NewNotifier
       /\ notifier[n].list # "none" => notifier[n].ver \in 1..latest
       /\ notifier[n].hasRun => notifier[n].list = "main"
       /\ notifier[n].initial => notifier[n].hasRun

\* The helpers' files are opened before anything runs, or never.
OpeningRight ==
    /\ helper = Unopened => \A n \in Notifiers : ~notifier[n].hasRun
    /\ helper # Unopened => advancer # Unopened /\ ~error

\* The worker's copies of the lists, and what it has found out for them.
RunningRight ==
    Running =>
       /\ helper \in 1..worker.version /\ worker.version <= latest
       /\ m_notifiers = worker.old \cup worker.new
       /\ worker.old \cap worker.new = {}
       /\ \A n \in worker.new : ~notifier[n].hasRun
       /\ \A n \in worker.old :
             /\ notifier[n].hasRun /\ notifier[n].ver <= helper
             /\ worker.at \in {"skip", "run"} => notifier[n].ver = helper
             /\ is_alive(n) =>
                   notifier[n].change = notifier[n].ver + 1 .. helper

\* Between two runs everything found out was handed over.
RestingRight ==
    ~Running /\ ~error =>
       \A n \in m_notifiers :
          /\ notifier[n].hasRun /\ notifier[n].ver = helper
          /\ is_alive(n) => notifier[n].change = {}

\* A skip version is still ahead of the worker.
SkipRight ==
    ~error /\ skip # 0 =>
       /\ m_notifiers # {} /\ helper < skip /\ skip <= latest
       /\ Running => worker.version < skip

Of(h) == {n \in Notifiers : notifier[n].realm = h}

\* One handle at a time writes, at the last version; the place of a handle's
\* thread tells whether it does.
StageRight(h) ==
    /\ realm[h].stage = "Writing" <=> writer = h
    /\ realm[h].stage = "Writing" => realm[h].ver = latest
    /\ realm[h].ver <= latest
    /\ pc[h] \in {"promote", "refresh"} => realm[h].stage = "Reading"
    /\ pc[h] \in {"await", "commit", "sendingCommit"} =>
          realm[h].stage = "Writing"

\* A handle that waits counts on all its notifiers.
WaitRight(h) ==
    /\ pc[h] \in {"promote", "await", "refresh"} =>
          Of(h) \subseteq package[h].set
    /\ package[h].error => error
    /\ pc[h] = "await" => package[h].target = realm[h].ver

\* A handle begins a write when its notifiers have caught up and delivered.
WriteRight(h) ==
    realm[h].stage = "Writing" /\ pc[h] # "await" /\ ~jumped[h] /\ ~error =>
       \A n \in Of(h) : /\ notifier[n].hasRun /\ notifier[n].initial
                        /\ notifier[n].ver = latest /\ notifier[n].acc = {}

HandlesRight ==
    \A h \in Handles : StageRight(h) /\ WaitRight(h) /\ WriteRight(h)

\* A notifier is behind its handle by the handle's own commit at most, and has
\* then nothing to deliver.
LagRight(n) ==
    Live(n) =>
       LET h == notifier[n].realm IN
       /\ notifier[n].todo = {}
       /\ (/\ pc[h] # "await" /\ realm[h].stage # "Ready"
           /\ notifier[n].ver < realm[h].ver) =>
             notifier[n].ver = realm[h].ver - 1 /\ notifier[n].acc = {}

\* The version the worker hands the notifiers over at next.
NextHandover ==
    CASE worker.at = "skip" -> worker.skip
      [] worker.at = "skipped" -> helper
      [] worker.at \in {"run", "ran"} -> worker.version
      [] OTHER -> skip

\* What a marked callback will be spared was asked for: nothing was committed
\* yet, or what comes at the next handover was asked for, or everything was.
SparedRight(n) ==
    Calm(n) /\ ~error /\ notifier[n].skipNext =>
       LET h == notifier[n].realm IN
       /\ notifier[n].initial
       /\ \/ pc[h] \in {"commit", "sendingCommit"} /\ n \in package[h].set
          \/ /\ NextHandover # 0
             /\ notifier[n].ver + 1 .. NextHandover \subseteq notifier[n].asked
          \/ notifier[n].ver + 1 .. MaxVersion \subseteq notifier[n].asked

\* What EveryCommitOnce and OnlyAskedCommitsAreDropped say of one notifier.
ToldRight(n) ==
    Live(n) =>
       LET pending == notifier[n].acc \cup notifier[n].todo IN
       /\ notifier[n].told \cup pending = 1..notifier[n].ver
       /\ notifier[n].told \cap pending = {}
       /\ notifier[n].dropped \subseteq notifier[n].asked

NotifiersRight ==
    \A n \in Notifiers : LagRight(n) /\ SparedRight(n) /\ ToldRight(n)

\* The inductive invariant.
IInv ==
    /\ TypeOK
    /\ ListsRight
    /\ OpeningRight
    /\ RunningRight
    /\ RestingRight
    /\ SkipRight
    /\ WorkerAssertions
    /\ HandlesRight
    /\ NotifiersRight
-----------------------------------------------------------------------------
(* What becomes of one notifier *)

\* The types of a notifier's fields.
LEMMA FieldsAre ==
    ASSUME NEW n \in Notifier
    PROVE  /\ n.realm \in Handles \cup {NoHandle}
           /\ n.list \in {"none", "new", "main"}
           /\ n.ver \in 0..MaxVersion /\ n.hasRun \in BOOLEAN
           /\ n.change \subseteq Commits /\ n.acc \subseteq Commits
           /\ n.todo \subseteq Commits
           /\ n.initial \in BOOLEAN /\ n.skipNext \in BOOLEAN
           /\ n.told \subseteq Commits /\ n.asked \subseteq Commits
           /\ n.dropped \subseteq Commits
BY DEF Notifier

\* A notifier that does not exist yet, or no more.
LEMMA NewIs ==
    /\ NewNotifier \in Notifier
    /\ NewNotifier.realm = NoHandle /\ NewNotifier.list = "none"
    /\ NewNotifier.ver = 0 /\ ~NewNotifier.hasRun
    /\ ~NewNotifier.initial /\ ~NewNotifier.skipNext
    /\ NewNotifier.change = {} /\ NewNotifier.acc = {} /\ NewNotifier.todo = {}
BY CoordinatorAssumption DEF NewNotifier, Notifier

\* A handover: what run() found is added to what the callback is to hear, or
\* is dropped once when the callback was marked.
LEMMA HandIs ==
    ASSUME NEW n \in Notifier, NEW v \in 0..MaxVersion, NEW m,
           m = prepare_handover(n, v)
    PROVE  /\ m \in Notifier
           /\ m.realm = n.realm /\ m.list = n.list /\ m.ver = v
           /\ m.hasRun /\ m.change = {} /\ m.todo = n.todo
           /\ (m.initial <=> n.initial) /\ m.asked = n.asked /\ ~m.skipNext
           /\ n.skipNext => /\ m.acc = n.acc /\ m.told = n.told \cup n.change
                            /\ m.dropped = n.dropped \cup n.change
           /\ ~n.skipNext => /\ m.acc = n.acc \cup n.change /\ m.told = n.told
                             /\ m.dropped = n.dropped
<1>1. CASE n.skipNext
  <2>1. m = [n EXCEPT !.skipNext = FALSE, !.change = {},
                      !.told = n.told \cup n.change,
                      !.dropped = n.dropped \cup n.change,
                      !.ver = v, !.hasRun = TRUE]
    BY <1>1 DEF prepare_handover, add_changes, Notifier
  <2>2. m \in Notifier
    BY <2>1 DEF Notifier
  <2>3. /\ m.realm = n.realm /\ m.list = n.list /\ m.ver = v
        /\ m.hasRun /\ m.change = {} /\ m.todo = n.todo
        /\ (m.initial <=> n.initial) /\ m.asked = n.asked /\ ~m.skipNext
    BY <2>1 DEF Notifier
  <2>4. /\ m.acc = n.acc /\ m.told = n.told \cup n.change
        /\ m.dropped = n.dropped \cup n.change
    BY <2>1 DEF Notifier
  <2> QED
    BY <1>1, <2>2, <2>3, <2>4
<1>2. CASE ~n.skipNext
  <2>1. m = [n EXCEPT !.change = {}, !.acc = n.acc \cup n.change,
                      !.ver = v, !.hasRun = TRUE]
    BY <1>2 DEF prepare_handover, add_changes, Notifier
  <2>2. ~n.skipNext
    BY <1>2 DEF Notifier
  <2>3. m \in Notifier
    BY <2>1 DEF Notifier
  <2>4. /\ m.realm = n.realm /\ m.list = n.list /\ m.ver = v
        /\ m.hasRun /\ m.change = {} /\ m.todo = n.todo
        /\ (m.initial <=> n.initial) /\ m.asked = n.asked /\ ~m.skipNext
    BY <2>1, <2>2 DEF Notifier
  <2>5. m.acc = n.acc \cup n.change /\ m.told = n.told /\ m.dropped = n.dropped
    BY <2>1 DEF Notifier
  <2> QED
    BY <1>2, <2>3, <2>4, <2>5
<1> QED
  BY <1>1, <1>2

\* A delivery: the callback hears of all that was kept for it; the first call
\* stands for everything up to the version.
LEMMA TellIs ==
    ASSUME NEW n \in Notifier, NEW m, m = after_advance(package_for_delivery(n))
    PROVE  /\ m \in Notifier
           /\ m.realm = n.realm /\ m.list = n.list /\ m.ver = n.ver
           /\ (m.hasRun <=> n.hasRun) /\ m.change = n.change
           /\ (m.skipNext <=> n.skipNext) /\ m.asked = n.asked
           /\ m.initial /\ m.acc = {} /\ m.todo = {}
           /\ n.initial => m.told = n.told \cup n.acc /\ m.dropped = n.dropped
           /\ ~n.initial => m.told = 1..n.ver /\ m.dropped = {}
<1>1. CASE n.initial
  <2>1. n.initial
    BY <1>1 DEF Notifier
  <2>2. m = [n EXCEPT !.acc = {}, !.told = n.told \cup n.acc, !.todo = {}]
    BY <1>1 DEF after_advance, package_for_delivery, Notifier
  <2> QED
    BY <2>1, <2>2 DEF Notifier
<1>2. CASE ~n.initial
  <2>1. m = [n EXCEPT !.acc = {}, !.initial = TRUE, !.told = 1..n.ver,
                      !.todo = {}, !.dropped = {}]
    BY <1>2 DEF after_advance, package_for_delivery, Notifier
  <2>2. 1..n.ver \subseteq Commits
    BY CoordinatorAssumption DEF Notifier, Commits
  <2> QED
    BY <1>2, <2>1, <2>2 DEF Notifier
<1> QED
  BY <1>1, <1>2

\* Packaging without delivering.
LEMMA PackIs ==
    ASSUME NEW n \in Notifier, NEW m, m = package_for_delivery(n)
    PROVE  /\ m \in Notifier
           /\ m.realm = n.realm /\ m.list = n.list /\ m.ver = n.ver
           /\ (m.hasRun <=> n.hasRun) /\ m.change = n.change
           /\ (m.skipNext <=> n.skipNext) /\ m.asked = n.asked
           /\ (m.initial <=> n.initial) /\ m.acc = {} /\ m.todo = n.acc
           /\ m.told = n.told /\ m.dropped = n.dropped
BY DEF package_for_delivery, Notifier

\* An error removes the callback and leaves the notifier.
LEMMA ErrorIs ==
    ASSUME NEW n \in Notifier, NEW m, m = deliver_error(n)
    PROVE  /\ m \in Notifier
           /\ m.realm = n.realm /\ m.list = n.list /\ m.ver = n.ver
           /\ (m.hasRun <=> n.hasRun) /\ ~m.initial /\ ~m.skipNext
           /\ n = NewNotifier => m = n
BY NewIs DEF deliver_error, NewNotifier, Notifier
-----------------------------------------------------------------------------
(* Steps that leave the worker alone *)

\* The types of what a handle's thread and the worker have.
LEMMA StateIs ==
    ASSUME TypeOK
    PROVE  /\ latest \in Nat /\ 1 <= latest /\ latest <= MaxVersion
           /\ MaxVersion \in Nat
           /\ \A n \in Notifiers : notifier[n] \in Notifier
           /\ \A h \in Handles : realm[h].ver \in Nat /\ 1 <= realm[h].ver
           /\ helper \in Int /\ -1 <= helper /\ advancer \in Int
           /\ skip \in Nat /\ worker.version \in Nat /\ worker.skip \in Nat
           /\ worker.old \subseteq Notifiers /\ worker.new \subseteq Notifiers
           /\ NoHandle \notin Handles
BY CoordinatorAssumption DEF TypeOK, Versions, Unopened

\* What a step keeps that only changes what callbacks are to hear or heard, or
\* that a callback is there.
LessProgress ==
    \A n \in Notifiers :
       /\ notifier'[n].realm \in {notifier[n].realm, NoHandle}
       /\ notifier'[n].list = notifier[n].list
       /\ notifier'[n].ver = notifier[n].ver
       /\ notifier'[n].hasRun <=> notifier[n].hasRun
       /\ error \/ ~is_alive(n)' \/ notifier'[n].change = notifier[n].change
       /\ notifier'[n].initial => notifier[n].hasRun
       /\ notifier[n].list = "none" => notifier'[n] = notifier[n]

SameRealms == \A n \in Notifiers : notifier'[n].realm = notifier[n].realm

\* Then the worker's part of the invariant is kept.
LEMMA WorkerFrame ==
    ASSUME IInv, LessProgress, latest' \in Int, latest <= latest',
           UNCHANGED <<advancer, helper, error, worker>>
    PROVE  /\ ListsRight' /\ OpeningRight' /\ RunningRight' /\ RestingRight'
           /\ WorkerAssertions'
           /\ skip' = skip => SkipRight'
<1>1. TypeOK /\ ListsRight /\ OpeningRight /\ RunningRight /\ RestingRight
         /\ WorkerAssertions /\ SkipRight
  BY DEF IInv
<1>2. /\ m_notifiers' = m_notifiers /\ m_new_notifiers' = m_new_notifiers
      /\ m_notifiers \subseteq Notifiers /\ m_new_notifiers \subseteq Notifiers
      /\ \A n \in Notifiers : is_alive(n)' => is_alive(n)
  BY DEF LessProgress, m_notifiers, m_new_notifiers, is_alive
<1>3. ListsRight'
  <2> SUFFICES ASSUME NEW n \in Notifiers
               PROVE  /\ is_alive(n)' => notifier'[n].list # "none"
                      /\ notifier'[n].list = "none" =>
                            notifier'[n] = NewNotifier
                      /\ notifier'[n].list # "none" =>
                            notifier'[n].ver \in 1..latest'
                      /\ notifier'[n].hasRun => notifier'[n].list = "main"
                      /\ notifier'[n].initial => notifier'[n].hasRun
    BY DEF ListsRight
  <2>1. notifier'[n].list # "none" => notifier'[n].ver \in 1..latest'
    BY <1>1, StateIs DEF LessProgress, ListsRight
  <2> QED
    BY <1>1, <1>2, <2>1 DEF LessProgress, ListsRight
<1>4. OpeningRight'
  BY <1>1, <1>2 DEF LessProgress, OpeningRight
<1>5. RunningRight'
  <2>1. CASE ~Running
    BY <2>1 DEF Running, RunningRight
  <2>2. CASE Running
    <3>1. /\ helper \in 1..worker.version /\ worker.version <= latest
          /\ m_notifiers = worker.old \cup worker.new
          /\ worker.old \cap worker.new = {}
      BY <1>1, <2>2 DEF RunningRight
    <3>2. ~error
      BY <1>1, <1>2, <3>1, StateIs DEF OpeningRight, Unopened
    <3>3. worker'.version <= latest'
      BY <1>1, <3>1, StateIs
    <3>4. \A n \in worker.new : ~notifier'[n].hasRun
      BY <1>1, <2>2, StateIs DEF LessProgress, RunningRight
    <3>5. \A n \in worker.old :
             /\ notifier'[n].hasRun /\ notifier'[n].ver <= helper
             /\ worker.at \in {"skip", "run"} => notifier'[n].ver = helper
             /\ is_alive(n)' =>
                   notifier'[n].change = notifier'[n].ver + 1 .. helper
      BY <1>1, <1>2, <2>2, <3>2, StateIs DEF LessProgress, RunningRight
    <3> QED
      BY <1>2, <3>1, <3>3, <3>4, <3>5 DEF RunningRight
  <2> QED
    BY <2>1, <2>2
<1>6. RestingRight'
  BY <1>1, <1>2 DEF LessProgress, RestingRight, Running
<1>7. WorkerAssertions'
  BY <1>1, <1>2 DEF LessProgress, WorkerAssertions
<1>8. skip' = skip => SkipRight'
  BY <1>1, <1>2, StateIs DEF SkipRight, Running
<1> QED
  BY <1>3, <1>4, <1>5, <1>6, <1>7, <1>8
-----------------------------------------------------------------------------
(* Steps of one handle *)

\* A step that changes one handle and what its callbacks have heard keeps the
\* invariant when it keeps what that says of this handle and its notifiers.
LEMMA HandleFrame ==
    ASSUME IInv, TypeOK', LessProgress, SameRealms, NEW h \in Handles,
           UNCHANGED <<latest, coordVars, worker>>,
           \A k \in Handles : k # h =>
              /\ realm'[k] = realm[k] /\ pc'[k] = pc[k]
              /\ package'[k] = package[k] /\ jumped'[k] = jumped[k]
              /\ writer' = k <=> writer = k,
           \A n \in Notifiers :
              notifier[n].realm # h => notifier'[n] = notifier[n],
           StageRight(h)', WaitRight(h)', WriteRight(h)',
           \A n \in Of(h) : LagRight(n)' /\ SparedRight(n)' /\ ToldRight(n)'
    PROVE  IInv'
<1>1. /\ ListsRight' /\ OpeningRight' /\ RunningRight' /\ RestingRight'
      /\ WorkerAssertions' /\ SkipRight'
  BY WorkerFrame, StateIs DEF IInv, coordVars
<1>2. UNCHANGED <<error, helper, skip, worker, latest>>
  BY DEF coordVars
<1>3. \A k \in Handles : Of(k)' = Of(k)
  BY DEF Of, SameRealms
<1>4. ASSUME NEW k \in Handles, k # h
      PROVE  StageRight(k)' /\ WaitRight(k)' /\ WriteRight(k)'
  <2>1. StageRight(k) /\ WaitRight(k) /\ WriteRight(k)
    BY DEF IInv, HandlesRight
  <2>2. /\ realm'[k] = realm[k] /\ pc'[k] = pc[k]
        /\ package'[k] = package[k] /\ jumped'[k] = jumped[k]
        /\ writer' = k <=> writer = k
    BY <1>4
  <2>3. \A n \in Of(k) : notifier'[n] = notifier[n]
    BY <1>4 DEF Of
  <2>4. StageRight(k)'
    BY <1>2, <2>1, <2>2 DEF StageRight
  <2>5. WaitRight(k)'
    BY <1>2, <1>3, <2>1, <2>2 DEF WaitRight
  <2>6. WriteRight(k)'
    BY <1>2, <1>3, <2>1, <2>2, <2>3 DEF WriteRight
  <2> QED
    BY <2>4, <2>5, <2>6
<1>5. ASSUME NEW n \in Notifiers, notifier[n].realm # h
      PROVE  LagRight(n)' /\ SparedRight(n)' /\ ToldRight(n)'
  <2> DEFINE k == notifier[n].realm
  <2>1. LagRight(n) /\ SparedRight(n) /\ ToldRight(n)
    BY DEF IInv, NotifiersRight
  <2>2. notifier'[n] = notifier[n]
    BY <1>5
  <2>3. CASE ~is_alive(n)
    BY <2>2, <2>3 DEF LagRight, SparedRight, ToldRight, Live, Calm, is_alive
  <2>4. CASE is_alive(n)
    <3>1. k \in Handles /\ k # h
      BY <1>5, <2>4, StateIs, FieldsAre DEF IInv, is_alive
    <3>2. /\ realm'[k] = realm[k] /\ pc'[k] = pc[k]
          /\ package'[k] = package[k] /\ jumped'[k] = jumped[k]
      BY <3>1
    <3>3. Live(n)' = Live(n) /\ Calm(n)' = Calm(n)
      BY <2>2, <3>2 DEF Live, Calm, is_alive
    <3>4. LagRight(n)'
      BY <2>1, <2>2, <3>2, <3>3 DEF LagRight
    <3>5. NextHandover' = NextHandover
      BY <1>2 DEF NextHandover
    <3>6. SparedRight(n)'
      BY <1>2, <2>1, <2>2, <3>2, <3>3, <3>5 DEF SparedRight
    <3>7. ToldRight(n)'
      BY <2>1, <2>2, <3>3 DEF ToldRight
    <3> QED
      BY <3>4, <3>6, <3>7
  <2> QED
    BY <2>3, <2>4
<1>6. HandlesRight'
  BY <1>4 DEF HandlesRight
<1>7. NotifiersRight'
  BY <1>5 DEF NotifiersRight, Of
<1> QED
  BY <1>1, <1>6, <1>7 DEF IInv

\* A notifier to which nothing happens stays right, unless its handle moves
\* ahead of it.
LEMMA QuietOf ==
    ASSUME IInv, TypeOK', NEW h \in Handles, NEW n \in Of(h),
           notifier'[n] = notifier[n],
           UNCHANGED <<coordVars, worker>>,
           jumped[h] => jumped'[h],
           pc[h] \in {"commit", "sendingCommit"} =>
              pc'[h] = pc[h] /\ package'[h].set = package[h].set,
           jumped'[h] \/ pc'[h] = "await" \/ realm'[h].stage = "Ready"
              \/ realm'[h].ver <= notifier[n].ver \/ ~notifier[n].initial
              \/ /\ pc[h] # "await" /\ realm[h].stage # "Ready"
                 /\ realm'[h].ver = realm[h].ver
    PROVE  LagRight(n)' /\ SparedRight(n)' /\ ToldRight(n)'
<1>1. n \in Notifiers /\ notifier[n].realm = h /\ notifier'[n].realm = h
  BY DEF Of
<1>2. LagRight(n) /\ SparedRight(n) /\ ToldRight(n) /\ TypeOK
  BY <1>1 DEF IInv, NotifiersRight
<1>3. UNCHANGED <<error, helper, skip, worker>> /\ NextHandover' = NextHandover
  BY DEF coordVars, NextHandover
<1>4. /\ Live(n)' => Live(n) /\ ~jumped'[h]
      /\ Calm(n)' => Calm(n)
  BY <1>1 DEF Live, Calm, is_alive
<1>5. ToldRight(n)'
  BY <1>2, <1>4 DEF ToldRight
<1>6. SparedRight(n)'
  BY <1>1, <1>2, <1>3, <1>4 DEF SparedRight
<1>7. LagRight(n)'
  <2> SUFFICES ASSUME Live(n)'
               PROVE  /\ notifier[n].todo = {}
                      /\ (/\ pc'[h] # "await" /\ realm'[h].stage # "Ready"
                          /\ notifier[n].ver < realm'[h].ver) =>
                            /\ notifier[n].ver = realm'[h].ver - 1
                            /\ notifier[n].acc = {}
    BY <1>1 DEF LagRight
  <2>1. notifier[n].ver \in Int
    BY <1>1, <1>2, StateIs, FieldsAre
  <2>2. notifier[n].todo = {}
    BY <1>2, <1>4 DEF LagRight
  <2>3. ASSUME pc'[h] # "await", realm'[h].stage # "Ready",
               notifier[n].ver < realm'[h].ver
        PROVE  notifier[n].ver = realm'[h].ver - 1 /\ notifier[n].acc = {}
    <3>1. ~jumped'[h] /\ Live(n) /\ notifier[n].initial
      BY <1>4 DEF Live
    <3>2. CASE realm'[h].ver <= notifier[n].ver
      <4>1. \A x, y \in Int : x <= y => ~(y < x)
        OBVIOUS
      <4>2. realm'[h].ver \in Int
        BY CoordinatorAssumption DEF TypeOK, Versions
      <4> QED
        BY <2>1, <2>3, <3>2, <4>1, <4>2
    <3>3. CASE /\ pc[h] # "await" /\ realm[h].stage # "Ready"
               /\ realm'[h].ver = realm[h].ver
      BY <1>1, <1>2, <2>3, <3>1, <3>3 DEF LagRight
    <3> QED
      BY <2>3, <3>1, <3>2, <3>3
  <2> QED
    BY <2>2, <2>3
<1> QED
  BY <1>5, <1>6, <1>7

\* What a step makes of the records of one handle.
Becomes(h, r, place, pack, j) ==
    /\ realm' = [realm EXCEPT ![h] = r]
    /\ pc' = [pc EXCEPT ![h] = place]
    /\ package' = [package EXCEPT ![h] = pack]
    /\ jumped' = [jumped EXCEPT ![h] = j]

\* They have the right types.
RecordsTyped(r, place, pack, j) ==
    /\ r \in [stage : {"Ready", "Reading", "Writing"}, ver : Versions]
    /\ place \in {"idle", "promote", "await", "refresh", "sending", "commit",
                  "sendingCommit"}
    /\ pack \in [set : SUBSET Notifiers, error : BOOLEAN,
                 target : 0..MaxVersion]
    /\ j \in BOOLEAN

\* They agree with each other and with the write lock, as StageRight and
\* WaitRight say.
RecordsFit(h, r, place, pack) ==
    /\ r.stage = "Writing" <=> writer' = h
    /\ r.stage = "Writing" => r.ver = latest
    /\ r.ver <= latest
    /\ place \in {"promote", "refresh"} => r.stage = "Reading"
    /\ place \in {"await", "commit", "sendingCommit"} => r.stage = "Writing"
    /\ place \in {"promote", "await", "refresh"} => Of(h) \subseteq pack.set
    /\ pack.error => error
    /\ place = "await" => pack.target = r.ver

\* The notifiers of the handle are as right as before when they stay as they
\* are: nothing is committed, and the handle does not move ahead of them.
RecordsQuiet(h, r, place, pack, j) ==
    /\ r.stage = "Writing" /\ place # "await" /\ ~j /\ ~error =>
          \A n \in Of(h) : /\ notifier[n].hasRun /\ notifier[n].initial
                           /\ notifier[n].ver = latest /\ notifier[n].acc = {}
    /\ jumped[h] => j
    /\ pc[h] \in {"commit", "sendingCommit"} =>
          place = pc[h] /\ pack.set = package[h].set
    /\ \/ j
       \/ Of(h) = {}
       \/ place = "await"
       \/ r.stage = "Ready"
       \/ /\ pc[h] # "await" /\ realm[h].stage # "Ready"
          /\ r.ver = realm[h].ver

\* What the threads share is not disturbed by a step of h.
LockRight(h) ==
    /\ writer' \in Handles \cup {NoHandle}
    /\ \A k \in Handles : k # h => (writer' = k <=> writer = k)
    /\ wake' \in BOOLEAN /\ signal' \in [Handles -> BOOLEAN]

\* The types after a step that changes the records of one handle.
LEMMA TypeFrame ==
    ASSUME TypeOK, NEW h \in Handles,
           NEW r, NEW place, NEW pack, NEW j,
           RecordsTyped(r, place, pack, j),
           Becomes(h, r, place, pack, j),
           LockRight(h), latest' \in Versions,
           notifier' \in [Notifiers -> Notifier], skip' \in 0..MaxVersion,
           UNCHANGED <<advancer, helper, error, worker>>
    PROVE  /\ TypeOK'
           /\ realm'[h] = r /\ pc'[h] = place /\ package'[h] = pack
           /\ jumped'[h] = j
           /\ \A k \in Handles : k # h =>
                 /\ realm'[k] = realm[k] /\ pc'[k] = pc[k]
                 /\ package'[k] = package[k] /\ jumped'[k] = jumped[k]
                 /\ writer' = k <=> writer = k
<1>1. /\ realm' \in [Handles -> [stage : {"Ready", "Reading", "Writing"},
                                 ver : Versions]]
      /\ realm'[h] = r /\ \A k \in Handles : k # h => realm'[k] = realm[k]
  BY DEF TypeOK, Becomes, RecordsTyped
<1>2. /\ pc' \in [Handles -> {"idle", "promote", "await", "refresh", "sending",
                              "commit", "sendingCommit"}]
      /\ pc'[h] = place /\ \A k \in Handles : k # h => pc'[k] = pc[k]
  BY DEF TypeOK, Becomes, RecordsTyped
<1>3. /\ package' \in [Handles -> [set : SUBSET Notifiers, error : BOOLEAN,
                                   target : 0..MaxVersion]]
      /\ package'[h] = pack
      /\ \A k \in Handles : k # h => package'[k] = package[k]
  BY DEF TypeOK, Becomes, RecordsTyped
<1>4. /\ jumped' \in [Handles -> BOOLEAN]
      /\ jumped'[h] = j /\ \A k \in Handles : k # h => jumped'[k] = jumped[k]
  BY DEF TypeOK, Becomes, RecordsTyped
<1>5. TypeOK'
  BY <1>1, <1>2, <1>3, <1>4 DEF TypeOK, LockRight
<1> QED
  BY <1>1, <1>2, <1>3, <1>4, <1>5 DEF LockRight

\* What is left as it is becomes what it is.
LEMMA SameIs ==
    ASSUME TypeOK, NEW h \in Handles
    PROVE  /\ realm = [realm EXCEPT ![h] = realm[h]]
           /\ pc = [pc EXCEPT ![h] = pc[h]]
           /\ package = [package EXCEPT ![h] = package[h]]
           /\ jumped = [jumped EXCEPT ![h] = jumped[h]]
           /\ RecordsTyped(realm[h], pc[h], package[h], jumped[h])
BY DEF TypeOK, RecordsTyped

\* A step of a handle that nobody else notices, and its notifiers neither.
LEMMA QuietStep ==
    ASSUME IInv, NEW h \in Handles, NEW r, NEW place, NEW pack, NEW j,
           RecordsTyped(r, place, pack, j),
           Becomes(h, r, place, pack, j),
           RecordsFit(h, r, place, pack),
           RecordsQuiet(h, r, place, pack, j),
           LockRight(h),
           UNCHANGED <<latest, notifier, coordVars, worker>>
    PROVE  IInv'
<1>1. TypeOK /\ UNCHANGED <<advancer, helper, skip, error>>
  BY DEF IInv, coordVars
<1>2. latest' \in Versions /\ notifier' \in [Notifiers -> Notifier]
         /\ skip' \in 0..MaxVersion
  BY <1>1 DEF TypeOK
<1>3. /\ TypeOK'
      /\ realm'[h] = r /\ pc'[h] = place /\ package'[h] = pack
      /\ jumped'[h] = j
      /\ \A k \in Handles : k # h =>
            /\ realm'[k] = realm[k] /\ pc'[k] = pc[k]
            /\ package'[k] = package[k] /\ jumped'[k] = jumped[k]
            /\ writer' = k <=> writer = k
  BY <1>1, <1>2, TypeFrame
<1>4. LessProgress /\ SameRealms
  BY DEF LessProgress, SameRealms, IInv, ListsRight
<1>5. Of(h)' = Of(h)
  BY DEF Of
<1>6. StageRight(h)'
  BY <1>3 DEF StageRight, RecordsFit
<1>7. WaitRight(h)'
  BY <1>1, <1>3, <1>5 DEF WaitRight, RecordsFit
<1>8. WriteRight(h)'
  BY <1>1, <1>3, <1>5 DEF WriteRight, RecordsQuiet
<1>9. \A n \in Of(h) : LagRight(n)' /\ SparedRight(n)' /\ ToldRight(n)'
  BY <1>3, QuietOf DEF RecordsQuiet
<1> QED
  BY <1>3, <1>4, <1>6, <1>7, <1>8, <1>9, HandleFrame

\* What the invariant says of a handle.
LEMMA HandleIs ==
    ASSUME IInv, NEW h \in Handles
    PROVE  /\ TypeOK /\ StageRight(h) /\ WaitRight(h) /\ WriteRight(h)
           /\ latest \in Versions /\ latest \in Int
           /\ realm[h].stage \in {"Ready", "Reading", "Writing"}
           /\ realm[h].ver \in Versions /\ realm[h].ver \in Int
           /\ package[h].set \subseteq Notifiers
           /\ package[h].error \in BOOLEAN
           /\ package[h].target \in 0..MaxVersion
           /\ Of(h) \subseteq Notifiers
           /\ writer \in Handles \cup {NoHandle} /\ NoHandle # h
           /\ wake \in BOOLEAN /\ signal \in [Handles -> BOOLEAN]
           /\ error \in BOOLEAN
BY CoordinatorAssumption DEF IInv, HandlesRight, TypeOK, Versions, Of

\* A transaction at the last version.
Latest(stage) == [stage |-> stage, ver |-> latest]

\* Its types.
LEMMA LatestIs ==
    ASSUME TypeOK, NEW stage \in {"Ready", "Reading", "Writing"}
    PROVE  /\ Latest(stage) \in [stage : {"Ready", "Reading", "Writing"},
                                 ver : Versions]
           /\ Latest(stage).stage = stage /\ Latest(stage).ver = latest
           /\ Latest(stage).ver <= latest
BY CoordinatorAssumption DEF Latest, TypeOK, Versions

\* A handle that goes to the last version counts as jumped when it has
\* notifiers.
LEMMA JumpIs ==
    ASSUME IInv, NEW h \in Handles, Jump(h)
    PROVE  \E j \in BOOLEAN :
              /\ realm' = [realm EXCEPT ![h] = Latest("Reading")]
              /\ jumped' = [jumped EXCEPT ![h] = j]
              /\ jumped[h] => j
              /\ j \/ Of(h) = {}
<1>1. PICK j : j = (jumped[h] \/ \E n \in Notifiers : notifier[n].realm = h)
  OBVIOUS
<1>2. jumped' = [jumped EXCEPT ![h] = j]
  BY <1>1 DEF Jump
<1>3. realm' = [realm EXCEPT ![h] = Latest("Reading")]
  BY DEF Jump, Latest
<1>4. j \in BOOLEAN /\ (jumped[h] => j)
  BY <1>1
<1>5. j \/ Of(h) = {}
  BY <1>1 DEF Of
<1> QED
  BY <1>2, <1>3, <1>4, <1>5

\* The use of a handle after an invalidate.
LEMMA ReadKeeps ==
    ASSUME IInv, NEW h \in Handles, read_group(h)
    PROVE  IInv'
<1>1. /\ pc[h] = "idle" /\ realm[h].stage = "Ready" /\ Jump(h)
      /\ UNCHANGED <<latest, writer, pc, package, notifier, coordVars, worker,
                     wake, signal>>
  BY DEF read_group, fileVars
<1>2. PICK j \in BOOLEAN : /\ realm' = [realm EXCEPT ![h] = Latest("Reading")]
                           /\ jumped' = [jumped EXCEPT ![h] = j]
                           /\ jumped[h] => j
                           /\ j \/ Of(h) = {}
  BY <1>1, JumpIs
<1>3. Becomes(h, Latest("Reading"), pc[h], package[h], j)
  BY <1>1, <1>2, HandleIs, SameIs DEF Becomes
<1>4. RecordsTyped(Latest("Reading"), pc[h], package[h], j)
  BY <1>2, HandleIs, SameIs, LatestIs DEF RecordsTyped
<1>5. RecordsFit(h, Latest("Reading"), pc[h], package[h])
  BY <1>1, HandleIs, LatestIs DEF RecordsFit, StageRight, WaitRight
<1>6. RecordsQuiet(h, Latest("Reading"), pc[h], package[h], j)
  BY <1>1, <1>2, HandleIs, LatestIs DEF RecordsQuiet
<1>7. LockRight(h)
  BY <1>1, HandleIs DEF LockRight
<1> QED
  BY <1>1, <1>3, <1>4, <1>5, <1>6, <1>7, QuietStep

\* The registered notifiers of a handle are all its notifiers.
LEMMA OfIs ==
    ASSUME IInv, NEW h \in Handles
    PROVE  notifiers_for_realm(h) = Of(h)
<1>1. ListsRight /\ TypeOK /\ h # NoHandle
  BY CoordinatorAssumption DEF IInv
<1>2. \A n \in Notifiers : notifier[n].list \in {"none", "new", "main"}
  BY <1>1, StateIs, FieldsAre
<1> QED
  BY <1>1, <1>2 DEF notifiers_for_realm, m_notifiers, m_new_notifiers, Of,
                    ListsRight, is_alive

\* The wait for the write lock begins, with a package of all notifiers.
LEMMA BeginKeeps ==
    ASSUME IInv, NEW h \in Handles, begin_transaction(h)
    PROVE  IInv'
<1> DEFINE pack == [set |-> notifiers_for_realm(h), error |-> error,
                    target |-> 0]
<1>1. /\ pc[h] = "idle" /\ realm[h].stage # "Writing"
      /\ package' = [package EXCEPT ![h] = pack]
      /\ pc' = [pc EXCEPT ![h] = "promote"]
      /\ UNCHANGED <<latest, writer, notifier, coordVars, worker, wake, signal>>
  BY DEF begin_transaction, fileVars, Snapshot
<1>2. /\ pack \in [set : SUBSET Notifiers, error : BOOLEAN,
                   target : 0..MaxVersion]
      /\ pack.set = Of(h) /\ pack.error = error
  BY CoordinatorAssumption, HandleIs, OfIs
<1> HIDE DEF pack
<1>3. LockRight(h) /\ writer # h
  BY <1>1, HandleIs DEF LockRight, StageRight
<1>4. CASE realm[h].stage = "Ready"
  <2>1. Jump(h)
    BY <1>4 DEF begin_transaction
  <2>2. PICK j \in BOOLEAN : /\ realm' = [realm EXCEPT ![h] = Latest("Reading")]
                             /\ jumped' = [jumped EXCEPT ![h] = j]
                             /\ jumped[h] => j
                             /\ j \/ Of(h) = {}
    BY <2>1, JumpIs
  <2>3. Becomes(h, Latest("Reading"), "promote", pack, j)
    BY <1>1, <2>2 DEF Becomes
  <2>4. RecordsTyped(Latest("Reading"), "promote", pack, j)
    BY <1>2, HandleIs, LatestIs DEF RecordsTyped
  <2>5. RecordsFit(h, Latest("Reading"), "promote", pack)
    BY <1>1, <1>2, <1>3, HandleIs, LatestIs DEF RecordsFit
  <2>6. RecordsQuiet(h, Latest("Reading"), "promote", pack, j)
    BY <1>1, <2>2, HandleIs, LatestIs DEF RecordsQuiet
  <2> QED
    BY <1>1, <1>3, <2>3, <2>4, <2>5, <2>6, QuietStep
<1>5. CASE realm[h].stage # "Ready"
  <2>1. UNCHANGED <<realm, jumped>>
    BY <1>5 DEF begin_transaction
  <2>2. Becomes(h, realm[h], "promote", pack, jumped[h])
    BY <1>1, <2>1, HandleIs, SameIs DEF Becomes
  <2>3. RecordsTyped(realm[h], "promote", pack, jumped[h])
    BY <1>2, HandleIs, SameIs DEF RecordsTyped
  <2>4. RecordsFit(h, realm[h], "promote", pack)
    BY <1>1, <1>2, <1>3, <1>5, HandleIs DEF RecordsFit, StageRight
  <2>5. RecordsQuiet(h, realm[h], "promote", pack, jumped[h])
    BY <1>1, <1>5 DEF RecordsQuiet
  <2> QED
    BY <1>1, <1>3, <2>2, <2>3, <2>4, <2>5, QuietStep
<1> QED
  BY <1>4, <1>5

\* The write lock is granted.
LEMMA PromoteKeeps ==
    ASSUME IInv, NEW h \in Handles, promote_to_write(h)
    PROVE  IInv'
<1> DEFINE pack == [package[h] EXCEPT !.target = latest]
<1>1. /\ pc[h] = "promote" /\ writer = NoHandle /\ writer' = h
      /\ realm' = [realm EXCEPT ![h] = Latest("Writing")]
      /\ package' = [package EXCEPT ![h] = pack]
      /\ pc' = [pc EXCEPT ![h] = "await"]
      /\ UNCHANGED <<latest, jumped, notifier, coordVars, worker, signal>>
  BY DEF promote_to_write, Latest
<1>2. wake' \in BOOLEAN
  BY HandleIs DEF promote_to_write
<1>3. /\ latest \in 0..MaxVersion
      /\ package[h] \in [set : SUBSET Notifiers, error : BOOLEAN,
                         target : 0..MaxVersion]
  BY HandleIs, CoordinatorAssumption DEF Versions, TypeOK
<1>4. /\ pack \in [set : SUBSET Notifiers, error : BOOLEAN,
                   target : 0..MaxVersion]
      /\ pack.set = package[h].set /\ pack.error = package[h].error
      /\ pack.target = latest
  BY <1>3
<1> HIDE DEF pack
<1>5. Becomes(h, Latest("Writing"), "await", pack, jumped[h])
  BY <1>1, HandleIs, SameIs DEF Becomes
<1>6. RecordsTyped(Latest("Writing"), "await", pack, jumped[h])
  BY <1>4, HandleIs, SameIs, LatestIs DEF RecordsTyped
<1>7. RecordsFit(h, Latest("Writing"), "await", pack)
  BY <1>1, <1>4, HandleIs, LatestIs DEF RecordsFit, WaitRight
<1>8. RecordsQuiet(h, Latest("Writing"), "await", pack, jumped[h])
  BY <1>1, HandleIs DEF RecordsQuiet
<1>9. LockRight(h)
  BY <1>1, <1>2, HandleIs DEF LockRight
<1> QED
  BY <1>1, <1>5, <1>6, <1>7, <1>8, <1>9, QuietStep

\* A write begins in a callback: the handle counts as jumped.
LEMMA BeginInCallbackKeeps ==
    ASSUME IInv, NEW h \in Handles, BeginInCallback(h)
    PROVE  IInv'
<1>1. /\ pc[h] = "sending" /\ writer = NoHandle /\ writer' = h
      /\ realm' = [realm EXCEPT ![h] = Latest("Writing")]
      /\ jumped' = [jumped EXCEPT ![h] = TRUE]
      /\ UNCHANGED <<latest, pc, package, notifier, coordVars, worker, wake,
                     signal>>
  BY DEF BeginInCallback, Latest
<1>2. Becomes(h, Latest("Writing"), pc[h], package[h], TRUE)
  BY <1>1, HandleIs, SameIs DEF Becomes
<1>3. RecordsTyped(Latest("Writing"), pc[h], package[h], TRUE)
  BY HandleIs, SameIs, LatestIs DEF RecordsTyped
<1>4. RecordsFit(h, Latest("Writing"), pc[h], package[h])
  BY <1>1, HandleIs, LatestIs DEF RecordsFit, WaitRight
<1>5. RecordsQuiet(h, Latest("Writing"), pc[h], package[h], TRUE)
  BY <1>1 DEF RecordsQuiet
<1>6. LockRight(h)
  BY <1>1, HandleIs DEF LockRight
<1> QED
  BY <1>1, <1>2, <1>3, <1>4, <1>5, <1>6, QuietStep

\* The callbacks have returned.
LEMMA ReturnKeeps ==
    ASSUME IInv, NEW h \in Handles, CallbacksReturn(h)
    PROVE  IInv'
<1> DEFINE pack == [package[h] EXCEPT !.set = {}]
<1>1. /\ pc[h] = "sending" /\ pc' = [pc EXCEPT ![h] = "idle"]
      /\ package' = [package EXCEPT ![h] = pack]
      /\ UNCHANGED <<latest, writer, realm, jumped, notifier, coordVars, worker,
                     wake, signal>>
  BY DEF CallbacksReturn, fileVars
<1>2. /\ pack \in [set : SUBSET Notifiers, error : BOOLEAN,
                   target : 0..MaxVersion]
      /\ pack.error = package[h].error
  BY HandleIs DEF TypeOK
<1> HIDE DEF pack
<1>3. Becomes(h, realm[h], "idle", pack, jumped[h])
  BY <1>1, HandleIs, SameIs DEF Becomes
<1>4. RecordsTyped(realm[h], "idle", pack, jumped[h])
  BY <1>2, HandleIs, SameIs DEF RecordsTyped
<1>5. RecordsFit(h, realm[h], "idle", pack)
  BY <1>1, <1>2, HandleIs DEF RecordsFit, StageRight, WaitRight
<1>6. RecordsQuiet(h, realm[h], "idle", pack, jumped[h])
  BY <1>1, HandleIs DEF RecordsQuiet, WriteRight
<1>7. LockRight(h)
  BY <1>1, HandleIs DEF LockRight
<1> QED
  BY <1>1, <1>3, <1>4, <1>5, <1>6, <1>7, QuietStep

\* A write is given up.
LEMMA CancelKeeps ==
    ASSUME IInv, NEW h \in Handles, cancel_transaction(h)
    PROVE  IInv'
<1> DEFINE r == [realm[h] EXCEPT !.stage = "Reading"]
<1>1. /\ pc[h] \in {"idle", "sending"} /\ realm[h].stage = "Writing"
      /\ writer' = NoHandle /\ realm' = [realm EXCEPT ![h] = r]
      /\ UNCHANGED <<latest, pc, package, jumped, notifier, coordVars, worker,
                     wake, signal>>
  BY DEF cancel_transaction, TypeOK, IInv
<1>2. /\ r \in [stage : {"Ready", "Reading", "Writing"}, ver : Versions]
      /\ r.stage = "Reading" /\ r.ver = realm[h].ver
  BY HandleIs DEF TypeOK
<1> HIDE DEF r
<1>3. Becomes(h, r, pc[h], package[h], jumped[h])
  BY <1>1, HandleIs, SameIs DEF Becomes
<1>4. RecordsTyped(r, pc[h], package[h], jumped[h])
  BY <1>2, HandleIs, SameIs DEF RecordsTyped
<1>5. RecordsFit(h, r, pc[h], package[h])
  BY <1>1, <1>2, HandleIs DEF RecordsFit, StageRight, WaitRight
<1>6. RecordsQuiet(h, r, pc[h], package[h], jumped[h])
  BY <1>1, <1>2 DEF RecordsQuiet
<1>7. LockRight(h)
  BY <1>1, HandleIs DEF LockRight, StageRight
<1> QED
  BY <1>1, <1>3, <1>4, <1>5, <1>6, <1>7, QuietStep

\* A transaction ends.
LEMMA InvalidateKeeps ==
    ASSUME IInv, NEW h \in Handles, invalidate(h)
    PROVE  IInv'
<1> DEFINE r == [realm[h] EXCEPT !.stage = "Ready"]
<1>1. /\ pc[h] = "idle" /\ realm' = [realm EXCEPT ![h] = r]
      /\ writer' = IF writer = h THEN NoHandle ELSE writer
      /\ UNCHANGED <<latest, pc, package, jumped, notifier, coordVars, worker,
                     wake, signal>>
  BY DEF invalidate, TypeOK, IInv
<1>2. /\ r \in [stage : {"Ready", "Reading", "Writing"}, ver : Versions]
      /\ r.stage = "Ready" /\ r.ver = realm[h].ver
  BY HandleIs DEF TypeOK
<1> HIDE DEF r
<1>3. Becomes(h, r, pc[h], package[h], jumped[h])
  BY <1>1, HandleIs, SameIs DEF Becomes
<1>4. RecordsTyped(r, pc[h], package[h], jumped[h])
  BY <1>2, HandleIs, SameIs DEF RecordsTyped
<1>5. RecordsFit(h, r, pc[h], package[h])
  BY <1>1, <1>2, HandleIs DEF RecordsFit, StageRight, WaitRight
<1>6. RecordsQuiet(h, r, pc[h], package[h], jumped[h])
  BY <1>1, <1>2 DEF RecordsQuiet
<1>7. LockRight(h)
  BY <1>1, HandleIs DEF LockRight, StageRight
<1> QED
  BY <1>1, <1>3, <1>4, <1>5, <1>6, <1>7, QuietStep

\* The wait for the notifiers of a refresh begins.
LEMMA RefreshKeeps ==
    ASSUME IInv, NEW h \in Handles, refresh(h)
    PROVE  IInv'
<1> DEFINE pack == [set |-> notifiers_for_realm(h), error |-> error,
                    target |-> latest]
<1>1. /\ pc[h] = "idle" /\ realm[h].stage = "Reading"
      /\ package' = [package EXCEPT ![h] = pack]
      /\ pc' = [pc EXCEPT ![h] = "refresh"]
      /\ UNCHANGED <<latest, writer, realm, jumped, notifier, coordVars, worker,
                     signal>>
  BY DEF refresh, fileVars, Snapshot
<1>2. wake' \in BOOLEAN
  BY HandleIs DEF refresh
<1>3. /\ pack \in [set : SUBSET Notifiers, error : BOOLEAN,
                   target : 0..MaxVersion]
      /\ pack.set = Of(h) /\ pack.error = error
  BY CoordinatorAssumption, HandleIs, OfIs DEF Versions
<1> HIDE DEF pack
<1>4. Becomes(h, realm[h], "refresh", pack, jumped[h])
  BY <1>1, HandleIs, SameIs DEF Becomes
<1>5. RecordsTyped(realm[h], "refresh", pack, jumped[h])
  BY <1>3, HandleIs, SameIs DEF RecordsTyped
<1>6. RecordsFit(h, realm[h], "refresh", pack)
  BY <1>1, <1>3, HandleIs DEF RecordsFit, StageRight
<1>7. RecordsQuiet(h, realm[h], "refresh", pack, jumped[h])
  BY <1>1 DEF RecordsQuiet
<1>8. LockRight(h)
  BY <1>1, <1>2, HandleIs DEF LockRight
<1> QED
  BY <1>1, <1>4, <1>5, <1>6, <1>7, <1>8, QuietStep
-----------------------------------------------------------------------------
(* Deliveries *)

\* What the invariant says of a notifier.
LEMMA NotifierIs ==
    ASSUME IInv, NEW n \in Notifiers
    PROVE  /\ notifier[n] \in Notifier /\ notifier[n].ver \in Int
           /\ notifier[n].realm \in Handles \cup {NoHandle}
           /\ LagRight(n) /\ SparedRight(n) /\ ToldRight(n)
           /\ is_alive(n) => notifier[n].list # "none"
           /\ notifier[n].list = "none" => notifier[n] = NewNotifier
           /\ notifier[n].list # "none" => notifier[n].ver \in 1..latest
           /\ notifier[n].hasRun => notifier[n].list = "main"
           /\ notifier[n].initial => notifier[n].hasRun
           /\ error => ~notifier[n].hasRun
<1>1. TypeOK /\ ListsRight /\ OpeningRight /\ NotifiersRight
  BY DEF IInv
<1>2. notifier[n] \in Notifier
  BY <1>1, StateIs
<1>3. /\ notifier[n].ver \in Int
      /\ notifier[n].realm \in Handles \cup {NoHandle}
  BY <1>2, FieldsAre
<1>4. error => ~notifier[n].hasRun
  BY <1>1 DEF OpeningRight
<1> QED
  BY <1>1, <1>2, <1>3, <1>4 DEF ListsRight, NotifiersRight

\* A notifier whose callback is called stays right, when the handle is then not
\* ahead of it.
LEMMA DeliveredOf ==
    ASSUME IInv, TypeOK', NEW h \in Handles, NEW n \in Of(h),
           notifier'[n] = after_advance(package_for_delivery(notifier[n])),
           UNCHANGED <<coordVars, worker>>,
           jumped[h] => jumped'[h],
           pc[h] \notin {"commit", "sendingCommit"},
           jumped'[h] \/ realm'[h].stage = "Ready"
              \/ realm'[h].ver <= notifier[n].ver
    PROVE  LagRight(n)' /\ SparedRight(n)' /\ ToldRight(n)'
<1> DEFINE old == notifier[n]
           new == notifier'[n]
<1>1. n \in Notifiers /\ old.realm = h /\ old \in Notifier
  BY NotifierIs DEF Of
<1>2. /\ new.realm = h /\ new.ver = old.ver /\ (new.skipNext <=> old.skipNext)
      /\ new.asked = old.asked /\ new.initial
      /\ new.acc = {} /\ new.todo = {}
      /\ old.initial => new.told = old.told \cup old.acc
                        /\ new.dropped = old.dropped
      /\ ~old.initial => new.told = 1..old.ver /\ new.dropped = {}
  BY <1>1, TellIs
<1>3. LagRight(n) /\ SparedRight(n) /\ ToldRight(n) /\ old.ver \in Int
  BY <1>1, NotifierIs
<1>4. UNCHANGED <<error, helper, skip, worker>> /\ NextHandover' = NextHandover
  BY DEF coordVars, NextHandover
<1> HIDE DEF new
<1>5. /\ Live(n)' => ~jumped'[h] /\ (old.initial => Live(n))
      /\ Calm(n)' => Calm(n)
  BY <1>1, <1>2 DEF Live, Calm, is_alive, new
<1>6. ToldRight(n)'
  <2> SUFFICES ASSUME Live(n)'
               PROVE  /\ new.told \cup (new.acc \cup new.todo) = 1..new.ver
                      /\ new.told \cap (new.acc \cup new.todo) = {}
                      /\ new.dropped \subseteq new.asked
    BY DEF ToldRight, new
  <2>1. CASE old.initial
    <3>1. /\ old.todo = {}
          /\ old.told \cup (old.acc \cup old.todo) = 1..old.ver
          /\ old.dropped \subseteq old.asked
      BY <1>3, <1>5, <2>1 DEF LagRight, ToldRight
    <3> QED
      BY <1>2, <2>1, <3>1
  <2>2. CASE ~old.initial
    BY <1>2, <2>2
  <2> QED
    BY <2>1, <2>2
<1>7. SparedRight(n)'
  <2> SUFFICES ASSUME Calm(n)', ~error, new.skipNext
               PROVE  /\ new.initial
                      /\ \/ /\ NextHandover # 0
                            /\ new.ver + 1 .. NextHandover \subseteq new.asked
                         \/ new.ver + 1 .. MaxVersion \subseteq new.asked
    BY <1>4 DEF SparedRight, new
  <2> QED
    BY <1>1, <1>2, <1>3, <1>5 DEF SparedRight
<1>8. LagRight(n)'
  <2> SUFFICES ASSUME Live(n)'
               PROVE  /\ new.todo = {}
                      /\ (/\ pc'[h] # "await" /\ realm'[h].stage # "Ready"
                          /\ new.ver < realm'[h].ver) =>
                            /\ new.ver = realm'[h].ver - 1
                            /\ new.acc = {}
    BY <1>2 DEF LagRight, new
  <2>1. realm'[h].ver \in Int
    BY CoordinatorAssumption DEF TypeOK, Versions
  <2>2. \A x, y \in Int : x <= y => ~(y < x)
    OBVIOUS
  <2> QED
    BY <1>2, <1>3, <1>5, <2>1, <2>2
<1> QED
  BY <1>6, <1>7, <1>8

\* A handle calls the callbacks of notifiers that have run: it must not get
\* ahead of the ones it calls, and those it does not call have not been called
\* yet or it stays where it is.
LEMMA DeliverStep ==
    ASSUME IInv, NEW h \in Handles, NEW r, NEW j \in BOOLEAN,
           NEW set \in SUBSET Of(h),
           Deliver(h, set),
           realm' = [realm EXCEPT ![h] = r],
           jumped' = [jumped EXCEPT ![h] = j],
           r \in [stage : {"Ready", "Reading", "Writing"}, ver : Versions],
           r.stage = "Writing" <=> writer = h,
           r.stage = "Writing" => r.ver = latest,
           r.ver <= latest,
           pc[h] \notin {"commit", "sendingCommit"},
           jumped[h] => j,
           \A n \in set :
              /\ notifier[n].hasRun
              /\ j \/ r.stage = "Ready" \/ r.ver <= notifier[n].ver,
           \A n \in Of(h) \ set :
              \/ j \/ r.stage = "Ready" \/ ~notifier[n].initial
              \/ /\ pc[h] # "await" /\ realm[h].stage # "Ready"
                 /\ r.ver = realm[h].ver,
           r.stage = "Writing" =>
              set = Of(h) /\ \A n \in Of(h) : notifier[n].ver = latest,
           LockRight(h), writer' = writer,
           UNCHANGED <<latest, coordVars, worker>>
    PROVE  IInv'
<1> DEFINE place == IF set = {} THEN "idle" ELSE "sending"
           pack == [set |-> set, error |-> FALSE, target |-> 0]
<1>1. /\ TypeOK /\ UNCHANGED <<advancer, helper, skip, error>>
      /\ set \subseteq Notifiers /\ Of(h) \subseteq Notifiers
  BY DEF IInv, coordVars, Of
<1>2. /\ \A n \in set :
            notifier'[n] = after_advance(package_for_delivery(notifier[n]))
      /\ \A n \in Notifiers \ set : notifier'[n] = notifier[n]
      /\ notifier' = [n \in Notifiers |-> notifier'[n]]
  BY <1>1 DEF Deliver
<1>3. \A n \in Notifiers : notifier'[n] \in Notifier
  <2> TAKE n \in Notifiers
  <2>1. notifier[n] \in Notifier
    BY NotifierIs
  <2>2. CASE n \in set
    BY <1>2, <2>1, <2>2, TellIs
  <2>3. CASE n \notin set
    BY <1>2, <2>1, <2>3
  <2> QED
    BY <2>2, <2>3
<1>4. notifier' \in [Notifiers -> Notifier]
  BY <1>2, <1>3
<1>5. Becomes(h, r, place, pack, j)
  BY DEF Deliver, Becomes
<1>6. RecordsTyped(r, place, pack, j)
  BY <1>1, CoordinatorAssumption DEF RecordsTyped
<1>7. place \in {"idle", "sending"} /\ pack.error = FALSE
  OBVIOUS
<1> HIDE DEF place, pack
<1>8. /\ TypeOK'
      /\ realm'[h] = r /\ pc'[h] = place /\ package'[h] = pack
      /\ jumped'[h] = j
      /\ \A k \in Handles : k # h =>
            /\ realm'[k] = realm[k] /\ pc'[k] = pc[k]
            /\ package'[k] = package[k] /\ jumped'[k] = jumped[k]
            /\ writer' = k <=> writer = k
  <2>1. latest' \in Versions /\ skip' \in 0..MaxVersion
    BY <1>1 DEF TypeOK
  <2> QED
    BY <1>1, <1>4, <1>5, <1>6, <2>1, TypeFrame
<1>9. LessProgress /\ SameRealms
  <2> SUFFICES ASSUME NEW n \in Notifiers
               PROVE  /\ notifier'[n].realm = notifier[n].realm
                      /\ notifier'[n].list = notifier[n].list
                      /\ notifier'[n].ver = notifier[n].ver
                      /\ notifier'[n].hasRun <=> notifier[n].hasRun
                      /\ notifier'[n].change = notifier[n].change
                      /\ notifier'[n].initial => notifier[n].hasRun
                      /\ notifier[n].list = "none" => notifier'[n] = notifier[n]
    BY DEF LessProgress, SameRealms
  <2>1. CASE n \in set
    <3>1. notifier[n] \in Notifier /\ notifier[n].list = "main"
      BY <2>1, NotifierIs
    <3> QED
      BY <1>2, <2>1, <3>1, TellIs
  <2>2. CASE n \notin set
    BY <1>2, <2>2, NotifierIs
  <2> QED
    BY <2>1, <2>2
<1>10. Of(h)' = Of(h)
  BY <1>9 DEF Of, SameRealms
<1>11. StageRight(h)'
  BY <1>7, <1>8 DEF StageRight
<1>12. WaitRight(h)'
  BY <1>7, <1>8 DEF WaitRight
<1>13. WriteRight(h)'
  <2> SUFFICES ASSUME r.stage = "Writing", NEW n \in Of(h)
               PROVE  /\ notifier'[n].hasRun /\ notifier'[n].initial
                      /\ notifier'[n].ver = latest /\ notifier'[n].acc = {}
    BY <1>8, <1>10 DEF WriteRight
  <2>1. n \in set /\ notifier[n].ver = latest /\ n \in Notifiers
    BY <1>1
  <2>2. notifier[n] \in Notifier
    BY <2>1, NotifierIs
  <2>3. /\ notifier'[n].hasRun <=> notifier[n].hasRun
        /\ notifier'[n].initial /\ notifier'[n].ver = notifier[n].ver
        /\ notifier'[n].acc = {}
    BY <1>2, <2>1, <2>2, TellIs
  <2> QED
    BY <2>1, <2>3
<1>14. ASSUME NEW n \in Of(h)
       PROVE  LagRight(n)' /\ SparedRight(n)' /\ ToldRight(n)'
  <2>1. CASE n \in set
    BY <1>2, <1>8, <2>1, DeliveredOf
  <2>2. CASE n \notin set
    <3>1. notifier'[n] = notifier[n]
      BY <1>1, <1>2, <2>2
    <3>2. jumped'[h] \/ realm'[h].stage = "Ready" \/ ~notifier[n].initial
             \/ /\ pc[h] # "await" /\ realm[h].stage # "Ready"
                /\ realm'[h].ver = realm[h].ver
      BY <1>8, <2>2
    <3>3. jumped[h] => jumped'[h]
      BY <1>8
    <3> QED
      BY <1>8, <3>1, <3>2, <3>3, QuietOf
  <2> QED
    BY <2>1, <2>2
<1>15. \A n \in Notifiers :
          notifier[n].realm # h => notifier'[n] = notifier[n]
  BY <1>2 DEF Of
<1> QED
  BY <1>8, <1>9, <1>11, <1>12, <1>13, <1>14, <1>15, HandleFrame

\* A handle delivers the error instead: then no callback has been called, and
\* none will be.
LEMMA ErrorStep ==
    ASSUME IInv, NEW h \in Handles, NEW r, NEW j \in BOOLEAN, NEW set,
           DeliverError(h, set), error,
           realm' = [realm EXCEPT ![h] = r],
           jumped' = [jumped EXCEPT ![h] = j],
           r \in [stage : {"Ready", "Reading", "Writing"}, ver : Versions],
           r.stage = "Writing" <=> writer = h,
           r.stage = "Writing" => r.ver = latest,
           r.ver <= latest,
           LockRight(h), writer' = writer,
           UNCHANGED <<latest, coordVars, worker>>
    PROVE  IInv'
<1> DEFINE pack == [set |-> {}, error |-> FALSE, target |-> 0]
<1>1. TypeOK /\ UNCHANGED <<advancer, helper, skip, error>>
  BY DEF IInv, coordVars
<1>2. /\ \A n \in Notifiers :
            \/ /\ notifier[n].realm = h
               /\ notifier'[n] = deliver_error(notifier[n])
            \/ notifier'[n] = notifier[n]
      /\ \A n \in Notifiers :
            notifier[n].realm # h => notifier'[n] = notifier[n]
      /\ notifier' = [n \in Notifiers |-> notifier'[n]]
  BY DEF DeliverError
<1>3. ASSUME NEW n \in Notifiers
      PROVE  /\ notifier'[n] \in Notifier
             /\ notifier'[n].realm = notifier[n].realm
             /\ notifier'[n].list = notifier[n].list
             /\ notifier'[n].ver = notifier[n].ver
             /\ notifier'[n].hasRun <=> notifier[n].hasRun
             /\ ~notifier'[n].initial
             /\ notifier[n].list = "none" => notifier'[n] = notifier[n]
  <2>1. /\ notifier[n] \in Notifier /\ ~notifier[n].initial
        /\ notifier[n].list = "none" => notifier[n] = NewNotifier
    BY NotifierIs
  <2>2. CASE notifier'[n] = deliver_error(notifier[n])
    BY <2>1, <2>2, ErrorIs
  <2>3. CASE notifier'[n] = notifier[n]
    BY <2>1, <2>3
  <2> QED
    BY <1>2, <2>2, <2>3
<1>4. notifier' \in [Notifiers -> Notifier]
  BY <1>2, <1>3
<1>5. Becomes(h, r, "idle", pack, j)
  BY DEF DeliverError, Becomes
<1>6. RecordsTyped(r, "idle", pack, j)
  BY CoordinatorAssumption DEF RecordsTyped
<1>7. pack.error = FALSE
  OBVIOUS
<1> HIDE DEF pack
<1>8. /\ TypeOK'
      /\ realm'[h] = r /\ pc'[h] = "idle" /\ package'[h] = pack
      /\ jumped'[h] = j
      /\ \A k \in Handles : k # h =>
            /\ realm'[k] = realm[k] /\ pc'[k] = pc[k]
            /\ package'[k] = package[k] /\ jumped'[k] = jumped[k]
            /\ writer' = k <=> writer = k
  <2>1. latest' \in Versions /\ skip' \in 0..MaxVersion
    BY <1>1 DEF TypeOK
  <2> QED
    BY <1>1, <1>4, <1>5, <1>6, <2>1, TypeFrame
<1>9. LessProgress /\ SameRealms
  BY <1>3 DEF LessProgress, SameRealms
<1>10. StageRight(h)'
  BY <1>8 DEF StageRight
<1>11. WaitRight(h)'
  BY <1>7, <1>8 DEF WaitRight
<1>12. WriteRight(h)'
  BY <1>1 DEF WriteRight
<1>13. \A n \in Of(h) : LagRight(n)' /\ SparedRight(n)' /\ ToldRight(n)'
  <2> TAKE n \in Of(h)
  <2>1. ~Live(n)'
    BY <1>3 DEF Live, Of
  <2> QED
    BY <1>1, <2>1 DEF LagRight, SparedRight, ToldRight
<1> QED
  BY <1>2, <1>8, <1>9, <1>10, <1>11, <1>12, <1>13, HandleFrame

\* A handle throws away what was handed over for an older version than the one
\* it is at: callbacks that count on their handle had nothing to hear.
LEMMA DiscardStep ==
    ASSUME IInv, NEW h \in Handles, NEW set \in SUBSET Of(h),
           pc[h] = "idle", realm[h].stage = "Reading", ~error,
           \A n \in set : notifier[n].hasRun /\ notifier[n].ver < realm[h].ver,
           notifier' = [n \in Notifiers |->
              IF n \in set THEN package_for_delivery(notifier[n])
              ELSE notifier[n]],
           package' = [package EXCEPT ![h].set = {}],
           LockRight(h),
           UNCHANGED <<latest, writer, realm, pc, jumped, coordVars, worker>>
    PROVE  IInv'
<1> DEFINE pack == [package[h] EXCEPT !.set = {}]
<1>1. /\ TypeOK /\ UNCHANGED <<advancer, helper, skip, error>>
      /\ set \subseteq Notifiers /\ Of(h) \subseteq Notifiers
  BY DEF IInv, coordVars, Of
<1>2. ASSUME NEW n \in set
      PROVE  /\ notifier'[n] \in Notifier
             /\ notifier'[n].realm = notifier[n].realm
             /\ notifier'[n].list = notifier[n].list
             /\ notifier'[n].ver = notifier[n].ver
             /\ notifier'[n].hasRun <=> notifier[n].hasRun
             /\ notifier'[n].change = notifier[n].change
             /\ notifier'[n].skipNext <=> notifier[n].skipNext
             /\ notifier'[n].asked = notifier[n].asked
             /\ notifier'[n].initial <=> notifier[n].initial
             /\ notifier'[n].acc = {} /\ notifier'[n].todo = notifier[n].acc
             /\ notifier'[n].told = notifier[n].told
             /\ notifier'[n].dropped = notifier[n].dropped
  <2>1. notifier'[n] = package_for_delivery(notifier[n])
    BY <1>1
  <2>2. notifier[n] \in Notifier
    BY <1>1, NotifierIs
  <2> QED
    BY <2>1, <2>2, PackIs
<1>3. \A n \in Notifiers \ set : notifier'[n] = notifier[n]
  OBVIOUS
<1>4. notifier' \in [Notifiers -> Notifier]
  <2>1. \A n \in Notifiers : notifier'[n] \in Notifier
    BY <1>2, <1>3, NotifierIs
  <2> QED
    BY <2>1
<1>5. /\ pack \in [set : SUBSET Notifiers, error : BOOLEAN,
                   target : 0..MaxVersion]
      /\ pack.error = package[h].error
      /\ package' = [package EXCEPT ![h] = pack]
  BY <1>1 DEF TypeOK
<1> HIDE DEF pack
<1>6. Becomes(h, realm[h], "idle", pack, jumped[h])
  BY <1>1, <1>5, SameIs DEF Becomes
<1>7. RecordsTyped(realm[h], "idle", pack, jumped[h])
  BY <1>1, <1>5, SameIs DEF RecordsTyped
<1>8. /\ TypeOK'
      /\ realm'[h] = realm[h] /\ pc'[h] = "idle" /\ package'[h] = pack
      /\ jumped'[h] = jumped[h]
      /\ \A k \in Handles : k # h =>
            /\ realm'[k] = realm[k] /\ pc'[k] = pc[k]
            /\ package'[k] = package[k] /\ jumped'[k] = jumped[k]
            /\ writer' = k <=> writer = k
  <2>1. latest' \in Versions /\ skip' \in 0..MaxVersion
    BY <1>1 DEF TypeOK
  <2> QED
    BY <1>1, <1>4, <1>6, <1>7, <2>1, TypeFrame
<1>9. LessProgress /\ SameRealms
  <2> SUFFICES ASSUME NEW n \in Notifiers
               PROVE  /\ notifier'[n].realm = notifier[n].realm
                      /\ notifier'[n].list = notifier[n].list
                      /\ notifier'[n].ver = notifier[n].ver
                      /\ notifier'[n].hasRun <=> notifier[n].hasRun
                      /\ notifier'[n].change = notifier[n].change
                      /\ notifier'[n].initial => notifier[n].hasRun
                      /\ notifier[n].list = "none" => notifier'[n] = notifier[n]
    BY DEF LessProgress, SameRealms
  <2>1. CASE n \in set
    BY <1>2, <2>1, NotifierIs
  <2>2. CASE n \notin set
    BY <1>3, <2>2, NotifierIs
  <2> QED
    BY <2>1, <2>2
<1>10. StageRight(h)'
  BY <1>8, HandleIs DEF StageRight
<1>11. WaitRight(h)'
  BY <1>1, <1>5, <1>8, HandleIs DEF WaitRight
<1>12. WriteRight(h)'
  BY <1>8 DEF WriteRight
<1>13. ASSUME NEW n \in Of(h)
       PROVE  LagRight(n)' /\ SparedRight(n)' /\ ToldRight(n)'
  <2>1. CASE n \in set
    <3>1. n \in Notifiers /\ notifier[n].realm = h
      BY DEF Of
    <3>2. LagRight(n) /\ SparedRight(n) /\ ToldRight(n)
      BY <3>1, NotifierIs
    <3>3. (Live(n)' <=> Live(n)) /\ (Calm(n)' <=> Calm(n))
      BY <1>2, <1>8, <2>1, <3>1 DEF Live, Calm, is_alive
    <3>4. /\ notifier'[n].realm = h /\ notifier'[n].ver = notifier[n].ver
          /\ notifier'[n].skipNext <=> notifier[n].skipNext
          /\ notifier'[n].asked = notifier[n].asked
          /\ notifier'[n].initial <=> notifier[n].initial
          /\ notifier'[n].acc = {} /\ notifier'[n].todo = notifier[n].acc
          /\ notifier'[n].told = notifier[n].told
          /\ notifier'[n].dropped = notifier[n].dropped
      BY <1>2, <2>1, <3>1
    <3>5. Live(n) => notifier[n].todo = {} /\ notifier[n].acc = {}
                     /\ notifier[n].ver = realm[h].ver - 1
      BY <2>1, <3>1, <3>2 DEF LagRight
    <3>6. LagRight(n)'
      BY <1>8, <3>3, <3>4, <3>5 DEF LagRight
    <3>7. ToldRight(n)'
      BY <3>2, <3>3, <3>4, <3>5 DEF ToldRight
    <3>8. NextHandover' = NextHandover
      BY <1>1 DEF NextHandover
    <3>9. SparedRight(n)'
      BY <1>1, <1>8, <3>1, <3>2, <3>3, <3>4, <3>8 DEF SparedRight
    <3> QED
      BY <3>6, <3>7, <3>9
  <2>2. CASE n \notin set
    <3>1. notifier'[n] = notifier[n]
      BY <1>1, <1>3, <2>2
    <3> QED
      BY <1>8, <3>1, QuietOf
  <2> QED
    BY <2>1, <2>2
<1>14. \A n \in Notifiers :
          notifier[n].realm # h => notifier'[n] = notifier[n]
  BY <1>3 DEF Of
<1> QED
  BY <1>8, <1>9, <1>10, <1>11, <1>12, <1>13, <1>14, HandleFrame

\* A handle that has waited finds all its notifiers handed over.
LEMMA WaitedFor ==
    ASSUME IInv, NEW h \in Handles, pc[h] \in {"await", "refresh"},
           NEW target \in Int, NotifiersReady(h, package[h].set, target)
    PROVE  /\ Packable(package[h].set, h) = Of(h)
           /\ \A n \in Of(h) : notifier[n].hasRun /\ notifier[n].ver >= target
<1>1. Of(h) \subseteq package[h].set /\ package[h].set \subseteq Notifiers
  BY HandleIs DEF WaitRight
<1>2. \A n \in Of(h) : notifier[n].hasRun /\ notifier[n].ver >= target
  BY <1>1 DEF NotifiersReady, Of
<1> QED
  BY <1>1, <1>2 DEF Packable, Of

\* Notifiers that have run are at the version of their package.
LEMMA PackageVersionIs ==
    ASSUME IInv, NEW set \in SUBSET Notifiers, NEW n \in set,
           \A m \in set : notifier[m].hasRun
    PROVE  /\ notifier[n].ver = PackageVersion(set)
           /\ PackageVersion(set) \in 1..latest
<1>1. PICK m \in set : m = CHOOSE k \in set : TRUE
  OBVIOUS
<1>2. /\ notifier[n].hasRun /\ notifier[n].list = "main"
      /\ notifier[m].hasRun /\ notifier[m].list = "main"
      /\ notifier[m].ver \in 1..latest
  BY NotifierIs
<1>3. notifier[n].ver = notifier[m].ver
  BY <1>2 DEF IInv, WorkerAssertions, m_notifiers
<1> QED
  BY <1>1, <1>2, <1>3 DEF PackageVersion

\* The callbacks of a handle that begins to write.
LEMMA BeginDeliversKeeps ==
    ASSUME IInv, NEW h \in Handles, BeginDelivers(h)
    PROVE  IInv'
<1>1. /\ pc[h] = "await"
      /\ UNCHANGED <<latest, writer, realm, jumped, coordVars, worker, wake,
                     signal>>
  BY DEF BeginDelivers, fileVars
<1>2. /\ realm' = [realm EXCEPT ![h] = realm[h]]
      /\ jumped' = [jumped EXCEPT ![h] = jumped[h]]
      /\ realm[h] \in [stage : {"Ready", "Reading", "Writing"}, ver : Versions]
      /\ jumped[h] \in BOOLEAN
  BY <1>1, HandleIs, SameIs DEF RecordsTyped
<1>3. LockRight(h) /\ writer' = writer
  BY <1>1, HandleIs DEF LockRight
<1>4. /\ realm[h].stage = "Writing" /\ writer = h /\ realm[h].ver = latest
      /\ package[h].target = latest /\ (package[h].error => error)
      /\ realm[h].ver <= latest
  BY <1>1, HandleIs DEF StageRight, WaitRight
<1>5. CASE package[h].error /\ DeliverError(h, package[h].set)
  BY <1>1, <1>2, <1>3, <1>4, <1>5, ErrorStep
<1>6. CASE /\ NotifiersReady(h, package[h].set, package[h].target)
           /\ Deliver(h, Packable(package[h].set, h))
  <2>1. /\ Packable(package[h].set, h) = Of(h)
        /\ \A n \in Of(h) : notifier[n].hasRun /\ notifier[n].ver >= latest
    BY <1>1, <1>4, <1>6, HandleIs, WaitedFor
  <2>2. Deliver(h, Of(h))
    BY <1>6, <2>1
  <2>3. \A n \in Of(h) : notifier[n].hasRun /\ notifier[n].ver = latest
    <3> TAKE n \in Of(h)
    <3>1. n \in Notifiers
      BY DEF Of
    <3>2. notifier[n].ver \in 1..latest /\ latest \in Int
      BY <2>1, <3>1, NotifierIs, HandleIs
    <3> QED
      BY <2>1, <3>2
  <2>4. \A n \in Of(h) : notifier[n].hasRun /\ realm[h].ver <= notifier[n].ver
    BY <1>4, <2>3
  <2> QED
    BY <1>1, <1>2, <1>3, <1>4, <2>2, <2>3, <2>4, DeliverStep
<1> QED
  BY <1>5, <1>6 DEF BeginDelivers

\* A handle moves to another version.
LEMMA MovesTo ==
    ASSUME IInv, NEW h \in Handles, NEW v \in 1..latest,
           realm' = [realm EXCEPT ![h].ver = v]
    PROVE  \E r \in [stage : {"Ready", "Reading", "Writing"}, ver : Versions] :
              /\ realm' = [realm EXCEPT ![h] = r]
              /\ r.stage = realm[h].stage /\ r.ver = v
<1>1. PICK r : r = [realm[h] EXCEPT !.ver = v]
  OBVIOUS
<1>2. v \in Versions
  BY HandleIs, CoordinatorAssumption DEF Versions
<1>3. /\ r \in [stage : {"Ready", "Reading", "Writing"}, ver : Versions]
      /\ r.stage = realm[h].stage /\ r.ver = v
  BY <1>1, <1>2, HandleIs DEF TypeOK
<1>4. realm' = [realm EXCEPT ![h] = r]
  BY <1>1, HandleIs DEF TypeOK
<1> QED
  BY <1>3, <1>4

\* The callbacks of a handle that was refreshed.
LEMMA AdvanceKeeps ==
    ASSUME IInv, NEW h \in Handles, advance_to_latest(h)
    PROVE  IInv'
<1>1. /\ pc[h] = "refresh"
      /\ UNCHANGED <<latest, writer, jumped, coordVars, worker, wake, signal>>
  BY DEF advance_to_latest, fileVars
<1>2. /\ realm[h] \in [stage : {"Ready", "Reading", "Writing"}, ver : Versions]
      /\ realm[h].stage = "Reading" /\ writer # h /\ TypeOK
      /\ jumped' = [jumped EXCEPT ![h] = jumped[h]]
      /\ jumped[h] \in BOOLEAN
      /\ package[h].error => error
  BY <1>1, HandleIs, SameIs DEF RecordsTyped, StageRight, WaitRight
<1>3. LockRight(h) /\ writer' = writer
  BY <1>1, HandleIs DEF LockRight
<1>4. ASSUME NEW v \in 1..latest, realm' = [realm EXCEPT ![h].ver = v]
      PROVE  \E r \in [stage : {"Ready", "Reading", "Writing"},
                        ver : Versions] :
                /\ realm' = [realm EXCEPT ![h] = r]
                /\ r.stage = "Reading" /\ r.ver = v
  <2>1. \E r \in [stage : {"Ready", "Reading", "Writing"}, ver : Versions] :
           /\ realm' = [realm EXCEPT ![h] = r]
           /\ r.stage = realm[h].stage /\ r.ver = v
    BY <1>4, MovesTo
  <2> QED
    BY <1>2, <2>1
<1>5. latest \in 1..latest
  BY HandleIs, CoordinatorAssumption DEF Versions
<1>6. CASE /\ package[h].error /\ DeliverError(h, package[h].set)
           /\ realm' = [realm EXCEPT ![h].ver = latest]
  <2>1. PICK r \in [stage : {"Ready", "Reading", "Writing"}, ver : Versions] :
                /\ realm' = [realm EXCEPT ![h] = r]
                /\ r.stage = "Reading" /\ r.ver = latest
    BY <1>4, <1>5, <1>6
  <2>2. /\ r.stage = "Writing" <=> writer = h
        /\ r.stage = "Writing" => r.ver = latest
        /\ r.ver <= latest /\ error
    BY <1>2, <1>5, <1>6, <2>1
  <2> QED
    BY <1>1, <1>2, <1>3, <1>6, <2>1, <2>2, ErrorStep
<1>7. CASE /\ NotifiersReady(h, package[h].set, package[h].target)
           /\ Deliver(h, Packable(package[h].set, h))
           /\ realm' = [realm EXCEPT ![h].ver =
                           IF Packable(package[h].set, h) = {} THEN latest
                           ELSE PackageVersion(Packable(package[h].set, h))]
  <2>1. /\ Packable(package[h].set, h) = Of(h)
        /\ \A n \in Of(h) : notifier[n].hasRun
    BY <1>1, <1>7, HandleIs, WaitedFor
  <2>2. PICK v : v = IF Of(h) = {} THEN latest ELSE PackageVersion(Of(h))
    OBVIOUS
  <2>3. /\ realm' = [realm EXCEPT ![h].ver = v]
        /\ Deliver(h, Of(h))
    BY <1>7, <2>1, <2>2
  <2>4. v \in 1..latest /\ \A n \in Of(h) : notifier[n].ver = v
    <3>1. CASE Of(h) = {}
      BY <1>5, <2>2, <3>1
    <3>2. CASE Of(h) # {}
      BY <2>1, <2>2, <3>2, HandleIs, PackageVersionIs
    <3> QED
      BY <3>1, <3>2
  <2>5. PICK r \in [stage : {"Ready", "Reading", "Writing"}, ver : Versions] :
                /\ realm' = [realm EXCEPT ![h] = r]
                /\ r.stage = "Reading" /\ r.ver = v
    BY <1>4, <2>3, <2>4
  <2>6. /\ r.stage = "Writing" <=> writer = h
        /\ r.stage = "Writing" => r.ver = latest
        /\ r.ver <= latest
        /\ \A n \in Of(h) : notifier[n].hasRun /\ r.ver <= notifier[n].ver
    BY <1>2, <2>1, <2>4, <2>5
  <2> QED
    BY <1>1, <1>2, <1>3, <2>3, <2>5, <2>6, DeliverStep
<1> QED
  BY <1>6, <1>7 DEF advance_to_latest

\* What a handle can deliver without waiting.
LEMMA PackableIs ==
    ASSUME IInv, NEW h \in Handles
    PROVE  Packable(notifiers_for_realm(h), h) =
              {n \in Of(h) : notifier[n].hasRun}
BY OfIs DEF Packable, Of

\* The delivery of a refresh that begins a read transaction.
LEMMA RefreshOpensKeeps ==
    ASSUME IInv, NEW h \in Handles, RefreshOpens(h)
    PROVE  IInv'
<1>1. /\ pc[h] = "idle" /\ realm[h].stage = "Ready" /\ Jump(h)
      /\ process_available_async(h, latest, TRUE)
      /\ UNCHANGED <<latest, writer, coordVars, worker, wake, signal>>
  BY DEF RefreshOpens, fileVars
<1>2. PICK j \in BOOLEAN : /\ realm' = [realm EXCEPT ![h] = Latest("Reading")]
                           /\ jumped' = [jumped EXCEPT ![h] = j]
                           /\ jumped[h] => j
                           /\ j \/ Of(h) = {}
  BY <1>1, JumpIs
<1>3. PICK r \in [stage : {"Ready", "Reading", "Writing"}, ver : Versions] :
         /\ r = Latest("Reading") /\ r.stage = "Reading" /\ r.ver <= latest
  BY HandleIs, LatestIs
<1>4. LockRight(h) /\ writer' = writer /\ writer # h
  BY <1>1, HandleIs DEF LockRight, StageRight
<1>5. realm' = [realm EXCEPT ![h] = r]
  BY <1>2, <1>3
<1>6. CASE error
  <2>1. DeliverError(h, notifiers_for_realm(h))
    BY <1>1, <1>6 DEF process_available_async
  <2> QED
    BY <1>1, <1>2, <1>3, <1>4, <1>5, <1>6, <2>1, ErrorStep
<1>7. CASE ~error
  <2>1. PICK set \in SUBSET Of(h) :
           Deliver(h, set) /\ \A n \in set : notifier[n].hasRun
    BY <1>1, <1>7, PackableIs DEF process_available_async
  <2> QED
    BY <1>1, <1>2, <1>3, <1>4, <1>5, <2>1, DeliverStep
<1> QED
  BY <1>6, <1>7

\* The run loop's call.
LEMMA NotifyKeeps ==
    ASSUME IInv, NEW h \in Handles, notify(h)
    PROVE  IInv'
<1>1. /\ signal[h] /\ pc[h] = "idle"
      /\ signal' = [signal EXCEPT ![h] = FALSE]
      /\ UNCHANGED <<latest, writer, jumped, coordVars, worker, wake>>
  BY DEF notify, fileVars
<1>2. /\ TypeOK /\ RecordsTyped(realm[h], pc[h], package[h], jumped[h])
      /\ realm = [realm EXCEPT ![h] = realm[h]]
      /\ jumped' = [jumped EXCEPT ![h] = jumped[h]]
      /\ realm[h] \in [stage : {"Ready", "Reading", "Writing"}, ver : Versions]
      /\ jumped[h] \in BOOLEAN
      /\ realm[h].stage = "Writing" <=> writer = h
      /\ realm[h].stage = "Writing" => realm[h].ver = latest
      /\ realm[h].ver <= latest
  BY <1>1, HandleIs, SameIs DEF RecordsTyped, StageRight
<1>3. LockRight(h) /\ writer' = writer
  BY <1>1, HandleIs DEF LockRight
<1>4. CASE /\ realm[h].stage = "Writing"
           /\ UNCHANGED <<realm, pc, package, notifier>>
  <2>1. Becomes(h, realm[h], pc[h], package[h], jumped[h])
    BY <1>1, <1>2, <1>4, SameIs DEF Becomes
  <2>2. RecordsFit(h, realm[h], pc[h], package[h])
    BY <1>1, <1>2, HandleIs DEF RecordsFit, WaitRight
  <2>3. RecordsQuiet(h, realm[h], pc[h], package[h], jumped[h])
    BY <1>1, <1>4, HandleIs DEF RecordsQuiet, WriteRight
  <2> QED
    BY <1>1, <1>2, <1>3, <1>4, <2>1, <2>2, <2>3, QuietStep
<1>5. CASE /\ realm[h].stage = "Reading" /\ realm[h].ver # latest
           /\ advance_to_ready(h)
  <2> DEFINE set == Packable(notifiers_for_realm(h), h)
  <2>1. /\ set \in SUBSET Of(h) /\ set \in SUBSET Notifiers
        /\ \A n \in set : notifier[n].hasRun
        /\ \A n \in Of(h) \ set : ~notifier[n].initial
    BY PackableIs, NotifierIs DEF Of
  <2>2. latest \in 1..latest
    BY HandleIs, CoordinatorAssumption DEF Versions
  <2>3. CASE error
    <3>1. /\ DeliverError(h, notifiers_for_realm(h))
          /\ realm' = [realm EXCEPT ![h].ver = latest]
      BY <1>5, <2>3 DEF advance_to_ready
    <3>2. PICK r \in [stage : {"Ready", "Reading", "Writing"}, ver : Versions] :
             /\ realm' = [realm EXCEPT ![h] = r]
             /\ r.stage = realm[h].stage /\ r.ver = latest
      BY <2>2, <3>1, MovesTo
    <3>3. /\ r.stage = "Writing" <=> writer = h
          /\ r.stage = "Writing" => r.ver = latest
          /\ r.ver <= latest
      BY <1>2, <1>5, <2>2, <3>2
    <3> QED
      BY <1>1, <1>2, <1>3, <2>3, <3>1, <3>2, <3>3, ErrorStep
  <2>4. CASE ~error /\ set # {} /\ PackageVersion(set) < realm[h].ver
    <3>1. /\ notifier' = [n \in Notifiers |->
                IF n \in set THEN package_for_delivery(notifier[n])
                ELSE notifier[n]]
          /\ package' = [package EXCEPT ![h].set = {}]
          /\ UNCHANGED <<realm, pc>>
      BY <1>5, <2>4 DEF advance_to_ready
    <3> HIDE DEF set
    <3>2. \A n \in set : notifier[n].hasRun /\ notifier[n].ver < realm[h].ver
      BY <2>1, <2>4, PackageVersionIs
    <3> QED
      BY <1>1, <1>2, <1>3, <1>5, <2>1, <2>4, <3>1, <3>2, DiscardStep
  <2>5. CASE ~error /\ ~(set # {} /\ PackageVersion(set) < realm[h].ver)
    <3>1. PICK v : v = IF set = {} THEN latest ELSE PackageVersion(set)
      OBVIOUS
    <3>2. Deliver(h, set) /\ realm' = [realm EXCEPT ![h].ver = v]
      BY <1>5, <2>5, <3>1 DEF advance_to_ready
    <3> HIDE DEF set
    <3>3. v \in 1..latest /\ \A n \in set : notifier[n].ver = v
      <4>1. CASE set = {}
        BY <2>2, <3>1, <4>1
      <4>2. CASE set # {}
        BY <2>1, <3>1, <4>2, PackageVersionIs
      <4> QED
        BY <4>1, <4>2
    <3>4. PICK r \in [stage : {"Ready", "Reading", "Writing"}, ver : Versions] :
             /\ realm' = [realm EXCEPT ![h] = r]
             /\ r.stage = realm[h].stage /\ r.ver = v
      BY <3>2, <3>3, MovesTo
    <3>5. /\ r.stage = "Writing" <=> writer = h
          /\ r.stage # "Writing" /\ r.ver <= latest
          /\ \A n \in set : notifier[n].hasRun /\ r.ver <= notifier[n].ver
      BY <1>2, <1>5, <2>1, <3>3, <3>4
    <3> QED
      BY <1>1, <1>2, <1>3, <2>1, <3>2, <3>4, <3>5, DeliverStep
  <2> QED
    BY <2>3, <2>4, <2>5
<1>6. CASE /\ realm[h].stage # "Writing" /\ UNCHANGED realm
           /\ process_available_async(h, realm[h].ver,
                                      realm[h].stage = "Reading")
  <2>1. CASE error
    <3>1. DeliverError(h, notifiers_for_realm(h))
      BY <1>6, <2>1 DEF process_available_async
    <3> QED
      BY <1>1, <1>2, <1>3, <1>6, <2>1, <3>1, ErrorStep
  <2>2. CASE ~error
    <3>1. PICK set \in SUBSET Of(h) :
             /\ Deliver(h, set)
             /\ \A n \in set :
                   /\ notifier[n].hasRun
                   /\ realm[h].stage = "Reading" =>
                         notifier[n].ver = realm[h].ver
      BY <1>6, <2>2, PackableIs DEF process_available_async
    <3>2. \A n \in set : realm[h].stage = "Ready"
                            \/ realm[h].ver <= notifier[n].ver
      BY <1>6, <3>1, HandleIs
    <3>3. PICK r \in [stage : {"Ready", "Reading", "Writing"}, ver : Versions] :
             r = realm[h]
      BY <1>2
    <3>4. /\ realm' = [realm EXCEPT ![h] = r]
          /\ r.stage = "Writing" <=> writer = h
          /\ r.stage # "Writing" /\ r.ver <= latest
      BY <1>2, <1>6, <3>3
    <3>5. \A n \in set :
             /\ notifier[n].hasRun
             /\ jumped[h] \/ r.stage = "Ready" \/ r.ver <= notifier[n].ver
      BY <3>1, <3>2, <3>3
    <3>6. \A n \in Of(h) \ set :
             \/ jumped[h] \/ r.stage = "Ready" \/ ~notifier[n].initial
             \/ /\ pc[h] # "await" /\ realm[h].stage # "Ready"
                /\ r.ver = realm[h].ver
      BY <1>1, <3>3
    <3> QED
      BY <1>1, <1>2, <1>3, <3>1, <3>4, <3>5, <3>6, DeliverStep
  <2> QED
    BY <2>1, <2>2
<1> QED
  BY <1>4, <1>5, <1>6 DEF notify
-----------------------------------------------------------------------------
(* Commits *)

\* More may be asked for, and what else the callback has is kept.
AskedMore(n) ==
    /\ notifier'[n] \in Notifier
    /\ notifier'[n].realm = notifier[n].realm
    /\ notifier'[n].list = notifier[n].list
    /\ notifier'[n].ver = notifier[n].ver
    /\ notifier'[n].hasRun <=> notifier[n].hasRun
    /\ notifier'[n].change = notifier[n].change
    /\ notifier'[n].acc = notifier[n].acc
    /\ notifier'[n].todo = notifier[n].todo
    /\ notifier'[n].initial <=> notifier[n].initial
    /\ notifier'[n].skipNext <=> notifier[n].skipNext
    /\ notifier'[n].told = notifier[n].told
    /\ notifier'[n].dropped = notifier[n].dropped
    /\ notifier[n].asked \subseteq notifier'[n].asked
    /\ notifier[n].list = "none" => notifier'[n] = notifier[n]

\* What asking for more does to a notifier's record.
LEMMA AskIs ==
    ASSUME NEW n \in Notifier, NEW set \in SUBSET Commits, NEW m,
           m = [n EXCEPT !.asked = n.asked \cup set]
    PROVE  /\ m \in Notifier
           /\ m.realm = n.realm /\ m.list = n.list /\ m.ver = n.ver
           /\ (m.hasRun <=> n.hasRun) /\ m.change = n.change
           /\ m.acc = n.acc /\ m.todo = n.todo
           /\ (m.initial <=> n.initial) /\ (m.skipNext <=> n.skipNext)
           /\ m.told = n.told /\ m.dropped = n.dropped
           /\ m.asked = n.asked \cup set
BY DEF Notifier

\* A marked callback knows what its handle's commit spares it: the notifiers
\* of a handle that commits are at the last version.
LEMMA WriterIs ==
    ASSUME IInv, NEW h \in Handles, realm[h].stage = "Writing",
           pc[h] # "await", ~jumped[h], ~error, NEW n \in Of(h)
    PROVE  /\ n \in Notifiers /\ notifier[n].realm = h /\ is_alive(n)
           /\ notifier[n].hasRun /\ notifier[n].initial
           /\ notifier[n].ver = latest /\ notifier[n].acc = {}
           /\ notifier[n].list = "main"
<1>1. n \in Notifiers /\ notifier[n].realm = h /\ h # NoHandle
  BY HandleIs DEF Of
<1>2. /\ notifier[n].hasRun /\ notifier[n].initial
      /\ notifier[n].ver = latest /\ notifier[n].acc = {}
  BY HandleIs DEF WriteRight
<1> QED
  BY <1>1, <1>2, NotifierIs DEF is_alive

\* The next handover is at the last version or before it.
LEMMA NextHandoverIs ==
    ASSUME IInv, ~error
    PROVE  /\ NextHandover \in Nat
           /\ Running => NextHandover \in 1..latest
           /\ ~Running => NextHandover = skip
           /\ skip \in 0..latest
<1>1. TypeOK /\ RunningRight /\ SkipRight /\ WorkerAssertions
  BY DEF IInv
<1>2. /\ latest \in Nat /\ skip \in Nat /\ 1 <= latest
      /\ worker.version \in Nat /\ worker.skip \in Nat /\ helper \in Int
  BY <1>1, StateIs
<1>3. skip \in 0..latest
  BY <1>1, <1>2 DEF SkipRight
<1>4. CASE ~Running
  BY <1>2, <1>3, <1>4 DEF NextHandover, Running
<1>5. CASE Running
  <2>1. /\ helper \in 1..worker.version /\ worker.version <= latest
    BY <1>1, <1>5 DEF RunningRight
  <2>2. worker.at = "skip" => worker.skip \in helper..worker.version
    BY <1>1 DEF WorkerAssertions
  <2>3. worker.at = "skip" => NextHandover \in 1..latest
    BY <1>2, <2>1, <2>2 DEF NextHandover
  <2>4. worker.at = "skipped" => NextHandover \in 1..latest
    BY <1>2, <2>1 DEF NextHandover
  <2>5. worker.at \in {"run", "ran"} => NextHandover \in 1..latest
    BY <1>2, <2>1 DEF NextHandover
  <2> QED
    BY <1>2, <1>3, <1>5, <2>3, <2>4, <2>5 DEF Running
<1> QED
  BY <1>4, <1>5

\* A commit of another process.
LEMMA ExternalKeeps ==
    ASSUME IInv, ExternalCommit
    PROVE  IInv'
<1>1. /\ writer = NoHandle /\ latest < MaxVersion /\ latest' = latest + 1
      /\ UNCHANGED <<writer, realm, pc, package, jumped, notifier, advancer,
                     helper, skip, error, worker, signal>>
  BY DEF ExternalCommit, handleVars, coordVars
<1>2. /\ TypeOK /\ latest \in Nat /\ 1 <= latest /\ MaxVersion \in Nat
      /\ latest' \in Nat /\ latest <= latest'
  BY <1>1, StateIs DEF IInv
<1>3. TypeOK'
  <2>1. latest' \in Versions /\ wake' \in BOOLEAN
    BY <1>1, <1>2 DEF Versions, ExternalCommit
  <2> QED
    BY <1>1, <1>2, <2>1 DEF TypeOK
<1>4. LessProgress
  BY <1>1 DEF LessProgress, IInv, ListsRight
<1>5. /\ ListsRight' /\ OpeningRight' /\ RunningRight' /\ RestingRight'
      /\ WorkerAssertions' /\ SkipRight'
  BY <1>1, <1>2, <1>4, WorkerFrame
<1>6. HandlesRight'
  <2> SUFFICES ASSUME NEW h \in Handles
               PROVE  StageRight(h)' /\ WaitRight(h)' /\ WriteRight(h)'
    BY DEF HandlesRight
  <2>1. /\ StageRight(h) /\ WaitRight(h) /\ realm[h].stage # "Writing"
        /\ realm[h].ver \in Int
    BY <1>1, HandleIs DEF StageRight
  <2>2. StageRight(h)'
    BY <1>1, <1>2, <2>1 DEF StageRight
  <2>3. WaitRight(h)'
    BY <1>1, <2>1 DEF WaitRight, Of
  <2>4. WriteRight(h)'
    BY <1>1, <2>1 DEF WriteRight
  <2> QED
    BY <2>2, <2>3, <2>4
<1>7. NotifiersRight'
  <2>1. NotifiersRight /\ NextHandover' = NextHandover
    BY <1>1 DEF IInv, NextHandover
  <2> SUFFICES ASSUME NEW n \in Notifiers
               PROVE  LagRight(n)' /\ SparedRight(n)' /\ ToldRight(n)'
    BY DEF NotifiersRight
  <2>2. /\ LagRight(n) /\ SparedRight(n) /\ ToldRight(n)
        /\ Live(n)' = Live(n) /\ Calm(n)' = Calm(n)
    BY <1>1, <2>1 DEF NotifiersRight, Live, Calm, is_alive
  <2>3. LagRight(n)'
    BY <1>1, <2>2 DEF LagRight
  <2>4. SparedRight(n)'
    BY <1>1, <2>1, <2>2 DEF SparedRight
  <2>5. ToldRight(n)'
    BY <1>1, <2>2 DEF ToldRight
  <2> QED
    BY <2>3, <2>4, <2>5
<1> QED
  BY <1>3, <1>5, <1>6, <1>7 DEF IInv

\* After a commit the handle's thread is where it was before it marked
\* callbacks.
AfterPlace(place) == CASE place = "commit" -> "idle"
                       [] place = "sendingCommit" -> "sending"
                       [] OTHER -> place

\* The records after a commit that went through or failed.
LEMMA AfterCommitIs ==
    ASSUME TypeOK, NEW h \in Handles, AfterCommit(h),
           pc[h] \in {"idle", "sending", "commit", "sendingCommit"}
    PROVE  \E place, pack :
              /\ pc' = [pc EXCEPT ![h] = place]
              /\ package' = [package EXCEPT ![h] = pack]
              /\ place \in {"idle", "sending"}
              /\ pack \in [set : SUBSET Notifiers, error : BOOLEAN,
                           target : 0..MaxVersion]
              /\ pack.error = package[h].error
<1>1. PICK place : place = AfterPlace(pc[h])
  OBVIOUS
<1>2. PICK pack : pack = [package[h] EXCEPT !.set = {}]
  OBVIOUS
<1>3. place \in {"idle", "sending"}
  BY <1>1 DEF AfterPlace
<1>4. pc' = [pc EXCEPT ![h] = place]
  BY <1>1 DEF AfterCommit, AfterPlace, TypeOK
<1>5. /\ package' = [package EXCEPT ![h] = pack]
      /\ pack \in [set : SUBSET Notifiers, error : BOOLEAN,
                   target : 0..MaxVersion]
      /\ pack.error = package[h].error
  BY <1>2 DEF AfterCommit, TypeOK
<1> QED
  BY <1>3, <1>4, <1>5

\* A commit fails: the callbacks stay marked, for whatever comes next.
LEMMA FailKeeps ==
    ASSUME IInv, NEW h \in Handles, CommitFails(h)
    PROVE  IInv'
<1> DEFINE Rest == latest + 1 .. MaxVersion
<1>1. /\ pc[h] \in {"commit", "sendingCommit"} /\ AfterCommit(h)
      /\ UNCHANGED <<latest, writer, realm, jumped, coordVars, worker, wake,
                     signal>>
      /\ UNCHANGED <<advancer, helper, skip, error>>
  BY DEF CommitFails, fileVars, coordVars
<1>2. /\ notifier' = [n \in Notifiers |-> notifier'[n]]
      /\ \A n \in Notifiers :
            IF n \in package[h].set /\ notifier[n].realm = h
            THEN notifier'[n] = [notifier[n] EXCEPT
                                    !.asked = notifier[n].asked \cup Rest]
            ELSE notifier'[n] = notifier[n]
  BY DEF CommitFails
<1>3. Rest \in SUBSET Commits /\ TypeOK /\ latest \in Int
  BY StateIs DEF Commits, IInv
<1> HIDE DEF Rest
<1>4. PICK place, pack :
         /\ pc' = [pc EXCEPT ![h] = place]
         /\ package' = [package EXCEPT ![h] = pack]
         /\ place \in {"idle", "sending"}
         /\ pack \in [set : SUBSET Notifiers, error : BOOLEAN,
                      target : 0..MaxVersion]
         /\ pack.error = package[h].error
  BY <1>1, <1>3, AfterCommitIs
<1>5. ASSUME NEW n \in Notifiers
      PROVE  /\ AskedMore(n)
             /\ n \in package[h].set /\ notifier[n].realm = h =>
                   Rest \subseteq notifier'[n].asked
             /\ notifier[n].realm # h => notifier'[n] = notifier[n]
  <2>1. /\ notifier[n] \in Notifier
        /\ notifier[n].list = "none" => notifier[n].realm = NoHandle
        /\ h # NoHandle
    BY NotifierIs, HandleIs, NewIs
  <2>2. CASE n \in package[h].set /\ notifier[n].realm = h
    <3>1. notifier'[n] = [notifier[n] EXCEPT
                             !.asked = notifier[n].asked \cup Rest]
      BY <1>2, <2>2
    <3> QED
      BY <1>3, <2>1, <2>2, <3>1, AskIs DEF AskedMore
  <2>3. CASE ~(n \in package[h].set /\ notifier[n].realm = h)
    <3>1. notifier'[n] = notifier[n]
      BY <1>2, <2>3
    <3> QED
      BY <2>1, <2>3, <3>1 DEF AskedMore
  <2> QED
    BY <2>2, <2>3
<1>6. notifier' \in [Notifiers -> Notifier]
  BY <1>2, <1>5 DEF AskedMore
<1>7. LessProgress /\ SameRealms
  BY <1>5, NotifierIs DEF LessProgress, SameRealms, AskedMore
<1>8. Becomes(h, realm[h], place, pack, jumped[h])
  BY <1>1, <1>3, <1>4, SameIs DEF Becomes
<1>9. RecordsTyped(realm[h], place, pack, jumped[h])
  BY <1>3, <1>4, SameIs DEF RecordsTyped
<1>10. LockRight(h)
  BY <1>1, HandleIs DEF LockRight
<1>11. /\ TypeOK'
       /\ realm'[h] = realm[h] /\ pc'[h] = place /\ package'[h] = pack
       /\ jumped'[h] = jumped[h]
       /\ \A k \in Handles : k # h =>
             /\ realm'[k] = realm[k] /\ pc'[k] = pc[k]
             /\ package'[k] = package[k] /\ jumped'[k] = jumped[k]
             /\ writer' = k <=> writer = k
  <2>1. latest' \in Versions /\ skip' \in 0..MaxVersion
    BY <1>1, <1>3 DEF TypeOK
  <2> QED
    BY <1>1, <1>3, <1>6, <1>8, <1>9, <1>10, <2>1, TypeFrame
<1>12. Of(h)' = Of(h) /\ realm[h].stage = "Writing"
  BY <1>1, <1>7, HandleIs DEF Of, SameRealms, StageRight
<1>13. StageRight(h)'
  BY <1>1, <1>4, <1>11, HandleIs DEF StageRight
<1>14. WaitRight(h)'
  BY <1>1, <1>4, <1>11, HandleIs DEF WaitRight
<1>15. WriteRight(h)'
  <2> SUFFICES ASSUME ~jumped[h], ~error, NEW n \in Of(h)
               PROVE  /\ notifier'[n].hasRun /\ notifier'[n].initial
                      /\ notifier'[n].ver = latest /\ notifier'[n].acc = {}
    BY <1>1, <1>11, <1>12 DEF WriteRight
  <2> QED
    BY <1>1, <1>5, <1>12, WriterIs DEF AskedMore
<1>16. ASSUME NEW n \in Of(h)
       PROVE  LagRight(n)' /\ SparedRight(n)' /\ ToldRight(n)'
  <2>1. n \in Notifiers /\ notifier[n].realm = h
    BY DEF Of
  <2>2. /\ LagRight(n) /\ SparedRight(n) /\ ToldRight(n) /\ AskedMore(n)
        /\ notifier[n] \in Notifier /\ notifier[n].ver \in Int
    BY <1>5, <2>1, NotifierIs
  <2>3. (Live(n)' <=> Live(n)) /\ (Calm(n)' <=> Calm(n))
    BY <1>11, <2>1, <2>2 DEF Live, Calm, is_alive, AskedMore
  <2>4. LagRight(n)'
    BY <1>1, <1>4, <1>11, <2>1, <2>2, <2>3 DEF LagRight, AskedMore
  <2>5. ToldRight(n)'
    BY <2>2, <2>3 DEF ToldRight, AskedMore
  <2>6. SparedRight(n)'
    <3> SUFFICES ASSUME Calm(n)', ~error', notifier'[n].skipNext
                 PROVE  /\ notifier'[n].initial
                        /\ \/ /\ NextHandover' # 0
                              /\ notifier'[n].ver + 1 .. NextHandover'
                                    \subseteq notifier'[n].asked
                           \/ notifier'[n].ver + 1 .. MaxVersion
                                 \subseteq notifier'[n].asked
      BY DEF SparedRight
    <3>1. NextHandover' = NextHandover /\ ~error
      BY <1>1 DEF NextHandover
    <3>2. /\ notifier'[n].ver = notifier[n].ver
          /\ notifier[n].asked \subseteq notifier'[n].asked
          /\ notifier'[n].initial <=> notifier[n].initial
          /\ notifier[n].skipNext
      BY <2>2 DEF AskedMore
    <3>3. /\ notifier[n].initial
          /\ \/ n \in package[h].set
             \/ /\ NextHandover # 0
                /\ notifier[n].ver + 1 .. NextHandover
                      \subseteq notifier[n].asked
             \/ notifier[n].ver + 1 .. MaxVersion \subseteq notifier[n].asked
      BY <2>1, <2>2, <2>3, <3>1, <3>2 DEF SparedRight
    <3>4. ~jumped[h]
      BY <2>1, <2>3 DEF Calm
    <3>5. notifier[n].ver = latest
      BY <1>1, <1>12, <3>1, <3>4, WriterIs
    <3>6. n \in package[h].set =>
             notifier[n].ver + 1 .. MaxVersion \subseteq notifier'[n].asked
      BY <1>5, <2>1, <3>5 DEF Rest
    <3> QED
      BY <3>1, <3>2, <3>3, <3>6
  <2> QED
    BY <2>4, <2>5, <2>6
<1>17. \A n \in Notifiers :
          notifier[n].realm # h => notifier'[n] = notifier[n]
  BY <1>5
<1> QED
  BY <1>1, <1>7, <1>11, <1>13, <1>14, <1>15, <1>16, <1>17, HandleFrame

\* What marking does to a notifier's record.
LEMMA MarkIs ==
    ASSUME NEW n \in Notifier, NEW m, m = [n EXCEPT !.skipNext = TRUE]
    PROVE  /\ m \in Notifier
           /\ m.realm = n.realm /\ m.list = n.list /\ m.ver = n.ver
           /\ (m.hasRun <=> n.hasRun) /\ m.change = n.change
           /\ m.acc = n.acc /\ m.todo = n.todo
           /\ (m.initial <=> n.initial) /\ m.skipNext
           /\ m.told = n.told /\ m.dropped = n.dropped
           /\ m.asked = n.asked
BY DEF Notifier

\* Callbacks are marked right before their handle commits.
LEMMA SuppressKeeps ==
    ASSUME IInv, NEW h \in Handles, NEW spared \in SUBSET Notifiers,
           suppress_next_notification(h, spared)
    PROVE  IInv'
<1>1. /\ pc[h] \in {"idle", "sending"} /\ realm[h].stage = "Writing"
      /\ spared \subseteq Of(h)
      /\ UNCHANGED <<latest, writer, realm, jumped, coordVars, worker, wake,
                     signal>>
      /\ UNCHANGED <<advancer, helper, skip, error>>
  BY CoordinatorAssumption DEF suppress_next_notification, fileVars, coordVars,
                               Of
<1>2. /\ notifier' = [n \in Notifiers |-> notifier'[n]]
      /\ \A n \in spared :
            notifier'[n] = [notifier[n] EXCEPT !.skipNext = TRUE]
      /\ \A n \in Notifiers \ spared : notifier'[n] = notifier[n]
  BY DEF suppress_next_notification
<1>3. ASSUME NEW n \in Notifiers
      PROVE  /\ notifier'[n] \in Notifier
             /\ notifier'[n].realm = notifier[n].realm
             /\ notifier'[n].list = notifier[n].list
             /\ notifier'[n].ver = notifier[n].ver
             /\ notifier'[n].hasRun <=> notifier[n].hasRun
             /\ notifier'[n].change = notifier[n].change
             /\ notifier'[n].acc = notifier[n].acc
             /\ notifier'[n].todo = notifier[n].todo
             /\ notifier'[n].initial <=> notifier[n].initial
             /\ n \notin spared =>
                   (notifier'[n].skipNext <=> notifier[n].skipNext)
             /\ notifier'[n].told = notifier[n].told
             /\ notifier'[n].dropped = notifier[n].dropped
             /\ notifier'[n].asked = notifier[n].asked
  <2>1. notifier[n] \in Notifier
    BY NotifierIs
  <2>2. CASE n \in spared
    BY <1>2, <2>1, <2>2, MarkIs
  <2>3. CASE n \notin spared
    BY <1>2, <2>1, <2>3
  <2> QED
    BY <2>2, <2>3
<1>4. ASSUME NEW n \in Notifiers, notifier[n].realm # h
      PROVE  notifier'[n] = notifier[n]
  BY <1>1, <1>2, <1>4 DEF Of
<1>5. ASSUME NEW n \in Notifiers, notifier[n].list = "none"
      PROVE  notifier'[n] = notifier[n]
  <2>1. notifier[n].realm # h
    BY <1>5, NotifierIs, HandleIs, NewIs
  <2> QED
    BY <1>4, <2>1
<1>6. notifier' \in [Notifiers -> Notifier]
  BY <1>2, <1>3
<1>7. LessProgress /\ SameRealms
  <2>1. SameRealms
    BY <1>3 DEF SameRealms
  <2>2. \A n \in Notifiers : notifier'[n].initial => notifier[n].hasRun
    BY <1>3, NotifierIs
  <2> QED
    BY <1>3, <1>5, <2>1, <2>2 DEF LessProgress
<1>8. TypeOK
  BY DEF IInv
<1>9. PICK place : place = IF pc[h] = "idle" THEN "commit" ELSE "sendingCommit"
  OBVIOUS
<1>10. PICK pack : pack = [package[h] EXCEPT !.set = spared]
  OBVIOUS
<1>11. /\ place \in {"commit", "sendingCommit"}
       /\ pc' = [pc EXCEPT ![h] = place]
  BY <1>8, <1>9 DEF suppress_next_notification, TypeOK
<1>12. /\ package' = [package EXCEPT ![h] = pack]
       /\ pack \in [set : SUBSET Notifiers, error : BOOLEAN,
                    target : 0..MaxVersion]
       /\ pack.error = package[h].error /\ pack.set = spared
  BY <1>8, <1>10 DEF suppress_next_notification, TypeOK
<1>13. Becomes(h, realm[h], place, pack, jumped[h])
  BY <1>1, <1>8, <1>11, <1>12, SameIs DEF Becomes
<1>14. RecordsTyped(realm[h], place, pack, jumped[h])
  BY <1>8, <1>11, <1>12, SameIs DEF RecordsTyped
<1>15. LockRight(h)
  BY <1>1, HandleIs DEF LockRight
<1>16. /\ TypeOK'
       /\ realm'[h] = realm[h] /\ pc'[h] = place /\ package'[h] = pack
       /\ jumped'[h] = jumped[h]
       /\ \A k \in Handles : k # h =>
             /\ realm'[k] = realm[k] /\ pc'[k] = pc[k]
             /\ package'[k] = package[k] /\ jumped'[k] = jumped[k]
             /\ writer' = k <=> writer = k
  <2>1. latest' \in Versions /\ skip' \in 0..MaxVersion
    BY <1>1, <1>8 DEF TypeOK
  <2> QED
    BY <1>1, <1>6, <1>8, <1>13, <1>14, <1>15, <2>1, TypeFrame
<1>17. Of(h)' = Of(h)
  BY <1>7 DEF Of, SameRealms
<1>18. StageRight(h)'
  BY <1>1, <1>11, <1>16, HandleIs DEF StageRight
<1>19. WaitRight(h)'
  BY <1>1, <1>11, <1>12, <1>16, HandleIs DEF WaitRight
<1>20. ASSUME ~jumped[h], ~error, NEW n \in Of(h)
       PROVE  /\ n \in Notifiers /\ notifier[n].hasRun /\ notifier[n].initial
              /\ notifier[n].ver = latest /\ notifier[n].acc = {}
  BY <1>1, <1>20, WriterIs
<1>21. WriteRight(h)'
  BY <1>1, <1>3, <1>16, <1>17, <1>20 DEF WriteRight
<1>22. ASSUME NEW n \in Of(h)
       PROVE  LagRight(n)' /\ SparedRight(n)' /\ ToldRight(n)'
  <2>1. n \in Notifiers /\ notifier[n].realm = h
    BY DEF Of
  <2>2. /\ LagRight(n) /\ SparedRight(n) /\ ToldRight(n)
        /\ notifier'[n].realm = h
    BY <1>3, <2>1, NotifierIs
  <2>3. (Live(n)' <=> Live(n)) /\ (Calm(n)' <=> Calm(n))
    BY <1>3, <1>16, <2>1 DEF Live, Calm, is_alive
  <2>4. LagRight(n)'
    BY <1>1, <1>3, <1>16, <2>1, <2>2, <2>3 DEF LagRight
  <2>5. ToldRight(n)'
    BY <1>3, <2>1, <2>2, <2>3 DEF ToldRight
  <2>6. SparedRight(n)'
    <3>1. CASE n \in spared
      <4>1. n \in package'[h].set /\ pc'[h] \in {"commit", "sendingCommit"}
        BY <1>11, <1>12, <1>16, <3>1
      <4>2. Calm(n)' /\ ~error' => notifier'[n].initial
        BY <1>1, <1>3, <1>20, <2>1, <2>3 DEF Calm
      <4> QED
        BY <2>2, <4>1, <4>2 DEF SparedRight
    <3>2. CASE n \notin spared
      <4>1. NextHandover' = NextHandover
        BY <1>1 DEF NextHandover
      <4>2. notifier'[n] = notifier[n]
        BY <1>2, <2>1, <3>2
      <4> QED
        BY <1>1, <2>1, <2>2, <2>3, <4>1, <4>2 DEF SparedRight
    <3> QED
      BY <3>1, <3>2
  <2> QED
    BY <2>4, <2>5, <2>6
<1> QED
  BY <1>1, <1>4, <1>7, <1>16, <1>18, <1>19, <1>21, <1>22, HandleFrame

\* A commit changes nothing of a notifier but what was asked for.
LEMMA CommitAsks ==
    ASSUME IInv, NEW h \in Handles, commit_transaction(h), NEW n \in Notifiers
    PROVE  /\ AskedMore(n)
           /\ pc[h] \in {"commit", "sendingCommit"} /\ n \in package[h].set
                 /\ notifier[n].realm = h =>
                 latest + 1 \in notifier'[n].asked
           /\ jumped[h] /\ notifier[n].skipNext /\ notifier[n].realm # h =>
                 notifier[n].ver + 1 .. latest + 1 \subseteq notifier'[n].asked
<1>1. /\ notifier[n] \in Notifier /\ notifier[n].ver \in Nat
      /\ latest \in Nat /\ MaxVersion \in Nat /\ latest < MaxVersion
      /\ latest' = latest + 1
  <2>1. notifier[n] \in Notifier /\ notifier[n].ver \in 0..MaxVersion
    BY NotifierIs, FieldsAre
  <2> QED
    BY <2>1, StateIs DEF IInv, commit_transaction
<1>2. notifier[n].list = "none" =>
         notifier[n] = NewNotifier /\ notifier[n].realm # h
            /\ ~notifier[n].skipNext
  BY NotifierIs, NewIs, HandleIs
<1>3. /\ {latest + 1} \in SUBSET Commits
      /\ (notifier[n].ver + 1 .. latest + 1) \in SUBSET Commits
  BY <1>1 DEF Commits
<1>4. CASE pc[h] \in {"commit", "sendingCommit"} /\ n \in package[h].set
              /\ notifier[n].realm = h
  <2>0. PICK one \in SUBSET Commits : one = {latest + 1}
    BY <1>3
  <2>1. notifier'[n] = [notifier[n] EXCEPT
                           !.asked = notifier[n].asked \cup one]
    BY <1>1, <1>4, <2>0 DEF commit_transaction
  <2>2. /\ notifier'[n] \in Notifier
        /\ notifier'[n].realm = notifier[n].realm
        /\ notifier'[n].list = notifier[n].list
        /\ notifier'[n].ver = notifier[n].ver
        /\ notifier'[n].hasRun <=> notifier[n].hasRun
        /\ notifier'[n].change = notifier[n].change
        /\ notifier'[n].acc = notifier[n].acc
        /\ notifier'[n].todo = notifier[n].todo
        /\ notifier'[n].initial <=> notifier[n].initial
        /\ notifier'[n].skipNext <=> notifier[n].skipNext
        /\ notifier'[n].told = notifier[n].told
        /\ notifier'[n].dropped = notifier[n].dropped
        /\ notifier'[n].asked = notifier[n].asked \cup one
    BY <1>1, <2>1, AskIs
  <2>3. notifier[n].asked \subseteq notifier'[n].asked
    BY <2>2
  <2>4. AskedMore(n)
    BY <1>2, <1>4, <2>2, <2>3 DEF AskedMore
  <2> QED
    BY <1>4, <2>0, <2>2, <2>3, <2>4
<1>5. CASE /\ ~(/\ pc[h] \in {"commit", "sendingCommit"} /\ n \in package[h].set
                /\ notifier[n].realm = h)
           /\ jumped[h] /\ notifier[n].skipNext
  <2>0. PICK some \in SUBSET Commits :
           some = (notifier[n].ver + 1 .. latest + 1)
    BY <1>3
  <2>1. notifier'[n] =
           [notifier[n] EXCEPT !.asked =
               notifier[n].asked \cup some]
    BY <1>1, <1>5, <2>0 DEF commit_transaction
  <2>2. /\ notifier'[n] \in Notifier
        /\ notifier'[n].realm = notifier[n].realm
        /\ notifier'[n].list = notifier[n].list
        /\ notifier'[n].ver = notifier[n].ver
        /\ notifier'[n].hasRun <=> notifier[n].hasRun
        /\ notifier'[n].change = notifier[n].change
        /\ notifier'[n].acc = notifier[n].acc
        /\ notifier'[n].todo = notifier[n].todo
        /\ notifier'[n].initial <=> notifier[n].initial
        /\ notifier'[n].skipNext <=> notifier[n].skipNext
        /\ notifier'[n].told = notifier[n].told
        /\ notifier'[n].dropped = notifier[n].dropped
        /\ notifier'[n].asked = notifier[n].asked \cup some
    BY <1>1, <2>1, AskIs
  <2>3. notifier[n].asked \subseteq notifier'[n].asked
    BY <2>2
  <2>4. AskedMore(n)
    BY <1>2, <1>5, <2>2, <2>3 DEF AskedMore
  <2> QED
    BY <1>5, <2>0, <2>2, <2>3, <2>4
<1>6. CASE /\ ~(/\ pc[h] \in {"commit", "sendingCommit"} /\ n \in package[h].set
                /\ notifier[n].realm = h)
           /\ ~(jumped[h] /\ notifier[n].skipNext)
  <2>1. notifier'[n] = notifier[n]
    BY <1>6 DEF commit_transaction
  <2> QED
    BY <1>1, <1>6, <2>1 DEF AskedMore
<1> QED
  BY <1>4, <1>5, <1>6

\* With notifiers about that have run, a skip version is ahead of them all
\* while the worker rests: none can be at the last version.
LEMMA SkipIsAhead ==
    ASSUME IInv, ~error, ~Running, skip # 0, NEW n \in Notifiers,
           notifier[n].hasRun
    PROVE  notifier[n].ver # latest
<1>1. SkipRight /\ RestingRight /\ TypeOK
  BY DEF IInv
<1>2. n \in m_notifiers
  BY NotifierIs DEF m_notifiers
<1>3. helper < skip /\ skip <= latest /\ notifier[n].ver = helper
  BY <1>1, <1>2 DEF SkipRight, RestingRight
<1>4. helper \in Int /\ skip \in Int /\ latest \in Int
  BY <1>1, StateIs
<1> QED
  BY <1>3, <1>4

\* A skip version may be set by whoever commits.
LEMMA CommitSkipRight ==
    ASSUME IInv, NEW h \in Handles, commit_transaction(h),
           m_notifiers' = m_notifiers, skip' # skip
    PROVE  SkipRight'
<1>1. /\ TypeOK /\ RunningRight /\ RestingRight /\ WorkerAssertions
      /\ UNCHANGED <<helper, error, worker>> /\ latest' = latest + 1
  BY DEF IInv, commit_transaction
<1>2. /\ latest \in Int /\ helper \in Int /\ worker.version \in Int
  BY <1>1, StateIs
<1>3. PICK n \in m_notifiers : notifier[n].realm = h /\ skip' = latest + 1
  BY DEF commit_transaction, CommitSkips
<1>4. n \in Notifiers
  BY <1>3 DEF m_notifiers
<1>5. Running => worker.version <= latest /\ helper <= worker.version
  BY <1>1 DEF RunningRight
<1>6. ~Running /\ ~error => helper <= latest
  <2> SUFFICES ASSUME ~Running, ~error
               PROVE  helper <= latest
    OBVIOUS
  <2>1. notifier[n].ver = helper
    BY <1>1, <1>3 DEF RestingRight
  <2>2. notifier[n].ver \in 1..latest
    BY <1>3, <1>4, NotifierIs DEF m_notifiers
  <2> QED
    BY <1>2, <2>1, <2>2
<1>7. ~error => helper < skip' /\ skip' <= latest'
  BY <1>1, <1>2, <1>3, <1>5, <1>6
<1>8. Running => worker.version < skip'
  BY <1>2, <1>3, <1>5
<1> QED
  BY <1>1, <1>3, <1>7, <1>8 DEF SkipRight, Running

\* What a callback that counts on its handle will be spared was asked for,
\* after a commit as before it.
LEMMA CommitSpares ==
    ASSUME IInv, NEW h \in Handles, commit_transaction(h), NEW n \in Notifiers,
           pc' = [pc EXCEPT ![h] = AfterPlace(pc[h])],
           package' = [package EXCEPT ![h].set = {}]
    PROVE  SparedRight(n)'
<1>1. /\ TypeOK /\ SparedRight(n) /\ AskedMore(n)
      /\ latest \in Nat /\ latest' = latest + 1
      /\ UNCHANGED <<error, helper, worker, jumped>>
      /\ skip' = (IF \E m \in m_notifiers : notifier[m].realm = h
                  THEN latest + 1 ELSE skip)
      /\ realm[h].stage = "Writing" /\ writer = h
      /\ pc[h] \in {"idle", "sending", "commit", "sendingCommit"}
  BY StateIs, CommitAsks, NotifierIs, HandleIs
     DEF IInv, commit_transaction, CommitSkips, StageRight
<1>2. SUFFICES ASSUME Calm(n)', ~error', notifier'[n].skipNext
               PROVE  /\ notifier'[n].initial
                      /\ \/ /\ pc'[notifier'[n].realm]
                                  \in {"commit", "sendingCommit"}
                            /\ n \in package'[notifier'[n].realm].set
                         \/ /\ NextHandover' # 0
                            /\ notifier'[n].ver + 1 .. NextHandover'
                                  \subseteq notifier'[n].asked
                         \/ notifier'[n].ver + 1 .. MaxVersion
                               \subseteq notifier'[n].asked
  BY DEF SparedRight
<1>3. PICK k \in Handles : k = notifier[n].realm
  BY <1>1, <1>2, NotifierIs DEF Calm, is_alive, AskedMore
<1>4. /\ ~error /\ ~jumped[k] /\ Calm(n) /\ notifier[n].skipNext
      /\ notifier'[n].realm = k /\ notifier'[n].ver = notifier[n].ver
      /\ notifier[n].asked \subseteq notifier'[n].asked
      /\ notifier'[n].initial <=> notifier[n].initial
  BY <1>1, <1>2, <1>3 DEF Calm, is_alive, AskedMore
<1>5. /\ notifier[n].initial
      /\ \/ pc[k] \in {"commit", "sendingCommit"} /\ n \in package[k].set
         \/ /\ NextHandover # 0
            /\ notifier[n].ver + 1 .. NextHandover \subseteq notifier[n].asked
         \/ notifier[n].ver + 1 .. MaxVersion \subseteq notifier[n].asked
  BY <1>1, <1>3, <1>4 DEF SparedRight
<1>6. /\ notifier[n].hasRun /\ notifier[n].list = "main"
      /\ notifier[n].ver \in 1..latest /\ notifier[n].ver \in Nat
  BY <1>1, <1>5, NotifierIs
<1>7. /\ NextHandover \in Nat /\ skip \in 0..latest
      /\ Running => NextHandover \in 1..latest
      /\ ~Running => NextHandover = skip
  BY <1>4, NextHandoverIs
<1>8. /\ Running => NextHandover' = NextHandover
      /\ ~Running => NextHandover' = skip'
  BY <1>1 DEF NextHandover, Running, TypeOK
<1>9. CASE k = h
  <2>1. n \in Of(h) /\ notifier[n].ver = latest
    <3>1. n \in Of(h)
      BY <1>3, <1>9 DEF Of
    <3> QED
      BY <1>1, <1>4, <1>9, <3>1, WriterIs
  <2>2. skip' = latest + 1
    BY <1>1, <1>3, <1>6, <1>9 DEF m_notifiers
  <2>3. CASE Running
    <3>1. notifier[n].ver + 1 .. NextHandover = {}
      BY <1>1, <1>7, <2>1, <2>3
    <3> QED
      BY <1>4, <1>5, <1>7, <1>8, <2>3, <3>1
  <2>4. CASE ~Running
    <3>1. NextHandover' = latest + 1 /\ NextHandover' # 0
          /\ notifier[n].ver + 1 .. NextHandover' = {latest + 1}
      BY <1>1, <1>8, <2>1, <2>2, <2>4
    <3>2. NextHandover = 0
      BY <1>4, <1>6, <1>7, <2>1, <2>4, SkipIsAhead
    <3>3. CASE pc[h] \in {"commit", "sendingCommit"} /\ n \in package[h].set
      <4>1. latest + 1 \in notifier'[n].asked
        BY <1>3, <1>9, <3>3, CommitAsks
      <4> QED
        BY <1>4, <1>5, <3>1, <4>1
    <3>4. CASE notifier[n].ver + 1 .. MaxVersion \subseteq notifier[n].asked
      BY <1>4, <1>5, <3>4
    <3> QED
      BY <1>5, <1>9, <3>2, <3>3, <3>4
  <2> QED
    BY <2>3, <2>4
<1>10. CASE k # h
  <2>1. ~(pc[k] \in {"commit", "sendingCommit"})
    BY <1>1, <1>10, HandleIs DEF StageRight
  <2>2. CASE notifier[n].ver + 1 .. MaxVersion \subseteq notifier[n].asked
    BY <1>4, <1>5, <2>2
  <2>3. CASE /\ NextHandover # 0
             /\ notifier[n].ver + 1 .. NextHandover \subseteq notifier[n].asked
    <3>1. CASE NextHandover' = NextHandover
      BY <1>4, <1>5, <2>3, <3>1
    <3>2. CASE NextHandover' # NextHandover
      <4>1. /\ ~Running /\ skip # 0 /\ NextHandover' = latest + 1
            /\ NextHandover' # 0
            /\ \E m \in m_notifiers : notifier[m].realm = h
        BY <1>1, <1>7, <1>8, <2>3, <3>2
      <4>2. jumped[h]
        <5>1. SUFFICES ASSUME ~jumped[h] PROVE FALSE
          OBVIOUS
        <5>2. PICK m \in m_notifiers : notifier[m].realm = h
          BY <4>1
        <5>3. m \in Of(h)
          BY <5>2 DEF Of, m_notifiers
        <5>4. /\ m \in Notifiers /\ notifier[m].hasRun
              /\ notifier[m].ver = latest
          BY <1>1, <1>4, <5>1, <5>3, WriterIs
        <5> QED
          BY <1>4, <4>1, <5>4, SkipIsAhead
      <4>3. notifier[n].ver + 1 .. latest + 1 \subseteq notifier'[n].asked
        BY <1>3, <1>4, <1>10, <4>2, CommitAsks
      <4> QED
        BY <1>4, <1>5, <4>1, <4>3
    <3> QED
      BY <3>1, <3>2
  <2> QED
    BY <1>5, <2>1, <2>2, <2>3
<1> QED
  BY <1>9, <1>10

\* A commit: the notifiers of the handle are one commit behind it.
LEMMA CommitKeeps ==
    ASSUME IInv, NEW h \in Handles, commit_transaction(h)
    PROVE  IInv'
<1>1. /\ TypeOK /\ realm[h].stage = "Writing" /\ writer = h
      /\ pc[h] \in {"idle", "sending", "commit", "sendingCommit"}
      /\ AfterCommit(h) /\ writer' = NoHandle /\ wake' \in BOOLEAN
      /\ latest' = latest + 1 /\ latest < MaxVersion
      /\ UNCHANGED <<jumped, advancer, helper, error, worker, signal>>
  BY HandleIs DEF commit_transaction, StageRight
<1>2. /\ latest \in Nat /\ 1 <= latest /\ MaxVersion \in Nat
      /\ latest' \in Versions /\ latest' \in Int /\ latest <= latest'
  BY <1>1, StateIs DEF Versions
<1>3. PICK r \in [stage : {"Ready", "Reading", "Writing"}, ver : Versions] :
         /\ r.stage = "Reading" /\ r.ver = latest + 1
         /\ realm' = [realm EXCEPT ![h] = r]
  <2>1. PICK r : r = [stage |-> "Reading", ver |-> latest']
    OBVIOUS
  <2>2. realm' = [realm EXCEPT ![h] = r]
    BY <2>1 DEF commit_transaction
  <2> QED
    BY <1>1, <1>2, <2>1, <2>2
<1>4. PICK place, pack :
         /\ pc' = [pc EXCEPT ![h] = place]
         /\ package' = [package EXCEPT ![h] = pack]
         /\ place \in {"idle", "sending"}
         /\ pack \in [set : SUBSET Notifiers, error : BOOLEAN,
                      target : 0..MaxVersion]
         /\ pack.error = package[h].error
  BY <1>1, AfterCommitIs
<1>5. \A n \in Notifiers : AskedMore(n)
  BY CommitAsks
<1>6. notifier' \in [Notifiers -> Notifier]
  <2>1. notifier' = [n \in Notifiers |-> notifier'[n]]
    BY DEF commit_transaction
  <2> QED
    BY <1>5, <2>1 DEF AskedMore
<1>7. LessProgress /\ SameRealms
  BY <1>5, NotifierIs DEF LessProgress, SameRealms, AskedMore
<1>8. LockRight(h)
  BY <1>1, HandleIs DEF LockRight, TypeOK
<1>9. Becomes(h, r, place, pack, jumped[h])
  BY <1>1, <1>3, <1>4, SameIs DEF Becomes
<1>10. RecordsTyped(r, place, pack, jumped[h])
  BY <1>1, <1>3, <1>4, SameIs DEF RecordsTyped
<1>11. skip' \in 0..MaxVersion
  BY <1>1, <1>2 DEF commit_transaction, CommitSkips, TypeOK
<1>12. /\ TypeOK'
       /\ realm'[h] = r /\ pc'[h] = place /\ package'[h] = pack
       /\ jumped'[h] = jumped[h]
       /\ \A k \in Handles : k # h =>
             /\ realm'[k] = realm[k] /\ pc'[k] = pc[k]
             /\ package'[k] = package[k] /\ jumped'[k] = jumped[k]
             /\ writer' = k <=> writer = k
  BY <1>1, <1>2, <1>6, <1>8, <1>9, <1>10, <1>11, TypeFrame
<1>13. /\ ListsRight' /\ OpeningRight' /\ RunningRight' /\ RestingRight'
       /\ WorkerAssertions' /\ (skip' = skip => SkipRight')
  BY <1>1, <1>2, <1>7, WorkerFrame
<1>14. SkipRight'
  <2>1. m_notifiers' = m_notifiers
    BY <1>5 DEF m_notifiers, AskedMore
  <2> QED
    BY <1>13, <2>1, CommitSkipRight
<1>15. HandlesRight'
  <2> SUFFICES ASSUME NEW k \in Handles
               PROVE  StageRight(k)' /\ WaitRight(k)' /\ WriteRight(k)'
    BY DEF HandlesRight
  <2>1. Of(k)' = Of(k)
    BY <1>7 DEF Of, SameRealms
  <2>2. CASE k = h
    <3>1. StageRight(h)'
      BY <1>1, <1>2, <1>3, <1>4, <1>12, HandleIs DEF StageRight
    <3>2. WaitRight(h)'
      BY <1>1, <1>4, <1>12, HandleIs DEF WaitRight
    <3>3. WriteRight(h)'
      BY <1>3, <1>12 DEF WriteRight
    <3> QED
      BY <2>2, <3>1, <3>2, <3>3
  <2>3. CASE k # h
    <3>1. /\ realm'[k] = realm[k] /\ pc'[k] = pc[k]
          /\ package'[k] = package[k]
          /\ realm[k].stage # "Writing" /\ realm[k].ver <= latest
          /\ realm[k].ver \in Int
          /\ StageRight(k) /\ WaitRight(k)
      BY <1>1, <1>12, <2>3, HandleIs DEF StageRight
    <3>2. StageRight(k)'
      BY <1>1, <1>2, <1>12, <2>3, <3>1 DEF StageRight
    <3>3. WaitRight(k)'
      BY <1>1, <2>1, <3>1 DEF WaitRight
    <3>4. WriteRight(k)'
      BY <3>1 DEF WriteRight
    <3> QED
      BY <3>2, <3>3, <3>4
  <2> QED
    BY <2>2, <2>3
<1>16. NotifiersRight'
  <2> SUFFICES ASSUME NEW n \in Notifiers
               PROVE  LagRight(n)' /\ SparedRight(n)' /\ ToldRight(n)'
    BY DEF NotifiersRight
  <2>1. /\ LagRight(n) /\ ToldRight(n) /\ AskedMore(n)
        /\ notifier[n].initial => notifier[n].hasRun
        /\ error => ~notifier[n].hasRun
    BY <1>5, NotifierIs
  <2>2. Live(n)' <=> Live(n)
    BY <1>1, <2>1 DEF Live, is_alive, AskedMore
  <2>3. SparedRight(n)'
    <3>1. /\ pc' = [pc EXCEPT ![h] = AfterPlace(pc[h])]
          /\ package' = [package EXCEPT ![h].set = {}]
      BY <1>1 DEF AfterCommit, AfterPlace, TypeOK
    <3> QED
      BY <3>1, CommitSpares
  <2>4. ToldRight(n)'
    BY <2>1, <2>2 DEF ToldRight, AskedMore
  <2>5. LagRight(n)'
    <3> SUFFICES ASSUME Live(n)
                 PROVE  LagRight(n)'
      BY <2>2 DEF LagRight
    <3>1. PICK k \in Handles : k = notifier[n].realm
      BY NotifierIs DEF Live, is_alive
    <3>2. /\ ~error /\ ~jumped[k]
          /\ notifier'[n].realm = k /\ notifier'[n].ver = notifier[n].ver
          /\ notifier'[n].acc = notifier[n].acc
          /\ notifier'[n].todo = notifier[n].todo
          /\ notifier[n].todo = {}
      BY <2>1, <3>1 DEF Live, AskedMore, LagRight
    <3>3. CASE k = h
      <4>1. n \in Of(h)
        BY <3>1, <3>3 DEF Of
      <4>2. notifier[n].ver = latest /\ notifier[n].acc = {}
        BY <1>1, <3>2, <3>3, <4>1, WriterIs
      <4> QED
        BY <1>2, <1>3, <1>12, <3>2, <3>3, <4>2 DEF LagRight
    <3>4. CASE k # h
      BY <1>12, <2>1, <3>1, <3>2, <3>4 DEF LagRight
    <3> QED
      BY <3>3, <3>4
  <2> QED
    BY <2>3, <2>4, <2>5
<1> QED
  BY <1>12, <1>13, <1>14, <1>15, <1>16 DEF IInv
-----------------------------------------------------------------------------
(* Registering and unregistering *)

\* A new notifier: the advancer reads at its version or before.
LEMMA RegisterKeeps ==
    ASSUME IInv, NEW n \in Notifiers, NEW h \in Handles,
           register_notifier(n, h)
    PROVE  IInv'
<1> DEFINE v == realm[h].ver
<1>1. /\ pc[h] = "idle" /\ realm[h].stage = "Reading"
      /\ notifier[n] = NewNotifier /\ pin_version(v) /\ wake' = TRUE
      /\ UNCHANGED <<latest, writer, realm, pc, package, jumped, helper, skip,
                     worker, signal>>
  BY DEF register_notifier, fileVars, handleVars
<1>2. /\ TypeOK /\ ListsRight /\ OpeningRight /\ RunningRight /\ RestingRight
      /\ SkipRight /\ WorkerAssertions
      /\ latest \in Int /\ helper \in Int /\ advancer \in Int
  BY StateIs DEF IInv
<1>3. v \in 1..latest /\ v \in 0..MaxVersion /\ v \in Versions /\ v \in Int
  BY HandleIs, CoordinatorAssumption DEF StageRight, Versions
<1>4. PICK m : m = [NewNotifier EXCEPT !.realm = h, !.list = "new", !.ver = v]
  OBVIOUS
<1> HIDE DEF v
<1>5. /\ notifier' = [notifier EXCEPT ![n] = m]
      /\ m \in Notifier /\ m.realm = h /\ m.list = "new" /\ m.ver = v
      /\ ~m.hasRun /\ ~m.initial /\ ~m.skipNext
  <2>1. notifier' = [notifier EXCEPT ![n] = m]
    BY <1>4 DEF register_notifier, v
  <2>2. /\ m \in Notifier /\ m.realm = h /\ m.list = "new" /\ m.ver = v
        /\ ~m.hasRun /\ ~m.initial /\ ~m.skipNext
    BY <1>3, <1>4, NewIs DEF Notifier, NewNotifier
  <2> QED
    BY <2>1, <2>2
<1>6. /\ notifier' \in [Notifiers -> Notifier] /\ notifier'[n] = m
      /\ \A o \in Notifiers : o # n => notifier'[o] = notifier[o]
  BY <1>2, <1>5 DEF TypeOK
<1>7. /\ notifier[n].realm = NoHandle /\ notifier[n].list = "none"
      /\ ~notifier[n].hasRun
  BY <1>1, NewIs
<1>8. /\ m_notifiers' = m_notifiers
      /\ m_new_notifiers' = m_new_notifiers \cup {n}
      /\ n \notin m_notifiers
  BY <1>5, <1>6, <1>7 DEF m_notifiers, m_new_notifiers
<1>9. /\ error \in BOOLEAN /\ (error => error')
      /\ error' \in BOOLEAN /\ advancer' \in Unopened..MaxVersion
      /\ error' /\ ~error => advancer = Unopened
      /\ ~error' => /\ advancer' \in 1..v
                    /\ \A o \in m_new_notifiers : advancer' <= advancer
      /\ advancer' = Unopened => advancer = Unopened
  <2>1. CASE error
    BY <1>1, <1>2, <2>1 DEF pin_version, TypeOK
  <2>2. CASE /\ ~error /\ advancer = Unopened
             /\ error' = TRUE /\ UNCHANGED advancer
    BY <1>2, <2>2 DEF TypeOK
  <2>3. CASE /\ ~error /\ UNCHANGED error
             /\ advancer' = IF advancer \in {Unopened, Ready}
                               \/ m_new_notifiers = {} \/ v < advancer
                            THEN v ELSE advancer
    <3>1. \A o \in m_new_notifiers : 1 <= advancer
      BY <1>2, <2>3, NotifierIs DEF WorkerAssertions, m_new_notifiers
    <3>2. advancer \in Unopened..MaxVersion /\ MaxVersion \in Nat
      BY <1>2, StateIs DEF TypeOK
    <3> QED
      BY <1>2, <1>3, <2>3, <3>1, <3>2 DEF TypeOK, Unopened, Ready
  <2> QED
    BY <1>1, <2>1, <2>2, <2>3 DEF pin_version
<1>10. TypeOK'
  <2>1. wake' \in BOOLEAN
    BY <1>1
  <2> QED
    BY <1>1, <1>2, <1>6, <1>9, <2>1 DEF TypeOK
<1>11. ListsRight'
  BY <1>1, <1>2, <1>3, <1>5, <1>6 DEF ListsRight, is_alive
<1>12. OpeningRight'
  BY <1>1, <1>2, <1>5, <1>6, <1>9 DEF OpeningRight
<1>13. ASSUME NEW o \in m_notifiers
       PROVE  o \in Notifiers /\ notifier'[o] = notifier[o]
                 /\ is_alive(o)' = is_alive(o)
  BY <1>6, <1>8 DEF m_notifiers, is_alive
<1>14. RunningRight'
  <2>1. Running' <=> Running
    BY <1>1 DEF Running
  <2>2. SUFFICES ASSUME Running PROVE RunningRight'
    BY <2>1 DEF RunningRight
  <2>3. /\ helper \in 1..worker.version /\ worker.version <= latest
        /\ m_notifiers = worker.old \cup worker.new
        /\ worker.old \cap worker.new = {}
    BY <1>2, <2>2 DEF RunningRight
  <2>4. \A o \in worker.new : ~notifier'[o].hasRun
    BY <1>2, <1>13, <2>2, <2>3 DEF RunningRight
  <2>5. \A o \in worker.old :
           /\ notifier'[o].hasRun /\ notifier'[o].ver <= helper
           /\ worker.at \in {"skip", "run"} => notifier'[o].ver = helper
           /\ is_alive(o)' =>
                 notifier'[o].change = notifier'[o].ver + 1 .. helper
    BY <1>2, <1>13, <2>2, <2>3 DEF RunningRight
  <2> QED
    BY <1>1, <1>8, <2>3, <2>4, <2>5 DEF RunningRight
<1>15. RestingRight'
  BY <1>1, <1>2, <1>8, <1>9, <1>13 DEF RestingRight, Running
<1>16. SkipRight'
  BY <1>1, <1>2, <1>8, <1>9 DEF SkipRight, Running
<1>17. WorkerAssertions'
  <2>1. \A o, p \in m_notifiers' :
           notifier'[o].hasRun /\ notifier'[p].hasRun =>
              notifier'[o].ver = notifier'[p].ver
    BY <1>2, <1>8, <1>13 DEF WorkerAssertions
  <2>2. ASSUME ~error', NEW o \in m_new_notifiers'
        PROVE  advancer' \in 1..notifier'[o].ver
    <3>1. CASE o = n
      BY <1>5, <1>6, <1>9, <2>2, <3>1
    <3>2. CASE o # n
      <4>1. o \in m_new_notifiers /\ o \in Notifiers
               /\ notifier'[o] = notifier[o]
        BY <1>6, <1>8, <2>2, <3>2 DEF m_new_notifiers
      <4>2. advancer \in 1..notifier[o].ver /\ notifier[o].ver \in Int
        BY <1>2, <1>9, <2>2, <4>1, NotifierIs DEF WorkerAssertions
      <4>3. advancer' \in 1..v /\ advancer' <= advancer
        BY <1>9, <2>2, <4>1
      <4> QED
        BY <1>2, <1>3, <4>1, <4>2, <4>3
    <3> QED
      BY <3>1, <3>2
  <2>3. m_new_notifiers' # {}
    BY <1>8
  <2>4. ~error' => (m_notifiers' # {} <=> helper' > 0)
    BY <1>1, <1>2, <1>8, <1>9 DEF WorkerAssertions
  <2>5. ~error' => (worker'.at = "skip" =>
           worker'.old # {} /\ worker'.skip \in helper'..worker'.version)
    BY <1>1, <1>2, <1>9 DEF WorkerAssertions
  <2> QED
    BY <2>1, <2>2, <2>3, <2>4, <2>5 DEF WorkerAssertions
<1>18. HandlesRight'
  <2> SUFFICES ASSUME NEW k \in Handles
               PROVE  StageRight(k)' /\ WaitRight(k)' /\ WriteRight(k)'
    BY DEF HandlesRight
  <2>1. StageRight(k) /\ WaitRight(k) /\ WriteRight(k) /\ k # NoHandle
    BY HandleIs, CoordinatorAssumption
  <2>2. k # h => Of(k)' = Of(k)
    BY <1>5, <1>6, <1>7, <2>1 DEF Of
  <2>3. \A o \in Of(k) : notifier'[o] = notifier[o]
    BY <1>6, <1>7, <2>1 DEF Of
  <2>4. StageRight(k)'
    BY <1>1, <2>1 DEF StageRight
  <2>5. WaitRight(k)'
    BY <1>1, <1>9, <2>1, <2>2 DEF WaitRight
  <2>6. WriteRight(k)'
    BY <1>1, <1>9, <2>1, <2>2, <2>3 DEF WriteRight
  <2> QED
    BY <2>4, <2>5, <2>6
<1>19. NotifiersRight'
  <2> SUFFICES ASSUME NEW o \in Notifiers
               PROVE  LagRight(o)' /\ SparedRight(o)' /\ ToldRight(o)'
    BY DEF NotifiersRight
  <2>1. CASE o = n
    BY <1>5, <1>6, <2>1 DEF LagRight, SparedRight, ToldRight, Live
  <2>2. CASE o # n
    <3>1. LagRight(o) /\ SparedRight(o) /\ ToldRight(o)
             /\ notifier'[o] = notifier[o]
      BY <1>6, <2>2, NotifierIs
    <3>2. (Live(o)' <=> Live(o)) /\ (Calm(o)' <=> Calm(o))
             /\ NextHandover' = NextHandover
      BY <1>1, <3>1 DEF Live, Calm, is_alive, NextHandover
    <3>3. LagRight(o)'
      BY <1>1, <3>1, <3>2 DEF LagRight
    <3>4. SparedRight(o)'
      BY <1>1, <1>9, <3>1, <3>2 DEF SparedRight
    <3>5. ToldRight(o)'
      BY <1>1, <3>1, <3>2 DEF ToldRight
    <3> QED
      BY <3>3, <3>4, <3>5
  <2> QED
    BY <2>1, <2>2
<1> QED
  BY <1>10, <1>11, <1>12, <1>14, <1>15, <1>16, <1>17, <1>18, <1>19 DEF IInv

\* A notifier dies: what is left of it waits to be cleaned up.
LEMMA UnregisterKeeps ==
    ASSUME IInv, NEW n \in Notifiers, unregister(n)
    PROVE  IInv'
<1>1. /\ is_alive(n)
      /\ UNCHANGED <<latest, writer, realm, pc, package, advancer, helper, skip,
                     error, worker, wake, signal>>
      /\ jumped' = [h \in Handles |->
             jumped[h] /\ \E m \in Notifiers \ {n} : notifier[m].realm = h]
  BY DEF unregister, fileVars, coordVars
<1>2. /\ TypeOK /\ latest \in Int /\ notifier[n] \in Notifier
      /\ notifier[n].list # "none"
  BY <1>1, StateIs, NotifierIs DEF IInv
<1>3. PICK m : m = [NewNotifier EXCEPT !.list = notifier[n].list,
                                       !.ver = notifier[n].ver,
                                       !.hasRun = notifier[n].hasRun]
  OBVIOUS
<1>4. /\ m \in Notifier /\ m.realm = NoHandle /\ m.list = notifier[n].list
      /\ m.ver = notifier[n].ver /\ (m.hasRun <=> notifier[n].hasRun)
      /\ ~m.initial /\ ~m.skipNext
  BY <1>2, <1>3, CoordinatorAssumption DEF Notifier, NewNotifier
<1>5. /\ notifier' \in [Notifiers -> Notifier] /\ notifier'[n] = m
      /\ \A o \in Notifiers : o # n => notifier'[o] = notifier[o]
  <2>1. notifier' = [notifier EXCEPT ![n] = m]
    BY <1>3 DEF unregister
  <2> QED
    BY <1>2, <1>4, <2>1 DEF TypeOK
<1>6. TypeOK'
  <2>1. jumped' \in [Handles -> BOOLEAN]
    BY <1>1
  <2> QED
    BY <1>1, <1>2, <1>5, <2>1 DEF TypeOK
<1>7. LessProgress
  <2> SUFFICES ASSUME NEW o \in Notifiers
               PROVE  /\ notifier'[o].realm \in {notifier[o].realm, NoHandle}
                      /\ notifier'[o].list = notifier[o].list
                      /\ notifier'[o].ver = notifier[o].ver
                      /\ notifier'[o].hasRun <=> notifier[o].hasRun
                      /\ \/ error \/ ~is_alive(o)'
                         \/ notifier'[o].change = notifier[o].change
                      /\ notifier'[o].initial => notifier[o].hasRun
                      /\ notifier[o].list = "none" => notifier'[o] = notifier[o]
    BY DEF LessProgress
  <2>1. CASE o = n
    BY <1>2, <1>4, <1>5, <2>1 DEF is_alive
  <2>2. CASE o # n
    BY <1>5, <2>2, NotifierIs
  <2> QED
    BY <2>1, <2>2
<1>8. /\ ListsRight' /\ OpeningRight' /\ RunningRight' /\ RestingRight'
      /\ WorkerAssertions' /\ SkipRight'
  <2>1. latest' \in Int /\ latest <= latest'
    BY <1>1, <1>2
  <2> QED
    BY <1>1, <1>7, <2>1, WorkerFrame
<1>9. ASSUME NEW h \in Handles
      PROVE  /\ Of(h)' \subseteq Of(h)
             /\ \A o \in Of(h)' : /\ notifier'[o] = notifier[o] /\ o # n
                                  /\ jumped'[h] <=> jumped[h]
  <2>1. h # NoHandle
    BY CoordinatorAssumption
  <2>2. \A o \in Of(h)' : o \in Notifiers /\ o # n /\ notifier'[o] = notifier[o]
    BY <1>4, <1>5, <2>1 DEF Of
  <2>3. \A o \in Of(h)' : o \in Of(h)
    BY <2>2 DEF Of
  <2>4. \A o \in Of(h)' : jumped'[h] <=> jumped[h]
    BY <1>1, <2>2, <2>3 DEF Of
  <2> QED
    BY <2>2, <2>3, <2>4
<1>10. HandlesRight'
  <2> SUFFICES ASSUME NEW h \in Handles
               PROVE  StageRight(h)' /\ WaitRight(h)' /\ WriteRight(h)'
    BY DEF HandlesRight
  <2>1. StageRight(h) /\ WaitRight(h) /\ WriteRight(h)
    BY HandleIs
  <2>2. StageRight(h)'
    BY <1>1, <2>1 DEF StageRight
  <2>3. WaitRight(h)'
    BY <1>1, <1>9, <2>1 DEF WaitRight
  <2>4. WriteRight(h)'
    <3> SUFFICES ASSUME realm'[h].stage = "Writing", pc'[h] # "await",
                        ~jumped'[h], ~error', NEW o \in Of(h)'
                 PROVE  /\ notifier'[o].hasRun /\ notifier'[o].initial
                        /\ notifier'[o].ver = latest' /\ notifier'[o].acc = {}
      BY DEF WriteRight
    <3>1. o \in Of(h) /\ ~jumped[h] /\ notifier'[o] = notifier[o]
      BY <1>9
    <3> QED
      BY <1>1, <2>1, <3>1 DEF WriteRight
  <2> QED
    BY <2>2, <2>3, <2>4
<1>11. NotifiersRight'
  <2> SUFFICES ASSUME NEW o \in Notifiers
               PROVE  LagRight(o)' /\ SparedRight(o)' /\ ToldRight(o)'
    BY DEF NotifiersRight
  <2>1. CASE ~is_alive(o)'
    BY <2>1 DEF LagRight, SparedRight, ToldRight, Live, Calm
  <2>2. CASE is_alive(o)'
    <3>1. o # n /\ notifier'[o] = notifier[o]
      BY <1>4, <1>5, <2>2 DEF is_alive
    <3>2. PICK h \in Handles : h = notifier[o].realm
      BY <2>2, <3>1, NotifierIs DEF is_alive
    <3>3. o \in Of(h)'
      BY <3>1, <3>2 DEF Of
    <3>4. (Live(o)' <=> Live(o)) /\ (Calm(o)' <=> Calm(o))
      BY <1>9, <3>1, <3>2, <3>3 DEF Live, Calm, is_alive
    <3>5. LagRight(o) /\ SparedRight(o) /\ ToldRight(o)
      BY NotifierIs
    <3>6. LagRight(o)'
      BY <1>1, <3>1, <3>4, <3>5 DEF LagRight
    <3>7. NextHandover' = NextHandover
      BY <1>1 DEF NextHandover
    <3>8. SparedRight(o)'
      BY <1>1, <3>1, <3>4, <3>5, <3>7 DEF SparedRight
    <3>9. ToldRight(o)'
      BY <3>1, <3>4, <3>5 DEF ToldRight
    <3> QED
      BY <3>6, <3>8, <3>9
  <2> QED
    BY <2>1, <2>2
<1> QED
  BY <1>6, <1>8, <1>10, <1>11 DEF IInv
-----------------------------------------------------------------------------
(* Steps of the worker *)

\* What a step of the worker leaves right of a notifier.
LeftRight(n) ==
    /\ notifier'[n].realm = notifier[n].realm
    /\ LagRight(n)' /\ SparedRight(n)' /\ ToldRight(n)'
    /\ is_alive(n) /\ ~error /\ notifier[n].hasRun /\ notifier[n].initial
          /\ notifier[n].ver = latest /\ notifier[n].acc = {} =>
             /\ notifier'[n].hasRun /\ notifier'[n].initial
             /\ notifier'[n].ver = latest /\ notifier'[n].acc = {}

\* A step of the worker keeps the invariant when it keeps the worker's part of
\* it and leaves every notifier right.
LEMMA WorkerStepFrame ==
    ASSUME IInv, TypeOK', UNCHANGED <<fileVars, handleVars>>, error => error',
           ListsRight', OpeningRight', RunningRight', RestingRight',
           SkipRight', WorkerAssertions',
           \A n \in Notifiers : LeftRight(n)
    PROVE  IInv'
<1>1. /\ UNCHANGED <<latest, writer, realm, pc, package, jumped>>
      /\ error \in BOOLEAN /\ error' \in BOOLEAN
  BY DEF fileVars, handleVars, IInv, TypeOK
<1>2. NotifiersRight'
  BY DEF NotifiersRight, LeftRight
<1>3. HandlesRight'
  <2> SUFFICES ASSUME NEW h \in Handles
               PROVE  StageRight(h)' /\ WaitRight(h)' /\ WriteRight(h)'
    BY DEF HandlesRight
  <2>1. StageRight(h) /\ WaitRight(h) /\ WriteRight(h) /\ h # NoHandle
    BY HandleIs, CoordinatorAssumption
  <2>2. Of(h)' = Of(h)
    BY DEF Of, LeftRight
  <2>3. StageRight(h)'
    BY <1>1, <2>1 DEF StageRight
  <2>4. WaitRight(h)'
    BY <1>1, <2>1, <2>2 DEF WaitRight
  <2>5. WriteRight(h)'
    <3> SUFFICES ASSUME realm[h].stage = "Writing", pc[h] # "await",
                        ~jumped[h], ~error', NEW n \in Of(h)
                 PROVE  /\ notifier'[n].hasRun /\ notifier'[n].initial
                        /\ notifier'[n].ver = latest /\ notifier'[n].acc = {}
      BY <1>1, <2>2 DEF WriteRight
    <3>1. ~error /\ n \in Notifiers /\ is_alive(n)
      BY <1>1, <2>1 DEF Of, is_alive
    <3> QED
      BY <2>1, <3>1 DEF WriteRight, LeftRight
  <2> QED
    BY <2>3, <2>4, <2>5
<1> QED
  BY <1>2, <1>3 DEF IInv

\* A dead notifier is left right.
LEMMA DeadIsLeft ==
    ASSUME NEW n \in Notifiers, ~is_alive(n), notifier'[n].realm = NoHandle
    PROVE  LeftRight(n)
BY DEF LeftRight, LagRight, SparedRight, ToldRight, Live, Calm, is_alive

\* So is one for which only changes are looked up, or which joins the main
\* list, when the handover its callback is to be spared is still the next.
LEMMA KeptIsLeft ==
    ASSUME IInv, UNCHANGED <<fileVars, handleVars>>, error => error',
           error' \in BOOLEAN, NEW n \in Notifiers,
           notifier'[n].realm = notifier[n].realm,
           notifier'[n].ver = notifier[n].ver,
           notifier'[n].hasRun <=> notifier[n].hasRun,
           notifier'[n].acc = notifier[n].acc,
           notifier'[n].todo = notifier[n].todo,
           notifier'[n].initial <=> notifier[n].initial,
           notifier'[n].skipNext <=> notifier[n].skipNext,
           notifier'[n].told = notifier[n].told,
           notifier'[n].asked = notifier[n].asked,
           notifier'[n].dropped = notifier[n].dropped,
           is_alive(n) /\ ~error /\ notifier[n].initial =>
              NextHandover = 0 \/ NextHandover' = NextHandover
    PROVE  LeftRight(n)
<1>1. /\ UNCHANGED <<latest, writer, realm, pc, package, jumped>>
      /\ error \in BOOLEAN
  BY DEF fileVars, handleVars, IInv, TypeOK
<1>2. LagRight(n) /\ SparedRight(n) /\ ToldRight(n)
  BY NotifierIs
<1>3. (Live(n)' <=> Live(n)) /\ (Calm(n)' <=> Calm(n))
  BY <1>1 DEF Live, Calm, is_alive
<1>4. LagRight(n)'
  BY <1>1, <1>2, <1>3 DEF LagRight
<1>5. ToldRight(n)'
  BY <1>2, <1>3 DEF ToldRight
<1>6. SparedRight(n)'
  <2> SUFFICES ASSUME Calm(n)', ~error', notifier'[n].skipNext
               PROVE  LET h == notifier'[n].realm IN
                      /\ notifier'[n].initial
                      /\ \/ pc'[h] \in {"commit", "sendingCommit"}
                               /\ n \in package'[h].set
                         \/ /\ NextHandover' # 0
                            /\ notifier'[n].ver + 1 .. NextHandover'
                                  \subseteq notifier'[n].asked
                         \/ notifier'[n].ver + 1 .. MaxVersion
                               \subseteq notifier'[n].asked
    BY DEF SparedRight
  <2>1. Calm(n) /\ is_alive(n) /\ ~error /\ notifier[n].skipNext
    BY <1>1, <1>3 DEF Calm
  <2>2. LET h == notifier[n].realm IN
        /\ notifier[n].initial
        /\ \/ pc[h] \in {"commit", "sendingCommit"} /\ n \in package[h].set
           \/ /\ NextHandover # 0
              /\ notifier[n].ver + 1 .. NextHandover \subseteq notifier[n].asked
           \/ notifier[n].ver + 1 .. MaxVersion \subseteq notifier[n].asked
    BY <1>2, <2>1 DEF SparedRight
  <2> QED
    BY <1>1, <2>1, <2>2
<1> QED
  BY <1>1, <1>4, <1>5, <1>6 DEF LeftRight

\* What the worker knows while it runs.
LEMMA RunningIs ==
    ASSUME IInv, Running
    PROVE  /\ ~error /\ latest \in Nat /\ helper \in Nat
           /\ worker.version \in Nat /\ latest <= MaxVersion
           /\ MaxVersion \in Nat /\ worker.skip \in Nat
           /\ 1 <= helper /\ helper <= worker.version
           /\ worker.version <= latest
           /\ worker.old \subseteq Notifiers /\ worker.new \subseteq Notifiers
           /\ m_notifiers = worker.old \cup worker.new
           /\ worker.old \cap worker.new = {}
           /\ \A n \in worker.new :
                 ~notifier[n].hasRun /\ ~notifier[n].initial
           /\ \A n \in worker.old :
                 /\ notifier[n].hasRun /\ notifier[n].ver <= helper
                 /\ worker.at \in {"skip", "run"} => notifier[n].ver = helper
                 /\ is_alive(n) =>
                       notifier[n].change = notifier[n].ver + 1 .. helper
           /\ worker.at = "skip" =>
                 /\ worker.old # {}
                 /\ helper <= worker.skip /\ worker.skip <= worker.version
           /\ advancer # Unopened /\ helper # Unopened
<1>1. TypeOK /\ RunningRight /\ OpeningRight /\ WorkerAssertions
  BY DEF IInv
<1>2. /\ latest \in Nat /\ helper \in Int /\ worker.version \in Nat
      /\ latest <= MaxVersion /\ MaxVersion \in Nat /\ worker.skip \in Nat
      /\ worker.old \subseteq Notifiers /\ worker.new \subseteq Notifiers
  BY <1>1, StateIs
<1>3. /\ helper \in 1..worker.version /\ worker.version <= latest
      /\ m_notifiers = worker.old \cup worker.new
      /\ worker.old \cap worker.new = {}
      /\ \A n \in worker.new : ~notifier[n].hasRun
      /\ \A n \in worker.old :
            /\ notifier[n].hasRun /\ notifier[n].ver <= helper
            /\ worker.at \in {"skip", "run"} => notifier[n].ver = helper
            /\ is_alive(n) =>
                  notifier[n].change = notifier[n].ver + 1 .. helper
  BY <1>1 DEF RunningRight
<1>4. helper # Unopened
  BY <1>2, <1>3 DEF Unopened
<1>5. advancer # Unopened /\ ~error
  BY <1>1, <1>4 DEF OpeningRight
<1>6. \A n \in worker.new : ~notifier[n].initial
  BY <1>2, <1>3, NotifierIs
<1>7. worker.at = "skip" =>
         /\ worker.old # {}
         /\ helper <= worker.skip /\ worker.skip <= worker.version
  BY <1>1, <1>2, <1>3, <1>5 DEF WorkerAssertions
<1> QED
  BY <1>2, <1>3, <1>4, <1>5, <1>6, <1>7

\* A handover is right: what run() found are the commits since the last one,
\* and if they are dropped, all of them were asked for.
LEMMA HandedIsLeft ==
    ASSUME IInv, worker.at \in {"skipped", "ran"},
           UNCHANGED <<fileVars, handleVars, error>>,
           NEW n \in worker.old \cup worker.new, is_alive(n),
           notifier'[n] = prepare_handover(notifier[n], helper)
    PROVE  LeftRight(n)
<1>1. Running
  BY DEF Running
<1>2. /\ UNCHANGED <<latest, writer, realm, pc, package, jumped>>
      /\ ~error /\ latest \in Nat /\ helper \in Nat /\ worker.version \in Nat
      /\ latest <= MaxVersion /\ MaxVersion \in Nat
      /\ 1 <= helper /\ helper <= worker.version /\ worker.version <= latest
      /\ n \in Notifiers
  BY <1>1, RunningIs DEF fileVars, handleVars
<1>3. PICK o \in Notifier : o = notifier[n]
  BY <1>2, NotifierIs
<1>4. PICK m : m = notifier'[n]
  OBVIOUS
<1>5. helper \in 0..MaxVersion /\ m = prepare_handover(o, helper)
  BY <1>2, <1>3, <1>4
<1>6. /\ m.realm = o.realm /\ m.list = o.list /\ m.ver = helper
      /\ m.hasRun /\ m.change = {} /\ m.todo = o.todo
      /\ (m.initial <=> o.initial) /\ m.asked = o.asked /\ ~m.skipNext
      /\ o.skipNext => /\ m.acc = o.acc /\ m.told = o.told \cup o.change
                       /\ m.dropped = o.dropped \cup o.change
      /\ ~o.skipNext => /\ m.acc = o.acc \cup o.change /\ m.told = o.told
                        /\ m.dropped = o.dropped
  BY <1>5, HandIs
<1>7. SparedRight(n)'
  BY <1>4, <1>6 DEF SparedRight
<1>8. CASE n \in worker.new
  <2>1. ~o.hasRun /\ ~o.initial
    BY <1>1, <1>3, <1>8, RunningIs
  <2>2. ~Live(n)'
    BY <1>4, <1>6, <2>1 DEF Live
  <2> QED
    BY <1>3, <1>4, <1>6, <1>7, <2>1, <2>2 DEF LeftRight, LagRight, ToldRight
<1>9. CASE n \in worker.old
  <2>1. /\ o.hasRun /\ o.ver <= helper /\ o.ver \in Nat
        /\ o.change = o.ver + 1 .. helper
    <3>1. o.ver \in 0..MaxVersion
      BY FieldsAre
    <3> QED
      BY <1>1, <1>2, <1>3, <1>9, <3>1, RunningIs
  <2>2. LagRight(n) /\ SparedRight(n) /\ ToldRight(n)
    BY <1>2, NotifierIs
  <2>3. PICK h \in Handles : h = o.realm
    BY <1>2, <1>3, NotifierIs DEF is_alive
  <2>4. Live(n)' <=> Live(n)
    BY <1>2, <1>3, <1>4, <1>6 DEF Live, is_alive
  <2>5. LagRight(n)'
    <3> SUFFICES ASSUME Live(n)
                 PROVE  /\ m.todo = {}
                        /\ (/\ pc[h] # "await" /\ realm[h].stage # "Ready"
                            /\ m.ver < realm[h].ver) =>
                              m.ver = realm[h].ver - 1 /\ m.acc = {}
      BY <1>2, <1>3, <1>4, <1>6, <2>3, <2>4 DEF LagRight
    <3>1. /\ o.todo = {}
          /\ (/\ pc[h] # "await" /\ realm[h].stage # "Ready"
              /\ o.ver < realm[h].ver) =>
                o.ver = realm[h].ver - 1 /\ o.acc = {}
      BY <1>3, <2>2, <2>3 DEF LagRight
    <3>2. ASSUME pc[h] # "await", realm[h].stage # "Ready",
                 m.ver < realm[h].ver
          PROVE  m.ver = realm[h].ver - 1 /\ m.acc = {}
      <4>1. realm[h].ver \in Int
        BY HandleIs
      <4>2. o.ver = realm[h].ver - 1 /\ o.acc = {} /\ helper = o.ver
        BY <1>2, <1>6, <2>1, <3>1, <3>2, <4>1
      <4>3. o.change = {}
        BY <2>1, <4>2
      <4> QED
        BY <1>6, <4>2, <4>3
    <3> QED
      BY <1>6, <3>1, <3>2
  <2>6. ASSUME Live(n), o.skipNext
        PROVE  o.change \subseteq o.asked
    <3>1. Calm(n) /\ ~jumped[h]
      BY <1>3, <2>3, <2>6 DEF Live, Calm
    <3>2. CASE pc[h] \in {"commit", "sendingCommit"}
      <4>1. n \in Of(h) /\ realm[h].stage = "Writing"
        BY <1>2, <1>3, <2>3, <3>2, HandleIs DEF Of, StageRight
      <4>2. o.ver = latest
        BY <1>2, <1>3, <3>1, <3>2, <4>1, WriterIs
      <4> QED
        BY <1>2, <2>1, <4>2
    <3>3. CASE o.ver + 1 .. NextHandover \subseteq o.asked
      <4>1. NextHandover \in Nat /\ helper <= NextHandover
        BY <1>2 DEF NextHandover
      <4> QED
        BY <1>2, <2>1, <3>3, <4>1
    <3>4. CASE o.ver + 1 .. MaxVersion \subseteq o.asked
      BY <1>2, <2>1, <3>4
    <3> QED
      BY <1>2, <1>3, <2>2, <2>3, <2>6, <3>1, <3>2, <3>3, <3>4 DEF SparedRight
  <2>7. ToldRight(n)'
    <3> SUFFICES ASSUME Live(n)
                 PROVE  /\ m.told \cup (m.acc \cup m.todo) = 1..m.ver
                        /\ m.told \cap (m.acc \cup m.todo) = {}
                        /\ m.dropped \subseteq m.asked
      BY <1>4, <2>4 DEF ToldRight
    <3>1. /\ o.told \cup (o.acc \cup o.todo) = 1..o.ver
          /\ o.told \cap (o.acc \cup o.todo) = {}
          /\ o.dropped \subseteq o.asked
      BY <1>3, <2>2 DEF ToldRight
    <3>2. /\ 1..o.ver \cup o.change = 1..helper
          /\ (1..o.ver) \cap o.change = {}
      BY <1>2, <2>1
    <3>3. CASE o.skipNext
      BY <1>6, <2>6, <3>1, <3>2, <3>3
    <3>4. CASE ~o.skipNext
      BY <1>6, <3>1, <3>2, <3>4
    <3> QED
      BY <3>3, <3>4
  <2>8. ASSUME o.ver = latest, o.acc = {}
        PROVE  m.ver = latest /\ m.acc = {}
    <3>1. helper = latest /\ o.change = {}
      BY <1>2, <2>1, <2>8
    <3> QED
      BY <1>6, <2>8, <3>1
  <2> QED
    BY <1>3, <1>4, <1>6, <1>7, <2>5, <2>7, <2>8 DEF LeftRight
<1> QED
  BY <1>8, <1>9

\* The unlocked steps: the helper goes to the skip version, or to the last
\* one, and the changes that were looked up end there.
LEMMA LookUpKeeps ==
    ASSUME IInv, Running, NEW v, NEW place,
           \/ worker.at = "skip" /\ place = "skipped" /\ v = worker.skip
           \/ worker.at = "run" /\ place = "ran" /\ v = worker.version,
           \A n \in Notifiers :
              notifier'[n] = IF n \in worker.old THEN Ran(n, v)
                             ELSE IF n \in worker.new /\ place = "ran"
                             THEN RanNew(n, v) ELSE notifier[n],
           notifier' = [n \in Notifiers |-> notifier'[n]],
           helper' = v, worker' = [worker EXCEPT !.at = place],
           UNCHANGED <<fileVars, handleVars, advancer, skip, error, wake,
                       signal>>
    PROVE  IInv'
<1>1. /\ UNCHANGED <<latest, writer, realm, pc, package, jumped>>
      /\ TypeOK /\ ListsRight /\ SkipRight /\ WorkerAssertions
  BY DEF fileVars, handleVars, IInv
<1>2. /\ worker'.at = place /\ place \in {"skipped", "ran"}
      /\ worker'.version = worker.version /\ worker'.skip = worker.skip
      /\ worker'.old = worker.old /\ worker'.new = worker.new
      /\ Running'
      /\ worker' \in [at : {"idle", "skip", "skipped", "run", "ran", "signal"},
                      version : 0..MaxVersion, skip : 0..MaxVersion,
                      old : SUBSET Notifiers, new : SUBSET Notifiers]
  BY <1>1 DEF TypeOK, Running
<1>3. /\ ~error /\ latest \in Nat /\ helper \in Nat /\ v \in Nat
      /\ worker.version \in Nat /\ latest <= MaxVersion /\ MaxVersion \in Nat
      /\ 1 <= helper /\ helper <= v /\ v <= worker.version
      /\ worker.version <= latest
      /\ worker.old \subseteq Notifiers /\ worker.new \subseteq Notifiers
      /\ m_notifiers = worker.old \cup worker.new
      /\ worker.old \cap worker.new = {}
      /\ \A n \in worker.new : ~notifier[n].hasRun
      /\ \A n \in worker.old :
            /\ notifier[n].hasRun /\ notifier[n].ver = helper
            /\ is_alive(n) => notifier[n].change = {}
      /\ advancer # Unopened
  <2>1. /\ ~error /\ latest \in Nat /\ helper \in Nat
        /\ worker.version \in Nat /\ latest <= MaxVersion
        /\ MaxVersion \in Nat /\ worker.skip \in Nat
        /\ 1 <= helper /\ helper <= worker.version
        /\ worker.version <= latest
        /\ worker.old \subseteq Notifiers /\ worker.new \subseteq Notifiers
        /\ m_notifiers = worker.old \cup worker.new
        /\ worker.old \cap worker.new = {}
        /\ \A n \in worker.new : ~notifier[n].hasRun
        /\ worker.at = "skip" =>
              helper <= worker.skip /\ worker.skip <= worker.version
        /\ advancer # Unopened
    BY RunningIs
  <2>2. \A n \in worker.old :
           /\ notifier[n].hasRun /\ notifier[n].ver = helper
           /\ is_alive(n) =>
                 notifier[n].change = notifier[n].ver + 1 .. helper
    BY RunningIs
  <2>3. helper + 1 .. helper = {}
    BY <2>1
  <2> QED
    BY <2>1, <2>2, <2>3
<1>4. ASSUME NEW n \in Notifiers
      PROVE  /\ notifier'[n] \in Notifier
             /\ notifier'[n].realm = notifier[n].realm
             /\ notifier'[n].list = notifier[n].list
             /\ notifier'[n].ver = notifier[n].ver
             /\ notifier'[n].hasRun <=> notifier[n].hasRun
             /\ notifier'[n].acc = notifier[n].acc
             /\ notifier'[n].todo = notifier[n].todo
             /\ notifier'[n].initial <=> notifier[n].initial
             /\ notifier'[n].skipNext <=> notifier[n].skipNext
             /\ notifier'[n].told = notifier[n].told
             /\ notifier'[n].dropped = notifier[n].dropped
             /\ notifier'[n].asked = notifier[n].asked
             /\ n \notin worker.old \cup worker.new =>
                   notifier'[n] = notifier[n]
             /\ is_alive(n) /\ n \in worker.old =>
                   notifier'[n].change = helper + 1 .. v
  <2>1. notifier[n] \in Notifier /\ notifier[n].ver \in Nat
    <3>1. notifier[n] \in Notifier
      BY NotifierIs
    <3>2. notifier[n].ver \in 0..MaxVersion
      BY <3>1, FieldsAre
    <3> QED
      BY <3>1, <3>2
  <2>2. notifier[n].change \in SUBSET Commits
    BY <2>1, FieldsAre
  <2>3. (helper + 1 .. v) \in SUBSET Commits
           /\ (notifier[n].ver + 1 .. v) \in SUBSET Commits
    BY <1>3, <2>1 DEF Commits
  <2>9. PICK o, m : o \in Notifier /\ o = notifier[n] /\ m = notifier'[n]
    BY <2>1
  <2>4. CASE notifier'[n] = notifier[n] /\ ~(is_alive(n) /\ n \in worker.old)
    BY <2>1, <2>4
  <2>5. CASE is_alive(n) /\ n \in worker.old
    <3>1. notifier[n].hasRun /\ notifier[n].change = {}
      BY <1>3, <2>5
    <3>2. PICK set \in SUBSET Commits : set = helper + 1 .. v
      BY <2>3
    <3>3. notifier'[n] =
             [notifier[n] EXCEPT !.change = notifier[n].change \cup set]
      BY <2>5, <3>1, <3>2 DEF Ran
    <3>4. notifier'[n] = [notifier[n] EXCEPT !.change = set]
      BY <3>1, <3>3
    <3>5. m = [o EXCEPT !.change = set]
      BY <2>9, <3>4
    <3>6. /\ m \in Notifier
          /\ m.realm = o.realm /\ m.list = o.list /\ m.ver = o.ver
          /\ m.hasRun <=> o.hasRun
          /\ m.change = set /\ m.acc = o.acc /\ m.todo = o.todo
          /\ m.initial <=> o.initial
          /\ m.skipNext <=> o.skipNext
          /\ m.told = o.told /\ m.dropped = o.dropped /\ m.asked = o.asked
      BY <2>9, <3>5 DEF Notifier
    <3>7. /\ notifier'[n] \in Notifier
          /\ notifier'[n].realm = notifier[n].realm
          /\ notifier'[n].list = notifier[n].list
          /\ notifier'[n].ver = notifier[n].ver
          /\ notifier'[n].hasRun <=> notifier[n].hasRun
          /\ notifier'[n].change = set
          /\ notifier'[n].acc = notifier[n].acc
          /\ notifier'[n].todo = notifier[n].todo
          /\ notifier'[n].initial <=> notifier[n].initial
          /\ notifier'[n].skipNext <=> notifier[n].skipNext
          /\ notifier'[n].told = notifier[n].told
          /\ notifier'[n].dropped = notifier[n].dropped
          /\ notifier'[n].asked = notifier[n].asked
      BY <2>9, <3>6
    <3> QED
      BY <2>5, <3>2, <3>7
  <2>6. CASE /\ is_alive(n) /\ n \in worker.new /\ n \in Lists
             /\ place = "ran"
    <3>1. PICK set \in SUBSET Commits : set = notifier[n].ver + 1 .. v
      BY <2>3
    <3>2. n \notin worker.old
      BY <1>3, <2>6
    <3>3. notifier'[n] = [notifier[n] EXCEPT !.change = set]
      BY <2>6, <3>1, <3>2 DEF RanNew
    <3>4. m = [o EXCEPT !.change = set]
      BY <2>9, <3>3
    <3>5. /\ m \in Notifier
          /\ m.realm = o.realm /\ m.list = o.list /\ m.ver = o.ver
          /\ m.hasRun <=> o.hasRun
          /\ m.change = set /\ m.acc = o.acc /\ m.todo = o.todo
          /\ m.initial <=> o.initial
          /\ m.skipNext <=> o.skipNext
          /\ m.told = o.told /\ m.dropped = o.dropped /\ m.asked = o.asked
      BY <2>9, <3>4 DEF Notifier
    <3>6. /\ notifier'[n] \in Notifier
          /\ notifier'[n].realm = notifier[n].realm
          /\ notifier'[n].list = notifier[n].list
          /\ notifier'[n].ver = notifier[n].ver
          /\ notifier'[n].hasRun <=> notifier[n].hasRun
          /\ notifier'[n].change = set
          /\ notifier'[n].acc = notifier[n].acc
          /\ notifier'[n].todo = notifier[n].todo
          /\ notifier'[n].initial <=> notifier[n].initial
          /\ notifier'[n].skipNext <=> notifier[n].skipNext
          /\ notifier'[n].told = notifier[n].told
          /\ notifier'[n].dropped = notifier[n].dropped
          /\ notifier'[n].asked = notifier[n].asked
      BY <2>9, <3>5
    <3> QED
      BY <2>6, <3>2, <3>6
  <2> QED
    BY <2>4, <2>5, <2>6 DEF Ran, RanNew
<1>5. TypeOK'
  <2>1. notifier' \in [Notifiers -> Notifier]
    BY <1>4
  <2>2. helper' \in Unopened..MaxVersion
    BY <1>3 DEF Unopened
  <2> QED
    BY <1>1, <1>2, <2>1, <2>2 DEF TypeOK
<1>6. /\ m_notifiers' = m_notifiers /\ m_new_notifiers' = m_new_notifiers
      /\ \A n \in Notifiers : is_alive(n)' <=> is_alive(n)
  BY <1>4 DEF m_notifiers, m_new_notifiers, is_alive
<1>7. ListsRight'
  <2> SUFFICES ASSUME NEW n \in Notifiers
               PROVE  /\ is_alive(n)' => notifier'[n].list # "none"
                      /\ notifier'[n].list = "none" =>
                            notifier'[n] = NewNotifier
                      /\ notifier'[n].list # "none" =>
                            notifier'[n].ver \in 1..latest'
                      /\ notifier'[n].hasRun => notifier'[n].list = "main"
                      /\ notifier'[n].initial => notifier'[n].hasRun
    BY DEF ListsRight
  <2>1. notifier[n].list = "none" => n \notin worker.old \cup worker.new
    BY <1>3 DEF m_notifiers
  <2> QED
    BY <1>1, <1>4, <1>6, <2>1, NotifierIs
<1>8. OpeningRight'
  BY <1>1, <1>3 DEF OpeningRight, Unopened
<1>9. RunningRight'
  <2>1. \A n \in worker.new : ~notifier'[n].hasRun
    BY <1>3, <1>4
  <2>2. \A n \in worker.old :
           /\ notifier'[n].hasRun /\ notifier'[n].ver <= v
           /\ is_alive(n)' =>
                 notifier'[n].change = notifier'[n].ver + 1 .. v
    BY <1>3, <1>4, <1>6
  <2>3. v \in 1..worker.version
    BY <1>3
  <2> QED
    BY <1>1, <1>2, <1>3, <1>6, <2>1, <2>2, <2>3 DEF RunningRight
<1>10. RestingRight'
  BY <1>2 DEF RestingRight
<1>11. SkipRight'
  BY <1>1, <1>2, <1>3, <1>6, StateIs DEF SkipRight
<1>12. WorkerAssertions'
  <2>1. \A n, m \in m_notifiers' :
           notifier'[n].hasRun /\ notifier'[m].hasRun =>
              notifier'[n].ver = notifier'[m].ver
    BY <1>1, <1>4, <1>6 DEF WorkerAssertions, m_notifiers
  <2>2. \A n \in m_new_notifiers' : advancer' \in 1..notifier'[n].ver
    BY <1>1, <1>3, <1>4, <1>6 DEF WorkerAssertions, m_new_notifiers
  <2>3. m_notifiers' # {} <=> helper' > 0
    BY <1>1, <1>3, <1>6 DEF WorkerAssertions
  <2> QED
    BY <1>1, <1>2, <1>3, <1>6, <2>1, <2>2, <2>3 DEF WorkerAssertions
<1>13. NextHandover' = NextHandover
  BY <1>2 DEF NextHandover
<1>14. ASSUME NEW n \in Notifiers
       PROVE  LeftRight(n)
  <2>1. /\ notifier'[n].realm = notifier[n].realm
        /\ notifier'[n].ver = notifier[n].ver
        /\ notifier'[n].hasRun <=> notifier[n].hasRun
        /\ notifier'[n].acc = notifier[n].acc
        /\ notifier'[n].todo = notifier[n].todo
        /\ notifier'[n].initial <=> notifier[n].initial
        /\ notifier'[n].skipNext <=> notifier[n].skipNext
        /\ notifier'[n].told = notifier[n].told
        /\ notifier'[n].asked = notifier[n].asked
        /\ notifier'[n].dropped = notifier[n].dropped
    BY <1>4
  <2>2. (error => error') /\ error' \in BOOLEAN
    BY <1>1 DEF TypeOK
  <2>3. UNCHANGED <<fileVars, handleVars>>
    OBVIOUS
  <2> QED
    BY <1>13, <2>1, <2>2, <2>3, KeptIsLeft
<1> QED
  BY <1>1, <1>3, <1>5, <1>7, <1>8, <1>9, <1>10, <1>11, <1>12, <1>14,
     WorkerStepFrame

\* The old notifiers go to the skip version.
LEMMA AdvanceToSkipKeeps ==
    ASSUME IInv, AdvanceToSkip
    PROVE  IInv'
<1>1. /\ worker.at = "skip" /\ helper' = worker.skip
      /\ notifier' = [n \in Notifiers |->
            IF n \in worker.old THEN Ran(n, worker.skip) ELSE notifier[n]]
      /\ worker' = [worker EXCEPT !.at = "skipped"]
      /\ UNCHANGED <<fileVars, handleVars, advancer, skip, error, wake, signal>>
  BY DEF AdvanceToSkip
<1>2. \A n \in Notifiers :
         notifier'[n] = IF n \in worker.old THEN Ran(n, worker.skip)
                        ELSE IF n \in worker.new /\ "skipped" = "ran"
                        THEN RanNew(n, worker.skip) ELSE notifier[n]
  BY <1>1
<1>3. notifier' = [n \in Notifiers |-> notifier'[n]]
  BY <1>1
<1>4. Running
  BY <1>1 DEF Running
<1> QED
  BY <1>1, <1>2, <1>3, <1>4, LookUpKeeps

\* All notifiers go to the version picked under the lock.
LEMMA AdvanceToVersionKeeps ==
    ASSUME IInv, AdvanceToVersion
    PROVE  IInv'
<1>1. /\ worker.at = "run" /\ helper' = worker.version
      /\ notifier' = [n \in Notifiers |->
            IF n \in worker.old THEN Ran(n, worker.version)
            ELSE IF n \in worker.new THEN RanNew(n, worker.version)
            ELSE notifier[n]]
      /\ worker' = [worker EXCEPT !.at = "ran"]
      /\ UNCHANGED <<fileVars, handleVars, advancer, skip, error, wake, signal>>
  BY DEF AdvanceToVersion
<1>2. \A n \in Notifiers :
         notifier'[n] = IF n \in worker.old THEN Ran(n, worker.version)
                        ELSE IF n \in worker.new /\ "ran" = "ran"
                        THEN RanNew(n, worker.version) ELSE notifier[n]
  BY <1>1
<1>3. notifier' = [n \in Notifiers |-> notifier'[n]]
  BY <1>1
<1>4. Running
  BY <1>1 DEF Running
<1> QED
  BY <1>1, <1>2, <1>3, <1>4, LookUpKeeps

\* The first handover: what the old notifiers found up to the skip version.
LEMMA HandOverSkipKeeps ==
    ASSUME IInv, HandOverSkip
    PROVE  IInv'
<1>1. /\ worker.at = "skipped" /\ notifier' = HandOver(worker.old)
      /\ worker' = [worker EXCEPT !.at = "run"]
      /\ UNCHANGED <<fileVars, handleVars, advancer, helper, skip, error, wake,
                     signal>>
  BY DEF HandOverSkip, coordVars
<1>2. /\ UNCHANGED <<latest, writer, realm, pc, package, jumped>>
      /\ TypeOK /\ ListsRight /\ OpeningRight /\ SkipRight /\ WorkerAssertions
      /\ error \in BOOLEAN /\ Running
  BY <1>1 DEF fileVars, handleVars, IInv, TypeOK, Running
<1>3. /\ worker'.at = "run"
      /\ worker'.version = worker.version /\ worker'.skip = worker.skip
      /\ worker'.old = worker.old /\ worker'.new = worker.new
      /\ Running'
      /\ worker' \in [at : {"idle", "skip", "skipped", "run", "ran", "signal"},
                      version : 0..MaxVersion, skip : 0..MaxVersion,
                      old : SUBSET Notifiers, new : SUBSET Notifiers]
  BY <1>1, <1>2 DEF TypeOK, Running
<1>4. /\ ~error /\ latest \in Nat /\ helper \in Nat
      /\ worker.version \in Nat /\ latest <= MaxVersion
      /\ MaxVersion \in Nat
      /\ 1 <= helper /\ helper <= worker.version /\ worker.version <= latest
      /\ worker.old \subseteq Notifiers /\ worker.new \subseteq Notifiers
      /\ m_notifiers = worker.old \cup worker.new
      /\ worker.old \cap worker.new = {}
      /\ \A n \in worker.new : ~notifier[n].hasRun
      /\ advancer # Unopened /\ helper # Unopened
  BY <1>2, RunningIs
<1>5. ASSUME NEW n \in worker.old
      PROVE  /\ notifier'[n] = prepare_handover(notifier[n], helper)
             /\ notifier'[n] \in Notifier
             /\ notifier'[n].realm = notifier[n].realm
             /\ notifier'[n].list = notifier[n].list
             /\ notifier'[n].ver = helper /\ notifier'[n].hasRun
             /\ notifier'[n].change = {}
             /\ notifier[n].list = "main" /\ n \in Notifiers
  <2>1. PICK o, m :
           /\ o \in Notifier /\ n \in Notifiers
           /\ o = notifier[n] /\ m = notifier'[n]
    BY <1>4, NotifierIs
  <2>2. m = prepare_handover(o, helper) /\ helper \in 0..MaxVersion
    BY <1>1, <1>4, <2>1 DEF HandOver
  <2>3. /\ m \in Notifier /\ m.realm = o.realm /\ m.list = o.list
        /\ m.ver = helper /\ m.hasRun /\ m.change = {}
    BY <2>1, <2>2, HandIs
  <2>4. notifier[n].list = "main"
    BY <1>4 DEF m_notifiers
  <2> QED
    BY <2>1, <2>2, <2>3, <2>4
<1>6. \A n \in Notifiers : n \notin worker.old => notifier'[n] = notifier[n]
  BY <1>1 DEF HandOver
<1>7. ASSUME NEW n \in Notifiers
      PROVE  /\ notifier'[n] \in Notifier
             /\ notifier'[n].realm = notifier[n].realm
             /\ notifier'[n].list = notifier[n].list
  <2>1. CASE n \in worker.old
    BY <1>5, <2>1
  <2>2. CASE n \notin worker.old
    BY <1>6, <2>2, NotifierIs
  <2> QED
    BY <2>1, <2>2
<1>8. TypeOK'
  <2>1. notifier' \in [Notifiers -> Notifier]
    BY <1>1, <1>7 DEF HandOver
  <2> QED
    BY <1>1, <1>2, <1>3, <2>1 DEF TypeOK
<1>9. /\ m_notifiers' = m_notifiers /\ m_new_notifiers' = m_new_notifiers
      /\ \A n \in Notifiers : is_alive(n)' <=> is_alive(n)
  BY <1>7 DEF m_notifiers, m_new_notifiers, is_alive
<1>10. ListsRight'
  <2> SUFFICES ASSUME NEW n \in Notifiers
               PROVE  /\ is_alive(n)' => notifier'[n].list # "none"
                      /\ notifier'[n].list = "none" =>
                            notifier'[n] = NewNotifier
                      /\ notifier'[n].list # "none" =>
                            notifier'[n].ver \in 1..latest'
                      /\ notifier'[n].hasRun => notifier'[n].list = "main"
                      /\ notifier'[n].initial => notifier'[n].hasRun
    BY DEF ListsRight
  <2>1. CASE n \in worker.old
    BY <1>2, <1>4, <1>5, <2>1
  <2>2. CASE n \notin worker.old
    BY <1>2, <1>6, <1>9, <2>2, NotifierIs
  <2> QED
    BY <2>1, <2>2
<1>11. OpeningRight'
  BY <1>1, <1>4 DEF OpeningRight
<1>12. RunningRight'
  <2>1. \A n \in worker.new : ~notifier'[n].hasRun
    BY <1>4, <1>6
  <2>2. \A n \in worker.old :
           /\ notifier'[n].hasRun /\ notifier'[n].ver = helper
           /\ notifier'[n].change = notifier'[n].ver + 1 .. helper
    <3>1. helper + 1 .. helper = {}
      BY <1>4
    <3> QED
      BY <1>5, <3>1
  <2>3. helper \in 1..worker.version
    BY <1>4
  <2> QED
    BY <1>1, <1>2, <1>3, <1>4, <1>9, <2>1, <2>2, <2>3 DEF RunningRight
<1>13. RestingRight'
  BY <1>3 DEF RestingRight
<1>14. SkipRight'
  BY <1>1, <1>2, <1>3, <1>9 DEF SkipRight
<1>15. WorkerAssertions'
  <2>1. \A n \in m_notifiers' :
           notifier'[n].hasRun => notifier'[n].ver = helper
    BY <1>4, <1>5, <1>6, <1>9
  <2>2. \A n \in m_new_notifiers' : advancer' \in 1..notifier'[n].ver
    <3> SUFFICES ASSUME NEW n \in m_new_notifiers
                 PROVE  advancer' \in 1..notifier'[n].ver
      BY <1>9
    <3>1. n \in Notifiers /\ n \notin m_notifiers
      BY DEF m_new_notifiers, m_notifiers
    <3> QED
      BY <1>1, <1>2, <1>4, <1>6, <3>1 DEF WorkerAssertions
  <2> QED
    BY <1>1, <1>2, <1>3, <1>9, <2>1, <2>2 DEF WorkerAssertions
<1>16. ASSUME NEW n \in Notifiers
       PROVE  LeftRight(n)
  <2>1. CASE ~is_alive(n)
    BY <1>7, <2>1, DeadIsLeft DEF is_alive
  <2>2. CASE is_alive(n) /\ n \in worker.old
    <3>1. UNCHANGED <<fileVars, handleVars, error>>
      BY <1>1
    <3> QED
      BY <1>1, <1>5, <2>2, <3>1, HandedIsLeft
  <2>3. CASE is_alive(n) /\ n \notin worker.old
    <3>1. /\ notifier'[n].realm = notifier[n].realm
          /\ notifier'[n].ver = notifier[n].ver
          /\ notifier'[n].hasRun <=> notifier[n].hasRun
          /\ notifier'[n].acc = notifier[n].acc
          /\ notifier'[n].todo = notifier[n].todo
          /\ notifier'[n].initial <=> notifier[n].initial
          /\ notifier'[n].skipNext <=> notifier[n].skipNext
          /\ notifier'[n].told = notifier[n].told
          /\ notifier'[n].asked = notifier[n].asked
          /\ notifier'[n].dropped = notifier[n].dropped
      BY <1>6, <2>3
    <3>2. ~notifier[n].initial
      BY <1>4, <2>3, NotifierIs DEF m_notifiers
    <3>3. UNCHANGED <<fileVars, handleVars>> /\ (error => error')
             /\ error' \in BOOLEAN
      BY <1>1, <1>2
    <3> QED
      BY <3>1, <3>2, <3>3, KeptIsLeft
  <2> QED
    BY <2>1, <2>2, <2>3
<1>17. UNCHANGED <<fileVars, handleVars>> /\ (error => error')
  BY <1>1
<1> QED
  BY <1>8, <1>10, <1>11, <1>12, <1>13, <1>14, <1>15, <1>16, <1>17,
     WorkerStepFrame

\* The handles are signalled.
LEMMA SignalRealmsKeeps ==
    ASSUME IInv, SignalRealms
    PROVE  IInv'
<1>1. /\ worker.at = "signal" /\ worker' = IdleWorker
      /\ signal' = [h \in Handles |-> TRUE]
      /\ UNCHANGED <<fileVars, handleVars, notifier, advancer, helper, skip,
                     error, wake>>
  BY DEF SignalRealms, coordVars
<1>2. /\ UNCHANGED <<latest, writer, realm, pc, package, jumped>>
      /\ TypeOK /\ ListsRight /\ OpeningRight /\ RestingRight /\ SkipRight
      /\ WorkerAssertions /\ error \in BOOLEAN
  BY <1>1 DEF fileVars, handleVars, IInv, TypeOK
<1>3. /\ worker'.at = "idle" /\ worker'.version = 0 /\ worker'.skip = 0
      /\ worker'.old = {} /\ worker'.new = {}
      /\ worker' \in [at : {"idle", "skip", "skipped", "run", "ran", "signal"},
                      version : 0..MaxVersion, skip : 0..MaxVersion,
                      old : SUBSET Notifiers, new : SUBSET Notifiers]
  BY <1>1, CoordinatorAssumption DEF IdleWorker
<1>4. ~Running /\ ~Running'
  BY <1>1, <1>3 DEF Running
<1>5. TypeOK'
  <2>1. signal' \in [Handles -> BOOLEAN]
    BY <1>1
  <2> QED
    BY <1>1, <1>2, <1>3, <2>1 DEF TypeOK
<1>6. m_notifiers' = m_notifiers /\ m_new_notifiers' = m_new_notifiers
  BY <1>1 DEF m_notifiers, m_new_notifiers
<1>7. ListsRight'
  BY <1>1, <1>2 DEF ListsRight, is_alive
<1>8. OpeningRight'
  BY <1>1, <1>2 DEF OpeningRight
<1>9. RunningRight' /\ RestingRight' /\ SkipRight'
  BY <1>1, <1>2, <1>4, <1>6
     DEF RunningRight, RestingRight, SkipRight, is_alive
<1>10. WorkerAssertions'
  BY <1>1, <1>2, <1>3, <1>6 DEF WorkerAssertions
<1>11. NextHandover' = NextHandover
  BY <1>1, <1>3 DEF NextHandover
<1>12. ASSUME NEW n \in Notifiers
       PROVE  LeftRight(n)
  <2>1. /\ notifier'[n].realm = notifier[n].realm
        /\ notifier'[n].ver = notifier[n].ver
        /\ notifier'[n].hasRun <=> notifier[n].hasRun
        /\ notifier'[n].acc = notifier[n].acc
        /\ notifier'[n].todo = notifier[n].todo
        /\ notifier'[n].initial <=> notifier[n].initial
        /\ notifier'[n].skipNext <=> notifier[n].skipNext
        /\ notifier'[n].told = notifier[n].told
        /\ notifier'[n].asked = notifier[n].asked
        /\ notifier'[n].dropped = notifier[n].dropped
    BY <1>1
  <2>2. UNCHANGED <<fileVars, handleVars>> /\ (error => error')
           /\ error' \in BOOLEAN
    BY <1>1, <1>2
  <2> QED
    BY <1>11, <2>1, <2>2, KeptIsLeft
<1>13. UNCHANGED <<fileVars, handleVars>> /\ (error => error')
  BY <1>1
<1> QED
  BY <1>5, <1>7, <1>8, <1>9, <1>10, <1>12, <1>13, WorkerStepFrame
-----------------------------------------------------------------------------
(* Cleaning up *)

\* What clean_up_dead_notifiers leaves: the lists without their dead, whose
\* notifiers are no more, and the helpers while somebody needs them.
LEMMA CleanedIs ==
    ASSUME IInv
    PROVE  /\ Cleaned.main = {n \in m_notifiers : is_alive(n)}
           /\ Cleaned.new = {n \in m_new_notifiers : is_alive(n)}
           /\ \A n \in Notifiers :
                 /\ Cleaned.notifier[n] =
                       IF is_alive(n) THEN notifier[n] ELSE NewNotifier
                 /\ ~is_alive(n) /\ n \notin Dead("main") \cup Dead("new") =>
                       notifier[n] = NewNotifier
           /\ HelperEnds <=> /\ m_notifiers # {} /\ helper # Unopened
                             /\ Cleaned.main = {}
           /\ Cleaned.helper = IF HelperEnds THEN Ready ELSE helper
           /\ Cleaned.skip = IF HelperEnds THEN 0 ELSE skip
           /\ Cleaned.advancer =
                 IF /\ m_new_notifiers # {} /\ Cleaned.new = {}
                    /\ advancer # Unopened
                 THEN Ready ELSE advancer
<1>1. /\ Cleaned.notifier =
            [n \in Notifiers |->
               IF n \in Dead("main") \cup Dead("new") THEN NewNotifier
               ELSE notifier[n]]
      /\ Cleaned.main = m_notifiers \ Dead("main")
      /\ Cleaned.new = m_new_notifiers \ Dead("new")
      /\ Cleaned.helper = IF HelperEnds THEN Ready ELSE helper
      /\ Cleaned.skip = SkipAfterCleanUp
      /\ Cleaned.advancer =
            IF Dead("new") # {} /\ Dead("new") = m_new_notifiers
               /\ advancer # Unopened
            THEN Ready ELSE advancer
  BY DEF Cleaned
<1>2. /\ Dead("main") = {n \in m_notifiers : ~is_alive(n)}
      /\ Dead("new") = {n \in m_new_notifiers : ~is_alive(n)}
  BY DEF Dead, m_notifiers, m_new_notifiers
<1>3. ASSUME NEW n \in Notifiers
      PROVE  /\ is_alive(n) => n \notin Dead("main") \cup Dead("new")
             /\ ~is_alive(n) /\ n \notin Dead("main") \cup Dead("new") =>
                   notifier[n] = NewNotifier
  <2>1. notifier[n].list = "none" => notifier[n] = NewNotifier
    BY NotifierIs
  <2>2. notifier[n].list \in {"none", "new", "main"}
    BY NotifierIs, FieldsAre
  <2> QED
    BY <1>2, <2>1, <2>2 DEF m_notifiers, m_new_notifiers
<1>4. \A n \in Notifiers : Cleaned.notifier[n] =
                              IF is_alive(n) THEN notifier[n] ELSE NewNotifier
  BY <1>1, <1>3
<1>5. /\ Cleaned.main = {n \in m_notifiers : is_alive(n)}
      /\ Cleaned.new = {n \in m_new_notifiers : is_alive(n)}
  BY <1>1, <1>2
<1>6. HelperEnds <=> /\ m_notifiers # {} /\ helper # Unopened
                     /\ Cleaned.main = {}
  BY <1>1, <1>2 DEF HelperEnds
<1>7. Cleaned.advancer =
         IF m_new_notifiers # {} /\ Cleaned.new = {} /\ advancer # Unopened
         THEN Ready ELSE advancer
  BY <1>1, <1>2
<1> QED
  BY <1>1, <1>3, <1>4, <1>5, <1>6, <1>7 DEF SkipAfterCleanUp

\* The helper reads on exactly while notifiers of the main list are left, and
\* the skip version lasts no longer; the advancer, while new ones are left.
LEMMA CleanedRight ==
    ASSUME IInv
    PROVE  /\ Cleaned.helper \in Unopened..MaxVersion
           /\ Cleaned.advancer \in Unopened..MaxVersion
           /\ Cleaned.skip \in 0..MaxVersion
           /\ Cleaned.helper = Unopened <=> helper = Unopened
           /\ Cleaned.advancer = Unopened <=> advancer = Unopened
           /\ Cleaned.main \subseteq Notifiers
           /\ Cleaned.new \subseteq Notifiers
           /\ Cleaned.main \cap Cleaned.new = {}
           /\ ~error =>
                 /\ Cleaned.main # {} =>
                       /\ Cleaned.helper = helper /\ Cleaned.skip = skip
                       /\ helper > 0
                 /\ Cleaned.main = {} =>
                       Cleaned.skip = 0 /\ Cleaned.helper \in {Unopened, Ready}
                 /\ Cleaned.new # {} => Cleaned.advancer = advancer
                 /\ Cleaned.new = {} => Cleaned.advancer \in {Unopened, Ready}
<1>1. /\ TypeOK /\ SkipRight /\ WorkerAssertions
      /\ MaxVersion \in Nat /\ helper \in Unopened..MaxVersion
      /\ advancer \in Unopened..MaxVersion /\ skip \in 0..MaxVersion
  BY StateIs DEF IInv, TypeOK
<1>2. /\ Cleaned.main = {n \in m_notifiers : is_alive(n)}
      /\ Cleaned.new = {n \in m_new_notifiers : is_alive(n)}
  BY CleanedIs
<1>3. HelperEnds <=> /\ m_notifiers # {} /\ helper # Unopened
                     /\ Cleaned.main = {}
  BY CleanedIs
<1>4. Cleaned.helper = IF HelperEnds THEN Ready ELSE helper
  BY CleanedIs
<1>5. Cleaned.skip = IF HelperEnds THEN 0 ELSE skip
  BY CleanedIs
<1>6. Cleaned.advancer =
         IF m_new_notifiers # {} /\ Cleaned.new = {} /\ advancer # Unopened
         THEN Ready ELSE advancer
  BY CleanedIs
<1>7. Cleaned.helper \in Unopened..MaxVersion
         /\ (Cleaned.helper = Unopened <=> helper = Unopened)
  BY <1>1, <1>3, <1>4 DEF Unopened, Ready
<1>8. Cleaned.skip \in 0..MaxVersion
  BY <1>1, <1>5
<1>9. Cleaned.advancer \in Unopened..MaxVersion
         /\ (Cleaned.advancer = Unopened <=> advancer = Unopened)
  BY <1>1, <1>6 DEF Unopened, Ready
<1>10. /\ Cleaned.main \subseteq Notifiers /\ Cleaned.new \subseteq Notifiers
       /\ Cleaned.main \cap Cleaned.new = {}
  BY <1>2 DEF m_notifiers, m_new_notifiers
<1>11. ASSUME ~error
       PROVE  /\ Cleaned.main # {} =>
                    /\ Cleaned.helper = helper /\ Cleaned.skip = skip
                    /\ helper > 0
              /\ Cleaned.main = {} =>
                    Cleaned.skip = 0 /\ Cleaned.helper \in {Unopened, Ready}
              /\ Cleaned.new # {} => Cleaned.advancer = advancer
              /\ Cleaned.new = {} => Cleaned.advancer \in {Unopened, Ready}
  <2>1. m_notifiers # {} <=> helper > 0
    BY <1>1, <1>11 DEF WorkerAssertions
  <2>2. m_new_notifiers = {} => advancer \in {Unopened, Ready}
    BY <1>1, <1>11 DEF WorkerAssertions
  <2>3. skip # 0 => m_notifiers # {}
    BY <1>1, <1>11 DEF SkipRight
  <2>4. Cleaned.main # {} => m_notifiers # {}
    BY <1>2
  <2>5. CASE Cleaned.main # {}
    BY <1>3, <1>4, <1>5, <1>6, <2>1, <2>2, <2>4, <2>5 DEF Unopened
  <2>6. CASE Cleaned.main = {} /\ HelperEnds
    BY <1>4, <1>5, <1>6, <2>2, <2>6
  <2>7. CASE Cleaned.main = {} /\ ~HelperEnds
    <3>1. m_notifiers = {}
      BY <1>3, <2>1, <2>7 DEF Unopened
    <3>2. skip = 0 /\ helper \in {Unopened, Ready}
      BY <1>1, <2>1, <2>3, <3>1 DEF Unopened, Ready
    <3> QED
      BY <1>4, <1>5, <1>6, <2>2, <2>7, <3>2
  <2> QED
    BY <2>5, <2>6, <2>7
<1> QED
  BY <1>7, <1>8, <1>9, <1>10, <1>11

\* The second handover: what all notifiers found up to the last version; the
\* dead are cleaned up.
LEMMA HandOverAllKeeps ==
    ASSUME IInv, HandOverAll
    PROVE  IInv'
<1>1. /\ worker.at = "ran"
      /\ notifier' = [n \in Notifiers |->
            IF n \in Dead("main") \cup Dead("new") THEN NewNotifier
            ELSE HandOver(worker.old \cup worker.new)[n]]
      /\ helper' = Cleaned.helper /\ advancer' = Cleaned.advancer
      /\ skip' = Cleaned.skip
      /\ worker' = [IdleWorker EXCEPT !.at = "signal"]
      /\ UNCHANGED <<fileVars, handleVars, error, wake, signal>>
  BY DEF HandOverAll
<1>2. /\ UNCHANGED <<latest, writer, realm, pc, package, jumped>>
      /\ TypeOK /\ ListsRight /\ SkipRight /\ WorkerAssertions
      /\ error \in BOOLEAN /\ Running
  BY <1>1 DEF fileVars, handleVars, IInv, TypeOK, Running
<1>3. /\ worker'.at = "signal" /\ ~Running'
      /\ worker' \in [at : {"idle", "skip", "skipped", "run", "ran", "signal"},
                      version : 0..MaxVersion, skip : 0..MaxVersion,
                      old : SUBSET Notifiers, new : SUBSET Notifiers]
  <2>1. worker' = [at |-> "signal", version |-> 0, skip |-> 0,
                   old |-> {}, new |-> {}]
    BY <1>1 DEF IdleWorker
  <2> QED
    BY <2>1, CoordinatorAssumption DEF Running
<1>4. /\ ~error /\ latest \in Nat /\ helper \in Nat
      /\ worker.version \in Nat /\ latest <= MaxVersion
      /\ MaxVersion \in Nat
      /\ 1 <= helper /\ helper <= worker.version /\ worker.version <= latest
      /\ m_notifiers = worker.old \cup worker.new
      /\ advancer # Unopened /\ helper # Unopened
  BY <1>2, RunningIs
<1>5. /\ Cleaned.main = {n \in m_notifiers : is_alive(n)}
      /\ Cleaned.new = {n \in m_new_notifiers : is_alive(n)}
      /\ \A n \in Notifiers :
            ~is_alive(n) /\ n \notin Dead("main") \cup Dead("new") =>
               notifier[n] = NewNotifier
  BY CleanedIs
<1>6. ASSUME NEW n \in Notifiers, ~is_alive(n)
      PROVE  notifier'[n] = NewNotifier
  <2>1. CASE n \in Dead("main") \cup Dead("new")
    BY <1>1, <2>1
  <2>2. CASE n \notin Dead("main") \cup Dead("new")
    <3>1. notifier[n] = NewNotifier
      BY <1>5, <1>6, <2>2
    <3>2. n \notin worker.old \cup worker.new
      BY <1>4, <3>1, NewIs DEF m_notifiers
    <3> QED
      BY <1>1, <2>2, <3>1, <3>2 DEF HandOver
  <2> QED
    BY <2>1, <2>2
<1>7. ASSUME NEW n \in Cleaned.main
      PROVE  /\ n \in Notifiers /\ is_alive(n)
             /\ n \in worker.old \cup worker.new
             /\ notifier'[n] = prepare_handover(notifier[n], helper)
             /\ notifier'[n] \in Notifier
             /\ notifier'[n].realm = notifier[n].realm
             /\ notifier'[n].list = "main"
             /\ notifier'[n].ver = helper /\ notifier'[n].hasRun
             /\ notifier'[n].change = {}
  <2>1. /\ n \in Notifiers /\ is_alive(n) /\ n \in worker.old \cup worker.new
        /\ notifier[n].list = "main"
    BY <1>4, <1>5 DEF m_notifiers
  <2>2. PICK o, m : o \in Notifier /\ o = notifier[n] /\ m = notifier'[n]
    BY <2>1, NotifierIs
  <2>3. n \notin Dead("main") \cup Dead("new")
    BY <2>1 DEF Dead
  <2>4. m = prepare_handover(o, helper) /\ helper \in 0..MaxVersion
    BY <1>1, <1>4, <2>1, <2>2, <2>3 DEF HandOver
  <2>5. /\ m \in Notifier /\ m.realm = o.realm /\ m.list = o.list
        /\ m.ver = helper /\ m.hasRun /\ m.change = {}
    BY <2>2, <2>4, HandIs
  <2> QED
    BY <2>1, <2>2, <2>4, <2>5
<1>8. ASSUME NEW n \in Notifiers, is_alive(n), n \notin Cleaned.main
      PROVE  /\ notifier'[n] = notifier[n] /\ notifier[n].list = "new"
             /\ n \in Cleaned.new
  <2>1. n \notin m_notifiers /\ notifier[n].list # "none"
    BY <1>5, <1>8, NotifierIs
  <2>2. notifier[n].list \in {"none", "new", "main"}
    BY NotifierIs, FieldsAre
  <2>3. notifier[n].list = "new" /\ n \in Cleaned.new
    BY <1>5, <1>8, <2>1, <2>2 DEF m_notifiers, m_new_notifiers
  <2>4. n \notin Dead("main") \cup Dead("new")
    BY <1>8 DEF Dead
  <2> QED
    BY <1>1, <1>4, <2>1, <2>3, <2>4 DEF HandOver
<1>9. ASSUME NEW n \in Notifiers
      PROVE  /\ notifier'[n] \in Notifier
             /\ is_alive(n)' <=> is_alive(n)
             /\ notifier'[n].list = "main" <=> n \in Cleaned.main
             /\ notifier'[n].list = "new" <=> n \in Cleaned.new
  <2>1. Cleaned.main \cap Cleaned.new = {}
    BY CleanedRight
  <2>2. CASE ~is_alive(n)
    BY <1>5, <1>6, <2>2, NewIs DEF is_alive
  <2>3. CASE n \in Cleaned.main
    BY <1>7, <2>1, <2>3 DEF is_alive
  <2>4. CASE is_alive(n) /\ n \notin Cleaned.main
    BY <1>8, <2>4, NotifierIs DEF is_alive
  <2> QED
    BY <2>2, <2>3, <2>4
<1>10. m_notifiers' = Cleaned.main /\ m_new_notifiers' = Cleaned.new
  <2>1. Cleaned.main \subseteq Notifiers /\ Cleaned.new \subseteq Notifiers
    BY CleanedRight
  <2> QED
    BY <1>9, <2>1 DEF m_notifiers, m_new_notifiers
<1>11. TypeOK'
  <2>1. notifier' \in [Notifiers -> Notifier]
    BY <1>1, <1>9
  <2>2. /\ helper' \in Unopened..MaxVersion
        /\ advancer' \in Unopened..MaxVersion
        /\ skip' \in 0..MaxVersion
    BY <1>1, CleanedRight
  <2> QED
    BY <1>1, <1>2, <1>3, <2>1, <2>2 DEF TypeOK
<1>12. ListsRight'
  <2> SUFFICES ASSUME NEW n \in Notifiers
               PROVE  /\ is_alive(n)' => notifier'[n].list # "none"
                      /\ notifier'[n].list = "none" =>
                            notifier'[n] = NewNotifier
                      /\ notifier'[n].list # "none" =>
                            notifier'[n].ver \in 1..latest'
                      /\ notifier'[n].hasRun => notifier'[n].list = "main"
                      /\ notifier'[n].initial => notifier'[n].hasRun
    BY DEF ListsRight
  <2>1. CASE ~is_alive(n)
    BY <1>6, <1>9, <2>1, NewIs
  <2>2. CASE n \in Cleaned.main
    BY <1>2, <1>4, <1>7, <2>2
  <2>3. CASE is_alive(n) /\ n \notin Cleaned.main
    BY <1>2, <1>8, <2>3, NotifierIs
  <2> QED
    BY <2>1, <2>2, <2>3
<1>13. OpeningRight'
  <2>1. helper' # Unopened /\ advancer' # Unopened
    BY <1>1, <1>4, CleanedRight
  <2> QED
    BY <1>1, <1>4, <2>1 DEF OpeningRight
<1>14. /\ Cleaned.main # {} => helper' = helper /\ skip' = skip /\ helper' > 0
       /\ Cleaned.main = {} => skip' = 0 /\ helper' \in {Unopened, Ready}
       /\ Cleaned.new # {} => advancer' = advancer
       /\ Cleaned.new = {} => advancer' \in {Unopened, Ready}
  BY <1>1, <1>4, CleanedRight
<1>15. RunningRight'
  BY <1>3 DEF RunningRight
<1>16. RestingRight'
  BY <1>7, <1>10, <1>14 DEF RestingRight
<1>17. SkipRight'
  <2>1. m_notifiers # {}
    BY <1>2, <1>4 DEF WorkerAssertions
  <2> QED
    BY <1>1, <1>2, <1>3, <1>4, <1>10, <1>14 DEF SkipRight
<1>18. WorkerAssertions'
  <2>1. \A n, m \in m_notifiers' : notifier'[n].ver = notifier'[m].ver
    BY <1>7, <1>10
  <2>2. ASSUME NEW n \in m_new_notifiers'
        PROVE  advancer' \in 1..notifier'[n].ver
    <3>1. n \in Cleaned.new /\ advancer' = advancer
      BY <1>10, <1>14, <2>2
    <3>2. n \in Notifiers /\ is_alive(n) /\ n \in m_new_notifiers
      BY <1>5, <3>1 DEF m_new_notifiers
    <3>3. n \notin Cleaned.main
      BY <3>1, CleanedRight
    <3>4. notifier'[n] = notifier[n]
      BY <1>8, <3>2, <3>3
    <3> QED
      BY <1>2, <1>4, <3>1, <3>2, <3>4 DEF WorkerAssertions
  <2>3. m_new_notifiers' = {} => advancer' \in {Unopened, Ready}
    BY <1>10, <1>14
  <2>4. m_notifiers' # {} <=> helper' > 0
    BY <1>10, <1>14 DEF Unopened, Ready
  <2> QED
    BY <1>3, <2>1, <2>2, <2>3, <2>4 DEF WorkerAssertions
<1>19. ASSUME NEW n \in Notifiers
       PROVE  LeftRight(n)
  <2>1. UNCHANGED <<fileVars, handleVars, error>> /\ (error => error')
           /\ error' \in BOOLEAN
    BY <1>1, <1>2
  <2>2. CASE ~is_alive(n)
    <3>1. notifier'[n].realm = NoHandle
      BY <1>6, <2>2, NewIs
    <3> QED
      BY <2>2, <3>1, DeadIsLeft
  <2>3. CASE n \in Cleaned.main
    <3>1. UNCHANGED <<fileVars, handleVars, error>>
      BY <1>1
    <3>2. worker.at \in {"skipped", "ran"}
      BY <1>1
    <3> QED
      BY <1>7, <2>3, <3>1, <3>2, HandedIsLeft
  <2>4. CASE is_alive(n) /\ n \notin Cleaned.main
    <3>1. notifier'[n] = notifier[n] /\ notifier[n].list = "new"
      BY <1>8, <2>4
    <3>2. ~notifier[n].initial
      BY <3>1, NotifierIs
    <3>3. /\ notifier'[n].realm = notifier[n].realm
          /\ notifier'[n].ver = notifier[n].ver
          /\ notifier'[n].hasRun <=> notifier[n].hasRun
          /\ notifier'[n].acc = notifier[n].acc
          /\ notifier'[n].todo = notifier[n].todo
          /\ notifier'[n].initial <=> notifier[n].initial
          /\ notifier'[n].skipNext <=> notifier[n].skipNext
          /\ notifier'[n].told = notifier[n].told
          /\ notifier'[n].asked = notifier[n].asked
          /\ notifier'[n].dropped = notifier[n].dropped
      BY <3>1
    <3>4. UNCHANGED <<fileVars, handleVars>>
      BY <2>1
    <3> QED
      BY <2>1, <3>2, <3>3, <3>4, KeptIsLeft
  <2> QED
    BY <2>2, <2>3, <2>4
<1>20. UNCHANGED <<fileVars, handleVars>> /\ (error => error')
  BY <1>1
<1> QED
  BY <1>11, <1>12, <1>13, <1>15, <1>16, <1>17, <1>18, <1>19, <1>20,
     WorkerStepFrame
-----------------------------------------------------------------------------
(* The beginning of a run *)

\* Of a live notifier, the cleaned lists have what the lists had.
LEMMA CleanedAre ==
    ASSUME IInv, NEW n \in Notifiers
    PROVE  /\ n \in Cleaned.main <=> is_alive(n) /\ notifier[n].list = "main"
           /\ n \in Cleaned.new <=> is_alive(n) /\ notifier[n].list = "new"
           /\ is_alive(n) => notifier[n].list \in {"new", "main"}
           /\ notifier[n].list = "new" => ~notifier[n].hasRun
           /\ is_alive(n) => Cleaned.notifier[n] = notifier[n]
           /\ ~is_alive(n) => Cleaned.notifier[n] = NewNotifier
<1>1. /\ Cleaned.main = {o \in m_notifiers : is_alive(o)}
      /\ Cleaned.new = {o \in m_new_notifiers : is_alive(o)}
  BY CleanedIs
<1>2. Cleaned.notifier[n] = IF is_alive(n) THEN notifier[n] ELSE NewNotifier
  BY CleanedIs
<1>3. /\ notifier[n].list \in {"none", "new", "main"}
      /\ is_alive(n) => notifier[n].list # "none"
      /\ notifier[n].hasRun => notifier[n].list = "main"
  BY NotifierIs, FieldsAre
<1> QED
  BY <1>1, <1>2, <1>3 DEF m_notifiers, m_new_notifiers

\* What the beginning of a run does to a notifier: it is forgotten when it is
\* dead, and may come to the main list when it is new.
Begun(n) ==
    /\ ~is_alive(n) => notifier'[n] = NewNotifier
    /\ is_alive(n) => \/ notifier'[n] = notifier[n]
                      \/ /\ notifier[n].list = "new"
                         /\ notifier'[n] = [notifier[n] EXCEPT !.list = "main"]

\* A notifier that comes to the main list.
LEMMA ListedIs ==
    ASSUME NEW n \in Notifier, NEW m, m = [n EXCEPT !.list = "main"]
    PROVE  /\ m \in Notifier
           /\ m.realm = n.realm /\ m.list = "main" /\ m.ver = n.ver
           /\ (m.hasRun <=> n.hasRun) /\ m.change = n.change
           /\ m.acc = n.acc /\ m.todo = n.todo
           /\ (m.initial <=> n.initial) /\ (m.skipNext <=> n.skipNext)
           /\ m.told = n.told /\ m.dropped = n.dropped /\ m.asked = n.asked
BY DEF Notifier

\* What that leaves of the notifiers.
LEMMA BegunIs ==
    ASSUME IInv, NEW n \in Notifiers, Begun(n)
    PROVE  /\ notifier'[n] \in Notifier
           /\ is_alive(n)' <=> is_alive(n)
           /\ ~is_alive(n) => notifier'[n] = NewNotifier
           /\ is_alive(n) =>
                 /\ notifier'[n].realm = notifier[n].realm
                 /\ notifier'[n].ver = notifier[n].ver
                 /\ notifier'[n].hasRun <=> notifier[n].hasRun
                 /\ notifier'[n].change = notifier[n].change
                 /\ notifier'[n].acc = notifier[n].acc
                 /\ notifier'[n].todo = notifier[n].todo
                 /\ notifier'[n].initial <=> notifier[n].initial
                 /\ notifier'[n].skipNext <=> notifier[n].skipNext
                 /\ notifier'[n].told = notifier[n].told
                 /\ notifier'[n].asked = notifier[n].asked
                 /\ notifier'[n].dropped = notifier[n].dropped
                 /\ notifier'[n].list \in {notifier[n].list, "main"}
                 /\ notifier'[n].list # "none"
<1>1. PICK o, m : o \in Notifier /\ o = notifier[n] /\ m = notifier'[n]
  BY NotifierIs
<1>2. is_alive(n) => notifier[n].list \in {"new", "main"}
  BY CleanedAre
<1>3. CASE ~is_alive(n)
  BY <1>3, NewIs DEF Begun, is_alive
<1>4. CASE is_alive(n) /\ notifier'[n] = notifier[n]
  BY <1>1, <1>2, <1>4 DEF is_alive
<1>5. CASE is_alive(n) /\ notifier'[n] = [notifier[n] EXCEPT !.list = "main"]
  <2>1. m = [o EXCEPT !.list = "main"]
    BY <1>1, <1>5
  <2>2. /\ m \in Notifier
        /\ m.realm = o.realm /\ m.list = "main" /\ m.ver = o.ver
        /\ (m.hasRun <=> o.hasRun) /\ m.change = o.change
        /\ m.acc = o.acc /\ m.todo = o.todo
        /\ (m.initial <=> o.initial) /\ (m.skipNext <=> o.skipNext)
        /\ m.told = o.told /\ m.dropped = o.dropped /\ m.asked = o.asked
    BY <1>1, <2>1, ListedIs
  <2> QED
    BY <1>1, <1>5, <2>2 DEF is_alive
<1> QED
  BY <1>3, <1>4, <1>5 DEF Begun

\* That keeps the lists in order.
LEMMA BegunLists ==
    ASSUME IInv, UNCHANGED latest, \A n \in Notifiers : Begun(n)
    PROVE  ListsRight' /\ \A n \in Notifiers : notifier'[n] \in Notifier
<1> SUFFICES ASSUME NEW n \in Notifiers
             PROVE  /\ is_alive(n)' => notifier'[n].list # "none"
                    /\ notifier'[n].list = "none" => notifier'[n] = NewNotifier
                    /\ notifier'[n].list # "none" =>
                          notifier'[n].ver \in 1..latest'
                    /\ notifier'[n].hasRun => notifier'[n].list = "main"
                    /\ notifier'[n].initial => notifier'[n].hasRun
                    /\ notifier'[n] \in Notifier
  BY DEF ListsRight
<1>1. CASE ~is_alive(n)
  BY <1>1, BegunIs, NewIs
<1>2. CASE is_alive(n)
  <2>1. /\ notifier[n].list # "none" /\ notifier[n].ver \in 1..latest
        /\ notifier[n].hasRun => notifier[n].list = "main"
        /\ notifier[n].initial => notifier[n].hasRun
    BY <1>2, NotifierIs
  <2>2. /\ notifier'[n] \in Notifier
        /\ notifier'[n].ver = notifier[n].ver
        /\ notifier'[n].hasRun <=> notifier[n].hasRun
        /\ notifier'[n].initial <=> notifier[n].initial
        /\ notifier'[n].list \in {notifier[n].list, "main"}
        /\ notifier'[n].list # "none"
    BY <1>2, BegunIs
  <2> QED
    BY <2>1, <2>2
<1> QED
  BY <1>1, <1>2

\* And every notifier right, when the next handover stays what it was for the
\* callbacks that have been called.
LEMMA BegunIsLeft ==
    ASSUME IInv, UNCHANGED <<fileVars, handleVars>>, error => error',
           error' \in BOOLEAN, NEW n \in Notifiers, Begun(n),
           is_alive(n) /\ ~error /\ notifier[n].initial =>
              NextHandover = 0 \/ NextHandover' = NextHandover
    PROVE  LeftRight(n)
<1>1. CASE ~is_alive(n)
  <2>1. notifier'[n].realm = NoHandle
    BY <1>1, BegunIs, NewIs
  <2> QED
    BY <1>1, <2>1, DeadIsLeft
<1>2. CASE is_alive(n)
  <2>1. /\ notifier'[n].realm = notifier[n].realm
        /\ notifier'[n].ver = notifier[n].ver
        /\ notifier'[n].hasRun <=> notifier[n].hasRun
        /\ notifier'[n].acc = notifier[n].acc
        /\ notifier'[n].todo = notifier[n].todo
        /\ notifier'[n].initial <=> notifier[n].initial
        /\ notifier'[n].skipNext <=> notifier[n].skipNext
        /\ notifier'[n].told = notifier[n].told
        /\ notifier'[n].asked = notifier[n].asked
        /\ notifier'[n].dropped = notifier[n].dropped
    BY <1>2, BegunIs
  <2> QED
    BY <2>1, KeptIsLeft
<1> QED
  BY <1>1, <1>2

\* Nothing to do, or an error to deliver: the handles are signalled next.
LEMMA NothingToRunKeeps ==
    ASSUME IInv, worker.at = "idle", NothingToRun(Cleaned), wake' \in BOOLEAN,
           UNCHANGED <<fileVars, handleVars, signal>>
    PROVE  IInv'
<1>1. /\ \/ Cleaned.main \cup Cleaned.new = {} /\ UNCHANGED error
         \/ Cleaned.main \cup Cleaned.new # {} /\ error /\ UNCHANGED error
         \/ /\ Cleaned.main \cup Cleaned.new # {} /\ ~error
            /\ Cleaned.helper = Unopened /\ error' = TRUE
      /\ notifier' = [n \in Notifiers |->
            IF error' /\ n \in Cleaned.new /\ Cleaned.main \cup Cleaned.new # {}
            THEN [Cleaned.notifier[n] EXCEPT !.list = "main"]
            ELSE Cleaned.notifier[n]]
      /\ worker' = [IdleWorker EXCEPT !.at = "signal"]
      /\ helper' = Cleaned.helper /\ advancer' = Cleaned.advancer
      /\ skip' = Cleaned.skip
  BY DEF NothingToRun
<1>2. /\ UNCHANGED <<latest, writer, realm, pc, package, jumped>>
      /\ TypeOK /\ OpeningRight /\ WorkerAssertions /\ error \in BOOLEAN
  BY DEF fileVars, handleVars, IInv, TypeOK
<1>3. /\ worker'.at = "signal" /\ ~Running'
      /\ worker' \in [at : {"idle", "skip", "skipped", "run", "ran", "signal"},
                      version : 0..MaxVersion, skip : 0..MaxVersion,
                      old : SUBSET Notifiers, new : SUBSET Notifiers]
  <2>1. worker' = [at |-> "signal", version |-> 0, skip |-> 0,
                   old |-> {}, new |-> {}]
    BY <1>1 DEF IdleWorker
  <2> QED
    BY <2>1, CoordinatorAssumption DEF Running
<1>4. error' \in BOOLEAN /\ (error => error')
  BY <1>1, <1>2
<1>5. ASSUME NEW n \in Notifiers
      PROVE  Begun(n)
  <2>1. /\ n \in Cleaned.new <=> is_alive(n) /\ notifier[n].list = "new"
        /\ is_alive(n) => Cleaned.notifier[n] = notifier[n]
        /\ ~is_alive(n) => Cleaned.notifier[n] = NewNotifier
    BY CleanedAre
  <2>2. CASE ~is_alive(n)
    BY <1>1, <2>1, <2>2 DEF Begun
  <2>3. CASE is_alive(n) /\ n \in Cleaned.new /\ error'
    <3>1. notifier'[n] = [notifier[n] EXCEPT !.list = "main"]
      BY <1>1, <2>1, <2>3
    <3> QED
      BY <2>1, <2>3, <3>1 DEF Begun
  <2>4. CASE is_alive(n) /\ ~(n \in Cleaned.new /\ error')
    <3>1. notifier'[n] = notifier[n]
      BY <1>1, <2>1, <2>4
    <3> QED
      BY <2>4, <3>1 DEF Begun
  <2> QED
    BY <2>2, <2>3, <2>4
<1>6. ListsRight' /\ \A n \in Notifiers : notifier'[n] \in Notifier
  BY <1>2, <1>5, BegunLists
<1>7. TypeOK'
  <2>1. notifier' \in [Notifiers -> Notifier]
    BY <1>1, <1>6
  <2>2. /\ helper' \in Unopened..MaxVersion
        /\ advancer' \in Unopened..MaxVersion
        /\ skip' \in 0..MaxVersion
    BY <1>1, CleanedRight
  <2>3. signal' = signal
    OBVIOUS
  <2> QED
    BY <1>2, <1>3, <1>4, <2>1, <2>2, <2>3 DEF TypeOK
<1>8. ASSUME ~error'
      PROVE  /\ ~error /\ Cleaned.main = {} /\ Cleaned.new = {}
             /\ skip' = 0 /\ helper' \in {Unopened, Ready}
             /\ advancer' \in {Unopened, Ready}
  <2>1. ~error /\ Cleaned.main = {} /\ Cleaned.new = {}
    BY <1>1, <1>8
  <2> QED
    BY <1>1, <2>1, CleanedRight
<1>9. ~error' => m_notifiers' = {} /\ m_new_notifiers' = {}
  <2> SUFFICES ASSUME ~error', NEW n \in Notifiers
               PROVE  notifier'[n].list = "none"
    BY DEF m_notifiers, m_new_notifiers
  <2>1. ~is_alive(n)
    BY <1>8, CleanedAre
  <2> QED
    BY <1>5, <2>1, BegunIs, NewIs
<1>10. OpeningRight'
  <2>1. /\ helper' = Unopened <=> helper = Unopened
        /\ advancer' = Unopened <=> advancer = Unopened
    BY <1>1, CleanedRight
  <2>2. helper' = Unopened => \A n \in Notifiers : ~notifier'[n].hasRun
    <3> SUFFICES ASSUME helper' = Unopened, NEW n \in Notifiers
                 PROVE  ~notifier'[n].hasRun
      OBVIOUS
    <3>1. ~notifier[n].hasRun
      BY <1>2, <2>1 DEF OpeningRight
    <3>2. CASE is_alive(n)
      BY <1>5, <3>1, <3>2, BegunIs
    <3>3. CASE ~is_alive(n)
      BY <1>5, <3>3, BegunIs, NewIs
    <3> QED
      BY <3>2, <3>3
  <2>3. helper' # Unopened => advancer' # Unopened /\ ~error'
    BY <1>1, <1>2, <2>1 DEF OpeningRight
  <2> QED
    BY <2>2, <2>3 DEF OpeningRight
<1>11. RunningRight' /\ RestingRight' /\ SkipRight'
  BY <1>3, <1>8, <1>9 DEF RunningRight, RestingRight, SkipRight
<1>12. WorkerAssertions'
  <2>1. ASSUME NEW n \in m_notifiers', NEW m \in m_notifiers',
               notifier'[n].hasRun, notifier'[m].hasRun
        PROVE  notifier'[n].ver = notifier'[m].ver
    <3>1. ASSUME NEW o \in Notifiers, notifier'[o].hasRun
          PROVE  /\ notifier[o].hasRun /\ notifier'[o].ver = notifier[o].ver
                 /\ o \in m_notifiers
      <4>1. is_alive(o)
        BY <1>5, <3>1, BegunIs, NewIs
      <4>2. notifier[o].hasRun /\ notifier'[o].ver = notifier[o].ver
        BY <1>5, <3>1, <4>1, BegunIs
      <4> QED
        BY <4>2, NotifierIs DEF m_notifiers
    <3>2. n \in Notifiers /\ m \in Notifiers
      BY DEF m_notifiers
    <3>3. /\ notifier[n].hasRun /\ notifier'[n].ver = notifier[n].ver
          /\ n \in m_notifiers
          /\ notifier[m].hasRun /\ notifier'[m].ver = notifier[m].ver
          /\ m \in m_notifiers
      BY <2>1, <3>1, <3>2
    <3> QED
      BY <1>2, <3>3 DEF WorkerAssertions
  <2> QED
    BY <1>3, <1>8, <1>9, <2>1 DEF WorkerAssertions, Unopened, Ready
<1>13. ASSUME NEW n \in Notifiers
       PROVE  LeftRight(n)
  <2>1. ~(is_alive(n) /\ ~error /\ notifier[n].initial)
    <3> SUFFICES ASSUME is_alive(n), ~error, notifier[n].initial
                 PROVE  FALSE
      OBVIOUS
    <3>1. notifier[n].hasRun /\ notifier[n].list = "main"
      BY NotifierIs
    <3>2. n \in Cleaned.main
      BY <3>1, CleanedAre
    <3>3. Cleaned.helper = Unopened
      BY <1>1, <3>2
    <3>4. helper = Unopened
      BY <3>3, CleanedRight
    <3> QED
      BY <1>2, <3>1, <3>4 DEF OpeningRight
  <2>2. UNCHANGED <<fileVars, handleVars>>
    OBVIOUS
  <2> QED
    BY <1>4, <1>5, <2>1, <2>2, BegunIsLeft
<1>14. UNCHANGED <<fileVars, handleVars>>
  OBVIOUS
<1> QED
  BY <1>4, <1>6, <1>7, <1>10, <1>11, <1>12, <1>13, <1>14, WorkerStepFrame

\* Something to do: the helper reads, and the worker takes the skip version
\* and its copies of the lists with it.
LEMMA SomethingToRunKeeps ==
    ASSUME IInv, worker.at = "idle", SomethingToRun(Cleaned), wake' \in BOOLEAN,
           UNCHANGED <<fileVars, handleVars, signal>>
    PROVE  IInv'
<1>1. /\ Cleaned.main \cup Cleaned.new # {} /\ ~error
      /\ helper' = IF Cleaned.helper = Unopened \/ Cleaned.main = {}
                   THEN latest ELSE Cleaned.helper
      /\ advancer' = Ready /\ skip' = 0 /\ UNCHANGED error
      /\ worker' = [at |-> IF Cleaned.skip # 0 THEN "skip" ELSE "run",
                    version |-> latest, skip |-> Cleaned.skip,
                    old |-> Cleaned.main, new |-> Cleaned.new]
      /\ notifier' = [n \in Notifiers |->
            IF n \in Cleaned.new
            THEN [Cleaned.notifier[n] EXCEPT !.list = "main"]
            ELSE Cleaned.notifier[n]]
  BY DEF SomethingToRun
<1>2. /\ UNCHANGED <<latest, writer, realm, pc, package, jumped>>
      /\ TypeOK /\ RestingRight /\ SkipRight /\ WorkerAssertions
      /\ error \in BOOLEAN /\ ~Running
      /\ latest \in Nat /\ 1 <= latest /\ latest <= MaxVersion
      /\ MaxVersion \in Nat /\ helper \in Int /\ skip \in 0..MaxVersion
  BY StateIs DEF fileVars, handleVars, IInv, TypeOK, Running
<1>3. /\ Cleaned.main # {} =>
            /\ Cleaned.helper = helper /\ Cleaned.skip = skip
            /\ helper > 0
      /\ Cleaned.main = {} => Cleaned.skip = 0
      /\ Cleaned.skip \in 0..MaxVersion
      /\ Cleaned.main \subseteq Notifiers /\ Cleaned.new \subseteq Notifiers
      /\ Cleaned.main \cap Cleaned.new = {}
  BY <1>1, CleanedRight
<1>4. /\ worker'.at = IF Cleaned.skip # 0 THEN "skip" ELSE "run"
      /\ worker'.version = latest /\ worker'.skip = Cleaned.skip
      /\ worker'.old = Cleaned.main /\ worker'.new = Cleaned.new
      /\ worker' \in [at : {"idle", "skip", "skipped", "run", "ran", "signal"},
                      version : 0..MaxVersion, skip : 0..MaxVersion,
                      old : SUBSET Notifiers, new : SUBSET Notifiers]
      /\ Running'
  BY <1>1, <1>2, <1>3 DEF Running
<1>5. ASSUME NEW n \in Cleaned.main
      PROVE  /\ n \in Notifiers /\ is_alive(n) /\ n \in m_notifiers
             /\ notifier[n].hasRun /\ notifier[n].ver = helper
             /\ notifier[n].change = {} /\ notifier[n].ver \in 1..latest
  <2>1. n \in Notifiers /\ is_alive(n) /\ notifier[n].list = "main"
    BY <1>3, CleanedAre
  <2>2. n \in m_notifiers
    BY <2>1 DEF m_notifiers
  <2>3. notifier[n].ver \in 1..latest
    BY <2>1, NotifierIs
  <2> QED
    BY <1>1, <1>2, <2>1, <2>2, <2>3 DEF RestingRight
<1>6. /\ helper' \in 1..latest
      /\ Cleaned.main # {} => helper' = helper
  <2>1. CASE Cleaned.main # {}
    <3>1. PICK n \in Cleaned.main : TRUE
      BY <2>1
    <3>2. helper \in 1..latest
      BY <1>5, <3>1
    <3> QED
      BY <1>1, <1>2, <1>3, <2>1, <3>2 DEF Unopened
  <2>2. CASE Cleaned.main = {}
    BY <1>1, <1>2, <2>2
  <2> QED
    BY <2>1, <2>2
<1>7. ASSUME NEW n \in Notifiers
      PROVE  /\ Begun(n)
             /\ n \in Cleaned.main \/ n \in Cleaned.new =>
                   notifier'[n].list = "main"
             /\ n \notin Cleaned.main /\ n \notin Cleaned.new =>
                   notifier'[n].list = "none"
  <2>1. /\ n \in Cleaned.main <=> is_alive(n) /\ notifier[n].list = "main"
        /\ n \in Cleaned.new <=> is_alive(n) /\ notifier[n].list = "new"
        /\ is_alive(n) => notifier[n].list \in {"new", "main"}
        /\ is_alive(n) => Cleaned.notifier[n] = notifier[n]
        /\ ~is_alive(n) => Cleaned.notifier[n] = NewNotifier
    BY CleanedAre
  <2>2. CASE ~is_alive(n)
    BY <1>1, <2>1, <2>2, NewIs DEF Begun
  <2>3. CASE is_alive(n) /\ n \in Cleaned.new
    <3>1. notifier'[n] = [notifier[n] EXCEPT !.list = "main"]
      BY <1>1, <2>1, <2>3
    <3>2. PICK o, m : o \in Notifier /\ o = notifier[n] /\ m = notifier'[n]
      BY NotifierIs
    <3>3. m = [o EXCEPT !.list = "main"]
      BY <3>1, <3>2
    <3>4. m.list = "main"
      BY <3>3, ListedIs
    <3> QED
      BY <2>1, <2>3, <3>1, <3>2, <3>4 DEF Begun
  <2>4. CASE is_alive(n) /\ n \notin Cleaned.new
    <3>1. notifier'[n] = notifier[n]
      BY <1>1, <2>1, <2>4
    <3> QED
      BY <2>1, <2>4, <3>1 DEF Begun
  <2> QED
    BY <2>2, <2>3, <2>4
<1>8. ListsRight' /\ \A n \in Notifiers : notifier'[n] \in Notifier
  BY <1>2, <1>7, BegunLists
<1>9. m_notifiers' = Cleaned.main \cup Cleaned.new /\ m_new_notifiers' = {}
  <2>1. m_notifiers' = Cleaned.main \cup Cleaned.new
    BY <1>3, <1>7 DEF m_notifiers
  <2>2. m_new_notifiers' = {}
    BY <1>7 DEF m_new_notifiers
  <2> QED
    BY <2>1, <2>2
<1>10. TypeOK'
  <2>1. notifier' \in [Notifiers -> Notifier]
    BY <1>1, <1>8
  <2>2. /\ helper' \in Unopened..MaxVersion
        /\ advancer' \in Unopened..MaxVersion
        /\ skip' \in 0..MaxVersion /\ error' \in BOOLEAN
    BY <1>1, <1>2, <1>6 DEF Unopened, Ready
  <2>3. signal' = signal
    OBVIOUS
  <2> QED
    BY <1>2, <1>4, <2>1, <2>2, <2>3 DEF TypeOK
<1>11. OpeningRight'
  BY <1>1, <1>2, <1>6 DEF OpeningRight, Unopened, Ready
<1>12. ASSUME NEW n \in Cleaned.main
       PROVE  /\ notifier'[n].hasRun /\ notifier'[n].ver = helper'
              /\ notifier'[n].change = {}
  <2>1. /\ notifier'[n].ver = notifier[n].ver
        /\ notifier'[n].hasRun <=> notifier[n].hasRun
        /\ notifier'[n].change = notifier[n].change
    BY <1>5, <1>7, BegunIs
  <2> QED
    BY <1>5, <1>6, <2>1
<1>13. ASSUME NEW n \in Cleaned.new
       PROVE  ~notifier'[n].hasRun
  <2>1. n \in Notifiers /\ is_alive(n) /\ ~notifier[n].hasRun
    BY <1>3, CleanedAre
  <2> QED
    BY <1>7, <2>1, BegunIs
<1>14. RunningRight'
  <2>1. \A n \in worker'.new : ~notifier'[n].hasRun
    BY <1>4, <1>13
  <2>2. \A n \in worker'.old :
           /\ notifier'[n].hasRun /\ notifier'[n].ver = helper'
           /\ notifier'[n].change = notifier'[n].ver + 1 .. helper'
    <3>1. \A i \in Int : i + 1 .. i = {}
      OBVIOUS
    <3>2. helper' \in Int
      BY <1>2, <1>6
    <3>3. helper' + 1 .. helper' = {}
      BY <3>1, <3>2
    <3> QED
      BY <1>4, <1>12, <3>3
  <2>3. helper' \in 1..worker'.version /\ worker'.version <= latest'
    BY <1>2, <1>4, <1>6
  <2>4. /\ m_notifiers' = worker'.old \cup worker'.new
        /\ worker'.old \cap worker'.new = {}
    BY <1>3, <1>4, <1>9
  <2> QED
    BY <1>2, <1>6, <2>1, <2>2, <2>3, <2>4 DEF RunningRight
<1>15. RestingRight' /\ SkipRight'
  BY <1>1, <1>4 DEF RestingRight, SkipRight
<1>16. WorkerAssertions'
  <2>1. \A n, m \in m_notifiers' :
           notifier'[n].hasRun /\ notifier'[m].hasRun =>
              notifier'[n].ver = notifier'[m].ver
    BY <1>9, <1>12, <1>13
  <2>2. m_notifiers' # {} <=> helper' > 0
    BY <1>1, <1>2, <1>6, <1>9
  <2>3. worker'.at = "skip" =>
           worker'.old # {} /\ worker'.skip \in helper'..worker'.version
    <3> SUFFICES ASSUME Cleaned.skip # 0
                 PROVE  Cleaned.main # {} /\ Cleaned.skip \in helper'..latest
      BY <1>4
    <3>1. Cleaned.main # {} /\ Cleaned.skip = skip /\ helper' = helper
      BY <1>3, <1>6
    <3>2. helper < skip /\ skip <= latest
      BY <1>1, <1>2, <3>1 DEF SkipRight
    <3> QED
      BY <1>2, <3>1, <3>2
  <2> QED
    BY <1>1, <1>9, <2>1, <2>2, <2>3 DEF WorkerAssertions
<1>17. ASSUME NEW n \in Notifiers
       PROVE  LeftRight(n)
  <2>1. ASSUME is_alive(n), notifier[n].initial
        PROVE  NextHandover = 0 \/ NextHandover' = NextHandover
    <3>1. notifier[n].hasRun /\ notifier[n].list = "main"
      BY <2>1, NotifierIs
    <3>2. n \in Cleaned.main
      BY <2>1, <3>1, CleanedAre
    <3>3. NextHandover = skip
      BY DEF NextHandover
    <3>4. worker'.skip = skip /\ (skip # 0 => worker'.at = "skip")
      BY <1>3, <1>4, <3>2
    <3> QED
      BY <3>3, <3>4 DEF NextHandover
  <2>2. UNCHANGED <<fileVars, handleVars>> /\ (error => error')
           /\ error' \in BOOLEAN
    BY <1>1, <1>2
  <2> QED
    BY <1>7, <2>1, <2>2, BegunIsLeft
<1>18. UNCHANGED <<fileVars, handleVars>> /\ (error => error')
  BY <1>1
<1> QED
  BY <1>8, <1>10, <1>11, <1>14, <1>15, <1>16, <1>17, <1>18, WorkerStepFrame

\* The beginning of a run.
LEMMA OnChangeKeeps ==
    ASSUME IInv, on_change
    PROVE  IInv'
<1>1. /\ worker.at = "idle" /\ wake' = FALSE
      /\ NothingToRun(Cleaned) \/ SomethingToRun(Cleaned)
      /\ UNCHANGED <<fileVars, handleVars, signal>>
  BY DEF on_change
<1>2. wake' \in BOOLEAN
  BY <1>1
<1> QED
  BY <1>1, <1>2, NothingToRunKeeps, SomethingToRunKeeps

\* Every step of the worker keeps the invariant.
LEMMA WorkerKeeps ==
    ASSUME IInv, WorkerStep
    PROVE  IInv'
BY OnChangeKeeps, AdvanceToSkipKeeps, HandOverSkipKeeps, AdvanceToVersionKeeps,
   HandOverAllKeeps, SignalRealmsKeeps DEF WorkerStep
-----------------------------------------------------------------------------
(* The specification *)

\* At the start nobody watches anything.
LEMMA InitRight ==
    ASSUME Init
    PROVE  IInv
<1>1. /\ latest = 1 /\ writer = NoHandle
      /\ advancer = Unopened /\ helper = Unopened
      /\ skip = 0 /\ error = FALSE /\ wake = FALSE /\ worker = IdleWorker
      /\ realm = [h \in Handles |-> [stage |-> "Reading", ver |-> 1]]
      /\ pc = [h \in Handles |-> "idle"]
      /\ package = [h \in Handles |->
                       [set |-> {}, error |-> FALSE, target |-> 0]]
      /\ notifier = [n \in Notifiers |-> NewNotifier]
      /\ signal = [h \in Handles |-> FALSE]
      /\ jumped = [h \in Handles |-> FALSE]
      /\ MaxVersion \in Nat /\ 1 <= MaxVersion /\ NoHandle \notin Handles
  BY CoordinatorAssumption DEF Init
<1>2. /\ worker.at = "idle" /\ ~Running
      /\ worker \in [at : {"idle", "skip", "skipped", "run", "ran", "signal"},
                     version : 0..MaxVersion, skip : 0..MaxVersion,
                     old : SUBSET Notifiers, new : SUBSET Notifiers]
  BY <1>1 DEF IdleWorker, Running
<1>3. \A n \in Notifiers :
         /\ notifier[n] = NewNotifier /\ notifier[n].list = "none"
         /\ ~is_alive(n) /\ ~notifier[n].hasRun /\ ~notifier[n].initial
  BY <1>1, NewIs DEF is_alive
<1>4. m_notifiers = {} /\ m_new_notifiers = {}
  BY <1>3 DEF m_notifiers, m_new_notifiers
<1>5. TypeOK
  <2>1. notifier \in [Notifiers -> Notifier]
    BY <1>1, NewIs
  <2>2. /\ realm \in [Handles -> [stage : {"Ready", "Reading", "Writing"},
                                  ver : Versions]]
        /\ package \in [Handles -> [set : SUBSET Notifiers, error : BOOLEAN,
                                    target : 0..MaxVersion]]
    BY <1>1 DEF Versions
  <2>3. /\ pc \in [Handles -> {"idle", "promote", "await", "refresh", "sending",
                               "commit", "sendingCommit"}]
        /\ signal \in [Handles -> BOOLEAN] /\ jumped \in [Handles -> BOOLEAN]
    BY <1>1
  <2>4. /\ latest \in Versions /\ skip \in 0..MaxVersion
        /\ advancer \in Unopened..MaxVersion /\ helper \in Unopened..MaxVersion
    BY <1>1 DEF Versions, Unopened
  <2> QED
    BY <1>1, <1>2, <2>1, <2>2, <2>3, <2>4 DEF TypeOK
<1>6. ListsRight /\ OpeningRight
  BY <1>1, <1>3 DEF ListsRight, OpeningRight
<1>7. RunningRight /\ RestingRight /\ SkipRight
  BY <1>1, <1>2, <1>4 DEF RunningRight, RestingRight, SkipRight
<1>8. WorkerAssertions
  BY <1>1, <1>2, <1>4 DEF WorkerAssertions, Unopened, Ready
<1>9. HandlesRight
  <2> SUFFICES ASSUME NEW h \in Handles
               PROVE  StageRight(h) /\ WaitRight(h) /\ WriteRight(h)
    BY DEF HandlesRight
  <2>1. /\ realm[h].stage = "Reading" /\ realm[h].ver = 1 /\ pc[h] = "idle"
        /\ ~package[h].error /\ writer # h
    BY <1>1
  <2> QED
    BY <1>1, <2>1 DEF StageRight, WaitRight, WriteRight
<1>10. NotifiersRight
  BY <1>3 DEF NotifiersRight, LagRight, SparedRight, ToldRight, Live, Calm
<1> QED
  BY <1>5, <1>6, <1>7, <1>8, <1>9, <1>10 DEF IInv

\* Nothing that happens elsewhere touches any of it.
LEMMA StutterKeeps ==
    ASSUME IInv, UNCHANGED vars
    PROVE  IInv'
<1>1. /\ UNCHANGED <<latest, writer, realm, pc, package, jumped, notifier,
                     advancer, helper, skip, error, worker, wake, signal>>
      /\ UNCHANGED <<fileVars, handleVars>>
  BY DEF vars, fileVars, handleVars, coordVars
<1>2. /\ TypeOK /\ ListsRight /\ OpeningRight /\ RunningRight /\ RestingRight
      /\ SkipRight /\ WorkerAssertions /\ error \in BOOLEAN
  BY DEF IInv, TypeOK
<1>3. TypeOK'
  BY <1>1, <1>2 DEF TypeOK
<1>4. m_notifiers' = m_notifiers /\ m_new_notifiers' = m_new_notifiers
  BY <1>1 DEF m_notifiers, m_new_notifiers
<1>5. ListsRight' /\ OpeningRight'
  BY <1>1, <1>2 DEF ListsRight, OpeningRight, is_alive
<1>6. RunningRight' /\ RestingRight' /\ SkipRight'
  BY <1>1, <1>2, <1>4
     DEF RunningRight, RestingRight, SkipRight, Running, is_alive
<1>7. WorkerAssertions'
  BY <1>1, <1>2, <1>4 DEF WorkerAssertions
<1>8. NextHandover' = NextHandover
  BY <1>1 DEF NextHandover
<1>9. ASSUME NEW n \in Notifiers
      PROVE  LeftRight(n)
  <2>1. /\ notifier'[n].realm = notifier[n].realm
        /\ notifier'[n].ver = notifier[n].ver
        /\ notifier'[n].hasRun <=> notifier[n].hasRun
        /\ notifier'[n].acc = notifier[n].acc
        /\ notifier'[n].todo = notifier[n].todo
        /\ notifier'[n].initial <=> notifier[n].initial
        /\ notifier'[n].skipNext <=> notifier[n].skipNext
        /\ notifier'[n].told = notifier[n].told
        /\ notifier'[n].asked = notifier[n].asked
        /\ notifier'[n].dropped = notifier[n].dropped
    BY <1>1
  <2>2. UNCHANGED <<fileVars, handleVars>> /\ (error => error')
           /\ error' \in BOOLEAN
    BY <1>1, <1>2
  <2> QED
    BY <1>8, <2>1, <2>2, KeptIsLeft
<1>10. UNCHANGED <<fileVars, handleVars>> /\ (error => error')
  BY <1>1
<1> QED
  BY <1>3, <1>5, <1>6, <1>7, <1>9, <1>10, WorkerStepFrame

\* Every step keeps the invariant.
LEMMA NextKeeps ==
    ASSUME IInv, [Next]_vars
    PROVE  IInv'
<1>1. CASE WorkerStep
  BY <1>1, WorkerKeeps
<1>2. CASE ExternalCommit
  BY <1>2, ExternalKeeps
<1>3. ASSUME NEW n \in Notifiers, unregister(n)
      PROVE  IInv'
  BY <1>3, UnregisterKeeps
<1>4. ASSUME NEW n \in Notifiers, NEW h \in Handles, register_notifier(n, h)
      PROVE  IInv'
  BY <1>4, RegisterKeeps
<1>5. ASSUME NEW h \in Handles, HandleStep(h)
      PROVE  IInv'
  BY <1>5, PromoteKeeps, BeginDeliversKeeps, ReturnKeeps, AdvanceKeeps,
     NotifyKeeps, CommitKeeps DEF HandleStep
<1>6. ASSUME NEW h \in Handles,
             begin_transaction(h) \/ BeginInCallback(h)
                \/ commit_transaction(h) \/ CommitFails(h)
                \/ cancel_transaction(h) \/ read_group(h) \/ invalidate(h)
                \/ refresh(h) \/ RefreshOpens(h)
      PROVE  IInv'
  BY <1>6, BeginKeeps, BeginInCallbackKeeps, CommitKeeps, FailKeeps,
     CancelKeeps, ReadKeeps, InvalidateKeeps, RefreshKeeps, RefreshOpensKeeps
<1>7. ASSUME NEW h \in Handles, NEW spared \in SUBSET Notifiers,
             suppress_next_notification(h, spared)
      PROVE  IInv'
  BY <1>7, SuppressKeeps
<1>8. CASE UNCHANGED vars
  BY <1>8, StutterKeeps
<1> QED
  BY <1>1, <1>2, <1>3, <1>4, <1>5, <1>6, <1>7, <1>8 DEF Next

\* The invariant holds in every reachable state.
THEOREM InvariantHolds == Spec => []IInv
<1>1. Init => IInv
  BY InitRight
<1>2. IInv /\ [Next]_vars => IInv'
  BY NextKeeps
<1> QED
  BY <1>1, <1>2, PTL DEF Spec

\* The variables keep their types.
THEOREM TypeCorrect == Spec => []TypeOK
<1>1. IInv => TypeOK
  BY DEF IInv
<1> QED
  BY <1>1, InvariantHolds, PTL

\* The assertions of pin_version, clean_up_dead_notifiers, run_async_notifiers
\* and package_and_wait on the helpers, the skip version and the versions of
\* the notifiers never fail.
THEOREM WorkerAssertionsHold == Spec => []WorkerAssertions
<1>1. IInv => WorkerAssertions
  BY DEF IInv
<1> QED
  BY <1>1, InvariantHolds, PTL

\* A callback hears of every commit once: add_changes, package_for_delivery
\* and after_advance lose none and repeat none, however the worker, the
\* handles and other processes take turns.
THEOREM CommitsAreToldOnce == Spec => []EveryCommitOnce
<1>1. IInv => EveryCommitOnce
  BY DEF IInv, NotifiersRight, ToldRight, EveryCommitOnce
<1> QED
  BY <1>1, InvariantHolds, PTL

\* What add_changes drops was asked to be dropped: suppress_next_notification
\* spares a callback the commits it was called for and no others.
THEOREM OnlyAskedAreDropped == Spec => []OnlyAskedCommitsAreDropped
<1>1. IInv => OnlyAskedCommitsAreDropped
  BY DEF IInv, NotifiersRight, ToldRight, OnlyAskedCommitsAreDropped
<1> QED
  BY <1>1, InvariantHolds, PTL
-----------------------------------------------------------------------------
(* What the callbacks see *)

\* What CallbacksSeeTheirVersion says of one handle.
Sees(h) ==
    /\ pc[h] # "sending" /\ pc'[h] = "sending"
    /\ realm'[h].stage # "Ready" /\ ~jumped'[h]
    => \A n \in package'[h].set : notifier'[n].told = 1..realm'[h].ver

\* A delivery tells each callback what is missing up to its notifier's version,
\* so it must be the handle's.
LEMMA DeliverTells ==
    ASSUME IInv, NEW h \in Handles, NEW set \in SUBSET Of(h), Deliver(h, set),
           jumped[h] => jumped'[h],
           \A n \in set :
              jumped'[h] \/ realm'[h].stage = "Ready"
                 \/ notifier[n].ver = realm'[h].ver
    PROVE  Sees(h)
<1> SUFFICES ASSUME realm'[h].stage # "Ready", ~jumped'[h],
                    NEW n \in package'[h].set
             PROVE  notifier'[n].told = 1..realm'[h].ver
  BY DEF Sees
<1>1. package'[h].set = set
  BY HandleIs DEF Deliver, TypeOK
<1>2. /\ n \in set /\ n \in Notifiers /\ notifier[n].realm = h
      /\ notifier[n].ver = realm'[h].ver /\ ~jumped[h] /\ h # NoHandle
  BY <1>1, CoordinatorAssumption DEF Of
<1>3. PICK o, m : o \in Notifier /\ o = notifier[n] /\ m = notifier'[n]
  BY <1>2, NotifierIs
<1>4. m = after_advance(package_for_delivery(o))
  BY <1>2, <1>3 DEF Deliver
<1>5. /\ o.initial => m.told = o.told \cup o.acc
      /\ ~o.initial => m.told = 1..o.ver
  BY <1>3, <1>4, TellIs
<1>6. CASE o.initial
  <2>1. Live(n) /\ LagRight(n) /\ ToldRight(n)
    BY <1>2, <1>3, <1>6, NotifierIs DEF Live, is_alive
  <2>2. o.todo = {} /\ o.told \cup (o.acc \cup o.todo) = 1..o.ver
    BY <1>3, <2>1 DEF LagRight, ToldRight
  <2> QED
    BY <1>2, <1>3, <1>5, <1>6, <2>2
<1>7. CASE ~o.initial
  BY <1>2, <1>3, <1>5, <1>7
<1> QED
  BY <1>6, <1>7

\* An error is not told while callbacks see anything.
LEMMA ErrorSees ==
    ASSUME IInv, NEW h \in Handles, NEW set, DeliverError(h, set)
    PROVE  Sees(h)
BY HandleIs DEF DeliverError, Sees, TypeOK

\* The callbacks that are called when a write begins.
LEMMA BeginSees ==
    ASSUME IInv, NEW h \in Handles, BeginDelivers(h)
    PROVE  Sees(h)
<1>1. pc[h] = "await" /\ UNCHANGED <<realm, jumped>>
  BY DEF BeginDelivers
<1>2. package[h].target = latest /\ realm[h].ver = latest /\ latest \in Int
  BY <1>1, HandleIs DEF StageRight, WaitRight
<1>3. CASE DeliverError(h, package[h].set)
  BY <1>3, ErrorSees
<1>4. CASE /\ NotifiersReady(h, package[h].set, package[h].target)
           /\ Deliver(h, Packable(package[h].set, h))
  <2>1. /\ Packable(package[h].set, h) = Of(h)
        /\ \A n \in Of(h) : notifier[n].hasRun /\ notifier[n].ver >= latest
    BY <1>1, <1>2, <1>4, WaitedFor
  <2>2. \A n \in Of(h) : notifier[n].ver = realm'[h].ver
    <3> TAKE n \in Of(h)
    <3>1. n \in Notifiers
      BY DEF Of
    <3>2. notifier[n].ver \in 1..latest
      BY <2>1, <3>1, NotifierIs
    <3> QED
      BY <1>1, <1>2, <2>1, <3>2
  <2>3. Deliver(h, Of(h)) /\ (jumped[h] => jumped'[h])
    BY <1>1, <1>4, <2>1
  <2> QED
    BY <2>2, <2>3, DeliverTells
<1> QED
  BY <1>3, <1>4 DEF BeginDelivers

\* When a handle was refreshed.
LEMMA AdvanceSees ==
    ASSUME IInv, NEW h \in Handles, advance_to_latest(h)
    PROVE  Sees(h)
<1>1. pc[h] = "refresh" /\ UNCHANGED jumped /\ TypeOK
  BY HandleIs DEF advance_to_latest
<1>2. CASE DeliverError(h, package[h].set)
  BY <1>2, ErrorSees
<1>3. CASE /\ NotifiersReady(h, package[h].set, package[h].target)
           /\ Deliver(h, Packable(package[h].set, h))
           /\ realm' = [realm EXCEPT ![h].ver =
                           IF Packable(package[h].set, h) = {} THEN latest
                           ELSE PackageVersion(Packable(package[h].set, h))]
  <2>1. /\ Packable(package[h].set, h) = Of(h)
        /\ \A n \in Of(h) : notifier[n].hasRun
    BY <1>1, <1>3, HandleIs, WaitedFor
  <2>2. \A n \in Of(h) : notifier[n].ver = realm'[h].ver
    <3> TAKE n \in Of(h)
    <3>1. PICK v : v = PackageVersion(Of(h))
      OBVIOUS
    <3>2. realm' = [realm EXCEPT ![h].ver = v]
      BY <1>3, <2>1, <3>1
    <3>3. realm'[h].ver = v
      BY <1>1, <3>2 DEF TypeOK
    <3> QED
      BY <2>1, <3>1, <3>3, HandleIs, PackageVersionIs
  <2>3. Deliver(h, Of(h)) /\ (jumped[h] => jumped'[h])
    BY <1>1, <1>3, <2>1
  <2> QED
    BY <2>2, <2>3, DeliverTells
<1> QED
  BY <1>2, <1>3 DEF advance_to_latest

\* When a refresh begins a read transaction, the handle was moved past any
\* notifier it has.
LEMMA RefreshOpensSees ==
    ASSUME IInv, NEW h \in Handles, RefreshOpens(h)
    PROVE  Sees(h)
<1>1. Jump(h) /\ process_available_async(h, latest, TRUE)
  BY DEF RefreshOpens
<1>2. PICK j \in BOOLEAN : /\ jumped' = [jumped EXCEPT ![h] = j]
                           /\ jumped[h] => j
                           /\ j \/ Of(h) = {}
  BY <1>1, JumpIs
<1>3. jumped'[h] <=> j
  BY <1>2, HandleIs DEF TypeOK
<1>4. CASE error
  BY <1>1, <1>4, ErrorSees DEF process_available_async
<1>5. CASE ~error
  <2>1. PICK set \in SUBSET Of(h) : Deliver(h, set)
    BY <1>1, <1>5, PackableIs DEF process_available_async
  <2>2. \A n \in set : jumped'[h]
    BY <1>2, <1>3
  <2> QED
    BY <1>2, <1>3, <2>1, <2>2, DeliverTells
<1> QED
  BY <1>4, <1>5

\* When the run loop calls.
LEMMA NotifySees ==
    ASSUME IInv, NEW h \in Handles, notify(h)
    PROVE  Sees(h)
<1>1. pc[h] = "idle" /\ UNCHANGED jumped /\ TypeOK
      /\ realm[h].stage \in {"Ready", "Reading", "Writing"}
  BY HandleIs DEF notify
<1>2. CASE UNCHANGED <<realm, pc, package, notifier>>
  BY <1>1, <1>2 DEF Sees
<1>3. CASE realm[h].stage = "Reading" /\ advance_to_ready(h)
  <2> DEFINE set == Packable(notifiers_for_realm(h), h)
  <2>1. /\ set \in SUBSET Of(h) /\ set \in SUBSET Notifiers
        /\ \A n \in set : notifier[n].hasRun
    BY PackableIs DEF Of
  <2>2. CASE error
    BY <1>3, <2>2, ErrorSees DEF advance_to_ready
  <2>3. CASE ~error /\ set # {} /\ PackageVersion(set) < realm[h].ver
    <3>1. UNCHANGED pc
      BY <1>3, <2>3 DEF advance_to_ready
    <3> QED
      BY <1>1, <3>1 DEF Sees
  <2>4. CASE ~error /\ ~(set # {} /\ PackageVersion(set) < realm[h].ver)
    <3>1. PICK v : v = IF set = {} THEN latest ELSE PackageVersion(set)
      OBVIOUS
    <3>2. Deliver(h, set) /\ realm' = [realm EXCEPT ![h].ver = v]
      BY <1>3, <2>4, <3>1 DEF advance_to_ready
    <3> HIDE DEF set
    <3>3. \A n \in set : notifier[n].ver = v
      BY <2>1, <3>1, PackageVersionIs
    <3>4. realm'[h].ver = v
      BY <1>1, <3>2 DEF TypeOK
    <3>5. \A n \in set : notifier[n].ver = realm'[h].ver
      BY <3>3, <3>4
    <3> QED
      BY <1>1, <2>1, <3>2, <3>5, DeliverTells
  <2> QED
    BY <2>2, <2>3, <2>4
<1>4. CASE /\ realm[h].stage # "Writing" /\ UNCHANGED realm
           /\ process_available_async(h, realm[h].ver,
                                      realm[h].stage = "Reading")
  <2>1. CASE error
    BY <1>4, <2>1, ErrorSees DEF process_available_async
  <2>2. CASE ~error
    <3>1. PICK set \in SUBSET Of(h) :
             /\ Deliver(h, set)
             /\ \A n \in set :
                   realm[h].stage = "Reading" => notifier[n].ver = realm[h].ver
      BY <1>4, <2>2, PackableIs DEF process_available_async
    <3>2. \A n \in set : realm'[h].stage = "Ready"
                            \/ notifier[n].ver = realm'[h].ver
      BY <1>1, <1>4, <3>1
    <3> QED
      BY <1>1, <3>1, <3>2, DeliverTells
  <2> QED
    BY <2>1, <2>2
<1> QED
  BY <1>2, <1>3, <1>4 DEF notify

\* The other steps of a handle call nobody.
LEMMA SilentSees ==
    ASSUME IInv, NEW h \in Handles,
           \/ promote_to_write(h) \/ CallbacksReturn(h) \/ begin_transaction(h)
           \/ BeginInCallback(h) \/ commit_transaction(h) \/ CommitFails(h)
           \/ cancel_transaction(h) \/ read_group(h) \/ invalidate(h)
           \/ refresh(h)
           \/ \E spared \in SUBSET Notifiers :
                 suppress_next_notification(h, spared)
    PROVE  Sees(h)
<1>1. TypeOK
  BY HandleIs
<1>2. CASE commit_transaction(h) \/ CommitFails(h)
  <2>1. AfterCommit(h)
    BY <1>2 DEF commit_transaction, CommitFails
  <2>2. package'[h].set = {}
    BY <1>1, <2>1 DEF AfterCommit, TypeOK
  <2> QED
    BY <2>2 DEF Sees
<1>3. CASE BeginInCallback(h) \/ cancel_transaction(h) \/ read_group(h)
              \/ invalidate(h)
  BY <1>3 DEF BeginInCallback, cancel_transaction, read_group, invalidate, Sees
<1>4. CASE promote_to_write(h)
  BY <1>1, <1>4 DEF promote_to_write, Sees, TypeOK
<1>5. CASE CallbacksReturn(h)
  BY <1>1, <1>5 DEF CallbacksReturn, Sees, TypeOK
<1>6. CASE begin_transaction(h)
  BY <1>1, <1>6 DEF begin_transaction, Sees, TypeOK
<1>7. CASE refresh(h)
  BY <1>1, <1>7 DEF refresh, Sees, TypeOK
<1>8. CASE \E spared \in SUBSET Notifiers :
              suppress_next_notification(h, spared)
  <2>1. pc' = [pc EXCEPT ![h] = IF @ = "idle" THEN "commit"
                                ELSE "sendingCommit"]
    BY <1>8 DEF suppress_next_notification
  <2> QED
    BY <1>1, <2>1 DEF Sees, TypeOK
<1> QED
  BY <1>2, <1>3, <1>4, <1>5, <1>6, <1>7, <1>8

\* A step of one handle.
OfHandle(h) ==
    \/ HandleStep(h)
    \/ begin_transaction(h) \/ BeginInCallback(h)
    \/ \E spared \in SUBSET Notifiers : suppress_next_notification(h, spared)
    \/ commit_transaction(h) \/ CommitFails(h) \/ cancel_transaction(h)
    \/ read_group(h) \/ invalidate(h) \/ refresh(h) \/ RefreshOpens(h)

\* It calls no callbacks of another.
LEMMA OthersSee ==
    ASSUME IInv, NEW h \in Handles, OfHandle(h), NEW k \in Handles, k # h
    PROVE  Sees(k)
<1>1. pc'[k] = pc[k]
  <2>1. pc \in [Handles -> {"idle", "promote", "await", "refresh", "sending",
                            "commit", "sendingCommit"}]
    BY DEF IInv, TypeOK
  <2>2. ASSUME NEW s, Deliver(h, s) \/ DeliverError(h, s)
        PROVE  pc'[k] = pc[k]
    BY <2>1, <2>2 DEF Deliver, DeliverError
  <2>3. CASE \/ BeginInCallback(h) \/ cancel_transaction(h) \/ read_group(h)
             \/ invalidate(h)
    BY <2>3 DEF BeginInCallback, cancel_transaction, read_group, invalidate
  <2>4. CASE \/ promote_to_write(h) \/ CallbacksReturn(h)
             \/ begin_transaction(h) \/ refresh(h)
    BY <2>1, <2>4
       DEF promote_to_write, CallbacksReturn, begin_transaction, refresh
  <2>5. CASE \E spared \in SUBSET Notifiers :
                suppress_next_notification(h, spared)
    <3>1. pc' = [pc EXCEPT ![h] = IF @ = "idle" THEN "commit"
                                  ELSE "sendingCommit"]
      BY <2>5 DEF suppress_next_notification
    <3> QED
      BY <2>1, <3>1
  <2>6. CASE commit_transaction(h) \/ CommitFails(h)
    <3>1. AfterCommit(h)
      BY <2>6 DEF commit_transaction, CommitFails
    <3> QED
      BY <2>1, <3>1 DEF AfterCommit
  <2>7. CASE BeginDelivers(h)
    BY <2>2, <2>7 DEF BeginDelivers
  <2>8. CASE advance_to_latest(h)
    BY <2>2, <2>8 DEF advance_to_latest
  <2>9. CASE RefreshOpens(h)
    BY <2>2, <2>9 DEF RefreshOpens, process_available_async
  <2>10. CASE notify(h)
    BY <2>2, <2>10 DEF notify, advance_to_ready, process_available_async
  <2> QED
    BY <2>3, <2>4, <2>5, <2>6, <2>7, <2>8, <2>9, <2>10 DEF OfHandle, HandleStep
<1> QED
  BY <1>1 DEF Sees

\* When callbacks are called, each hears of exactly the commits up to the
\* version its handle is at: in a write that begins (promote_to_write), in
\* advance_to_latest, and in advance_to_ready and process_available_async,
\* whichever notifiers the handle has by then and however far they are.
THEOREM CallbacksSeeRight == Spec => CallbacksSeeTheirVersion
<1>1. ASSUME IInv, [Next]_vars, NEW h \in Handles
      PROVE  Sees(h)
  <2>1. CASE WorkerStep \/ ExternalCommit \/ UNCHANGED vars
    <3>1. UNCHANGED pc
      BY <2>1 DEF WorkerStep, on_change, AdvanceToSkip, HandOverSkip,
                  AdvanceToVersion, HandOverAll, SignalRealms, ExternalCommit,
                  vars, handleVars
    <3> QED
      BY <3>1 DEF Sees
  <2>2. CASE \E n \in Notifiers : unregister(n) \/ \E k \in Handles :
                                     register_notifier(n, k)
    <3>1. UNCHANGED pc
      BY <2>2 DEF unregister, register_notifier, handleVars
    <3> QED
      BY <3>1 DEF Sees
  <2>3. CASE \E k \in Handles : OfHandle(k)
    <3>1. PICK k \in Handles : OfHandle(k)
      BY <2>3
    <3>2. CASE k # h
      BY <1>1, <3>1, <3>2, OthersSee
    <3>3. CASE k = h
      <4>1. OfHandle(h)
        BY <3>1, <3>3
      <4> QED
        BY <1>1, <4>1, BeginSees, AdvanceSees, NotifySees, RefreshOpensSees,
           SilentSees DEF OfHandle, HandleStep
    <3> QED
      BY <3>2, <3>3
  <2> QED
    BY <1>1, <2>1, <2>2, <2>3 DEF Next, OfHandle
<1>2. IInv /\ [Next]_vars =>
         \A h \in Handles :
            /\ pc[h] # "sending" /\ pc'[h] = "sending"
            /\ realm'[h].stage # "Ready" /\ ~jumped'[h]
            => \A n \in package'[h].set :
                  notifier'[n].told = 1..realm'[h].ver
  BY <1>1 DEF Sees
<1> QED
  BY <1>2, InvariantHolds, PTL DEF Spec, CallbacksSeeTheirVersion
=============================================================================

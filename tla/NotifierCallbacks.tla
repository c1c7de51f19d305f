------------------------- MODULE NotifierCallbacks --------------------------
(***************************************************************************)
(* The callbacks of one CollectionNotifier.  The handle's thread adds them  *)
(* and calls them in a loop that gives the mutex up around each call; a     *)
(* callback, or any other thread, may remove callbacks meanwhile, and a     *)
(* callback may add some.  m_callback_index and m_callback_count are        *)
(* adjusted so that the loop goes on with the right one.                    *)
(*                                                                         *)
(* What happens under m_callback_mutex is one step.  The worker thread and  *)
(* the run loop that calls the handle are modelled as RealmCoordinator      *)
(* describes them, for a notifier that has been handed over.                *)
(***************************************************************************)
EXTENDS Integers, Sequences

CONSTANTS MaxToken,   \* bound: callbacks that are ever added
          MaxVersion  \* bound: commits

ASSUME CallbacksAssumption == MaxToken \in Nat \ {0} /\ MaxVersion \in Nat

VARIABLES callbacks,  \* m_callbacks
          index,      \* m_callback_index
          count,      \* m_callback_count
          have,       \* m_have_callbacks
          next,       \* m_next_token
          latest,     \* commits made
          handed,     \* commits that the worker has handed over
          wake,       \* the worker was told to look
          signal,     \* the handle's run loop was told to look
          failed,     \* m_async_error of the coordinator
          pc,         \* where the handle's thread is
          loop,       \* the loop of for_each_callback in progress
          size,       \* a local of deliver_error
          called,     \* history: tokens called by the loop in progress
          miscounted  \* history: see Miscounts

vars == <<callbacks, index, count, have, next, latest, handed, wake, signal,
          failed, pc, loop, size, called, miscounted>>

npos == -1
Tokens == 1..MaxToken
Commits == 1..MaxVersion

\* A size_t wraps around.  Counts stay below SizeMod unless one does.
SizeMod == MaxToken + 2

\* inside is history: it was added by a callback.
Callback == [token : Tokens, acc : SUBSET Commits, todo : SUBSET Commits,
             initial : BOOLEAN, inside : BOOLEAN]

NewCallback == [token |-> next, acc |-> {}, todo |-> {}, initial |-> FALSE,
                inside |-> index # npos]

Loops == {"none", "before", "after", "error"}

Places == {"idle", "packaged", "advanced", "counted", "calling", "between",
           "undefined"}

TypeOK ==
    /\ callbacks \in Seq(Callback) /\ Len(callbacks) <= MaxToken
    /\ index \in npos..MaxToken /\ count \in 0..SizeMod - 1
    /\ have \in BOOLEAN /\ wake \in BOOLEAN
    /\ signal \in BOOLEAN /\ failed \in BOOLEAN
    /\ next \in 1..MaxToken + 1
    /\ latest \in 0..MaxVersion /\ handed \in 0..latest
    /\ pc \in Places /\ loop \in Loops
    /\ size \in 0..MaxToken /\ called \subseteq Tokens
    /\ miscounted \in BOOLEAN

Init ==
    /\ callbacks = <<>> /\ index = npos /\ count = SizeMod - 1
    /\ have = FALSE
    /\ next = 1 /\ latest = 0 /\ handed = 0
    /\ wake = FALSE /\ signal = FALSE /\ failed = FALSE
    /\ pc = "idle" /\ loop = "none" /\ size = 0 /\ called = {}
    /\ miscounted = FALSE

loopVars == <<pc, loop, size, called>>
workerVars == <<latest, handed, failed>>
-----------------------------------------------------------------------------
(* Adding and removing *)

\* Mutant of add_callback: the worker is not told.
add_callbackUnheard ==
    /\ pc \in {"idle", "calling"} /\ next <= MaxToken
    /\ callbacks' = Append(callbacks, NewCallback)
    /\ next' = next + 1
    /\ have' = TRUE
    /\ UNCHANGED <<index, count, wake, signal, workerVars, loopVars,
                   miscounted>>

\* add_callback, on the handle's thread, perhaps inside a callback.  Nobody is
\* woken while callbacks are being called.
add_callback ==
    /\ pc \in {"idle", "calling"} /\ next <= MaxToken
    /\ callbacks' = Append(callbacks, NewCallback)
    /\ next' = next + 1
    /\ IF index = npos THEN wake' = TRUE /\ have' = TRUE
       ELSE UNCHANGED <<wake, have>>
    /\ UNCHANGED <<index, count, signal, workerVars, loopVars, miscounted>>

\* find_callback: positions count from 0.
Position(t) == (CHOOSE i \in 1..Len(callbacks) : callbacks[i].token = t) - 1

Present(t) == \E i \in 1..Len(callbacks) : callbacks[i].token = t

Without(s, i) == SubSeq(s, 1, i) \o SubSeq(s, i + 2, Len(s))

\* The position in the loop goes back by one with the callbacks after i.
IndexAfter(i) == IF index # npos /\ index >= i THEN index - 1 ELSE index

\* Mutant of CountAfter: the number of callbacks to call is left alone.
CountAfterKept == count

CountAfter == (count - 1) % SizeMod

\* Mutant of HaveAfter: the flag is never taken back.
HaveAfterKept == have

HaveAfter == callbacks' # <<>>

\* The removal of a callback that is there.
Erase(t) ==
    /\ callbacks' = Without(callbacks, Position(t))
    /\ index' = IndexAfter(Position(t))
    /\ count' = CountAfter
    /\ have' = HaveAfter

\* The two removals that the count is not made for: of a callback that was
\* added since the others were packaged, and between the two halves of
\* deliver_error.
Miscounts(t) ==
    \/ /\ pc \in {"packaged", "advanced", "calling", "between"}
       /\ Position(t) >= count
    \/ pc = "counted"

\* remove_callback, from any thread at any time.
remove_callback(t) ==
    /\ pc # "undefined" /\ Present(t)
    /\ Erase(t)
    /\ miscounted' = (miscounted \/ Miscounts(t))
    /\ UNCHANGED <<next, wake, signal, workerVars, loopVars>>
-----------------------------------------------------------------------------
(* The worker, and the writers it watches *)

Commit ==
    /\ latest < MaxVersion /\ pc # "undefined"
    /\ latest' = latest + 1 /\ wake' = TRUE
    /\ UNCHANGED <<callbacks, index, count, have, next, handed, signal, failed,
                   loopVars, miscounted>>

\* add_changes, for every callback there is; then the run loop is told.
add_changes ==
    /\ wake /\ ~failed /\ pc # "undefined"
    /\ callbacks' = [i \in DOMAIN callbacks |->
          [callbacks[i] EXCEPT !.acc = @ \cup (handed + 1 .. latest)]]
    /\ handed' = latest
    /\ wake' = FALSE /\ signal' = TRUE
    /\ UNCHANGED <<index, count, have, next, latest, failed, loopVars,
                   miscounted>>

\* The worker cannot open its file: the run loop is told of that instead.
OpenFails ==
    /\ wake /\ pc # "undefined"
    /\ failed' = TRUE /\ wake' = FALSE /\ signal' = TRUE
    /\ UNCHANGED <<callbacks, index, count, have, next, latest, handed,
                   loopVars, miscounted>>

WorkerStep == add_changes \/ OpenFails
-----------------------------------------------------------------------------
(* Calling *)

Needs(l, c) ==
    CASE l = "before" -> c.todo # {}
      [] l = "after" -> ~c.initial \/ c.todo # {}
      [] l = "error" -> TRUE

\* Mutant of Called: the first call does not use the changes up.
CalledKeepsChanges(l, c) ==
    IF l # "after" THEN c
    ELSE IF c.initial THEN [c EXCEPT !.todo = {}]
    ELSE [c EXCEPT !.initial = TRUE]

\* What calling it leaves of a callback.
Called(l, c) ==
    IF l = "after" THEN [c EXCEPT !.initial = TRUE, !.todo = {}] ELSE c

AfterLoop(l) == IF l = "before" THEN "advanced" ELSE "idle"

\* for_each_callback, with the mutex held: on from position i to the next
\* callback that is to be called, or to the end of the loop.
Continue(l, i, n) ==
    LET todo == {j \in i + 1 .. n - 1 :
                    j >= Len(callbacks) \/ Needs(l, callbacks[j + 1])}
        j    == CHOOSE k \in todo : \A m \in todo : k <= m
    IN  \/ /\ todo = {}
           /\ index' = npos /\ called' = {}
           /\ pc' = AfterLoop(l) /\ loop' = "none"
           /\ UNCHANGED callbacks
        \/ /\ todo # {} /\ j < Len(callbacks)
           /\ index' = j /\ pc' = "calling" /\ loop' = l
           /\ called' = called \cup {callbacks[j + 1].token}
           /\ callbacks' = [callbacks EXCEPT ![j + 1] = Called(l, @)]
        \/ /\ todo # {} /\ j >= Len(callbacks)
           /\ pc' = "undefined" /\ loop' = "none"
           /\ UNCHANGED <<callbacks, index, called>>

otherVars == <<have, next, latest, handed, wake, failed>>

\* package_for_delivery, when the run loop calls the handle.
package_for_delivery ==
    /\ pc = "idle" /\ signal /\ ~failed
    /\ callbacks' = [i \in DOMAIN callbacks |->
          [callbacks[i] EXCEPT !.todo = callbacks[i].acc, !.acc = {}]]
    /\ count' = Len(callbacks)
    /\ signal' = FALSE /\ pc' = "packaged"
    /\ miscounted' = FALSE
    /\ UNCHANGED <<index, otherVars, loop, size, called>>

\* The handle's version changes: before_advance, and then after_advance.
before_advance ==
    /\ pc = "packaged"
    /\ \E i \in DOMAIN callbacks : callbacks[i].todo # {}
    /\ Continue("before", index, count)
    /\ UNCHANGED <<count, signal, otherVars, size, miscounted>>

after_advance ==
    /\ pc \in {"packaged", "advanced"}
    /\ Continue("after", index, count)
    /\ UNCHANGED <<count, signal, otherVars, size, miscounted>>

\* deliver_error reads the number of callbacks without the mutex...
deliver_error ==
    /\ pc = "idle" /\ signal /\ failed
    /\ size' = Len(callbacks) /\ pc' = "counted"
    /\ signal' = FALSE /\ miscounted' = FALSE
    /\ UNCHANGED <<callbacks, index, count, otherVars, loop, called>>

\* ... stores it, and begins its loop.
DeliverErrorLoop ==
    /\ pc = "counted"
    /\ count' = size /\ size' = 0
    /\ Continue("error", index, size)
    /\ UNCHANGED <<signal, otherVars, miscounted>>

\* A callback returns.  One that was told of an error is removed.
Return ==
    /\ pc = "calling" /\ pc' = "between"
    /\ LET gone == {t \in called : loop = "error" /\ Present(t)}
       IN  IF gone = {} THEN UNCHANGED <<callbacks, index, count, have>>
           ELSE Erase(CHOOSE t \in gone : TRUE)
    /\ UNCHANGED <<next, wake, signal, workerVars, loop, size, called,
                   miscounted>>

\* The mutex is taken again and the loop goes on.
GoOn ==
    /\ pc = "between"
    /\ Continue(loop, index, count)
    /\ UNCHANGED <<count, signal, otherVars, size, miscounted>>

HandleStep ==
    package_for_delivery \/ before_advance \/ after_advance
       \/ deliver_error \/ DeliverErrorLoop \/ Return \/ GoOn

Next ==
    \/ add_callback \/ \E t \in Tokens : remove_callback(t)
    \/ Commit \/ WorkerStep \/ HandleStep

Spec == Init /\ [][Next]_vars

\* The worker and the handle's thread keep going.
FairSpec == Spec /\ WF_vars(WorkerStep) /\ WF_vars(HandleStep)
-----------------------------------------------------------------------------
(* Properties *)

\* The assertion at the head of for_each_callback (REALM_ASSERT_DEBUG(
\* m_callback_count <= m_callbacks.size())), at any time between packaging and
\* the end of the loop: no callback is looked for past the last one, whatever
\* was removed meanwhile and by whom.  The two removals of Miscounts do break
\* it; no other step does.
CountStaysInRange ==
    ~miscounted =>
       /\ pc \in {"packaged", "advanced", "calling", "between"}
             => count <= Len(callbacks)
       /\ pc # "undefined"

\* When a delivery is over every change that was packaged for a callback that
\* is still there has been given to it (RLMResults.h: the block is "called
\* again after each write transaction which changes" the results): the next
\* packaging overwrites what is left.  A delivery that Miscounts may miss one.
PackagedIsDelivered ==
    pc = "idle" /\ ~miscounted =>
       \A i \in DOMAIN callbacks : callbacks[i].todo = {}

\* have_callbacks() tells whether there are callbacks.  add_callback does not
\* set the flag while callbacks are called, and relies on the position having
\* gone back to npos when the last one was removed from inside the loop.
FlagTellsCallbacks == have <=> callbacks # <<>>

\* A callback is called with the initial results (RLMResults.h: "The block
\* will be asynchronously called with the initial results"), unless it is
\* removed first, gets an error instead or is missed by a delivery that
\* Miscounts.  One that a callback adds has to wait until something else wakes
\* the worker: add_callback does not.
InitialCallComes ==
    \A t \in Tokens :
       (Present(t) /\ ~callbacks[Position(t) + 1].inside)
          ~> \/ ~Present(t) \/ failed \/ miscounted
             \/ callbacks[Position(t) + 1].initial
=============================================================================

------------------------------ MODULE StartUp ------------------------------
(***************************************************************************)
(* The start-up sequence: two operations of an OperationQueue, the second  *)
(* depending on the first, that ask for the permission to set a badge and  *)
(* then install the list of routes in the key window.                      *)
(*                                                                         *)
(* The operations' main() runs on a thread of the queue and posts a block  *)
(* to the main queue; the block (or the callback it registers) declares    *)
(* the operation finished.  The operation queue, the permission dialog and *)
(* the scene's window are the system's.  The window shows the storyboard's *)
(* empty initial controller until the coordinator replaces it.             *)
(***************************************************************************)
EXTENDS Naturals, Sequences

Ops == {"permission", "present"}

VARIABLES alive,    \* the process exists
          begun,    \* operations whose main() was called
          returned, \* operations whose main() has returned
          state,    \* ConcurrentOperation.state, "ready" or "finished"
          posted,   \* blocks on the main queue, named after their operation
          asked,    \* requestAuthorization is waiting for its answer
          decided,  \* the user's answer, which the system remembers
          window,   \* the scene's window: "none", "empty" or "list"
          key       \* it is the key window

system == <<window, key>>
vars == <<alive, begun, returned, state, posted, asked, decided, system>>

TypeOK ==
    /\ alive \in BOOLEAN
    /\ returned \subseteq begun /\ begun \subseteq Ops
    /\ state \in [Ops -> {"ready", "finished"}]
    /\ posted \in Seq(Ops) /\ Len(posted) <= 2
    /\ asked \in BOOLEAN
    /\ decided \in {"no", "granted", "denied"}
    /\ window \in {"none", "empty", "list"}
    /\ key \in BOOLEAN /\ (key => window # "none")

Init ==
    /\ alive = FALSE
    /\ begun = {}
    /\ returned = {}
    /\ state = [op \in Ops |-> "ready"]
    /\ posted = <<>>
    /\ asked = FALSE
    /\ decided = "no"
    /\ window = "none"
    /\ key = FALSE
-----------------------------------------------------------------------------
\* StartUpAppSequencer.start: fresh operations in a fresh queue.
Launch ==
    /\ ~alive
    /\ alive' = TRUE
    /\ begun' = {}
    /\ returned' = {}
    /\ state' = [op \in Ops |-> "ready"]
    /\ posted' = <<>>
    /\ asked' = FALSE
    /\ window' = "none"
    /\ key' = FALSE
    /\ UNCHANGED decided

dependencies(op) == IF op = "present" THEN {"permission"} ELSE {}

\* Mutant of isFinished: an operation is over when its main returns.
isFinishedOnReturn(op) == op \in returned

isFinished(op) == state[op] = "finished"

\* super.isReady is true when the dependencies have finished.
isReady(op) == state[op] = "ready" /\ \A d \in dependencies(op) : isFinished(d)

\* The queue starts an operation once; main posts its block.
main(op) ==
    /\ alive /\ op \notin begun /\ isReady(op)
    /\ begun' = begun \cup {op}
    /\ posted' = Append(posted, op)
    /\ UNCHANGED <<alive, returned, state, asked, decided, system>>

\* main returns; the default start() leaves the overridden state alone.
mainReturns(op) ==
    /\ alive /\ op \in begun \ returned
    /\ returned' = returned \cup {op}
    /\ UNCHANGED <<alive, begun, state, posted, asked, decided, system>>

requestAuthorization ==
    /\ alive /\ posted # <<>> /\ Head(posted) = "permission"
    /\ posted' = Tail(posted)
    /\ asked' = TRUE
    /\ UNCHANGED <<alive, begun, returned, state, decided, system>>

\* Mutant of onAuthorization: a refusal does not end the operation.
onAuthorizationGranted ==
    /\ alive /\ asked /\ decided # "no"
    /\ asked' = FALSE
    /\ state' = IF decided = "granted"
                THEN [state EXCEPT !["permission"] = "finished"] ELSE state
    /\ UNCHANGED <<alive, begun, returned, posted, decided, system>>

\* The callback with the answer, the remembered one or the one just given.
\* Whatever it is, the operation is finished.
onAuthorization ==
    /\ alive /\ asked /\ decided # "no"
    /\ asked' = FALSE
    /\ state' = [state EXCEPT !["permission"] = "finished"]
    /\ UNCHANGED <<alive, begun, returned, posted, decided, system>>

keyWindowInConnectedScenes == key

\* Mutant of start: the list is built and never installed.
startInstallsNothing ==
    /\ alive /\ posted # <<>> /\ Head(posted) = "present"
    /\ posted' = Tail(posted)
    /\ state' = [state EXCEPT !["present"] = "finished"]
    /\ UNCHANGED <<alive, begun, returned, asked, decided, system>>

\* MainFlowCoordinator.start: without a key window nothing is installed, and
\* the operation is finished all the same.
start ==
    /\ alive /\ posted # <<>> /\ Head(posted) = "present"
    /\ posted' = Tail(posted)
    /\ window' = IF keyWindowInConnectedScenes THEN "list" ELSE window
    /\ state' = [state EXCEPT !["present"] = "finished"]
    /\ UNCHANGED <<alive, begun, returned, asked, decided, key>>
-----------------------------------------------------------------------------
(* The system *)

\* The user answers the dialog, which needs a window to be seen.
Answer ==
    /\ alive /\ asked /\ decided = "no" /\ window # "none"
    /\ decided' \in {"granted", "denied"}
    /\ UNCHANGED <<alive, begun, returned, state, posted, asked, system>>

\* A scene connects with the storyboard's window.
ConnectScene ==
    /\ alive /\ window = "none"
    /\ window' = "empty"
    /\ UNCHANGED <<alive, begun, returned, state, posted, asked, decided, key>>

\* The window becomes the key window, or stops being it.
ChangeKey ==
    /\ alive /\ window # "none"
    /\ key' = ~key
    /\ UNCHANGED <<alive, begun, returned, state, posted, asked, decided,
                   window>>

\* In the background the system may release the scene, with its window.
DisconnectScene ==
    /\ alive /\ window # "none"
    /\ window' = "none"
    /\ key' = FALSE
    /\ UNCHANGED <<alive, begun, returned, state, posted, asked, decided>>

Kill ==
    /\ alive
    /\ alive' = FALSE
    /\ UNCHANGED <<begun, returned, state, posted, asked, decided, system>>

Next ==
    \/ Launch
    \/ \E op \in Ops : main(op) \/ mainReturns(op)
    \/ requestAuthorization
    \/ onAuthorization
    \/ start
    \/ Answer
    \/ ConnectScene
    \/ ChangeKey
    \/ DisconnectScene
    \/ Kill

Spec == Init /\ [][Next]_vars

\* The threads of the operation queue and the main run loop make progress,
\* and the system delivers an answer it has.  Nobody has to answer the
\* dialog, and nothing is assumed of scenes.
Fairness ==
    /\ \A op \in Ops : WF_vars(main(op))
    /\ WF_vars(requestAuthorization)
    /\ WF_vars(onAuthorization)
    /\ WF_vars(start)

FairSpec == Spec /\ Fairness
-----------------------------------------------------------------------------
(* Properties *)

\* The list is never installed while the question about notifications is
\* still open: the dependency between the operations is kept although both
\* post their work to the main queue and return at once, in any order with it.
PermissionComesFirst ==
    alive /\ window = "list" => state["permission"] = "finished" /\ ~asked

\* Once the user has answered, now or in an earlier launch, the sequence ends
\* whatever the answer was and whether or not there is a window; neither
\* operation waits for ever for the other.
StartUpEnds ==
    (alive /\ decided # "no")
      ~> (~alive \/ \A op \in Ops : state[op] = "finished")

\* A window that is key before the sequence ends, and stays so, gets the list:
\* the empty screen is only left to a window that was not key at that moment.
ListAppears ==
    (alive /\ decided # "no" /\ key /\ state["present"] = "ready")
      ~> (~alive \/ window = "list" \/ ~key)
=============================================================================

--------------------------- MODULE StartUpProofs ----------------------------
(***************************************************************************)
(* Proofs about StartUp, for behaviours of any length with any number of    *)
(* launches.                                                                *)
(*                                                                         *)
(* The order of the two operations rests on one more fact than the          *)
(* dependency: there is never more than one block on the main queue, because*)
(* an operation whose block waits there is not finished yet (Phases).       *)
(***************************************************************************)
EXTENDS StartUp, TLAPS

\* How far the sequence has come.  The first operation is begun, its block is
\* posted, the question is asked, it is finished, the second is begun, its
\* block is posted: each phase excludes the earlier ones.
Phases ==
    /\ posted \in {<<>>, <<"permission">>, <<"present">>}
    /\ posted = <<"permission">> =>
          "permission" \in begun /\ ~asked /\ state["permission"] = "ready"
    /\ asked => /\ "permission" \in begun /\ posted = <<>>
                /\ state["permission"] = "ready"
    /\ state["permission"] = "finished" => "permission" \in begun
    /\ "present" \in begun => state["permission"] = "finished"
    /\ posted = <<"present">> => "present" \in begun
    /\ window = "list" => "present" \in begun

IInv == TypeOK /\ Phases
-----------------------------------------------------------------------------
\* The queue of posted blocks as Head, Tail and Append see it.
LEMMA OneBlock ==
    ASSUME NEW op \in Ops
    PROVE  /\ Head(<<op>>) = op /\ Tail(<<op>>) = <<>>
           /\ Append(<<>>, op) = <<op>> /\ <<op>> # <<>>
           /\ <<op>> \in Seq(Ops) /\ Len(<<op>>) <= 2
           /\ <<>> \in Seq(Ops) /\ Len(<<>>) <= 2
OBVIOUS

\* Nothing is under way when the program starts.
LEMMA InitIInv == Init => IInv
BY OneBlock DEF Init, IInv, TypeOK, Phases, Ops

\* An operation is begun when nothing is posted and no question is open.
LEMMA BeginsAlone ==
    ASSUME IInv, NEW op \in Ops, main(op)
    PROVE  posted = <<>> /\ ~asked /\ posted' = <<op>>
<1>1. CASE op = "permission"
  BY <1>1, OneBlock DEF IInv, TypeOK, Phases, main, isReady, isFinished,
                        dependencies, Ops
<1>2. CASE op = "present"
  <2>1. state["permission"] = "finished"
    BY <1>2 DEF main, isReady, isFinished, dependencies
  <2> QED
    BY <1>2, <2>1, OneBlock DEF IInv, Phases, main
<1> QED
  BY <1>1, <1>2 DEF Ops

\* No step of the program or of the system breaks the order of the phases.
LEMMA NextIInv == IInv /\ [Next]_vars => IInv'
<1> SUFFICES ASSUME IInv, [Next]_vars PROVE IInv'
  OBVIOUS
<1> USE DEF IInv, TypeOK, Phases, system
<1>1. CASE Launch
  BY <1>1, OneBlock DEF Launch, Ops
<1>2. ASSUME NEW op \in Ops, main(op) PROVE IInv'
  <2>1. posted' = <<op>> /\ ~asked
    BY <1>2, BeginsAlone
  <2>2. op = "present" => state["permission"] = "finished"
    BY <1>2 DEF main, isReady, isFinished, dependencies
  <2>3. op = "permission" => state["permission"] = "ready"
    BY <1>2 DEF main, isReady
  <2>4. TypeOK'
    BY <1>2, <2>1, OneBlock DEF main
  <2>5. Phases'
    BY <1>2, <2>1, <2>2, <2>3 DEF main, Ops
  <2> QED
    BY <2>4, <2>5
<1>3. ASSUME NEW op \in Ops, mainReturns(op) PROVE IInv'
  BY <1>3 DEF mainReturns
<1>4. CASE requestAuthorization
  <2>1. posted = <<"permission">> /\ posted' = <<>>
    BY <1>4, OneBlock DEF requestAuthorization, Ops
  <2> QED
    BY <1>4, <2>1, OneBlock DEF requestAuthorization
<1>5. CASE onAuthorization
  BY <1>5 DEF onAuthorization, Ops
<1>6. CASE start
  <2>1. posted = <<"present">> /\ posted' = <<>>
    BY <1>6, OneBlock DEF start, Ops
  <2>2. state' = [state EXCEPT !["present"] = "finished"]
           /\ state'["permission"] = state["permission"]
    BY <1>6 DEF start, Ops
  <2>3. TypeOK'
    BY <1>6, <2>1, <2>2, OneBlock DEF start, Ops
  <2>4. Phases'
    BY <1>6, <2>1, <2>2 DEF start
  <2> QED
    BY <2>3, <2>4
<1>7. CASE Answer
  BY <1>7 DEF Answer
<1>8. CASE ConnectScene
  <2>1. TypeOK'
    BY <1>8 DEF ConnectScene
  <2>2. Phases'
    BY <1>8 DEF ConnectScene
  <2> QED
    BY <2>1, <2>2
<1>9. CASE ChangeKey
  <2>1. key' \in BOOLEAN /\ (key' => window' # "none")
    BY <1>9 DEF ChangeKey
  <2>2. UNCHANGED <<alive, begun, returned, state, posted, asked, decided,
                    window>>
    BY <1>9 DEF ChangeKey
  <2>3. TypeOK'
    BY <2>1, <2>2
  <2>4. Phases'
    BY <2>2
  <2> QED
    BY <2>3, <2>4
<1>10. CASE DisconnectScene
  <2>1. TypeOK'
    BY <1>10 DEF DisconnectScene
  <2>2. Phases'
    BY <1>10 DEF DisconnectScene
  <2> QED
    BY <2>1, <2>2
<1>11. CASE Kill
  BY <1>11 DEF Kill
<1>12. CASE UNCHANGED vars
  BY <1>12 DEF vars
<1> QED
  BY <1>1, <1>2, <1>3, <1>4, <1>5, <1>6, <1>7, <1>8, <1>9, <1>10, <1>11, <1>12
  DEF Next

\* The order of the phases holds in every state of the start-up.
THEOREM InvariantHolds == Spec => []IInv
BY InitIInv, NextIInv, PTL DEF Spec

\* Every variable of the start-up sequence keeps its type, and the main queue
\* never holds more blocks than there are operations.
THEOREM TypeCorrect == Spec => []TypeOK
<1>1. IInv => TypeOK
  BY DEF IInv
<1> QED
  BY <1>1, InvariantHolds, PTL

\* The list of routes is installed only after the question about notifications
\* was answered and the answer was heard (StartUpAppSequencer.start makes the
\* second operation depend on the first).
THEOREM ListComesAfterPermission == Spec => []PermissionComesFirst
<1>1. IInv => PermissionComesFirst
  BY DEF IInv, Phases, PermissionComesFirst
<1> QED
  BY <1>1, InvariantHolds, PTL
=============================================================================

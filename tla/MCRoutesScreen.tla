--------------------------- MODULE MCRoutesScreen ---------------------------
(***************************************************************************)
(* RoutesScreen with a server that announces a route, then none and then   *)
(* another: among their stops are some without a point, some without an id *)
(* and one that is complete.                                               *)
(***************************************************************************)
EXTENDS RoutesScreen

Stop(p, id) == [point |-> p, id |-> id]

Trip(route, stops) ==
    [route |-> route, origin |-> 10, destination |-> 20, stops |-> stops]

MCAnswers ==
    << << Trip("r1", <<Stop(NoPoint, 3), Stop(11, 1), Stop(12, NoId)>>) >>,
       <<>>,
       << Trip("r2", <<Stop(12, NoId), Stop(NoPoint, 3)>>) >> >>

\* Both sides of the upper end of the accepted range.
MCStatuses == {400, 401}
=============================================================================

---------------------------- MODULE RoutesScreen ----------------------------
(***************************************************************************)
(* The list of routes with its map: RoutesVC, RoutesPresenter, RouteList   *)
(* and RouteMap, the requests of APIManager behind them, and the progress  *)
(* HUD they share.                                                         *)
(*                                                                         *)
(* Requests are in flight together and are answered in any order; an       *)
(* answer is a response of the server or a failure of the network.  Its    *)
(* completion posts a block to the main queue, and that block dismisses    *)
(* the HUD and shows the result.  The HUD posts its own work to the main   *)
(* queue too, and fades out in a later step.                               *)
(***************************************************************************)
EXTENDS Integers, Sequences, FiniteSets

CONSTANTS Answers,   \* what "api/trips" returns: the server moves through it
          NoPoint,   \* a stop without a point
          NoId,      \* a stop without an id; the ends of a route
          Statuses,  \* HTTP status codes of responses
          MaxNet,    \* bound: requests in flight, told apart by 1..MaxNet
          MaxWork    \* bound: work under way when a user acts

\* The parts of the server's models that the screen depends on.  The ends of
\* a route always have a point; a stop may lack its point or its id.
StopAPI == [point : Int \cup {NoPoint}, id : Int \cup {NoId}]

RouteAPI == [route : STRING, origin : Int, destination : Int,
             stops : Seq(StopAPI)]

ASSUME ScreenAssumption ==
    /\ Answers \in Seq(Seq(RouteAPI)) /\ Answers # <<>>
    /\ NoPoint \notin Int /\ NoId \notin Int
    /\ Statuses \subseteq Nat
    /\ MaxNet \in Nat /\ MaxWork \in Nat

VARIABLES server,   \* the index of the server's present answer
          net,      \* requests in flight
          queue,    \* blocks posted to the main queue
          hud,      \* the HUD can be seen: its background's alpha is 1
          fades,    \* fade-outs that the HUD has scheduled
          list,     \* RouteList.routesVM
          map,      \* the annotations of RouteMap
          popup,    \* the stop of the alert on screen, or NoId
          covered,  \* the list is not on screen
          since,    \* history: of the last fetches to overlap one another, the
                    \* server's answer when the first was made
          results   \* history: how they ended so far, TRUE for a success

vars == <<server, net, queue, hud, fades, list, map, popup, covered, since,
          results>>
-----------------------------------------------------------------------------
(* The model of a route *)

\* Point(pointAPI:stopId:) and the annotation made from it.
Point(p, id) == [at |-> p, stopId |-> id]

\* Route(routeAPI:): the origin, the stops that have a point, the destination.
Points(routeAPI) ==
    LET stops == routeAPI.stops
        placed[i \in 0 .. Len(stops)] ==
           IF i = 0 THEN <<>>
           ELSE IF stops[i].point = NoPoint THEN placed[i - 1]
           ELSE Append(placed[i - 1], Point(stops[i].point, stops[i].id))
    IN  <<Point(routeAPI.origin, NoId)>> \o placed[Len(stops)]
           \o <<Point(routeAPI.destination, NoId)>>

\* RouteVM(route:), one for each route of an answer.
RoutesVM(answer) ==
    [i \in DOMAIN answer |->
        [route |-> answer[i].route, annotations |-> Points(answer[i])]]
-----------------------------------------------------------------------------
(* APIManager *)

\* What comes back: nothing, or a status with a body.  "objects" is a JSON
\* array of objects, "object" one object; fits: it decodes as the model.
Response == [reached : BOOLEAN, status : Statuses,
             json : {"objects", "object", "other"}, fits : BOOLEAN]

validate(status) == status \in 200..400

\* The shape of the model each request decodes.
Shape(kind) == IF kind = "routes" THEN "objects" ELSE "object"

\* The status is validated, then the body is decoded whatever its shape is.
processRequest(kind, response) ==
    IF ~response.reached \/ ~validate(response.status) THEN "failure"
    ELSE IF response.json = "other" THEN "missingResponseResultValue"
    ELSE IF response.json = Shape(kind) /\ response.fits THEN "success"
    ELSE "badFormedJSONModel"
-----------------------------------------------------------------------------
Ids == 1..MaxNet

\* The answer to a request for the routes, or the stop asked for, is fixed
\* when the server handles it.
Request == [id : Ids, kind : {"routes", "stop"}, stop : Int \cup {NoId},
            served : 0..Len(Answers)]

TypeOK ==
    /\ server \in DOMAIN Answers
    /\ net \subseteq Request
    /\ \A i \in DOMAIN queue :
          queue[i].kind \in {"show", "dismiss", "routes", "stop", "issue"}
    /\ hud \in BOOLEAN
    /\ fades \in Nat
    /\ \A i \in DOMAIN list : DOMAIN list[i] = {"route", "annotations"}
    /\ \A i \in DOMAIN map : map[i].at # NoPoint
    /\ popup \in Int \cup {NoId}
    /\ covered \in BOOLEAN
    /\ since \in 1..server /\ results \subseteq BOOLEAN

Init ==
    /\ server = 1
    /\ net = {}
    /\ queue = <<>>
    /\ hud = FALSE
    /\ fades = 0
    /\ list = <<>>
    /\ map = <<>>
    /\ popup = NoId
    /\ covered = TRUE
    /\ since = 1
    /\ results = {}

Show == [kind |-> "show"]
Dismiss == [kind |-> "dismiss"]

Work == Cardinality(net) + Len(queue) + fades

\* presentActivityIndicator, then the request.
Fetch(kind, stop) ==
    /\ Work < MaxWork
    /\ \E id \in Ids :
          /\ \A q \in net : q.id # id
          /\ \A j \in Ids : j < id => \E q \in net : q.id = j
          /\ net' = net \cup {[id |-> id, kind |-> kind, stop |-> stop,
                               served |-> 0]}
    /\ queue' = Append(queue, Show)

\* A fetch of the routes is under way.
Fetching ==
    \/ \E q \in net : q.kind = "routes"
    \/ \E i \in DOMAIN queue : queue[i].kind = "routes"

\* History: a fetch of the routes overlaps those under way or is a first one.
Overlap ==
    IF Fetching THEN UNCHANGED <<since, results>>
    ELSE since' = server /\ results' = {}

\* The user can act on the list and the map.
ListActive == ~covered /\ popup = NoId
-----------------------------------------------------------------------------
(* RoutesVC *)

\* Mutant of viewWillAppear: a list that is there is not fetched again.
viewAppearsOnce ==
    /\ covered
    /\ covered' = FALSE
    /\ \/ list = <<>> /\ Fetch("routes", NoId)
       \/ list # <<>> /\ UNCHANGED <<net, queue>>
    /\ Overlap
    /\ UNCHANGED <<server, hud, fades, list, map, popup>>

\* The list comes on screen, at start-up or when a form is left.
viewWillAppear ==
    /\ covered
    /\ covered' = FALSE
    /\ Fetch("routes", NoId)
    /\ Overlap
    /\ UNCHANGED <<server, hud, fades, list, map, popup>>

\* Mutant of SetMap: the annotations of the last route stay on the map.
SetMapKeepsOld(annotations) == map' = map \o annotations

\* RouteMap.set: the annotations on the map are replaced.
SetMap(annotations) == map' = annotations

SelectRow(i) ==
    /\ ListActive
    /\ SetMap(list[i].annotations)
    /\ UNCHANGED <<server, net, queue, hud, fades, list, popup, covered, since,
                   results>>

\* Only an annotation with a stop's id leads to a request.
SelectAnnotation(i) ==
    /\ ListActive /\ map[i].stopId # NoId
    /\ Fetch("stop", map[i].stopId)
    /\ UNCHANGED <<server, hud, fades, list, map, popup, covered, since,
                   results>>

\* The issue is read at once; its block follows the HUD's in the main queue.
TapIssue ==
    /\ ListActive /\ list # <<>> /\ Work < MaxWork
    /\ queue' = queue \o <<Show, [kind |-> "issue"]>>
    /\ UNCHANGED <<server, net, hud, fades, list, map, popup, covered, since,
                   results>>

ClosePopup ==
    /\ popup # NoId
    /\ popup' = NoId
    /\ UNCHANGED <<server, net, queue, hud, fades, list, map, covered, since,
                   results>>
-----------------------------------------------------------------------------
(* The network *)

ServerChanges ==
    /\ server < Len(Answers)
    /\ server' = server + 1
    /\ UNCHANGED <<net, queue, hud, fades, list, map, popup, covered, since,
                   results>>

Serve(q) ==
    /\ q.served = 0
    /\ net' = (net \ {q}) \cup {[q EXCEPT !.served = server]}
    /\ UNCHANGED <<server, queue, hud, fades, list, map, popup, covered, since,
                   results>>

\* A request is answered, or fails at any time before: its completion posts
\* the presenter's block.
Complete(q) ==
    /\ \E response \in Response :
          /\ response.reached => q.served # 0
          /\ queue' = Append(queue,
                [kind |-> q.kind, stop |-> q.stop, answer |-> q.served,
                 ok |-> processRequest(q.kind, response) = "success"])
    /\ net' = net \ {q}
    /\ UNCHANGED <<server, hud, fades, list, map, popup, covered, since,
                   results>>
-----------------------------------------------------------------------------
(* The main queue *)

Runs(kind) == queue # <<>> /\ Head(queue).kind = kind

\* Mutant of RunRoutes: a failure leaves the HUD alone.
RunRoutesForgetsHUD ==
    /\ Runs("routes")
    /\ LET b == Head(queue) IN
          /\ list' = IF b.ok THEN RoutesVM(Answers[b.answer]) ELSE list
          /\ results' = results \cup {b.ok}
          /\ queue' = IF b.ok THEN Append(Tail(queue), Dismiss) ELSE Tail(queue)
    /\ UNCHANGED <<server, net, hud, fades, map, popup, covered, since>>

\* The block of fetchRoutes; an error is not presented.
RunRoutes ==
    /\ Runs("routes")
    /\ queue' = Append(Tail(queue), Dismiss)
    /\ LET b == Head(queue) IN
          /\ list' = IF b.ok THEN RoutesVM(Answers[b.answer]) ELSE list
          /\ results' = results \cup {b.ok}
    /\ UNCHANGED <<server, net, hud, fades, map, popup, covered, since>>

\* The block of fetchStopPoint: the alert is lost when another one is up or
\* the list is not on screen.
RunStop ==
    /\ Runs("stop")
    /\ queue' = Append(Tail(queue), Dismiss)
    /\ popup' = IF Head(queue).ok /\ ListActive THEN Head(queue).stop ELSE popup
    /\ UNCHANGED <<server, net, hud, fades, list, map, covered, since,
                   results>>

\* The block of fetchIssue: a form covers the list.
RunIssue ==
    /\ Runs("issue")
    /\ queue' = Append(Tail(queue), Dismiss)
    /\ covered' = TRUE
    /\ UNCHANGED <<server, net, hud, fades, list, map, popup, since, results>>

\* The HUD's own blocks: it appears at once, and disappears in a later one.
RunShow ==
    /\ Runs("show")
    /\ queue' = Tail(queue)
    /\ hud' = TRUE
    /\ UNCHANGED <<server, net, fades, list, map, popup, covered, since,
                   results>>

RunDismiss ==
    /\ Runs("dismiss")
    /\ queue' = Tail(queue)
    /\ fades' = fades + 1
    /\ UNCHANGED <<server, net, hud, list, map, popup, covered, since,
                   results>>

FadeOut ==
    /\ fades > 0
    /\ fades' = fades - 1
    /\ hud' = FALSE
    /\ UNCHANGED <<server, net, queue, list, map, popup, covered, since,
                   results>>

RunBlock == RunRoutes \/ RunStop \/ RunIssue \/ RunShow \/ RunDismiss

Next ==
    \/ viewWillAppear
    \/ \E i \in DOMAIN list : SelectRow(i)
    \/ \E i \in DOMAIN map : SelectAnnotation(i)
    \/ TapIssue
    \/ ClosePopup
    \/ ServerChanges
    \/ \E q \in net : Serve(q) \/ Complete(q)
    \/ RunBlock
    \/ FadeOut

Spec == Init /\ [][Next]_vars

\* The run loop serves the main queue and the timers, and a request ends with
\* an answer or a time-out.  Nothing is assumed of the user or the server.
Fairness ==
    /\ WF_vars(RunBlock)
    /\ WF_vars(FadeOut)
    /\ \A id \in Ids : WF_vars(\E q \in net : q.id = id /\ Complete(q))

FairSpec == Spec /\ Fairness
-----------------------------------------------------------------------------
(* Properties *)

\* The placed stops of a route, in order, by their positions in its list.
PlacedBefore(routeAPI, i) ==
    Cardinality({j \in 1..i : routeAPI.stops[j].point # NoPoint})

\* The annotations that a route should have: one for each end, and each
\* placed stop in its place between them, with its id.
IsMapOf(routeAPI, annotations) ==
    /\ Len(annotations) = 2 + PlacedBefore(routeAPI, Len(routeAPI.stops))
    /\ annotations[1] = Point(routeAPI.origin, NoId)
    /\ annotations[Len(annotations)] = Point(routeAPI.destination, NoId)
    /\ \A i \in DOMAIN routeAPI.stops :
          routeAPI.stops[i].point # NoPoint =>
             annotations[1 + PlacedBefore(routeAPI, i)]
                = Point(routeAPI.stops[i].point, routeAPI.stops[i].id)

\* The map shows nothing or exactly one route that the server has announced,
\* however the list has been refreshed since that route was selected.
MapShowsOneRoute ==
    map = <<>> \/ \E v \in 1..server : \E i \in DOMAIN Answers[v] :
                     IsMapOf(Answers[v][i], map)

\* The answers of fetches that overlap arrive in any order, and some fail: once
\* one has succeeded, the list is the whole of an answer that the server has
\* given since the first of them was made, and whatever arrives later keeps it
\* so.  A list on screen that is not being fetched has had a result.  So the
\* screen is left empty only by an answer without routes or when every one of
\* them failed.  (It stays empty then: errors are not presented, and there is
\* nothing to tap.)
ListIsRecent ==
    /\ TRUE \in results =>
          \E v \in since..server : list = RoutesVM(Answers[v])
    /\ ~covered => Fetching \/ results # {}

\* The HUD always goes away, in whatever order overlapping requests are answered
\* and however they end: every show is followed by a dismissal of its own,
\* behind it in the main queue.
SpinnerStops == hud ~> ~hud
=============================================================================

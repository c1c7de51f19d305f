------------------------- MODULE RoutesScreenProofs -------------------------
(***************************************************************************)
(* Proofs about RoutesScreen: where the list and the map come from, and    *)
(* how old the list may be, for every sequence of answers of the server,   *)
(* every number of requests in flight and every order in which they are    *)
(* answered or fail.                                                       *)
(*                                                                         *)
(* A block that runs late would bring back an answer from before the       *)
(* fetches under way were made.  None does, because an answer carries the  *)
(* moment it was given: what a request in flight and a block in the main   *)
(* queue carry is part of the inductive invariant.                         *)
(***************************************************************************)
EXTENDS RoutesScreen, TLAPS, SequenceTheorems, FiniteSetTheorems

\* A sequence, whatever its elements are.
IsSeq(s) == s \in Seq({s[i] : i \in DOMAIN s})

\* A request that has been handled carries one of the first v answers, and one
\* for the routes none of those before "from".
Handled(q, from, v) ==
    /\ q \in Request
    /\ q.served \in 0..v
    /\ q.kind = "routes" /\ q.served # 0 => from <= q.served

\* The same of the block of a completion; without an answer it cannot have
\* succeeded.
Carries(b, from, v) ==
    /\ b.kind \in {"show", "dismiss", "routes", "stop", "issue"}
    /\ b.kind \in {"routes", "stop"} =>
          /\ b.answer \in 0..v
          /\ b.ok \in BOOLEAN
          /\ b.ok => b.answer # 0
          /\ b.stop \in Int \cup {NoId}
    /\ b.kind = "routes" /\ b.ok => from <= b.answer

\* The types the proof needs.
Typed ==
    /\ server \in DOMAIN Answers
    /\ since \in 1..server
    /\ IsSeq(queue)

AnswersAreGiven ==
    /\ \A q \in net : Handled(q, since, server)
    /\ \A i \in DOMAIN queue : Carries(queue[i], since, server)

\* The list is empty or what one answer of the server makes it.
ListIsAnAnswer ==
    list = <<>> \/ \E v \in 1..server : list = RoutesVM(Answers[v])

\* The map is empty or the points of one route of one answer of the server.
MapIsARoute ==
    map = <<>> \/ \E v \in 1..server : \E i \in DOMAIN Answers[v] :
                     map = Points(Answers[v][i])

\* The inductive invariant.
IInv ==
    /\ Typed
    /\ AnswersAreGiven
    /\ ListIsAnAnswer
    /\ MapIsARoute
    /\ ListIsRecent
-----------------------------------------------------------------------------
(* Sequences of blocks *)

\* A sequence has a natural length and the indices up to it.
LEMMA SeqIs ==
    ASSUME NEW s, IsSeq(s)
    PROVE  Len(s) \in Nat /\ DOMAIN s = 1..Len(s)
  BY LenProperties DEF IsSeq

\* Appending a block keeps the others where they are.
LEMMA AppendIs ==
    ASSUME NEW s, IsSeq(s), NEW b
    PROVE  /\ IsSeq(Append(s, b))
           /\ DOMAIN Append(s, b) = 1..Len(s) + 1
           /\ \A i \in DOMAIN s :
                 i \in DOMAIN Append(s, b) /\ Append(s, b)[i] = s[i]
           /\ Append(s, b)[Len(s) + 1] = b
<1> DEFINE R == {s[i] : i \in DOMAIN s}
           t == Append(s, b)
<1>1. s \in Seq(R \cup {b}) /\ b \in R \cup {b}
  <2>1. s \in Seq(R)
    BY DEF IsSeq
  <2>2. Len(s) \in Nat /\ DOMAIN s = 1..Len(s) /\ s \in [1..Len(s) -> R]
    BY <2>1, LenProperties
  <2> HIDE DEF R
  <2>3. s \in [1..Len(s) -> R \cup {b}]
    BY <2>2
  <2> QED
    BY <2>2, <2>3
<1> HIDE DEF R
<1>2. /\ t \in Seq(R \cup {b}) /\ Len(t) = Len(s) + 1
      /\ \A i \in 1..Len(s) : t[i] = s[i]
      /\ t[Len(s) + 1] = b
  BY <1>1, AppendProperties
<1>3. /\ Len(s) \in Nat /\ DOMAIN s = 1..Len(s)
      /\ DOMAIN t = 1..Len(t) /\ Len(t) \in Nat
  BY <1>1, <1>2, LenProperties
<1> HIDE DEF t
<1>4. t \in Seq({t[i] : i \in DOMAIN t})
  <2>1. t = [i \in 1..Len(t) |-> t[i]]
    BY <1>2, <1>3
  <2>2. t \in [1..Len(t) -> {t[i] : i \in DOMAIN t}]
    BY <1>3, <2>1
  <2> QED
    BY <1>3, <2>2
<1>5. /\ IsSeq(t)
      /\ DOMAIN t = 1..Len(s) + 1
      /\ \A i \in DOMAIN s : i \in DOMAIN t /\ t[i] = s[i]
      /\ t[Len(s) + 1] = b
  BY <1>2, <1>3, <1>4 DEF IsSeq
<1> QED
  BY <1>5 DEF t

\* Running the first block leaves the others, each one place further forward.
LEMMA TailIs ==
    ASSUME NEW s, IsSeq(s), s # <<>>
    PROVE  /\ IsSeq(Tail(s))
           /\ Head(s) = s[1] /\ 1 \in DOMAIN s
           /\ \A i \in DOMAIN Tail(s) :
                 i + 1 \in DOMAIN s /\ Tail(s)[i] = s[i + 1]
           /\ \A i \in DOMAIN s : i # 1 =>
                 i - 1 \in DOMAIN Tail(s) /\ Tail(s)[i - 1] = s[i]
<1> DEFINE R == {s[i] : i \in DOMAIN s}
           t == Tail(s)
<1>1. s \in Seq(R)
  BY DEF IsSeq
<1> HIDE DEF R
<1>2. /\ t \in Seq(R) /\ Len(t) = Len(s) - 1 /\ Head(s) = s[1]
      /\ \A i \in 1..Len(t) : t[i] = s[i + 1]
      /\ Len(s) \in Nat /\ Len(s) # 0 /\ DOMAIN s = 1..Len(s)
  BY <1>1, HeadTailProperties, LenProperties, EmptySeq
<1>3. DOMAIN t = 1..Len(t) /\ Len(t) \in Nat
  BY <1>2, LenProperties
<1> HIDE DEF t
<1>4. t \in Seq({t[i] : i \in DOMAIN t})
  <2>1. t = [i \in 1..Len(t) |-> t[i]]
    BY <1>2, <1>3, LenProperties
  <2>2. t \in [1..Len(t) -> {t[i] : i \in DOMAIN t}]
    BY <1>3, <2>1
  <2> QED
    BY <1>3, <2>2
<1>5. IsSeq(t) /\ Head(s) = s[1]
  BY <1>2, <1>4 DEF IsSeq
<1>6. /\ 1 \in DOMAIN s
      /\ \A i \in DOMAIN t : i + 1 \in DOMAIN s /\ t[i] = s[i + 1]
  BY <1>2, <1>3
<1>7. \A i \in DOMAIN s : i # 1 => i - 1 \in DOMAIN t /\ t[i - 1] = s[i]
  BY <1>2, <1>3
<1> QED
  BY <1>5, <1>6, <1>7 DEF t
-----------------------------------------------------------------------------
(* The list and its answers *)

\* The list that an answer makes has its routes, in their places.
LEMMA AnswerIs ==
    ASSUME NEW answer
    PROVE  /\ DOMAIN RoutesVM(answer) = DOMAIN answer
           /\ \A i \in DOMAIN answer :
                 /\ DOMAIN RoutesVM(answer)[i] = {"route", "annotations"}
                 /\ RoutesVM(answer)[i].annotations = Points(answer[i])
  BY DEF RoutesVM

\* The versions of the server's answer.
LEMMA AnswersAre ==
    DOMAIN Answers = 1..Len(Answers) /\ Len(Answers) \in Nat \ {0}
  BY ScreenAssumption, EmptySeq, LenProperties
-----------------------------------------------------------------------------
(* The points of a route *)

\* A set of numbers that is not empty has a least one.
LEMMA LeastIs ==
    ASSUME NEW T \in SUBSET Nat, T # {}
    PROVE  \E k \in T : \A m \in T : k <= m
<1>1. \E k \in T : \A m \in T : ~ (<<m, k>> \in OpToRel(<, Nat))
  BY NatLessThanWellFounded, WFMin, Zenon
<1>2. PICK k \in T : \A m \in T : ~ (<<m, k>> \in OpToRel(<, Nat))
  BY <1>1
<1>3. \A m \in T : <<m, k>> \in Nat \X Nat
  OBVIOUS
<1>4. \A m \in T : ~ (m < k)
  BY <1>2, <1>3, Zenon DEF OpToRel
<1> QED
  BY <1>4

\* compactMap: the points of the first i stops, for every i.
IsPlaced(stops, n, placed) ==
    placed = [i \in 0 .. n |->
                IF i = 0 THEN <<>>
                ELSE IF stops[i].point = NoPoint THEN placed[i - 1]
                ELSE Append(placed[i - 1], Point(stops[i].point, stops[i].id))]

\* There is such a function, however many stops there are.
LEMMA PlacedExists ==
    ASSUME NEW stops, NEW n \in Nat
    PROVE  \E placed : IsPlaced(stops, n, placed)
<1> DEFINE T == {k \in Nat : ~ \E placed : IsPlaced(stops, k, placed)}
<1>1. SUFFICES ASSUME T # {} PROVE FALSE
  OBVIOUS
<1>2. PICK k \in T : \A m \in T : k <= m
  <2> HIDE DEF T
  <2>1. T \in SUBSET Nat
    BY DEF T
  <2> QED
    BY <1>1, <2>1, LeastIs
<1>3. k # 0
  <2>1. IsPlaced(stops, 0, [i \in 0 .. 0 |-> <<>>])
    BY DEF IsPlaced
  <2> QED
    BY <2>1
<1>4. k - 1 \in Nat /\ k - 1 \notin T
  BY <1>2, <1>3
<1>5. PICK g : IsPlaced(stops, k - 1, g)
  BY <1>4
<1> DEFINE f == [i \in 0 .. k |->
                   IF i < k THEN g[i]
                   ELSE IF stops[k].point = NoPoint THEN g[k - 1]
                   ELSE Append(g[k - 1], Point(stops[k].point, stops[k].id))]
<1>6. \A i \in 0 .. k :
         f[i] = IF i = 0 THEN <<>>
                ELSE IF stops[i].point = NoPoint THEN f[i - 1]
                ELSE Append(f[i - 1], Point(stops[i].point, stops[i].id))
  <2> TAKE i \in 0 .. k
  <2> DEFINE After(p, j) == IF stops[j].point = NoPoint THEN p[j - 1]
                           ELSE Append(p[j - 1], Point(stops[j].point, stops[j].id))
  <2>1. \A j \in 0 .. k - 1 : f[j] = g[j]
    BY <1>4
  <2>2. \A j \in 0 .. k - 1 : g[j] = IF j = 0 THEN <<>> ELSE After(g, j)
    <3> DEFINE e == [j \in 0 .. k - 1 |-> IF j = 0 THEN <<>> ELSE After(g, j)]
    <3>1. g = e
      BY <1>5 DEF IsPlaced
    <3>2. \A j \in 0 .. k - 1 : e[j] = IF j = 0 THEN <<>> ELSE After(g, j)
      OBVIOUS
    <3> HIDE DEF e, After, f
    <3> QED
      BY <3>1, <3>2, Zenon
  <2>3. f[k] = After(g, k)
    BY <1>4
  <2>4. \A j \in 1 .. k : After(f, j) = After(g, j)
    BY <1>4, <2>1
  <2>5. f[i] = IF i = 0 THEN <<>> ELSE After(f, i)
    <3> HIDE DEF f, After
    <3>1. CASE i = k
      BY <3>1, <1>3, <1>4, <2>3, <2>4
    <3>2. CASE i # k
      BY <3>2, <1>4, <2>1, <2>2, <2>4
    <3> QED
      BY <3>1, <3>2
  <2> QED
    BY <2>5
<1>7. IsPlaced(stops, k, f)
  BY <1>6 DEF IsPlaced
<1> QED
  BY <1>2, <1>7

\* So Points puts it between the two ends.
LEMMA PointsAre ==
    ASSUME NEW routeAPI, Len(routeAPI.stops) \in Nat
    PROVE  \E placed :
              /\ IsPlaced(routeAPI.stops, Len(routeAPI.stops), placed)
              /\ Points(routeAPI) =
                    <<Point(routeAPI.origin, NoId)>>
                       \o placed[Len(routeAPI.stops)]
                       \o <<Point(routeAPI.destination, NoId)>>
<1> DEFINE stops == routeAPI.stops
           P(f) == f = [i \in 0 .. Len(stops) |->
                IF i = 0 THEN <<>>
                ELSE IF stops[i].point = NoPoint THEN f[i - 1]
                ELSE Append(f[i - 1], Point(stops[i].point, stops[i].id))]
           placed == CHOOSE f : P(f)
<1>1. \E f : P(f)
  BY PlacedExists DEF IsPlaced
<1>2. P(placed)
  <2> HIDE DEF P
  <2> QED
    BY <1>1
<1>3. IsPlaced(stops, Len(stops), placed)
  BY <1>2 DEF IsPlaced
<1>4. Points(routeAPI) = <<Point(routeAPI.origin, NoId)>> \o placed[Len(stops)]
                            \o <<Point(routeAPI.destination, NoId)>>
  BY DEF Points
<1> HIDE DEF placed
<1> QED
  BY <1>3, <1>4

\* One more stop: one more placed stop, or none.
LEMMA PlacedBeforeNext ==
    ASSUME NEW routeAPI
    PROVE  /\ PlacedBefore(routeAPI, 0) = 0
           /\ \A i \in Nat :
                 /\ PlacedBefore(routeAPI, i) \in Nat
                 /\ PlacedBefore(routeAPI, i + 1) =
                       IF routeAPI.stops[i + 1].point = NoPoint
                       THEN PlacedBefore(routeAPI, i)
                       ELSE PlacedBefore(routeAPI, i) + 1
<1> DEFINE At(i) == {j \in 1..i : routeAPI.stops[j].point # NoPoint}
<1>1. At(0) = {}
  OBVIOUS
<1>2. ASSUME NEW i \in Nat
      PROVE  /\ IsFiniteSet(At(i)) /\ Cardinality(At(i)) \in Nat
             /\ Cardinality(At(i + 1)) =
                   IF routeAPI.stops[i + 1].point = NoPoint
                   THEN Cardinality(At(i)) ELSE Cardinality(At(i)) + 1
  <2>1. At(i) \in SUBSET (1 .. i) /\ IsFiniteSet(1 .. i)
    BY FS_Interval
  <2>2. IsFiniteSet(At(i)) /\ Cardinality(At(i)) \in Nat
    <3> HIDE DEF At
    <3> QED
      BY <2>1, FS_Subset, FS_CardinalityType
  <2>3. i + 1 \notin At(i)
    OBVIOUS
  <2>4. At(i + 1) = IF routeAPI.stops[i + 1].point = NoPoint
                    THEN At(i) ELSE At(i) \cup {i + 1}
    OBVIOUS
  <2> QED
    BY <2>2, <2>3, <2>4, FS_AddElement
<1> QED
  BY <1>1, <1>2, FS_EmptySet DEF PlacedBefore

\* What the first i placed stops come to.
PlacedRight(routeAPI, placed, i) ==
    LET stops == routeAPI.stops
    IN  /\ placed[i] \in Seq([at : Int, stopId : Int \cup {NoId}])
        /\ Len(placed[i]) = PlacedBefore(routeAPI, i)
        /\ \A j \in 1 .. i :
              stops[j].point # NoPoint =>
                 /\ PlacedBefore(routeAPI, j) \in 1 .. Len(placed[i])
                 /\ placed[i][PlacedBefore(routeAPI, j)]
                       = Point(stops[j].point, stops[j].id)

\* One more stop leaves the placed stops right.
LEMMA PlacedStep ==
    ASSUME NEW routeAPI, routeAPI.stops \in Seq(StopAPI), NEW placed,
           IsPlaced(routeAPI.stops, Len(routeAPI.stops), placed),
           NEW i \in 1 .. Len(routeAPI.stops),
           PlacedRight(routeAPI, placed, i - 1)
    PROVE  PlacedRight(routeAPI, placed, i)
<1> DEFINE stops == routeAPI.stops
           P == [at : Int, stopId : Int \cup {NoId}]
           p == placed[i - 1]
           new == Point(stops[i].point, stops[i].id)
<1>1. i - 1 \in Nat /\ (i - 1) + 1 = i /\ i \in 0 .. Len(stops)
  OBVIOUS
<1>2. placed[i] = IF stops[i].point = NoPoint THEN p ELSE Append(p, new)
  <2> DEFINE After(j) == IF stops[j].point = NoPoint THEN placed[j - 1]
                        ELSE Append(placed[j - 1], Point(stops[j].point, stops[j].id))
             e == [j \in 0 .. Len(stops) |-> IF j = 0 THEN <<>> ELSE After(j)]
  <2>1. placed = e
    BY DEF IsPlaced
  <2>2. e[i] = After(i)
    BY <1>1
  <2> HIDE DEF e
  <2> QED
    BY <2>1, <2>2
<1>3. p \in Seq(P) /\ Len(p) = PlacedBefore(routeAPI, i - 1)
  BY DEF PlacedRight
<1>4. ASSUME NEW j \in 1 .. i - 1, stops[j].point # NoPoint
      PROVE  /\ PlacedBefore(routeAPI, j) \in 1 .. Len(p)
             /\ p[PlacedBefore(routeAPI, j)] = Point(stops[j].point, stops[j].id)
  BY <1>4 DEF PlacedRight
<1>5. CASE stops[i].point = NoPoint
  <2>1. PlacedBefore(routeAPI, i) = PlacedBefore(routeAPI, i - 1)
    BY <1>1, <1>5, PlacedBeforeNext
  <2>2. placed[i] = p
    BY <1>2, <1>5
  <2>3. \A j \in 1 .. i : stops[j].point # NoPoint => j \in 1 .. i - 1
    BY <1>5
  <2> HIDE DEF p, P
  <2> QED
    BY <1>3, <1>4, <2>1, <2>2, <2>3 DEF PlacedRight, P
<1>6. CASE stops[i].point # NoPoint
  <2>1. PlacedBefore(routeAPI, i) = Len(p) + 1
    BY <1>1, <1>3, <1>6, PlacedBeforeNext
  <2>2. stops[i] \in StopAPI
    BY <1>1
  <2>3. new \in P
    BY <1>6, <2>2 DEF StopAPI, Point
  <2>4. placed[i] = Append(p, new)
    BY <1>2, <1>6
  <2> HIDE DEF p, P, new
  <2>5. /\ placed[i] \in Seq(P) /\ Len(placed[i]) = Len(p) + 1
        /\ placed[i][Len(p) + 1] = new
        /\ \A k \in 1 .. Len(p) : placed[i][k] = p[k]
    BY <1>3, <2>3, <2>4, AppendProperties
  <2>6. Len(p) \in Nat
    BY <1>3, LenProperties
  <2>7. ASSUME NEW j \in 1 .. i, stops[j].point # NoPoint
        PROVE  /\ PlacedBefore(routeAPI, j) \in 1 .. Len(placed[i])
               /\ placed[i][PlacedBefore(routeAPI, j)]
                     = Point(stops[j].point, stops[j].id)
    <3>1. CASE j = i
      BY <3>1, <2>1, <2>5, <2>6 DEF new
    <3>2. CASE j # i
      <4>1. j \in 1 .. i - 1
        BY <3>2
      <4>2. /\ PlacedBefore(routeAPI, j) \in 1 .. Len(p)
            /\ p[PlacedBefore(routeAPI, j)] = Point(stops[j].point, stops[j].id)
        BY <1>4, <2>7, <4>1
      <4> QED
        BY <4>2, <2>5, <2>6
    <3> QED
      BY <3>1, <3>2
  <2> QED
    BY <2>1, <2>5, <2>7 DEF PlacedRight, P
<1> QED
  BY <1>5, <1>6

\* So the placed stops are right however many there are.
LEMMA PlacedAreRight ==
    ASSUME NEW routeAPI, routeAPI.stops \in Seq(StopAPI), NEW placed,
           IsPlaced(routeAPI.stops, Len(routeAPI.stops), placed)
    PROVE  PlacedRight(routeAPI, placed, Len(routeAPI.stops))
<1> DEFINE n == Len(routeAPI.stops)
           T == {k \in 0 .. n : ~PlacedRight(routeAPI, placed, k)}
<1>0. n \in Nat
  BY LenProperties
<1>1. SUFFICES ASSUME T # {} PROVE FALSE
  BY <1>0
<1>2. T \in SUBSET Nat
  BY <1>0
<1>3. PICK k \in T : \A m \in T : k <= m
  <2> HIDE DEF T
  <2> QED
    BY <1>1, <1>2, LeastIs
<1>4. PlacedRight(routeAPI, placed, 0)
  <2>1. placed[0] = <<>>
    <3> DEFINE e == [i \in 0 .. n |->
                IF i = 0 THEN <<>>
                ELSE IF routeAPI.stops[i].point = NoPoint THEN placed[i - 1]
                ELSE Append(placed[i - 1],
                            Point(routeAPI.stops[i].point, routeAPI.stops[i].id))]
    <3>1. placed = e
      BY DEF IsPlaced
    <3>2. e[0] = <<>>
      BY <1>0
    <3> HIDE DEF e
    <3> QED
      BY <3>1, <3>2
  <2> QED
    BY <2>1, PlacedBeforeNext DEF PlacedRight
<1>5. k \in 1 .. n /\ k - 1 \in 0 .. n /\ k - 1 \notin T
  BY <1>0, <1>3, <1>4
<1>6. PlacedRight(routeAPI, placed, k - 1)
  BY <1>5
<1>7. PlacedRight(routeAPI, placed, k)
  BY <1>5, <1>6, PlacedStep
<1> QED
  BY <1>3, <1>7

\* The annotations on a map.
Annotation == [at : Int, stopId : Int \cup {NoId}]

\* The model of a route is its map: an annotation for each end and, between
\* them, one for each placed stop in its place, however many stops there are
\* and wherever those without a point stand.
LEMMA PointsAreTheMap ==
    ASSUME NEW routeAPI \in RouteAPI
    PROVE  /\ Points(routeAPI) \in Seq(Annotation)
           /\ IsMapOf(routeAPI, Points(routeAPI))
<1> DEFINE stops == routeAPI.stops
           n == Len(stops)
           P == [at : Int, stopId : Int \cup {NoId}]
           first == <<Point(routeAPI.origin, NoId)>>
           last == <<Point(routeAPI.destination, NoId)>>
<1>1. stops \in Seq(StopAPI) /\ n \in Nat /\ DOMAIN stops = 1 .. n
  BY LenProperties DEF RouteAPI
<1>2. PICK placed :
         /\ IsPlaced(stops, n, placed)
         /\ Points(routeAPI) = first \o placed[n] \o last
  BY <1>1, PointsAre
<1> DEFINE p == placed[n]
<1>3. PlacedRight(routeAPI, placed, n)
  BY <1>1, <1>2, PlacedAreRight
<1>4. p \in Seq(P) /\ Len(p) = PlacedBefore(routeAPI, n)
  BY <1>3 DEF PlacedRight
<1>5. first \in Seq(P) /\ Len(first) = 1 /\ first[1] = Point(routeAPI.origin, NoId)
  BY DEF Point, RouteAPI
<1>6. last \in Seq(P) /\ Len(last) = 1 /\ last[1] = Point(routeAPI.destination, NoId)
  BY DEF Point, RouteAPI
<1> DEFINE all == first \o p \o last
<1>7. /\ all \in Seq(P)
      /\ Len(p) \in Nat /\ Len(all) = Len(p) + 2
      /\ all[1] = first[1] /\ all[Len(p) + 2] = last[1]
      /\ \A k \in 1 .. Len(p) : all[k + 1] = p[k]
  <2> HIDE DEF first, last, p, P
  <2>1. Len(p) \in Nat
    BY <1>4, LenProperties
  <2>2. first \o p \in Seq(P) /\ Len(first \o p) = Len(p) + 1
    <3>1. first \o p \in Seq(P) /\ Len(first \o p) = Len(first) + Len(p)
      BY <1>4, <1>5, ConcatProperties, Zenon
    <3> QED
      BY <1>5, <2>1, <3>1
  <2> DEFINE both == first \o p
  <2>3. \A k \in 1 .. Len(p) + 1 :
           both[k] = IF k <= 1 THEN first[k] ELSE p[k - 1]
    <3>1. \A k \in 1 .. Len(first) + Len(p) :
             both[k] = IF k <= Len(first) THEN first[k] ELSE p[k - Len(first)]
      BY <1>4, <1>5, ConcatProperties, Zenon
    <3> HIDE DEF both
    <3> QED
      BY <1>5, <2>1, <3>1
  <2>4. \A k \in 1 .. Len(p) + 2 :
           all[k] = IF k <= Len(p) + 1 THEN both[k] ELSE last[k - (Len(p) + 1)]
    <3>1. \A k \in 1 .. Len(both) + Len(last) :
             all[k] = IF k <= Len(both) THEN both[k] ELSE last[k - Len(both)]
      BY <1>6, <2>2, ConcatProperties, Zenon
    <3> HIDE DEF both, all
    <3>2. Len(both) + Len(last) = Len(p) + 2
      BY <1>6, <2>1, <2>2 DEF both
    <3> QED
      BY <2>1, <2>2, <3>1, <3>2 DEF both
  <2>5. all \in Seq(P) /\ Len(all) = Len(p) + 2
    BY <1>6, <2>1, <2>2, ConcatProperties
  <2> HIDE DEF all, both
  <2>6. 1 \in 1 .. Len(p) + 1 /\ 1 \in 1 .. Len(p) + 2 /\ Len(p) + 2 \in 1 .. Len(p) + 2
        /\ Len(p) + 2 - (Len(p) + 1) = 1
    BY <2>1
  <2>7. all[1] = first[1] /\ all[Len(p) + 2] = last[1]
    BY <2>1, <2>3, <2>4, <2>6
  <2>8. ASSUME NEW k \in 1 .. Len(p) PROVE all[k + 1] = p[k]
    <3>1. k + 1 \in 1 .. Len(p) + 1 /\ k + 1 \in 1 .. Len(p) + 2
          /\ k + 1 > 1 /\ (k + 1) - 1 = k
      BY <2>1
    <3> QED
      BY <2>1, <2>3, <2>4, <3>1
  <2> QED
    BY <2>1, <2>5, <2>7, <2>8
<1>8. ASSUME NEW i \in DOMAIN stops, stops[i].point # NoPoint
      PROVE  all[1 + PlacedBefore(routeAPI, i)] = Point(stops[i].point, stops[i].id)
  <2>1. /\ PlacedBefore(routeAPI, i) \in 1 .. Len(p)
        /\ p[PlacedBefore(routeAPI, i)] = Point(stops[i].point, stops[i].id)
    BY <1>1, <1>3, <1>8 DEF PlacedRight
  <2> HIDE DEF all, p
  <2> QED
    BY <1>7, <2>1
<1>9. Points(routeAPI) = all
  BY <1>2
<1>10. Len(all) = 2 + PlacedBefore(routeAPI, n) /\ Len(all) = Len(p) + 2
  <2> HIDE DEF all, p
  <2> QED
    BY <1>4, <1>7
<1>11. all[1] = Point(routeAPI.origin, NoId)
       /\ all[Len(all)] = Point(routeAPI.destination, NoId)
  <2> HIDE DEF all, p, first, last
  <2> QED
    BY <1>5, <1>6, <1>7
<1>12. Points(routeAPI) \in Seq(Annotation)
  BY <1>7, <1>9 DEF Annotation
<1> HIDE DEF all, p, first, last
<1> QED
  BY <1>8, <1>9, <1>10, <1>11, <1>12 DEF IsMapOf
-----------------------------------------------------------------------------
(* The inductive invariant holds at the start and across every step *)

\* At the start nothing is on screen, in flight or in the queue.
LEMMA InitIInv == Init => IInv
<1> SUFFICES ASSUME Init PROVE IInv
  OBVIOUS
<1>1. server \in DOMAIN Answers
  BY AnswersAre DEF Init
<1>2. queue = <<>> /\ DOMAIN queue = {} /\ queue \in Seq({})
  BY DEF Init
<1>3. Typed
  BY <1>1, <1>2, AnswersAre DEF Init, Typed, IsSeq
<1>4. AnswersAreGiven
  BY <1>2 DEF Init, AnswersAreGiven
<1>5. ListIsAnAnswer /\ MapIsARoute /\ ListIsRecent
  BY DEF Init, ListIsAnAnswer, MapIsARoute, ListIsRecent
<1> QED
  BY <1>3, <1>4, <1>5 DEF IInv

\* What is on the map has a place, and the id of a stop or none.
LEMMA MapIs ==
    ASSUME server \in DOMAIN Answers, MapIsARoute
    PROVE  \A i \in DOMAIN map : map[i] \in Annotation
<1>1. map \in Seq(Annotation)
  <2>1. CASE map = <<>>
    BY <2>1
  <2>2. CASE map # <<>>
    <3>1. PICK v \in 1..server : \E i \in DOMAIN Answers[v] :
             map = Points(Answers[v][i])
      BY <2>2 DEF MapIsARoute
    <3>2. PICK i \in DOMAIN Answers[v] : map = Points(Answers[v][i])
      BY <3>1
    <3>3. v \in DOMAIN Answers
      BY AnswersAre
    <3>4. Answers[v] \in Seq(RouteAPI)
      BY <3>3, ScreenAssumption
    <3>5. Answers[v][i] \in RouteAPI
      BY <3>4
    <3> QED
      BY <3>2, <3>5, PointsAreTheMap
  <2> QED
    BY <2>1, <2>2
<1> QED
  BY <1>1

\* A step that leaves the server alone leaves what its answers explain.
LEMMA SameServer ==
    ASSUME server' = server
    PROVE  /\ list' = list /\ ListIsAnAnswer => ListIsAnAnswer'
           /\ map' = map /\ MapIsARoute => MapIsARoute'
  BY DEF ListIsAnAnswer, MapIsARoute

\* The list stays recent when it stays as it is and no fetch gets lost.
LEMMA RecentStays ==
    ASSUME ListIsRecent, UNCHANGED <<server, list, since, results>>,
           Fetching => Fetching', ~covered' => ~covered \/ Fetching'
    PROVE  ListIsRecent'
  BY DEF ListIsRecent

\* A fetch is under way as long as its request or its block is there.
LEMMA FetchingStays ==
    ASSUME \A q \in net : q.kind = "routes" => Fetching',
           \A i \in DOMAIN queue : queue[i].kind = "routes" => Fetching'
    PROVE  Fetching => Fetching'
<1>1. SUFFICES ASSUME Fetching PROVE Fetching'
  OBVIOUS
<1>2. CASE \E q \in net : q.kind = "routes"
  BY <1>2
<1>3. CASE \E i \in DOMAIN queue : queue[i].kind = "routes"
  BY <1>3
<1> QED
  BY <1>1, <1>2, <1>3 DEF Fetching

\* Posting a block that carries what it should: HUD, issue and completions.
LEMMA PostKeeps ==
    ASSUME IInv, NEW b, Carries(b, since', server),
           \A i \in DOMAIN queue : Carries(queue[i], since', server),
           queue' = Append(queue, b), server' = server, since' \in 1..server
    PROVE  /\ Typed'
           /\ \A i \in DOMAIN queue' : Carries(queue'[i], since', server')
           /\ \A i \in DOMAIN queue :
                 i \in DOMAIN queue' /\ queue'[i] = queue[i]
           /\ \E i \in DOMAIN queue' : queue'[i] = b
<1>1. /\ IsSeq(queue') /\ DOMAIN queue' = 1..Len(queue) + 1
      /\ \A i \in DOMAIN queue : i \in DOMAIN queue' /\ queue'[i] = queue[i]
      /\ queue'[Len(queue) + 1] = b
      /\ Len(queue) \in Nat /\ DOMAIN queue = 1..Len(queue)
  BY AppendIs, SeqIs DEF IInv, Typed
<1>2. \A i \in DOMAIN queue' : i \in DOMAIN queue \/ i = Len(queue) + 1
  BY <1>1
<1>3. \A i \in DOMAIN queue' : Carries(queue'[i], since', server)
  BY <1>1, <1>2
<1>4. Len(queue) + 1 \in DOMAIN queue'
  BY <1>1
<1> QED
  BY <1>1, <1>3, <1>4 DEF IInv, Typed

\* A request joins the others.  One for the routes, if none is under way, is the
\* first of those that will overlap it, and there is nothing older than it.
LEMMA FetchKeeps ==
    ASSUME IInv, NEW kind \in {"routes", "stop"}, NEW stop \in Int \cup {NoId},
           Fetch(kind, stop), UNCHANGED <<server, list, map>>,
           \/ kind = "routes" /\ Overlap
           \/ UNCHANGED <<since, results, covered>>
    PROVE  IInv'
<1>1. PICK id \in Ids :
         net' = net \cup {[id |-> id, kind |-> kind, stop |-> stop,
                           served |-> 0]}
  BY DEF Fetch
<1> DEFINE r == [id |-> id, kind |-> kind, stop |-> stop, served |-> 0]
<1>2. r \in Request /\ r.served = 0 /\ r.kind = kind
  BY AnswersAre DEF Request
<1> HIDE DEF r
<1>3. net' = net \cup {r}
  BY <1>1 DEF r
<1>4. server \in Nat \ {0} /\ since \in 1..server
  BY AnswersAre DEF IInv, Typed
<1>5. \/ since' = since /\ results' = results
      \/ ~Fetching /\ since' = server /\ results' = {}
  BY DEF Overlap
<1>6. since' \in 1..server
  BY <1>4, <1>5
<1>7. /\ \A q \in net : Handled(q, since', server)
      /\ \A i \in DOMAIN queue : Carries(queue[i], since', server)
  <2>1. CASE since' = since
    BY <2>1 DEF IInv, AnswersAreGiven
  <2>2. CASE ~Fetching
    BY <2>2 DEF IInv, AnswersAreGiven, Handled, Carries, Fetching
  <2> QED
    BY <1>5, <2>1, <2>2
<1>8. Carries(Show, since', server) /\ queue' = Append(queue, Show)
  BY DEF Fetch, Carries, Show
<1>9. /\ Typed' /\ \A i \in DOMAIN queue' : Carries(queue'[i], since', server')
      /\ \A i \in DOMAIN queue : i \in DOMAIN queue' /\ queue'[i] = queue[i]
  BY <1>6, <1>7, <1>8, PostKeeps
<1>10. \A q \in net' : Handled(q, since', server')
  BY <1>2, <1>3, <1>4, <1>7 DEF Handled
<1>11. ListIsAnAnswer' /\ MapIsARoute'
  BY SameServer DEF IInv
<1>12. (Fetching => Fetching') /\ (kind = "routes" => Fetching')
  BY <1>2, <1>3, <1>9, FetchingStays DEF Fetching
<1>13. ListIsRecent'
  <2>1. CASE since' = since /\ results' = results
    BY <1>12, <2>1, RecentStays DEF IInv
  <2>2. CASE ~Fetching /\ results' = {} /\ kind = "routes"
    BY <1>12, <2>2 DEF ListIsRecent
  <2> QED
    BY <1>5, <2>1, <2>2
<1> QED
  BY <1>9, <1>10, <1>11, <1>13 DEF IInv, AnswersAreGiven

\* A block of the main queue runs, and posts the HUD's dismissal or nothing.
LEMMA RunKeeps ==
    ASSUME IInv, queue # <<>>, UNCHANGED <<server, since>>,
           queue' = Tail(queue) \/ queue' = Append(Tail(queue), Dismiss)
    PROVE  /\ Typed'
           /\ \A i \in DOMAIN queue' : Carries(queue'[i], since', server')
           /\ Head(queue) = queue[1] /\ 1 \in DOMAIN queue
           /\ \A i \in DOMAIN queue : i # 1 =>
                 \E j \in DOMAIN queue' : queue'[j] = queue[i]
<1>1. PICK t : t = Tail(queue)
  OBVIOUS
<1>2. /\ IsSeq(t)
      /\ Head(queue) = queue[1] /\ 1 \in DOMAIN queue
      /\ \A i \in DOMAIN t : i + 1 \in DOMAIN queue /\ t[i] = queue[i + 1]
      /\ \A i \in DOMAIN queue : i # 1 =>
            i - 1 \in DOMAIN t /\ t[i - 1] = queue[i]
  BY <1>1, TailIs DEF IInv, Typed
<1>3. \A i \in DOMAIN t : Carries(t[i], since, server)
  BY <1>2 DEF IInv, AnswersAreGiven
<1>4. Carries(Dismiss, since, server)
  BY DEF Carries, Dismiss
<1>5. queue' = t \/ queue' = Append(t, Dismiss)
  BY <1>1
<1>6. /\ IsSeq(queue')
      /\ \A i \in DOMAIN queue' : Carries(queue'[i], since, server)
      /\ \A i \in DOMAIN t : i \in DOMAIN queue' /\ queue'[i] = t[i]
  <2>1. CASE queue' = t
    BY <1>2, <1>3, <2>1
  <2>2. CASE queue' = Append(t, Dismiss)
    <3>1. /\ IsSeq(queue') /\ DOMAIN queue' = 1..Len(t) + 1
          /\ \A i \in DOMAIN t : i \in DOMAIN queue' /\ queue'[i] = t[i]
          /\ queue'[Len(t) + 1] = Dismiss
          /\ Len(t) \in Nat /\ DOMAIN t = 1..Len(t)
      BY <1>2, <2>2, AppendIs, SeqIs
    <3>2. \A i \in DOMAIN queue' : i \in DOMAIN t \/ i = Len(t) + 1
      BY <3>1
    <3> QED
      BY <1>3, <1>4, <3>1, <3>2
  <2> QED
    BY <1>5, <2>1, <2>2
<1>7. \A i \in DOMAIN queue : i # 1 =>
         \E j \in DOMAIN queue' : queue'[j] = queue[i]
  BY <1>2, <1>6
<1> QED
  BY <1>2, <1>6, <1>7 DEF IInv, Typed

\* The routes arrive: the list becomes what a given answer makes it, one given
\* since the first of the fetches was made, or stays what it is.
LEMMA RoutesKeeps ==
    ASSUME IInv, RunRoutes
    PROVE  IInv'
<1>1. /\ queue # <<>> /\ Head(queue).kind = "routes"
      /\ queue' = Append(Tail(queue), Dismiss)
      /\ UNCHANGED <<server, net, map, covered, since>>
      /\ list' = IF Head(queue).ok THEN RoutesVM(Answers[Head(queue).answer])
                                   ELSE list
  BY DEF RunRoutes, Runs
<1>2. results' = results \cup {Head(queue).ok}
  BY Zenon DEF RunRoutes
<1>3. /\ Typed' /\ \A i \in DOMAIN queue' : Carries(queue'[i], since', server')
      /\ Head(queue) = queue[1] /\ 1 \in DOMAIN queue
  BY <1>1, RunKeeps
<1>4. \A q \in net' : Handled(q, since', server')
  BY <1>1 DEF IInv, AnswersAreGiven
<1>5. MapIsARoute'
  BY <1>1, SameServer DEF IInv
<1>6. /\ Carries(Head(queue), since, server)
      /\ server \in Nat /\ since \in 1..server
  BY <1>3, AnswersAre DEF IInv, Typed, AnswersAreGiven
<1>7. Head(queue).ok \in BOOLEAN
  BY <1>1, <1>6 DEF Carries
<1>8. CASE Head(queue).ok
  <2>1. Head(queue).answer \in since..server
    BY <1>1, <1>6, <1>8 DEF Carries
  <2>2. list' = RoutesVM(Answers[Head(queue).answer])
    BY <1>1, <1>8
  <2>3. ListIsAnAnswer'
    BY <1>1, <1>6, <2>1, <2>2 DEF ListIsAnAnswer
  <2>4. ListIsRecent'
    BY <1>1, <1>2, <2>1, <2>2 DEF ListIsRecent
  <2> QED
    BY <1>3, <1>4, <1>5, <2>3, <2>4 DEF IInv, AnswersAreGiven
<1>9. CASE ~Head(queue).ok
  <2>1. list' = list
    BY <1>1, <1>9
  <2>2. Head(queue).ok = FALSE
    BY <1>7, <1>9, Zenon
  <2>3. results' = results \cup {FALSE}
    BY <1>2, <2>2
  <2>4. TRUE \in results' => TRUE \in results
    BY <2>3
  <2>5. results' # {}
    BY <2>3
  <2>6. ListIsAnAnswer' /\ ListIsRecent'
    BY <1>1, <2>1, <2>4, <2>5, SameServer DEF IInv, ListIsRecent
  <2> QED
    BY <1>3, <1>4, <1>5, <2>6 DEF IInv, AnswersAreGiven
<1> QED
  BY <1>8, <1>9

\* The other blocks leave the list, the map and the requests alone, and none
\* of them brings the list on screen.
LEMMA OtherBlockKeeps ==
    ASSUME IInv, queue # <<>>, Head(queue).kind # "routes",
           queue' = Tail(queue) \/ queue' = Append(Tail(queue), Dismiss),
           UNCHANGED <<server, net, list, map, since, results>>,
           ~covered' => ~covered
    PROVE  IInv'
<1>1. /\ Typed' /\ \A i \in DOMAIN queue' : Carries(queue'[i], since', server')
      /\ Head(queue) = queue[1]
      /\ \A i \in DOMAIN queue : i # 1 =>
            \E j \in DOMAIN queue' : queue'[j] = queue[i]
  BY RunKeeps
<1>2. \A q \in net' : Handled(q, since', server')
  BY DEF IInv, AnswersAreGiven
<1>3. ListIsAnAnswer' /\ MapIsARoute'
  BY SameServer DEF IInv
<1>4. Fetching => Fetching'
  BY <1>1, FetchingStays DEF Fetching
<1>5. ListIsRecent'
  BY <1>4, RecentStays DEF IInv
<1> QED
  BY <1>1, <1>2, <1>3, <1>5 DEF IInv, AnswersAreGiven

\* The server handles a request: the answer of the moment is one given so far.
LEMMA ServeKeeps ==
    ASSUME IInv, NEW q \in net, Serve(q)
    PROVE  IInv'
<1>1. /\ net' = (net \ {q}) \cup {[q EXCEPT !.served = server]}
      /\ UNCHANGED <<server, queue, list, map, covered, since, results>>
  BY DEF Serve
<1> DEFINE r == [q EXCEPT !.served = server]
<1>2. server \in Nat /\ since \in 1..server /\ server \in 0..Len(Answers)
  BY AnswersAre DEF IInv, Typed
<1>3. q \in Request
  BY DEF IInv, AnswersAreGiven, Handled
<1>4. r \in Request /\ r.served = server /\ r.kind = q.kind
  BY <1>2, <1>3 DEF Request
<1> HIDE DEF r
<1>5. net' = (net \ {q}) \cup {r}
  BY <1>1 DEF r
<1>6. \A p \in net' : Handled(p, since', server')
  BY <1>1, <1>2, <1>4, <1>5 DEF IInv, AnswersAreGiven, Handled
<1>7. Typed' /\ \A i \in DOMAIN queue' : Carries(queue'[i], since', server')
  BY <1>1 DEF IInv, Typed, AnswersAreGiven
<1>8. ListIsAnAnswer' /\ MapIsARoute'
  BY <1>1, SameServer DEF IInv
<1>9. Fetching => Fetching'
  BY <1>1, <1>4, <1>5, FetchingStays DEF Fetching
<1>10. ListIsRecent'
  BY <1>1, <1>9, RecentStays DEF IInv
<1> QED
  BY <1>6, <1>7, <1>8, <1>10 DEF IInv, AnswersAreGiven

\* A request ends: its block takes its place, and has the answer if it succeeded.
LEMMA CompleteKeeps ==
    ASSUME IInv, NEW q \in net, Complete(q)
    PROVE  IInv'
<1>1. PICK response \in Response :
          /\ response.reached => q.served # 0
          /\ queue' = Append(queue,
                [kind |-> q.kind, stop |-> q.stop, answer |-> q.served,
                 ok |-> processRequest(q.kind, response) = "success"])
  BY DEF Complete
<1>2. net' = net \ {q} /\ UNCHANGED <<server, list, map, covered, since, results>>
  BY DEF Complete
<1> DEFINE ok == processRequest(q.kind, response) = "success"
           b == [kind |-> q.kind, stop |-> q.stop, answer |-> q.served,
                 ok |-> ok]
<1>3. ok => q.served # 0
  BY <1>1 DEF processRequest
<1>4. queue' = Append(queue, b)
  BY <1>1
<1> HIDE DEF ok
<1>5. b.kind = q.kind /\ b.answer = q.served
  OBVIOUS
<1>6. b.ok => ok
  BY Zenon
<1> HIDE DEF b
<1>7. Carries(b, since, server)
  <2>1. Handled(q, since, server)
    BY DEF IInv, AnswersAreGiven
  <2>2. q.kind \in {"routes", "stop"} /\ q.stop \in Int \cup {NoId}
    BY <2>1 DEF Handled, Request
  <2>3. b.ok \in BOOLEAN /\ b.stop = q.stop
    BY DEF b, ok
  <2> QED
    BY <1>3, <1>5, <1>6, <2>1, <2>2, <2>3 DEF Handled, Carries
<1>8. /\ Typed' /\ \A i \in DOMAIN queue' : Carries(queue'[i], since', server')
      /\ \A i \in DOMAIN queue : i \in DOMAIN queue' /\ queue'[i] = queue[i]
      /\ \E i \in DOMAIN queue' : queue'[i] = b
  <2>1. since' = since /\ since \in 1..server
    BY <1>2 DEF IInv, Typed
  <2> QED
    BY <1>2, <1>4, <1>7, <2>1, PostKeeps DEF IInv, AnswersAreGiven
<1>9. \A p \in net' : Handled(p, since', server')
  BY <1>2 DEF IInv, AnswersAreGiven
<1>10. ListIsAnAnswer' /\ MapIsARoute'
  BY <1>2, SameServer DEF IInv
<1>11. Fetching => Fetching'
  BY <1>2, <1>5, <1>8, FetchingStays DEF Fetching
<1>12. ListIsRecent'
  BY <1>2, <1>11, RecentStays DEF IInv
<1> QED
  BY <1>8, <1>9, <1>10, <1>12 DEF IInv, AnswersAreGiven

\* A row of the list is a route of one answer: the map shows that route.
LEMMA SelectKeeps ==
    ASSUME IInv, NEW i \in DOMAIN list, SelectRow(i)
    PROVE  IInv'
<1>1. /\ map' = list[i].annotations
      /\ UNCHANGED <<server, net, queue, list, covered, since, results>>
  BY DEF SelectRow, SetMap
<1>2. list # <<>>
  OBVIOUS
<1>3. PICK v \in 1..server : list = RoutesVM(Answers[v])
  BY <1>2 DEF IInv, ListIsAnAnswer
<1>4. v \in DOMAIN Answers
  BY AnswersAre DEF IInv, Typed
<1>5. i \in DOMAIN Answers[v] /\ map' = Points(Answers[v][i])
  BY <1>1, <1>3, <1>4, AnswerIs
<1>6. MapIsARoute'
  BY <1>1, <1>5 DEF MapIsARoute
<1>7. ListIsAnAnswer'
  BY <1>1, SameServer DEF IInv
<1>8. Typed' /\ AnswersAreGiven' /\ ListIsRecent'
  BY <1>1 DEF IInv, Typed, AnswersAreGiven, ListIsRecent, Fetching
<1> QED
  BY <1>6, <1>7, <1>8 DEF IInv

\* The server moves on: what it has answered so far only grows.
LEMMA ServerKeeps ==
    ASSUME IInv, ServerChanges
    PROVE  IInv'
<1>1. /\ server < Len(Answers) /\ server' = server + 1
      /\ UNCHANGED <<net, queue, list, map, covered, since, results>>
  BY DEF ServerChanges
<1>2. /\ server \in Nat /\ server' \in DOMAIN Answers
      /\ 0..server \subseteq 0..server' /\ 1..server \subseteq 1..server'
  BY <1>1, AnswersAre DEF IInv, Typed
<1>3. Typed'
  BY <1>1, <1>2 DEF IInv, Typed
<1>4. AnswersAreGiven'
  BY <1>1, <1>2 DEF IInv, AnswersAreGiven, Handled, Carries
<1>5. ListIsAnAnswer' /\ MapIsARoute'
  BY <1>1, <1>2 DEF IInv, ListIsAnAnswer, MapIsARoute
<1>6. ListIsRecent'
  <2>1. since..server \subseteq since'..server'
    BY <1>1, <1>2 DEF IInv, Typed
  <2>2. Fetching' = Fetching
    BY <1>1 DEF Fetching
  <2> QED
    BY <1>1, <2>1, <2>2 DEF IInv, ListIsRecent
<1> QED
  BY <1>3, <1>4, <1>5, <1>6 DEF IInv

\* The two blocks of a tap on the issue button are posted one after the other.
LEMMA TapKeeps ==
    ASSUME IInv, TapIssue
    PROVE  IInv'
<1> DEFINE issue == [kind |-> "issue"]
<1>1. /\ queue' = queue \o <<Show, issue>>
      /\ UNCHANGED <<server, net, list, map, covered, since, results>>
  BY DEF TapIssue
<1>2. Carries(Show, since, server) /\ Carries(issue, since, server)
  BY DEF Carries, Show
<1>3. IsSeq(queue)
  BY DEF IInv, Typed
<1> HIDE DEF issue
<1>4. PICK p, t : p = Append(queue, Show) /\ t = Append(p, issue)
  OBVIOUS
<1>5. queue' = t
  BY <1>1, <1>3, <1>4 DEF IsSeq
<1>6. /\ IsSeq(p) /\ DOMAIN p = 1..Len(queue) + 1
      /\ \A i \in DOMAIN queue : i \in DOMAIN p /\ p[i] = queue[i]
      /\ p[Len(queue) + 1] = Show
      /\ Len(queue) \in Nat /\ DOMAIN queue = 1..Len(queue)
  BY <1>3, <1>4, AppendIs, SeqIs
<1>7. /\ IsSeq(t) /\ DOMAIN t = 1..Len(p) + 1
      /\ \A i \in DOMAIN p : i \in DOMAIN t /\ t[i] = p[i]
      /\ t[Len(p) + 1] = issue
      /\ Len(p) \in Nat /\ DOMAIN p = 1..Len(p)
  BY <1>4, <1>6, AppendIs, SeqIs
<1>8. /\ \A i \in DOMAIN p : i \in DOMAIN queue \/ i = Len(queue) + 1
      /\ \A i \in DOMAIN t : i \in DOMAIN p \/ i = Len(p) + 1
  BY <1>6, <1>7
<1>9. \A i \in DOMAIN p : Carries(p[i], since, server)
  BY <1>2, <1>6, <1>8 DEF IInv, AnswersAreGiven
<1>10. \A i \in DOMAIN t : Carries(t[i], since, server)
  BY <1>2, <1>7, <1>8, <1>9
<1>11. Typed'
  BY <1>1, <1>5, <1>7 DEF IInv, Typed
<1>12. AnswersAreGiven'
  BY <1>1, <1>5, <1>10 DEF IInv, AnswersAreGiven
<1>13. ListIsAnAnswer' /\ MapIsARoute'
  BY <1>1, SameServer DEF IInv
<1>14. Fetching => Fetching'
  BY <1>1, <1>5, <1>6, <1>7, FetchingStays DEF Fetching
<1>15. ListIsRecent'
  BY <1>1, <1>14, RecentStays DEF IInv
<1> QED
  BY <1>11, <1>12, <1>13, <1>15 DEF IInv

\* Across every step of the screen.
LEMMA NextIInv == IInv /\ [Next]_vars => IInv'
<1> SUFFICES ASSUME IInv, [Next]_vars PROVE IInv'
  OBVIOUS
<1>1. CASE viewWillAppear
  BY <1>1, FetchKeeps DEF viewWillAppear
<1>2. ASSUME NEW i \in DOMAIN list, SelectRow(i) PROVE IInv'
  BY <1>2, SelectKeeps
<1>3. ASSUME NEW i \in DOMAIN map, SelectAnnotation(i) PROVE IInv'
  <2>1. map[i].stopId \in Int \cup {NoId}
    BY MapIs DEF IInv, Typed, Annotation
  <2> QED
    BY <1>3, <2>1, FetchKeeps DEF SelectAnnotation
<1>4. CASE TapIssue
  BY <1>4, TapKeeps
<1>5. CASE ServerChanges
  BY <1>5, ServerKeeps
<1>6. ASSUME NEW q \in net, Serve(q) PROVE IInv'
  BY <1>6, ServeKeeps
<1>7. ASSUME NEW q \in net, Complete(q) PROVE IInv'
  BY <1>7, CompleteKeeps
<1>8. CASE RunBlock
  <2>1. CASE RunRoutes
    BY <2>1, RoutesKeeps
  <2>2. CASE RunStop
    BY <2>2, OtherBlockKeeps DEF RunStop, Runs
  <2>3. CASE RunIssue
    BY <2>3, OtherBlockKeeps DEF RunIssue, Runs
  <2>4. CASE RunShow
    BY <2>4, OtherBlockKeeps DEF RunShow, Runs
  <2>5. CASE RunDismiss
    BY <2>5, OtherBlockKeeps DEF RunDismiss, Runs
  <2> QED
    BY <1>8, <2>1, <2>2, <2>3, <2>4, <2>5 DEF RunBlock
<1>9. ASSUME UNCHANGED <<server, net, queue, list, map, covered, since, results>>
      PROVE  IInv'
  BY <1>9 DEF IInv, Typed, AnswersAreGiven, ListIsAnAnswer, MapIsARoute,
              ListIsRecent, Fetching
<1>10. CASE ClosePopup
  BY <1>9, <1>10 DEF ClosePopup
<1>11. CASE FadeOut
  BY <1>9, <1>11 DEF FadeOut
<1>12. CASE UNCHANGED vars
  BY <1>9, <1>12 DEF vars
<1> QED
  BY <1>1, <1>2, <1>3, <1>4, <1>5, <1>6, <1>7, <1>8, <1>10, <1>11, <1>12
  DEF Next
-----------------------------------------------------------------------------
(* Types *)

\* What no step reads of the rest of the screen.
Shown ==
    /\ hud \in BOOLEAN
    /\ fades \in Nat
    /\ popup \in Int \cup {NoId}
    /\ covered \in BOOLEAN
    /\ results \subseteq BOOLEAN

\* A block that runs is one of those that the invariant is about.
LEMMA HeadIs ==
    ASSUME IInv, queue # <<>>
    PROVE  Carries(Head(queue), since, server)
  BY TailIs DEF IInv, Typed, AnswersAreGiven

\* Across every step what is shown keeps its type.
LEMMA NextShown == IInv /\ Shown /\ [Next]_vars => Shown'
<1> SUFFICES ASSUME IInv, Shown, [Next]_vars PROVE Shown'
  OBVIOUS
<1>1. CASE viewWillAppear
  BY <1>1 DEF viewWillAppear, Overlap, Shown
<1>2. ASSUME NEW i \in DOMAIN list, SelectRow(i) PROVE Shown'
  BY <1>2 DEF SelectRow, Shown
<1>3. ASSUME NEW i \in DOMAIN map, SelectAnnotation(i) PROVE Shown'
  BY <1>3 DEF SelectAnnotation, Shown
<1>4. CASE TapIssue
  BY <1>4 DEF TapIssue, Shown
<1>5. CASE ClosePopup
  BY <1>5 DEF ClosePopup, Shown
<1>6. CASE ServerChanges
  BY <1>6 DEF ServerChanges, Shown
<1>7. ASSUME NEW q \in net, Serve(q) \/ Complete(q) PROVE Shown'
  BY <1>7 DEF Serve, Complete, Shown
<1>8. CASE RunRoutes
  <2>1. results' = results \cup {Head(queue).ok}
    BY <1>8, Zenon DEF RunRoutes
  <2>2. Head(queue).ok \in BOOLEAN
    BY <1>8, HeadIs DEF RunRoutes, Runs, Carries
  <2>3. UNCHANGED <<hud, fades, popup, covered>>
    BY <1>8 DEF RunRoutes
  <2> QED
    BY <2>1, <2>2, <2>3 DEF Shown
<1>9. CASE RunStop
  <2>1. Head(queue).stop \in Int \cup {NoId}
    BY <1>9, HeadIs DEF RunStop, Runs, Carries
  <2>2. popup' = Head(queue).stop \/ popup' = popup
    BY <1>9 DEF RunStop
  <2>3. UNCHANGED <<hud, fades, covered, results>>
    BY <1>9 DEF RunStop
  <2> QED
    BY <2>1, <2>2, <2>3 DEF Shown
<1>10. CASE RunIssue
  BY <1>10 DEF RunIssue, Shown
<1>11. CASE RunShow
  BY <1>11 DEF RunShow, Shown
<1>12. CASE RunDismiss
  BY <1>12 DEF RunDismiss, Shown
<1>13. CASE FadeOut
  <2>1. hud' = FALSE /\ UNCHANGED <<popup, covered, results>>
    BY <1>13, Zenon DEF FadeOut
  <2>2. hud' \in BOOLEAN
    BY <2>1, Zenon
  <2>3. fades' \in Nat
    BY <1>13 DEF FadeOut, Shown
  <2> QED
    BY <2>1, <2>2, <2>3 DEF Shown
<1>14. CASE UNCHANGED vars
  BY <1>14 DEF vars, Shown
<1> QED
  BY <1>1, <1>2, <1>3, <1>4, <1>5, <1>6, <1>7, <1>8, <1>9, <1>10, <1>11,
     <1>12, <1>13, <1>14 DEF Next, RunBlock

\* The two invariants give every variable its type.
LEMMA TypesFollow == IInv /\ Shown => TypeOK
<1> SUFFICES ASSUME IInv, Shown PROVE TypeOK
  OBVIOUS
<1>1. server \in DOMAIN Answers /\ since \in 1..server
  BY DEF IInv, Typed
<1>2. net \subseteq Request
  BY DEF IInv, AnswersAreGiven, Handled
<1>3. \A i \in DOMAIN queue :
         queue[i].kind \in {"show", "dismiss", "routes", "stop", "issue"}
  BY DEF IInv, AnswersAreGiven, Carries
<1>4. \A i \in DOMAIN list : DOMAIN list[i] = {"route", "annotations"}
  <2>1. CASE list = <<>>
    BY <2>1
  <2>2. CASE \E v \in 1..server : list = RoutesVM(Answers[v])
    BY <2>2, AnswerIs
  <2> QED
    BY <2>1, <2>2 DEF IInv, ListIsAnAnswer
<1>5. \A i \in DOMAIN map : map[i].at # NoPoint
  BY <1>1, MapIs, ScreenAssumption DEF IInv, Annotation
<1> QED
  BY <1>1, <1>2, <1>3, <1>4, <1>5 DEF Shown, TypeOK
-----------------------------------------------------------------------------
(* Theorems *)

\* The inductive invariant is an invariant of the screen.
THEOREM InvariantHolds == Spec => []IInv
  BY InitIInv, NextIInv, PTL DEF Spec

\* Every variable has its type: what an alert or a request is about comes from
\* the map, where every annotation has a place.
THEOREM TypeCorrect == Spec => []TypeOK
<1>1. Init => Shown
  <2> SUFFICES ASSUME Init PROVE Shown
    OBVIOUS
  <2>1. hud \in BOOLEAN /\ covered \in BOOLEAN
    BY Zenon DEF Init
  <2>2. fades \in Nat /\ popup \in Int \cup {NoId} /\ results \subseteq BOOLEAN
    BY DEF Init
  <2> QED
    BY <2>1, <2>2 DEF Shown
<1>2. Spec => [](IInv /\ Shown)
  BY <1>1, InitIInv, NextIInv, NextShown, PTL DEF Spec
<1> QED
  BY <1>2, TypesFollow, PTL

\* Once a fetch has succeeded the list is an answer given since the first of the
\* fetches that overlap it was made, in whatever order they are answered and
\* whichever fail, and a list on screen has been fetched.
THEOREM ListIsFresh == Spec => []ListIsRecent
  BY InvariantHolds, PTL DEF IInv

\* The list is always what one whole answer of the server makes it, and the map
\* shows the points of one route of one answer: an answer that comes late, or
\* for another request, never mixes two of them.
THEOREM ListAndMapAreWhole == Spec => [](ListIsAnAnswer /\ MapIsARoute)
  BY InvariantHolds, PTL DEF IInv

\* The map shows nothing or exactly one route that the server has announced:
\* both ends, and between them every placed stop in its place, whatever the
\* list has been refreshed to since that route was selected.
THEOREM MapShowsOneAnnounced == Spec => []MapShowsOneRoute
<1>1. IInv => MapShowsOneRoute
  <2>1. ASSUME NEW v \in 1..server, server \in DOMAIN Answers,
               NEW i \in DOMAIN Answers[v]
        PROVE  IsMapOf(Answers[v][i], Points(Answers[v][i]))
    <3>1. Answers[v] \in Seq(RouteAPI)
      BY <2>1, ScreenAssumption
    <3>2. Answers[v][i] \in RouteAPI
      BY <2>1, <3>1
    <3> QED
      BY <3>2, PointsAreTheMap
  <2> QED
    BY <2>1 DEF IInv, Typed, MapIsARoute, MapShowsOneRoute
<1> QED
  BY <1>1, InvariantHolds, PTL
=============================================================================

------------------------- MODULE ListChangesProofs --------------------------
(***************************************************************************)
(* Proofs about ListChanges, and about the index sets and the builder it    *)
(* is made of: the changes of a log and the accumulated ones explain the    *)
(* list, for lists of any length, any number of edits in a log and of logs  *)
(* that are merged before the observers are called; and of one move, what   *)
(* key-value observers are told.                                            *)
(*                                                                          *)
(* Everything is said in terms of rows.  A row that is neither deleted nor  *)
(* inserted is at the same rank among those that are not (Kept: unshift of  *)
(* both positions is equal), and a row Came from a position when it was     *)
(* kept or moved from there.  Of each operation of the builder it is shown  *)
(* where rows come from afterwards: an edit follows the list (Follows), a   *)
(* move that is undone is a row that is kept (CleanFits), and merge is the  *)
(* composition (MergeFits).  The inductive invariant (IInv) then needs no   *)
(* more than the lists the two sets of changes lead between.                *)
(*                                                                          *)
(* What holds at every position, or after every move clean_up_stale_moves   *)
(* looks at, is shown of the least one for which it would not (LeastIs):    *)
(* the recursion is a function, and so a value like any other.              *)
(***************************************************************************)
EXTENDS ListChanges, FiniteSetTheorems, SequenceTheorems, TLAPS

(* Positions that are counted *)

\* A set of numbers that is not empty has a least one.
LEMMA LeastIs ==
    ASSUME NEW T \in SUBSET Nat, T # {}
    PROVE  \E k \in T : \A m \in T : k <= m
<1>1. \E k \in T : \A m \in T : ~ (<<m, k>> \in OpToRel(<, Nat))
  BY NatLessThanWellFounded, WFMin, Zenon
<1>2. PICK k \in T : \A m \in T : ~ (<<m, k>> \in OpToRel(<, Nat))
  BY <1>1
<1>3. \A m \in T : <<m, k>> \in Nat \X Nat
  OBVIOUS
<1>4. \A m \in T : ~ (m < k)
  BY <1>2, <1>3, Zenon DEF OpToRel
<1> QED
  BY <1>4

\* unshift counts the positions outside a set: one more position is one more,
\* unless it is in the set.
LEMMA CountNext ==
    ASSUME NEW S \in SUBSET Nat
    PROVE  /\ unshift(S, 0) = 0
           /\ \A k \in Nat :
                 /\ unshift(S, k) \in Int
                 /\ unshift(S, k + 1) = IF k \in S THEN unshift(S, k)
                                        ELSE unshift(S, k) + 1
<1> DEFINE Below(k) == {x \in S : 0 <= x /\ x < k}
<1>1. Below(0) = {}
  <2>1. \A x \in S : ~(0 <= x /\ x < 0)
    OBVIOUS
  <2> QED
    BY <2>1
<1>2. ASSUME NEW k \in Nat
      PROVE  /\ Cardinality(Below(k)) \in Nat
             /\ Cardinality(Below(k + 1)) =
                   IF k \in S THEN Cardinality(Below(k)) + 1
                   ELSE Cardinality(Below(k))
  <2>1. Below(k) \in SUBSET (0 .. k) /\ IsFiniteSet(0 .. k)
    <3>1. \A x \in S : 0 <= x /\ x < k => x \in 0 .. k
      OBVIOUS
    <3>2. Below(k) \in SUBSET (0 .. k)
      BY <3>1
    <3> QED
      BY <3>2, FS_Interval
  <2>2. k \notin Below(k)
    OBVIOUS
  <2>3. Below(k + 1) = IF k \in S THEN Below(k) \cup {k} ELSE Below(k)
    <3>1. \A x \in S : 0 <= x /\ x < k + 1 <=> (0 <= x /\ x < k) \/ x = k
      OBVIOUS
    <3> QED
      BY <3>1
  <2> HIDE DEF Below
  <2>4. IsFiniteSet(Below(k)) /\ Cardinality(Below(k)) \in Nat
    BY <2>1, FS_Subset, FS_CardinalityType
  <2> QED
    BY <2>2, <2>3, <2>4, FS_AddElement
<1>3. \A k : unshift(S, k) = k - Cardinality(Below(k))
  BY DEF unshift, count
<1>4. unshift(S, 0) = 0
  BY <1>1, <1>3, FS_EmptySet
<1>5. ASSUME NEW k \in Nat
      PROVE  /\ unshift(S, k) \in Int
             /\ unshift(S, k + 1) = IF k \in S THEN unshift(S, k)
                                    ELSE unshift(S, k) + 1
  <2>1. /\ unshift(S, k) = k - Cardinality(Below(k))
        /\ unshift(S, k + 1) = (k + 1) - Cardinality(Below(k + 1))
    BY <1>3
  <2> HIDE DEF Below
  <2> QED
    BY <1>2, <2>1
<1> QED
  BY <1>4, <1>5

\* It grows with the position, by no more than the position.
LEMMA CountGrows ==
    ASSUME NEW S \in SUBSET Nat, NEW a \in Nat, NEW b \in Nat, a <= b
    PROVE  /\ unshift(S, a) \in Nat /\ unshift(S, b) \in Nat
           /\ unshift(S, a) <= unshift(S, b)
           /\ unshift(S, b) - unshift(S, a) <= b - a
           /\ a < b /\ a \notin S => unshift(S, a) < unshift(S, b)
<1> DEFINE u(k) == unshift(S, k)
           Ok(k) == /\ u(a) <= u(k) /\ u(k) - u(a) <= k - a
                    /\ a < k /\ a \notin S => u(a) < u(k)
           Zero(k) == u(k) >= 0
           T == {k \in Nat : k >= a /\ ~Ok(k)}
           Z == {k \in Nat : ~Zero(k)}
<1>0. /\ u(0) = 0
      /\ \A k \in Nat : u(k) \in Int /\ u(k + 1) = IF k \in S THEN u(k) ELSE u(k) + 1
  BY CountNext
<1> HIDE DEF u
<1>1. Z = {}
  <2> SUFFICES ASSUME Z # {} PROVE FALSE
    OBVIOUS
  <2>1. PICK k \in Z : \A m \in Z : k <= m
    BY LeastIs
  <2>2. k # 0
    BY <1>0
  <2>3. k - 1 \in Nat /\ k - 1 \notin Z /\ (k - 1) + 1 = k
    BY <2>1, <2>2
  <2> QED
    BY <1>0, <2>1, <2>3
<1>2. T = {}
  <2> SUFFICES ASSUME T # {} PROVE FALSE
    OBVIOUS
  <2>1. PICK k \in T : \A m \in T : k <= m
    BY LeastIs
  <2>2. k # a
    BY <1>0
  <2>3. k - 1 \in Nat /\ k - 1 >= a /\ k - 1 \notin T /\ (k - 1) + 1 = k
    BY <2>1, <2>2
  <2>4. Ok(k - 1)
    BY <2>3
  <2>5. u(k) = IF k - 1 \in S THEN u(k - 1) ELSE u(k - 1) + 1
    BY <1>0, <2>3
  <2>6. u(k) \in Int /\ u(k - 1) \in Int /\ u(a) \in Int
    BY <1>0, <2>3
  <2>7. Ok(k)
    <3>1. CASE k - 1 = a
      BY <2>4, <2>5, <2>6, <3>1
    <3>2. CASE k - 1 # a
      BY <2>3, <2>4, <2>5, <2>6, <3>2
    <3> QED
      BY <3>1, <3>2
  <2> QED
    BY <2>1, <2>7
<1>3. Ok(b) /\ Zero(a) /\ Zero(b)
  BY <1>1, <1>2
<1> QED
  BY <1>0, <1>3 DEF u

\* Positions outside the set are told apart, and are in order.
LEMMA CountOrders ==
    ASSUME NEW S \in SUBSET Nat, NEW a \in Nat \ S, NEW b \in Nat \ S
    PROVE  /\ unshift(S, a) \in Nat
           /\ a < b <=> unshift(S, a) < unshift(S, b)
           /\ a = b <=> unshift(S, a) = unshift(S, b)
<1>1. a < b => unshift(S, a) < unshift(S, b)
  BY CountGrows
<1>2. b < a => unshift(S, b) < unshift(S, a)
  BY CountGrows
<1>3. unshift(S, a) \in Nat /\ unshift(S, b) \in Nat
  BY CountGrows
<1> QED
  BY <1>1, <1>2, <1>3

\* Past a finite set all of it has been left out.
LEMMA CountAll ==
    ASSUME NEW S \in SUBSET Nat, NEW n \in Nat, \A x \in S : x < n
    PROVE  /\ IsFiniteSet(S) /\ Cardinality(S) \in Nat
           /\ unshift(S, n) = n - Cardinality(S)
<1>0. \A x \in S : 0 <= x /\ x < n /\ x \in 0 .. n
  OBVIOUS
<1>1. {x \in S : 0 <= x /\ x < n} = S
  BY <1>0
<1>2. S \in SUBSET (0 .. n) /\ IsFiniteSet(0 .. n)
  BY <1>0, FS_Interval
<1>3. IsFiniteSet(S) /\ Cardinality(S) \in Nat
  BY <1>2, FS_Subset, FS_CardinalityType
<1> QED
  BY <1>1, <1>3 DEF unshift, count

\* shift finds the position outside a set that has a given count, the only one.
LEMMA ShiftIs ==
    ASSUME NEW S \in SUBSET Nat, IsFiniteSet(S), NEW r \in Nat
    PROVE  /\ shift(S, r) \in Nat \ S
           /\ unshift(S, shift(S, r)) = r
           /\ \A k \in Nat \ S : unshift(S, k) = r => k = shift(S, r)
<1> DEFINE n == Cardinality(S)
           T == {k \in Nat : unshift(S, k + 1) > r}
           c(k) == count(S, 0, k)
<1>1. n \in Nat
  BY FS_CardinalityType
<1>2. ASSUME NEW k \in Nat
      PROVE  /\ c(k) \in 0 .. n /\ unshift(S, k) = k - c(k)
             /\ unshift(S, k) \in Nat
             /\ unshift(S, k + 1) = IF k \in S THEN unshift(S, k)
                                    ELSE unshift(S, k) + 1
  <2>1. {x \in S : 0 <= x /\ x < k} \in SUBSET S
    OBVIOUS
  <2>2. c(k) \in 0 .. n
    BY <1>1, <2>1, FS_Subset, FS_CardinalityType DEF count
  <2>3. unshift(S, k) = k - c(k)
    BY DEF unshift
  <2>4. unshift(S, k) \in Nat
    BY CountGrows
  <2> QED
    BY <2>2, <2>3, <2>4, CountNext
<1>3. n + r \in T
  <2>1. n + r + 1 \in Nat /\ n + r \in Nat
    BY <1>1
  <2>2. c(n + r + 1) <= n /\ unshift(S, n + r + 1) = n + r + 1 - c(n + r + 1)
        /\ c(n + r + 1) \in Nat
    BY <1>1, <1>2, <2>1
  <2> HIDE DEF n, c
  <2>3. unshift(S, n + r + 1) > r
    BY <1>1, <2>1, <2>2
  <2> QED
    BY <2>1, <2>3
<1>4. PICK k \in T : \A m \in T : k <= m
  BY <1>3, LeastIs
<1>5. unshift(S, k) <= r
  <2>1. CASE k = 0
    BY <2>1, CountNext
  <2>2. CASE k # 0
    <3>1. k - 1 \in Nat /\ (k - 1) + 1 = k /\ k - 1 \notin T
      BY <1>4, <2>2
    <3> QED
      BY <1>2, <3>1
  <2> QED
    BY <2>1, <2>2
<1>6. k \in Nat \ S /\ unshift(S, k) = r
  <2>1. k \in Nat /\ unshift(S, k + 1) > r
    BY <1>4
  <2>2. unshift(S, k) \in Nat /\ unshift(S, k + 1) = IF k \in S THEN unshift(S, k)
                                    ELSE unshift(S, k) + 1
    BY <1>2, <2>1
  <2> QED
    BY <1>5, <2>1, <2>2
<1>7. k \in r .. r + n /\ k \notin S /\ k - count(S, 0, k) = r
  <2>1. c(k) \in 0 .. n /\ unshift(S, k) = k - c(k)
    BY <1>2, <1>6
  <2> HIDE DEF n
  <2> QED
    BY <1>1, <1>6, <2>1
<1>8. /\ shift(S, r) \in r .. r + n /\ shift(S, r) \notin S
      /\ shift(S, r) - count(S, 0, shift(S, r)) = r
  BY <1>7 DEF shift
<1>9. shift(S, r) \in Nat \ S /\ unshift(S, shift(S, r)) = r
  BY <1>1, <1>8 DEF unshift
<1> QED
  BY <1>9, CountOrders

\* S holds of the positions from a to e what T holds of those from b.
SameFrom(S, a, e, T, b) ==
    \A x, y \in Nat : a <= x /\ x < e /\ x - a = y - b => (x \in S <=> y \in T)

\* Then they count the same of them.
LEMMA CountSameFrom ==
    ASSUME NEW S \in SUBSET Nat, NEW T \in SUBSET Nat,
           NEW a \in Nat, NEW e \in Nat, NEW b \in Nat, NEW f \in Nat,
           a <= e, e - a = f - b, SameFrom(S, a, e, T, b)
    PROVE  unshift(S, e) - unshift(S, a) = unshift(T, f) - unshift(T, b)
<1> DEFINE Same(m) == unshift(S, a + m) - unshift(S, a)
                         = unshift(T, b + m) - unshift(T, b)
           Bad == {m \in Nat : m <= e - a /\ ~Same(m)}
<1>0. SUFFICES ASSUME ~Same(e - a) PROVE FALSE
  <2>1. a + (e - a) = e /\ b + (e - a) = f
    OBVIOUS
  <2> QED
    BY <2>1
<1>1. Bad # {}
  <2>1. e - a \in Nat /\ e - a <= e - a
    OBVIOUS
  <2> HIDE DEF Same
  <2> QED
    BY <1>0, <2>1
<1>2. PICK m \in Bad : \A k \in Bad : m <= k
  <2> Bad \in SUBSET Nat
    OBVIOUS
  <2> HIDE DEF Bad
  <2> QED
    BY <1>1, LeastIs
<1>3. \A x \in Nat : unshift(S, x) \in Nat /\ unshift(T, x) \in Nat
  BY CountGrows
<1>4. m # 0
  BY <1>2, <1>3
<1>5. /\ m - 1 \in Nat /\ m - 1 < e - a /\ Same(m - 1)
      /\ a + m = (a + (m - 1)) + 1 /\ b + m = (b + (m - 1)) + 1
      /\ a + (m - 1) \in Nat /\ b + (m - 1) \in Nat
  BY <1>2, <1>4
<1>6. a + (m - 1) \in S <=> b + (m - 1) \in T
  <2>1. /\ a <= a + (m - 1) /\ a + (m - 1) < e
        /\ (a + (m - 1)) - a = (b + (m - 1)) - b
    BY <1>5
  <2> QED
    BY <1>5, <2>1 DEF SameFrom
<1>7. /\ unshift(S, a + m) = IF a + (m - 1) \in S THEN unshift(S, a + (m - 1))
                             ELSE unshift(S, a + (m - 1)) + 1
      /\ unshift(T, b + m) = IF b + (m - 1) \in T THEN unshift(T, b + (m - 1))
                             ELSE unshift(T, b + (m - 1)) + 1
  <2>1. \A k \in Nat :
           /\ unshift(S, k + 1) = IF k \in S THEN unshift(S, k)
                                  ELSE unshift(S, k) + 1
           /\ unshift(T, k + 1) = IF k \in T THEN unshift(T, k)
                                  ELSE unshift(T, k) + 1
    BY CountNext
  <2> QED
    BY <1>5, <2>1
<1>8. Same(m)
  <2>1. /\ unshift(S, a + (m - 1)) \in Nat /\ unshift(S, a) \in Nat
        /\ unshift(T, b + (m - 1)) \in Nat /\ unshift(T, b) \in Nat
    BY <1>3, <1>5
  <2>2. unshift(S, a + (m - 1)) - unshift(S, a)
           = unshift(T, b + (m - 1)) - unshift(T, b)
    BY <1>5
  <2> QED
    BY <1>6, <1>7, <2>1, <2>2
<1> QED
  BY <1>2, <1>8

\* So do two sets that hold the same positions below n.
LEMMA CountSameBelow ==
    ASSUME NEW S \in SUBSET Nat, NEW T \in SUBSET Nat, NEW n \in Nat,
           \A x \in Nat : x < n => (x \in S <=> x \in T)
    PROVE  unshift(S, n) = unshift(T, n)
<1>1. 0 \in Nat /\ 0 <= n /\ n - 0 = n - 0 /\ SameFrom(S, 0, n, T, 0)
  BY DEF SameFrom
<1>2. unshift(S, n) - unshift(S, 0) = unshift(T, n) - unshift(T, 0)
  BY <1>1, CountSameFrom
<1>3. unshift(S, 0) = 0 /\ unshift(T, 0) = 0
  BY CountNext
<1>4. unshift(S, n) \in Nat /\ unshift(T, n) \in Nat
  BY CountGrows
<1> QED
  BY <1>2, <1>3, <1>4

\* Sets of positions: numbers below some number.
Bounded(S) == S \in SUBSET Nat /\ \E n \in Nat : \A x \in S : x < n

\* The position i in the old collection and j in the new one are of one row,
\* which neither the deletions D nor the insertions I name.
Kept(D, I, i, j) == i \notin D /\ j \notin I /\ unshift(D, i) = unshift(I, j)

\* Sets of positions are finite.
LEMMA BoundedIs ==
    ASSUME NEW S, Bounded(S)
    PROVE  S \in SUBSET Nat /\ IsFiniteSet(S)
<1>1. PICK n \in Nat : \A x \in S : x < n
  BY DEF Bounded
<1> QED
  BY <1>1, CountAll DEF Bounded

\* The union of two of them is one.
LEMMA BoundedUnion ==
    ASSUME NEW S, NEW T, Bounded(S), Bounded(T)
    PROVE  Bounded(S \cup T)
<1>1. PICK m \in Nat : \A x \in S : x < m
  BY DEF Bounded
<1>2. PICK n \in Nat : \A x \in T : x < n
  BY DEF Bounded
<1>3. S \in SUBSET Nat /\ T \in SUBSET Nat
  BY DEF Bounded
<1>4. \A x \in S \cup T : x < m + n /\ x \in Nat
  <2>1. \A x \in S : x \in Nat /\ x < m
    BY <1>1, <1>3
  <2>2. \A x \in T : x \in Nat /\ x < n
    BY <1>2, <1>3
  <2> QED
    BY <2>1, <2>2
<1>5. S \cup T \in SUBSET Nat /\ m + n \in Nat
  BY <1>3
<1> QED
  BY <1>4, <1>5 DEF Bounded

\* What is part of one is one.
LEMMA BoundedSubset ==
    ASSUME NEW S, NEW T, Bounded(S), T \subseteq S
    PROVE  Bounded(T)
  BY DEF Bounded

\* So are a single position and none.
LEMMA BoundedSingle ==
    ASSUME NEW x \in Nat
    PROVE  Bounded({x}) /\ Bounded({})
<1>1. x + 1 \in Nat /\ x < x + 1 /\ 0 \in Nat
  OBVIOUS
<1> QED
  BY <1>1 DEF Bounded

\* shift and unshift find the other position of a row that is kept.
LEMMA KeptIsShift ==
    ASSUME NEW D, NEW I, Bounded(D), Bounded(I), NEW j \in Nat \ I
    PROVE  /\ shift(D, unshift(I, j)) \in Nat
           /\ \A i \in Nat : Kept(D, I, i, j) <=> i = shift(D, unshift(I, j))
<1>1. /\ D \in SUBSET Nat /\ IsFiniteSet(D)
      /\ I \in SUBSET Nat
  BY BoundedIs
<1>2. unshift(I, j) \in Nat
  BY <1>1, CountGrows
<1> DEFINE r == unshift(I, j)
           s == shift(D, r)
<1>3. s \in Nat \ D /\ unshift(D, s) = r /\ \A k \in Nat \ D : unshift(D, k) = r => k = s
  BY <1>1, <1>2, ShiftIs
<1> QED
  BY <1>3 DEF Kept

\* Rows that are kept stay in their order.
LEMMA KeptOrders ==
    ASSUME NEW D \in SUBSET Nat, NEW I \in SUBSET Nat,
           NEW i \in Nat, NEW j \in Nat, NEW x \in Nat, NEW y \in Nat,
           Kept(D, I, i, j), Kept(D, I, x, y)
    PROVE  (i < x <=> j < y) /\ (i = x <=> j = y)
<1>1. /\ i < x <=> unshift(D, i) < unshift(D, x)
      /\ i = x <=> unshift(D, i) = unshift(D, x)
  BY CountOrders DEF Kept
<1>2. /\ j < y <=> unshift(I, j) < unshift(I, y)
      /\ j = y <=> unshift(I, j) = unshift(I, y)
  BY CountOrders DEF Kept
<1> QED
  BY <1>1, <1>2 DEF Kept

\* One position more in a set is one less outside it, from there on.
LEMMA CountWith ==
    ASSUME NEW S \in SUBSET Nat, NEW x \in Nat \ S, NEW j \in Nat
    PROVE  unshift(S \cup {x}, j) = IF j <= x THEN unshift(S, j)
                                    ELSE unshift(S, j) - 1
<1> DEFINE T == S \cup {x}
<1>0. T \in SUBSET Nat /\ \A k \in Nat : unshift(S, k) \in Nat /\ unshift(T, k) \in Nat
  BY CountGrows
<1>1. ASSUME NEW k \in Nat, k <= x
      PROVE  unshift(T, k) = unshift(S, k)
  <2>1. \A m \in Nat : m < k => (m \in T <=> m \in S)
    BY <1>1
  <2> QED
    BY <1>0, <2>1, CountSameBelow, Zenon
<1>2. CASE j <= x
  BY <1>1, <1>2
<1>3. CASE ~(j <= x)
  <2>1. /\ x + 1 \in Nat /\ x + 1 <= j /\ j - (x + 1) = j - (x + 1)
        /\ T \in SUBSET Nat
    BY <1>0, <1>3
  <2>2. SameFrom(S, x + 1, j, T, x + 1)
    BY DEF SameFrom
  <2> HIDE DEF T
  <2>3. unshift(S, j) - unshift(S, x + 1) = unshift(T, j) - unshift(T, x + 1)
    BY <2>1, <2>2, CountSameFrom
  <2>4. unshift(S, x + 1) = unshift(S, x) + 1
    BY CountNext
  <2>5. unshift(T, x + 1) = unshift(T, x)
    BY <1>0, CountNext DEF T
  <2>6. unshift(T, x) = unshift(S, x)
    BY <1>1
  <2>8. /\ unshift(S, j) \in Nat /\ unshift(T, j) \in Nat
        /\ unshift(S, x) \in Nat /\ unshift(T, x) \in Nat
    BY <1>0
  <2>9. unshift(T, j) = unshift(S, j) - 1
    BY <2>3, <2>4, <2>5, <2>6, <2>8
  <2> QED
    BY <1>3, <2>9 DEF T
<1> QED
  BY <1>2, <1>3

\* insert_at puts a position in and moves those behind it up.
LEMMA CountInserted ==
    ASSUME NEW S, Bounded(S), NEW index \in Nat
    PROVE  LET T == insert_at(S, index, 1)
           IN  /\ Bounded(T)
               /\ \A j \in Nat :
                     j \in T <=> \/ j = index
                                 \/ j < index /\ j \in S
                                 \/ j > index /\ j - 1 \in S
               /\ \A j \in Nat :
                     unshift(T, j) = IF j <= index THEN unshift(S, j)
                                     ELSE unshift(S, j - 1)
<1> DEFINE T == insert_at(S, index, 1)
<1>1. S \in SUBSET Nat
  BY DEF Bounded
<1>2. index .. index + 1 - 1 = {index}
  OBVIOUS
<1>3. \A j : j \in T <=> \/ j = index
                         \/ j < index /\ j \in S
                         \/ \E x \in S : x >= index /\ j = x + 1
  BY <1>2 DEF insert_at
<1>4. \A j \in Nat : j \in T <=> \/ j = index
                                 \/ j < index /\ j \in S
                                 \/ j > index /\ j - 1 \in S
  <2>1. \A x \in S : x \in Nat
    BY <1>1
  <2>2. ASSUME NEW j \in Nat
        PROVE (\E x \in S : x >= index /\ j = x + 1) <=> j > index /\ j - 1 \in S
    <3>1. ASSUME NEW x \in S, x >= index, j = x + 1
          PROVE  j > index /\ j - 1 \in S
      <4>1. x \in Nat /\ j - 1 = x
        BY <2>1, <3>1
      <4> QED
        BY <3>1, <4>1
    <3>2. ASSUME j > index, j - 1 \in S
          PROVE  \E x \in S : x >= index /\ j = x + 1
      <4>1. j - 1 >= index /\ j = (j - 1) + 1
        BY <3>2
      <4> QED
        BY <3>2, <4>1
    <3> QED
      BY <3>1, <3>2
  <2> HIDE DEF T
  <2> QED
    BY <1>3, <2>2
<1>5. Bounded(T)
  <2>1. PICK n \in Nat : \A x \in S : x < n
    BY DEF Bounded
  <2>2. \A x \in S : x \in Nat
    BY <1>1
  <2>3. ASSUME NEW j \in T PROVE j \in Nat /\ j < n + index + 2
    BY <1>3, <2>1, <2>2
  <2>4. n + index + 2 \in Nat
    OBVIOUS
  <2> HIDE DEF T
  <2> QED
    BY <2>3, <2>4 DEF Bounded
<1> HIDE DEF T
<1>6. T \in SUBSET Nat /\ \A k \in Nat : unshift(S, k) \in Nat /\ unshift(T, k) \in Nat
  BY <1>1, <1>5, CountGrows DEF Bounded
<1>7. ASSUME NEW j \in Nat, j <= index PROVE unshift(T, j) = unshift(S, j)
  <2>1. \A m \in Nat : m < j => (m \in T <=> m \in S)
    BY <1>4, <1>7
  <2> QED
    BY <1>1, <1>6, <2>1, CountSameBelow, Zenon
<1>8. ASSUME NEW j \in Nat, j > index PROVE unshift(T, j) = unshift(S, j - 1)
  <2>1. /\ index + 1 \in Nat /\ j - 1 \in Nat /\ index <= j - 1
        /\ (j - 1) - index = j - (index + 1) /\ T \in SUBSET Nat
    BY <1>6, <1>8
  <2>2. SameFrom(S, index, j - 1, T, index + 1)
    <3> USE DEF SameFrom
    <3> TAKE k, m \in Nat
    <3> HAVE index <= k /\ k < j - 1 /\ k - index = m - (index + 1)
    <3>1. m > index /\ m - 1 = k
      OBVIOUS
    <3> QED
      BY <1>4, <3>1
  <2>3. unshift(S, j - 1) - unshift(S, index) = unshift(T, j) - unshift(T, index + 1)
    BY <1>1, <2>1, <2>2, CountSameFrom
  <2>4. unshift(T, index + 1) = unshift(T, index)
    BY <1>4, <1>6, CountNext
  <2>5. unshift(T, index) = unshift(S, index)
    BY <1>7
  <2>6. unshift(S, j - 1) \in Nat /\ unshift(S, index) \in Nat /\ unshift(T, j) \in Nat
    BY <1>6, <1>8
  <2> QED
    BY <2>3, <2>4, <2>5, <2>6
<1> QED
  BY <1>4, <1>5, <1>7, <1>8 DEF T

\* erase_at takes a position out and moves those behind it down.
LEMMA CountErased ==
    ASSUME NEW S, Bounded(S), NEW index \in Nat
    PROVE  LET T == erase_at(S, index)
           IN  /\ Bounded(T)
               /\ \A j \in Nat :
                     j \in T <=> \/ j < index /\ j \in S
                                 \/ j >= index /\ j + 1 \in S
               /\ \A j \in Nat :
                     unshift(T, j) =
                        IF j <= index THEN unshift(S, j)
                        ELSE IF index \in S THEN unshift(S, j + 1)
                        ELSE unshift(S, j + 1) - 1
<1> DEFINE T == erase_at(S, index)
<1>1. S \in SUBSET Nat
  BY DEF Bounded
<1>3. \A j : j \in T <=> \/ j < index /\ j \in S
                         \/ \E x \in S : x > index /\ j = x - 1
  BY DEF erase_at
<1>4. \A j \in Nat : j \in T <=> \/ j < index /\ j \in S
                                 \/ j >= index /\ j + 1 \in S
  <2>1. \A x \in S : x \in Nat
    BY <1>1
  <2>2. ASSUME NEW j \in Nat
        PROVE (\E x \in S : x > index /\ j = x - 1) <=> j >= index /\ j + 1 \in S
    <3>1. ASSUME NEW x \in S, x > index, j = x - 1
          PROVE  j >= index /\ j + 1 \in S
      <4>1. x \in Nat /\ j + 1 = x
        BY <2>1, <3>1
      <4> QED
        BY <3>1, <4>1
    <3>2. ASSUME j >= index, j + 1 \in S
          PROVE  \E x \in S : x > index /\ j = x - 1
      <4>1. j + 1 > index /\ j = (j + 1) - 1
        BY <3>2
      <4> QED
        BY <3>2, <4>1
    <3> QED
      BY <3>1, <3>2
  <2> HIDE DEF T
  <2> QED
    BY <1>3, <2>2
<1>5. Bounded(T)
  <2>1. PICK n \in Nat : \A x \in S : x < n
    BY DEF Bounded
  <2>2. \A x \in S : x \in Nat
    BY <1>1
  <2>3. ASSUME NEW j \in T PROVE j \in Nat /\ j < n
    BY <1>3, <2>1, <2>2
  <2> HIDE DEF T
  <2> QED
    BY <2>3 DEF Bounded
<1> HIDE DEF T
<1>6. T \in SUBSET Nat /\ \A k \in Nat : unshift(S, k) \in Nat /\ unshift(T, k) \in Nat
  BY <1>1, <1>5, CountGrows DEF Bounded
<1>7. ASSUME NEW j \in Nat, j <= index PROVE unshift(T, j) = unshift(S, j)
  <2>1. \A m \in Nat : m < j => (m \in T <=> m \in S)
    BY <1>4, <1>7
  <2> QED
    BY <1>1, <1>6, <2>1, CountSameBelow, Zenon
<1>8. ASSUME NEW j \in Nat, j > index
      PROVE  unshift(T, j) = IF index \in S THEN unshift(S, j + 1)
                             ELSE unshift(S, j + 1) - 1
  <2>1. /\ index + 1 \in Nat /\ j + 1 \in Nat /\ index + 1 <= j + 1
        /\ (j + 1) - (index + 1) = j - index /\ T \in SUBSET Nat
    BY <1>6, <1>8
  <2>2. SameFrom(S, index + 1, j + 1, T, index)
    <3> USE DEF SameFrom
    <3> TAKE k, m \in Nat
    <3> HAVE index + 1 <= k /\ k < j + 1 /\ k - (index + 1) = m - index
    <3>1. m >= index /\ m + 1 = k
      OBVIOUS
    <3> QED
      BY <1>4, <3>1
  <2>3. unshift(S, j + 1) - unshift(S, index + 1) = unshift(T, j) - unshift(T, index)
    BY <1>1, <2>1, <2>2, CountSameFrom
  <2>4. unshift(S, index + 1) = IF index \in S THEN unshift(S, index)
                                ELSE unshift(S, index) + 1
    BY <1>1, CountNext
  <2>5. unshift(T, index) = unshift(S, index)
    BY <1>7
  <2>6. unshift(S, j + 1) \in Nat /\ unshift(S, index) \in Nat /\ unshift(T, j) \in Nat
    BY <1>6, <1>8
  <2> QED
    BY <2>3, <2>4, <2>5, <2>6
<1> QED
  BY <1>4, <1>5, <1>7, <1>8 DEF T

-----------------------------------------------------------------------------
(* Rows that are kept *)

\* A deletion with an insertion at the other position of a kept row is that row
\* no longer kept; nothing else changes.
LEMMA KeptWithout ==
    ASSUME NEW D \in SUBSET Nat, NEW I \in SUBSET Nat,
           NEW a \in Nat, NEW b \in Nat, Kept(D, I, a, b)
    PROVE  /\ unshift(D \cup {a}, a) = unshift(I \cup {b}, b)
           /\ \A i, j \in Nat :
                 Kept(D \cup {a}, I \cup {b}, i, j)
                    <=> Kept(D, I, i, j) /\ ~(i = a /\ j = b)
<1>1. a \in Nat \ D /\ b \in Nat \ I /\ unshift(D, a) = unshift(I, b)
  BY DEF Kept
<1>2. \A k \in Nat : /\ unshift(D \cup {a}, k) = IF k <= a THEN unshift(D, k)
                                                 ELSE unshift(D, k) - 1
                     /\ unshift(I \cup {b}, k) = IF k <= b THEN unshift(I, k)
                                                 ELSE unshift(I, k) - 1
  BY <1>1, CountWith
<1>3. unshift(D \cup {a}, a) = unshift(I \cup {b}, b)
  <2>1. unshift(D \cup {a}, a) = unshift(D, a)
    <3>1. unshift(D \cup {a}, a) = IF a <= a THEN unshift(D, a)
                                    ELSE unshift(D, a) - 1
      BY <1>2, Zenon
    <3> QED
      BY <3>1
  <2>2. unshift(I \cup {b}, b) = unshift(I, b)
    <3>1. unshift(I \cup {b}, b) = IF b <= b THEN unshift(I, b)
                                    ELSE unshift(I, b) - 1
      BY <1>2, Zenon
    <3> QED
      BY <3>1
  <2> QED
    BY <1>1, <2>1, <2>2
<1>4. ASSUME NEW i \in Nat, NEW j \in Nat
      PROVE  Kept(D \cup {a}, I \cup {b}, i, j)
                <=> Kept(D, I, i, j) /\ ~(i = a /\ j = b)
  <2>1. CASE i \notin D /\ j \notin I /\ i # a /\ j # b
    <3>1. /\ unshift(D, i) \in Nat /\ unshift(D, a) \in Nat
          /\ i < a <=> unshift(D, i) < unshift(D, a)
          /\ i = a <=> unshift(D, i) = unshift(D, a)
      BY <1>1, <2>1, CountOrders
    <3>2. /\ unshift(I, j) \in Nat /\ unshift(I, b) \in Nat
          /\ j < b <=> unshift(I, j) < unshift(I, b)
          /\ j = b <=> unshift(I, j) = unshift(I, b)
      BY <1>1, <2>1, CountOrders
    <3>3. /\ unshift(D \cup {a}, i) = IF i <= a THEN unshift(D, i)
                                      ELSE unshift(D, i) - 1
          /\ unshift(I \cup {b}, j) = IF j <= b THEN unshift(I, j)
                                      ELSE unshift(I, j) - 1
      BY <1>2
    <3>4. unshift(D \cup {a}, i) = unshift(I \cup {b}, j)
             <=> unshift(D, i) = unshift(I, j)
      BY <1>1, <2>1, <3>1, <3>2, <3>3
    <3> QED
      BY <2>1, <3>4 DEF Kept
  <2>2. CASE i \in D \/ j \in I
    BY <2>2 DEF Kept
  <2>3. CASE i = a \/ j = b
    <3>1. Kept(D, I, i, j) => i = a /\ j = b
      BY <2>3, KeptOrders
    <3> QED
      BY <2>3, <3>1 DEF Kept
  <2> QED
    BY <2>1, <2>2, <2>3
<1> QED
  BY <1>3, <1>4

\* Where a row was before another was inserted, or erased, at an index.
Before(j, index) == IF j < index THEN j ELSE j - 1
Behind(j, index) == IF j < index THEN j ELSE j + 1

\* An insertion moves the rows that are kept, and nothing else.
LEMMA KeptInserted ==
    ASSUME NEW D, NEW I, Bounded(D), Bounded(I), NEW index \in Nat
    PROVE  \A i, j \in Nat :
              Kept(D, insert_at(I, index, 1), i, j)
                 <=> j # index /\ Kept(D, I, i, Before(j, index))
<1> DEFINE T == insert_at(I, index, 1)
<1>1. /\ \A j \in Nat :
            j \in T <=> \/ j = index
                        \/ j < index /\ j \in I
                        \/ j > index /\ j - 1 \in I
      /\ \A j \in Nat :
            unshift(T, j) = IF j <= index THEN unshift(I, j)
                            ELSE unshift(I, j - 1)
  BY CountInserted, Zenon
<1> HIDE DEF T
<1>2. ASSUME NEW i \in Nat, NEW j \in Nat
      PROVE  Kept(D, T, i, j) <=> j # index /\ Kept(D, I, i, Before(j, index))
  <2>1. CASE j = index
    BY <1>1, <2>1 DEF Kept
  <2>2. CASE j < index
    BY <1>1, <2>2 DEF Kept, Before
  <2>3. CASE j > index
    BY <1>1, <2>3 DEF Kept, Before
  <2> QED
    BY <2>1, <2>2, <2>3
<1> QED
  BY <1>2 DEF T

\* So does the end of a row that was inserted.
LEMMA KeptForgotten ==
    ASSUME NEW D, NEW I, Bounded(D), Bounded(I), NEW index \in I
    PROVE  \A i, j \in Nat :
              Kept(D, erase_at(I, index), i, j) <=> Kept(D, I, i, Behind(j, index))
<1> DEFINE T == erase_at(I, index)
<1>0. index \in Nat /\ I \in SUBSET Nat
  BY DEF Bounded
<1>1. /\ \A j \in Nat :
            j \in T <=> \/ j < index /\ j \in I
                        \/ j >= index /\ j + 1 \in I
      /\ \A j \in Nat :
            unshift(T, j) = IF j <= index THEN unshift(I, j)
                            ELSE IF index \in I THEN unshift(I, j + 1)
                            ELSE unshift(I, j + 1) - 1
  BY <1>0, CountErased, Zenon
<1>2. unshift(I, index + 1) = unshift(I, index)
  BY <1>0, CountNext
<1> HIDE DEF T
<1>3. ASSUME NEW i \in Nat, NEW j \in Nat
      PROVE  Kept(D, T, i, j) <=> Kept(D, I, i, Behind(j, index))
  <2>1. CASE j = index
    BY <1>0, <1>1, <1>2, <2>1 DEF Kept, Behind
  <2>2. CASE j < index
    BY <1>0, <1>1, <2>2 DEF Kept, Behind
  <2>3. CASE j > index
    BY <1>0, <1>1, <2>3 DEF Kept, Behind
  <2> QED
    BY <1>0, <2>1, <2>2, <2>3
<1> QED
  BY <1>3 DEF T

\* The deletions after the row at an index goes away.
DeletedAt(D, I, index) ==
    IF index \in I THEN D ELSE D \cup {shift(D, unshift(I, index))}

\* erase deletes the position the erased row had in the old list, when it had one.
LEMMA DeletedAtIs ==
    ASSUME NEW D, NEW I, Bounded(D), Bounded(I), NEW index \in Nat
    PROVE  /\ Bounded(DeletedAt(D, I, index)) /\ D \subseteq DeletedAt(D, I, index)
           /\ index \notin I =>
                 Kept(D, I, shift(D, unshift(I, index)), index)
                    /\ shift(D, unshift(I, index)) \in Nat
<1> DEFINE a == shift(D, unshift(I, index))
<1>1. CASE index \in I
  BY <1>1 DEF DeletedAt
<1>2. CASE index \notin I
  <2>1. a \in Nat /\ Kept(D, I, a, index)
    BY <1>2, KeptIsShift
  <2>2. Bounded({a})
    BY <2>1, BoundedSingle
  <2> HIDE DEF a
  <2>3. Bounded(D \cup {a})
    BY <2>2, BoundedUnion
  <2> QED
    BY <1>2, <2>1, <2>3 DEF DeletedAt, a
<1> QED
  BY <1>1, <1>2

\* The rows that are kept when a row is erased are those that were, but that one.
LEMMA KeptErased ==
    ASSUME NEW D, NEW I, Bounded(D), Bounded(I), NEW index \in Nat
    PROVE  \A i, j \in Nat :
              Kept(DeletedAt(D, I, index), erase_at(I, index), i, j)
                 <=> Kept(D, I, i, Behind(j, index))
<1>1. CASE index \in I
  BY <1>1, KeptForgotten DEF DeletedAt
<1>2. CASE index \notin I
  <2> DEFINE a == shift(D, unshift(I, index))
             D1 == D \cup {a}
             I1 == I \cup {index}
  <2>1. a \in Nat /\ Kept(D, I, a, index) /\ Bounded(D1)
    BY <1>2, DeletedAtIs DEF DeletedAt
  <2>2. Bounded(I1) /\ index \in I1
    BY BoundedSingle, BoundedUnion
  <2>3. erase_at(I1, index) = erase_at(I, index)
    <3>1. /\ {x \in I1 : x < index} = {x \in I : x < index}
          /\ {x \in I1 : x > index} = {x \in I : x > index}
      <4>1. \A x : x \in I1 /\ x < index <=> x \in I /\ x < index
        OBVIOUS
      <4>2. \A x : x \in I1 /\ x > index <=> x \in I /\ x > index
        OBVIOUS
      <4> HIDE DEF I1
      <4> QED
        BY <4>1, <4>2
    <3> HIDE DEF I1
    <3> QED
      BY <3>1 DEF erase_at
  <2>4. ASSUME NEW i \in Nat, NEW j \in Nat
        PROVE  Kept(D1, erase_at(I1, index), i, j) <=> Kept(D, I, i, Behind(j, index))
    <3>1. Behind(j, index) \in Nat /\ Behind(j, index) # index
      BY DEF Behind
    <3>2. Kept(D1, erase_at(I1, index), i, j) <=> Kept(D1, I1, i, Behind(j, index))
      <4> HIDE DEF D1, I1
      <4> QED
        BY <2>1, <2>2, KeptForgotten
    <3>3. D \in SUBSET Nat /\ I \in SUBSET Nat
      BY DEF Bounded
    <3>4. Kept(D1, I1, i, Behind(j, index)) <=> Kept(D, I, i, Behind(j, index))
      <4> HIDE DEF a
      <4> QED
        BY <2>1, <3>1, <3>3, KeptWithout
    <3> QED
      BY <3>2, <3>4
  <2> HIDE DEF D1, I1
  <2>5. DeletedAt(D, I, index) = D1
    BY <1>2 DEF DeletedAt, D1
  <2> QED
    BY <2>3, <2>4, <2>5
<1> QED
  BY <1>1, <1>2

\* unshift is how many positions there are outside the set.
LEMMA CountIsOutside ==
    ASSUME NEW S \in SUBSET Nat, NEW k \in Nat
    PROVE  LET O == {x \in 0 .. k - 1 : x \notin S}
           IN  IsFiniteSet(O) /\ unshift(S, k) = Cardinality(O)
<1> DEFINE O(n) == {x \in 0 .. n - 1 : x \notin S}
           Ok(n) == IsFiniteSet(O(n)) /\ unshift(S, n) = Cardinality(O(n))
           Bad == {n \in Nat : ~Ok(n)}
<1>1. SUFFICES ASSUME Bad # {} PROVE FALSE
  <2> HIDE DEF O
  <2>1. Bad = {} => Ok(k)
    OBVIOUS
  <2> QED
    BY <2>1 DEF O
<1>2. PICK n \in Bad : \A m \in Bad : n <= m
  <2> Bad \in SUBSET Nat
    OBVIOUS
  <2> HIDE DEF Bad
  <2> QED
    BY <1>1, LeastIs
<1>3. O(0) = {}
  OBVIOUS
<1>4. n # 0
  <2> HIDE DEF O
  <2> QED
    BY <1>2, <1>3, FS_EmptySet, CountNext
<1>5. /\ n - 1 \in Nat /\ n = (n - 1) + 1
      /\ IsFiniteSet(O(n - 1)) /\ unshift(S, n - 1) = Cardinality(O(n - 1))
  <2> HIDE DEF O
  <2> QED
    BY <1>2, <1>4
<1>6. O(n) = IF n - 1 \in S THEN O(n - 1) ELSE O(n - 1) \cup {n - 1}
  <2>1. n \in Nat /\ n - 1 \in Nat
    BY <1>5
  <2>2. \A x : x \in 0 .. n - 1 <=> x \in 0 .. (n - 1) - 1 \/ x = n - 1
    BY <2>1
  <2>3. \A x : x \in O(n) <=> \/ x \in O(n - 1)
                              \/ x = n - 1 /\ n - 1 \notin S
    BY <2>2
  <2> HIDE DEF O
  <2> QED
    BY <2>3
<1>7. n - 1 \notin O(n - 1)
  BY <1>5
<1>8. unshift(S, n) = IF n - 1 \in S THEN unshift(S, n - 1)
                      ELSE unshift(S, n - 1) + 1
  <2>1. unshift(S, (n - 1) + 1) = IF n - 1 \in S THEN unshift(S, n - 1)
                                  ELSE unshift(S, n - 1) + 1
    BY <1>5, CountNext
  <2> QED
    BY <1>5, <2>1
<1>9. Ok(n)
  <2> HIDE DEF O
  <2>1. CASE n - 1 \in S
    BY <1>5, <1>6, <1>8, <2>1
  <2>2. CASE n - 1 \notin S
    <3>1. /\ IsFiniteSet(O(n - 1) \cup {n - 1})
          /\ Cardinality(O(n - 1) \cup {n - 1}) = Cardinality(O(n - 1)) + 1
      BY <1>5, <1>7, FS_AddElement
    <3> QED
      BY <1>5, <1>6, <1>8, <2>2, <3>1
  <2> QED
    BY <2>1, <2>2
<1> QED
  BY <1>2, <1>9

\* A row is kept one way as it is the other.
LEMMA KeptBothWays ==
    ASSUME NEW D, NEW I, NEW i, NEW j
    PROVE  Kept(D, I, i, j) <=> Kept(I, D, j, i)
  BY DEF Kept

\* X is P and where the rows at R were before P was taken out and Q put in.
Traced(X, P, Q, R) ==
    /\ X \in SUBSET Nat
    /\ \A k \in Nat : k \in X <=> k \in P \/ \E z \in R : Kept(P, Q, k, z)

\* Then as many positions are outside X as are outside Q and R where they lead.
LEMMA TracedCounts ==
    ASSUME NEW P, NEW Q, NEW R, Bounded(P), Bounded(Q), Bounded(R),
           NEW X, Traced(X, P, Q, R),
           NEW k \in Nat \ X, NEW z \in Nat, Kept(P, Q, k, z)
    PROVE  z \notin R /\ unshift(X, k) = unshift(Q \cup R, z)
<1> DEFINE A == {x \in 0 .. k - 1 : x \notin X}
           B == {y \in 0 .. z - 1 : y \notin Q \cup R}
           f == [x \in A |-> shift(Q, unshift(P, x))]
<1>1. P \in SUBSET Nat /\ Q \in SUBSET Nat /\ R \in SUBSET Nat /\ X \in SUBSET Nat
  BY DEF Bounded, Traced
<1>2. \A x \in Nat : x \in X <=> x \in P \/ \E y \in R : Kept(P, Q, x, y)
  BY DEF Traced
<1>3. z \notin R
  BY <1>2
<1>4. ASSUME NEW x \in A
      PROVE  f[x] \in B /\ Kept(P, Q, x, f[x])
  <2>1. x \in Nat /\ x < k /\ x \notin X /\ x \in Nat \ P
    BY <1>2
  <2> DEFINE y == shift(Q, unshift(P, x))
  <2>2. y \in Nat /\ Kept(Q, P, y, x)
    BY <2>1, KeptIsShift
  <2> HIDE DEF y
  <2>3. Kept(P, Q, x, y)
    BY <2>2, KeptBothWays
  <2>4. y < z
    BY <1>1, <2>1, <2>2, <2>3, KeptOrders
  <2>5. y \notin R
    BY <1>2, <2>1, <2>3
  <2>6. y \notin Q
    BY <2>3 DEF Kept
  <2>7. f[x] = y
    BY DEF y
  <2>8. y \in B
    BY <2>2, <2>4, <2>5, <2>6
  <2> HIDE DEF f, B
  <2> QED
    BY <2>3, <2>7, <2>8
<1>5. ASSUME NEW y \in B
      PROVE  \E x \in A : f[x] = y
  <2>1. y \in Nat /\ y < z /\ y \in Nat \ Q /\ y \notin R
    OBVIOUS
  <2> DEFINE x == shift(P, unshift(Q, y))
  <2>2. x \in Nat /\ Kept(P, Q, x, y)
    BY <2>1, KeptIsShift
  <2> HIDE DEF x
  <2>3. x < k
    BY <1>1, <2>1, <2>2, KeptOrders
  <2>4. x \notin X
    <3>1. \A v \in R : v \in Nat /\ (Kept(P, Q, x, v) => v = y)
      BY <1>1, <2>1, <2>2, KeptOrders
    <3> QED
      BY <1>2, <2>1, <2>2, <3>1 DEF Kept
  <2>5. x \in A
    BY <2>2, <2>3, <2>4
  <2>6. f[x] \in B /\ Kept(P, Q, x, f[x])
    BY <1>4, <2>5
  <2>7. f[x] \in Nat
    BY <2>6
  <2> HIDE DEF f, A
  <2>8. f[x] = y
    BY <1>1, <2>1, <2>2, <2>6, <2>7, KeptOrders
  <2> QED
    BY <2>5, <2>8
<1>6. ASSUME NEW x \in A, NEW y \in A, f[x] = f[y]
      PROVE  x = y
  <2>1. x \in Nat /\ y \in Nat
    OBVIOUS
  <2>2. Kept(P, Q, x, f[x]) /\ Kept(P, Q, y, f[x]) /\ f[x] \in Nat
    BY <1>4, <1>6
  <2> HIDE DEF f, A
  <2> QED
    BY <1>1, <2>1, <2>2, KeptOrders
<1>7. f \in [A -> B]
  BY <1>4
<1> HIDE DEF f, A, B
<1>8. f \in Bijection(A, B)
  BY <1>5, <1>6, <1>7 DEF Bijection, Injection, Surjection, IsInjective
<1>9. /\ IsFiniteSet(A) /\ unshift(X, k) = Cardinality(A)
      /\ unshift(Q \cup R, z) = Cardinality(B)
  <2>1. Q \cup R \in SUBSET Nat
    BY <1>1
  <2> QED
    BY <1>1, <2>1, CountIsOutside DEF A, B
<1>10. Cardinality(A) = Cardinality(B)
  BY <1>8, <1>9, FS_Bijection DEF ExistsBijection
<1> QED
  BY <1>3, <1>9, <1>10

\* Changes D1, I1 followed by D2, I2, the deletions traced back to before the
\* first and the insertions traced on to after the second: a row that is kept
\* is kept by both.
LEMMA KeptComposed ==
    ASSUME NEW D1, NEW I1, NEW D2, NEW I2,
           Bounded(D1), Bounded(I1), Bounded(D2), Bounded(I2),
           NEW D, NEW I, Traced(D, D1, I1, D2), Traced(I, I2, D2, I1),
           NEW i \in Nat, NEW j \in Nat
    PROVE  Kept(D, I, i, j) <=>
              /\ i \notin D /\ j \notin I
              /\ \E x \in Nat : Kept(D1, I1, i, x) /\ Kept(D2, I2, x, j)
<1>0. /\ D1 \in SUBSET Nat /\ I1 \in SUBSET Nat /\ D2 \in SUBSET Nat
      /\ I2 \in SUBSET Nat /\ I1 \cup D2 \in SUBSET Nat /\ D2 \cup I1 = I1 \cup D2
  BY DEF Bounded
<1>1. SUFFICES ASSUME i \notin D, j \notin I
      PROVE  unshift(D, i) = unshift(I, j)
                <=> \E x \in Nat : Kept(D1, I1, i, x) /\ Kept(D2, I2, x, j)
  BY DEF Kept
<1>2. i \in Nat \ D1 /\ j \in Nat \ I2
  BY <1>1 DEF Traced
<1> DEFINE y == shift(I1, unshift(D1, i))
           x == shift(D2, unshift(I2, j))
<1>3. y \in Nat /\ Kept(D1, I1, i, y)
  BY <1>2, KeptIsShift, KeptBothWays
<1>4. x \in Nat /\ Kept(D2, I2, x, j) /\ Kept(I2, D2, j, x)
  BY <1>2, KeptIsShift, KeptBothWays
<1> HIDE DEF x, y
<1>5. y \notin D2 /\ unshift(D, i) = unshift(I1 \cup D2, y)
  BY <1>1, <1>3, TracedCounts
<1>6. x \notin I1 /\ unshift(I, j) = unshift(D2 \cup I1, x)
  BY <1>1, <1>4, TracedCounts
<1>7. y \notin I1 /\ x \notin D2
  BY <1>3, <1>4 DEF Kept
<1>8. unshift(D, i) = unshift(I, j) <=> y = x
  <2>1. y \in Nat \ (I1 \cup D2) /\ x \in Nat \ (I1 \cup D2)
    BY <1>3, <1>4, <1>5, <1>6, <1>7
  <2>2. y = x <=> unshift(I1 \cup D2, y) = unshift(I1 \cup D2, x)
    BY <1>0, <2>1, CountOrders
  <2> QED
    BY <1>0, <1>5, <1>6, <2>2
<1>9. ASSUME NEW v \in Nat, Kept(D1, I1, i, v), Kept(D2, I2, v, j)
      PROVE  v = y /\ v = x
  BY <1>0, <1>3, <1>4, <1>9, KeptOrders
<1> QED
  BY <1>3, <1>4, <1>8, <1>9

\* Moves are from a deletion to an insertion, and no two of them share either.
MovesFit(b) ==
    /\ \A k \in DOMAIN b.moves :
          b.moves[k].from \in b.deletions /\ b.moves[k].to \in b.insertions
    /\ \A k, l \in DOMAIN b.moves :
          b.moves[k].from = b.moves[l].from \/ b.moves[k].to = b.moves[l].to
             => k = l

\* The moves and the changes of lists of any length.
MoveType == [from : Nat, to : Nat]

Builder ==
    [deletions : SUBSET Nat, insertions : SUBSET Nat,
     modifications : SUBSET Nat, moves : Seq(MoveType), mapping : {<<>>}]

\* The changes b fit a list of m entries and one of n: the positions are those
\* of entries, and as many are neither deleted nor inserted.
Fits(b, m, n) ==
    /\ b \in Builder /\ m \in Nat /\ n \in Nat
    /\ b.deletions \subseteq 0 .. m - 1
    /\ b.insertions \subseteq 0 .. n - 1
    /\ b.modifications \subseteq 0 .. n - 1
    /\ Kept(b.deletions, b.insertions, m, n)
    /\ MovesFit(b)

\* The row at j came from i: it was kept, or moved.
Came(b, j, i) ==
    Kept(b.deletions, b.insertions, i, j) \/ Move(i, j) \in Moves(b)

\* The changes b lead from the list old to the list new: a row that came from i
\* and is not marked is the row at i.
Leads(b, old, new) ==
    /\ Fits(b, Len(old), Len(new))
    /\ \A j \in Positions(new), i \in Nat :
          Came(b, j, i) => j \in b.modifications \/ new[j + 1] = old[i + 1]

\* The changes c of the list l follow the changes b of the list new: every row
\* that came from somewhere is a row of new, from there, with its mark.
Follows(c, l, b, new) ==
    \A j \in Positions(l), i \in Nat :
       Came(c, j, i) =>
          \E k \in Positions(new) :
             /\ Came(b, k, i) /\ l[j + 1] = new[k + 1]
             /\ j \in c.modifications <=> k \in b.modifications
-----------------------------------------------------------------------------
(* Sequences *)

\* Rest keeps the entries at other positions, each once.
LEMMA RestIs ==
    ASSUME NEW X, NEW s \in Seq(X), NEW gone, gone \subseteq 0 .. Len(s) - 1
    PROVE  LET t == Rest(s, gone)
           IN  /\ t \in Seq(X)
               /\ \E h \in [DOMAIN t -> DOMAIN s] :
                     /\ \A p \in DOMAIN t : h[p] - 1 \notin gone /\ t[p] = s[h[p]]
                     /\ \A p, q \in DOMAIN t : h[p] = h[q] => p = q
<1> DEFINE t == Rest(s, gone)
           n == Len(s)
           u == n - Cardinality(gone)
<1>0. n \in Nat /\ DOMAIN s = 1 .. n
  BY LenProperties
<1>1. gone \in SUBSET Nat /\ \A x \in gone : x < n
  BY <1>0
<1>2. IsFiniteSet(gone) /\ u \in Nat /\ unshift(gone, n) = u
  <2>1. IsFiniteSet(gone) /\ unshift(gone, n) = u
    BY <1>0, <1>1, CountAll
  <2>2. unshift(gone, n) \in Nat
    BY <1>0, <1>1, CountGrows
  <2> QED
    BY <2>1, <2>2
<1> HIDE DEF u, n
<1>3. ASSUME NEW r \in Nat, r < u
      PROVE  /\ shift(gone, r) \in 0 .. n - 1 /\ shift(gone, r) \notin gone
             /\ unshift(gone, shift(gone, r)) = r
  <2> DEFINE k == shift(gone, r)
  <2>1. k \in Nat \ gone /\ unshift(gone, k) = r
    BY <1>1, <1>2, ShiftIs
  <2> HIDE DEF k
  <2>2. k < n
    <3>1. SUFFICES ASSUME n <= k PROVE FALSE
      BY <1>0, <2>1
    <3>2. unshift(gone, n) <= unshift(gone, k)
      BY <1>0, <1>1, <2>1, <3>1, CountGrows
    <3> QED
      BY <1>2, <1>3, <2>1, <3>2
  <2> QED
    BY <1>0, <2>1, <2>2 DEF k
<1> DEFINE h == [p \in 1 .. u |-> shift(gone, p - 1) + 1]
<1>4. ASSUME NEW p \in 1 .. u
      PROVE  /\ h[p] \in DOMAIN s /\ h[p] - 1 = shift(gone, p - 1)
             /\ h[p] - 1 \notin gone /\ unshift(gone, h[p] - 1) = p - 1
  <2>1. p - 1 \in Nat /\ p - 1 < u
    BY <1>2
  <2>2. /\ shift(gone, p - 1) \in 0 .. n - 1 /\ shift(gone, p - 1) \notin gone
        /\ unshift(gone, shift(gone, p - 1)) = p - 1
    BY <1>3, <2>1
  <2>3. h[p] = shift(gone, p - 1) + 1
    OBVIOUS
  <2> HIDE DEF h
  <2>4. h[p] - 1 = shift(gone, p - 1) /\ h[p] \in 1 .. n
    BY <1>0, <2>2, <2>3
  <2> QED
    BY <1>0, <2>2, <2>4
<1>5. t = [p \in 1 .. u |-> s[h[p]]]
  BY DEF Rest, u, n
<1> HIDE DEF t
<1>6. DOMAIN t = 1 .. u /\ \A p \in 1 .. u : t[p] = s[h[p]]
  <2> HIDE DEF h
  <2> QED
    BY <1>5
<1>7. t \in Seq(X)
  <2>1. \A p \in 1 .. u : s[h[p]] \in X
    <3> HIDE DEF h
    <3> QED
      BY <1>0, <1>4, ElementOfSeq
  <2> HIDE DEF h
  <2> QED
    BY <1>2, <1>5, <2>1
<1>8. \A p, q \in 1 .. u : h[p] = h[q] => p = q
  <2> SUFFICES ASSUME NEW p \in 1 .. u, NEW q \in 1 .. u, h[p] = h[q]
               PROVE  p = q
    OBVIOUS
  <2>1. unshift(gone, h[p] - 1) = p - 1 /\ unshift(gone, h[q] - 1) = q - 1
    BY <1>4
  <2> HIDE DEF h
  <2> QED
    BY <1>2, <2>1
<1>9. h \in [DOMAIN t -> DOMAIN s]
  BY <1>4, <1>6
<1> HIDE DEF h
<1>10. \A p \in DOMAIN t : h[p] - 1 \notin gone /\ t[p] = s[h[p]]
  BY <1>4, <1>6
<1>11. \A p, q \in DOMAIN t : h[p] = h[q] => p = q
  BY <1>6, <1>8
<1> QED
  BY <1>7, <1>9, <1>10, <1>11 DEF t

\* An entry is put in.
LEMMA InsertedIs ==
    ASSUME NEW X, NEW l \in Seq(X), NEW i \in 0 .. Len(l), NEW e \in X
    PROVE  LET t == InsertAt(l, i + 1, e)
           IN  /\ t \in Seq(X) /\ Len(t) = Len(l) + 1
               /\ \A j \in 0 .. Len(l) :
                     t[j + 1] = IF j = i THEN e ELSE l[Before(j, i) + 1]
<1> DEFINE n == Len(l)
           head == SubSeq(l, 1, i)
           tail == SubSeq(l, i + 1, n)
           first == head \o <<e>>
           t == InsertAt(l, i + 1, e)
<1>0. n \in Nat /\ DOMAIN l = 1 .. n /\ i \in Nat /\ i <= n
  BY LenProperties
<1>1. \A k \in 1 .. n : l[k] \in X
  BY ElementOfSeq
<1>2. head \in Seq(X) /\ Len(head) = i /\ \A k \in 1 .. i : head[k] = l[k]
  <2>1. 1 \in Int /\ i \in Int /\ \A k \in 1 .. i : l[k] \in X
    BY <1>0, <1>1
  <2>2. /\ head \in Seq(X) /\ Len(head) = IF 1 <= i THEN i - 1 + 1 ELSE 0
        /\ \A k \in 1 .. i - 1 + 1 : head[k] = l[1 + k - 1]
    BY <2>1, SubSeqProperties
  <2> HIDE DEF head
  <2> QED
    BY <1>0, <2>2
<1>3. /\ tail \in Seq(X) /\ Len(tail) = n - i
      /\ \A k \in 1 .. n - i : tail[k] = l[i + k]
  <2>1. i + 1 \in Int /\ n \in Int /\ \A k \in i + 1 .. n : l[k] \in X
    BY <1>0, <1>1
  <2>2. /\ tail \in Seq(X) /\ Len(tail) = IF i + 1 <= n THEN n - (i + 1) + 1 ELSE 0
        /\ \A k \in 1 .. n - (i + 1) + 1 : tail[k] = l[(i + 1) + k - 1]
    BY <2>1, SubSeqProperties
  <2> HIDE DEF tail, n
  <2>3. n - (i + 1) + 1 = n - i /\ \A k \in 1 .. n - i : (i + 1) + k - 1 = i + k
    BY <1>0
  <2>4. Len(tail) = n - i
    BY <1>0, <2>2
  <2> QED
    BY <2>2, <2>3, <2>4
<1> HIDE DEF head, tail
<1>4. /\ first \in Seq(X) /\ Len(first) = i + 1
      /\ \A k \in 1 .. i + 1 : first[k] = IF k <= i THEN l[k] ELSE e
  <2>1. <<e>> \in Seq(X) /\ Len(<<e>>) = 1 /\ <<e>>[1] = e
    OBVIOUS
  <2> DEFINE one == <<e>>
  <2>2. one \in Seq(X) /\ Len(one) = 1 /\ one[1] = e
    BY <2>1
  <2> HIDE DEF one
  <2>3. /\ head \o one \in Seq(X) /\ Len(head \o one) = Len(head) + Len(one)
        /\ \A k \in 1 .. Len(head) + Len(one) :
              (head \o one)[k] = IF k <= Len(head) THEN head[k]
                                 ELSE one[k - Len(head)]
    BY <1>2, <2>2, ConcatProperties, Zenon
  <2>4. first = head \o one
    BY DEF one
  <2> HIDE DEF first
  <2>5. \A k \in 1 .. i + 1 : first[k] = IF k <= i THEN l[k] ELSE e
    <3> TAKE k \in 1 .. i + 1
    <3>1. first[k] = IF k <= i THEN head[k] ELSE one[k - i]
      BY <1>2, <2>2, <2>3, <2>4
    <3>2. k <= i => k \in 1 .. i
      OBVIOUS
    <3>3. ~(k <= i) => k - i = 1
      OBVIOUS
    <3> QED
      BY <1>2, <2>2, <3>1, <3>2, <3>3
  <2> QED
    BY <1>2, <2>2, <2>3, <2>4, <2>5
<1>5. t = first \o tail
  <2>1. (i + 1) - 1 = i
    OBVIOUS
  <2> QED
    BY <2>1 DEF InsertAt, head, tail
<1> HIDE DEF first, t
<1>6. /\ first \o tail \in Seq(X) /\ Len(first \o tail) = Len(first) + Len(tail)
      /\ \A k \in 1 .. Len(first) + Len(tail) :
            (first \o tail)[k] = IF k <= Len(first) THEN first[k]
                                 ELSE tail[k - Len(first)]
  BY <1>3, <1>4, ConcatProperties, Zenon
<1>7. t \in Seq(X) /\ Len(t) = n + 1
  BY <1>0, <1>3, <1>4, <1>5, <1>6
<1>8. ASSUME NEW j \in 0 .. n
      PROVE  t[j + 1] = IF j = i THEN e ELSE l[Before(j, i) + 1]
  <2>1. /\ j + 1 \in 1 .. Len(first) + Len(tail)
        /\ t[j + 1] = IF j <= i THEN first[j + 1] ELSE tail[(j + 1) - (i + 1)]
    BY <1>0, <1>3, <1>4, <1>5, <1>6
  <2>2. CASE j <= i
    <3>1. j + 1 \in 1 .. i + 1 /\ (j + 1 <= i <=> j # i)
      BY <2>2
    <3> QED
      BY <1>4, <2>1, <2>2, <3>1 DEF Before
  <2>3. CASE j > i
    <3>1. (j + 1) - (i + 1) = j - i /\ j - i \in 1 .. n - i /\ i + (j - i) = j
      BY <1>0, <2>3
    <3>2. tail[j - i] = l[j]
      BY <1>3, <3>1
    <3>3. Before(j, i) + 1 = j /\ j # i /\ ~(j <= i)
      BY <2>3 DEF Before
    <3> QED
      BY <2>1, <3>1, <3>2, <3>3
  <2> QED
    BY <2>2, <2>3
<1> QED
  BY <1>7, <1>8 DEF t, n

\* An entry is taken out.
LEMMA ErasedIs ==
    ASSUME NEW X, NEW l \in Seq(X), NEW i \in 0 .. Len(l) - 1
    PROVE  LET t == RemoveAt(l, i + 1)
           IN  /\ t \in Seq(X) /\ Len(t) = Len(l) - 1 /\ Len(t) \in Nat
               /\ \A j \in 0 .. Len(l) - 2 : t[j + 1] = l[Behind(j, i) + 1]
<1> DEFINE n == Len(l)
           head == SubSeq(l, 1, i)
           tail == SubSeq(l, i + 2, n)
           t == RemoveAt(l, i + 1)
<1>0. n \in Nat /\ DOMAIN l = 1 .. n /\ i \in Nat /\ i < n
  BY LenProperties
<1>1. \A k \in 1 .. n : l[k] \in X
  BY ElementOfSeq
<1>2. head \in Seq(X) /\ Len(head) = i /\ \A k \in 1 .. i : head[k] = l[k]
  <2>1. 1 \in Int /\ i \in Int /\ \A k \in 1 .. i : l[k] \in X
    BY <1>0, <1>1
  <2>2. /\ head \in Seq(X) /\ Len(head) = IF 1 <= i THEN i - 1 + 1 ELSE 0
        /\ \A k \in 1 .. i - 1 + 1 : head[k] = l[1 + k - 1]
    BY <2>1, SubSeqProperties
  <2> HIDE DEF head
  <2> QED
    BY <1>0, <2>2
<1>3. /\ tail \in Seq(X) /\ Len(tail) = n - i - 1
      /\ \A k \in 1 .. n - i - 1 : tail[k] = l[i + 1 + k]
  <2>1. i + 2 \in Int /\ n \in Int /\ \A k \in i + 2 .. n : l[k] \in X
    BY <1>0, <1>1
  <2>2. /\ tail \in Seq(X) /\ Len(tail) = IF i + 2 <= n THEN n - (i + 2) + 1 ELSE 0
        /\ \A k \in 1 .. n - (i + 2) + 1 : tail[k] = l[(i + 2) + k - 1]
    BY <2>1, SubSeqProperties
  <2> HIDE DEF tail, n
  <2>3. /\ n - (i + 2) + 1 = n - i - 1
        /\ \A k \in 1 .. n - i - 1 : (i + 2) + k - 1 = i + 1 + k
    BY <1>0
  <2>4. Len(tail) = n - i - 1
    BY <1>0, <2>2
  <2> QED
    BY <2>2, <2>3, <2>4
<1> HIDE DEF head, tail
<1>5. t = head \o tail
  <2>1. (i + 1) - 1 = i /\ (i + 1) + 1 = i + 2
    OBVIOUS
  <2> QED
    BY <2>1 DEF RemoveAt, head, tail
<1> HIDE DEF t
<1>6. /\ head \o tail \in Seq(X) /\ Len(head \o tail) = Len(head) + Len(tail)
      /\ \A k \in 1 .. Len(head) + Len(tail) :
            (head \o tail)[k] = IF k <= Len(head) THEN head[k]
                                ELSE tail[k - Len(head)]
  BY <1>2, <1>3, ConcatProperties, Zenon
<1>7. t \in Seq(X) /\ Len(t) = n - 1 /\ Len(t) \in Nat
  BY <1>0, <1>2, <1>3, <1>5, <1>6
<1>8. ASSUME NEW j \in 0 .. n - 2
      PROVE  t[j + 1] = l[Behind(j, i) + 1]
  <2>1. /\ j + 1 \in 1 .. Len(head) + Len(tail)
        /\ t[j + 1] = IF j + 1 <= i THEN head[j + 1] ELSE tail[(j + 1) - i]
    BY <1>0, <1>2, <1>3, <1>5, <1>6
  <2>2. CASE j < i
    <3>1. j + 1 \in 1 .. i /\ j + 1 <= i
      BY <2>2
    <3> QED
      BY <1>2, <2>1, <2>2, <3>1 DEF Behind
  <2>3. CASE j >= i
    <3>1. /\ (j + 1) - i \in 1 .. n - i - 1 /\ i + 1 + ((j + 1) - i) = (j + 1) + 1
          /\ ~(j + 1 <= i)
      BY <1>0, <2>3
    <3>2. tail[(j + 1) - i] = l[(j + 1) + 1]
      BY <1>3, <3>1
    <3>3. Behind(j, i) = j + 1
      BY <2>3 DEF Behind
    <3> QED
      BY <2>1, <3>1, <3>2, <3>3
  <2> QED
    BY <2>2, <2>3
<1> QED
  BY <1>7, <1>8 DEF t, n
-----------------------------------------------------------------------------
(* Builders *)

\* What fits consists of sets of positions and moves of numbers.
LEMMA FitsIs ==
    ASSUME NEW b, NEW m, NEW n, Fits(b, m, n)
    PROVE  /\ b \in Builder /\ m \in Nat /\ n \in Nat
           /\ b = [deletions |-> b.deletions, insertions |-> b.insertions,
                   modifications |-> b.modifications, moves |-> b.moves,
                   mapping |-> <<>>]
           /\ b.mapping = <<>>
           /\ Bounded(b.deletions) /\ Bounded(b.insertions)
           /\ Bounded(b.modifications)
           /\ b.deletions \in SUBSET Nat /\ b.insertions \in SUBSET Nat
           /\ b.modifications \in SUBSET Nat
           /\ b.moves \in Seq(MoveType) /\ Len(b.moves) \in Nat
           /\ DOMAIN b.moves = 1 .. Len(b.moves)
           /\ \A k \in DOMAIN b.moves :
                 /\ b.moves[k] \in MoveType
                 /\ b.moves[k] = Move(b.moves[k].from, b.moves[k].to)
                 /\ b.moves[k].from \in Nat /\ b.moves[k].to \in Nat
<1>1. b \in Builder /\ m \in Nat /\ n \in Nat
  BY DEF Fits
<1>2. /\ b = [deletions |-> b.deletions, insertions |-> b.insertions,
              modifications |-> b.modifications, moves |-> b.moves,
              mapping |-> <<>>]
      /\ b.mapping = <<>> /\ b.moves \in Seq(MoveType)
      /\ b.deletions \in SUBSET Nat /\ b.insertions \in SUBSET Nat
      /\ b.modifications \in SUBSET Nat
  BY <1>1 DEF Builder
<1>3. Len(b.moves) \in Nat /\ DOMAIN b.moves = 1 .. Len(b.moves)
  BY <1>2, LenProperties
<1>4. \A k \in DOMAIN b.moves : b.moves[k] \in MoveType
  BY <1>2, <1>3, ElementOfSeq
<1>5. \A x \in MoveType : x = Move(x.from, x.to) /\ x.from \in Nat /\ x.to \in Nat
  BY DEF MoveType, Move
<1>6. /\ \A x \in b.deletions : x < m
      /\ \A x \in b.insertions : x < n
      /\ \A x \in b.modifications : x < n
  BY <1>1 DEF Fits
<1>7. Bounded(b.deletions) /\ Bounded(b.insertions) /\ Bounded(b.modifications)
  BY <1>1, <1>2, <1>6 DEF Bounded
<1> QED
  BY <1>1, <1>2, <1>3, <1>4, <1>5, <1>7

\* A move is a member of the sequence.
LEMMA MoveIs ==
    ASSUME NEW b, NEW m, NEW n, Fits(b, m, n), NEW i, NEW j
    PROVE  Move(i, j) \in Moves(b) <=>
              \E k \in DOMAIN b.moves : b.moves[k].from = i /\ b.moves[k].to = j
<1>1. \A k \in DOMAIN b.moves :
         b.moves[k] = Move(b.moves[k].from, b.moves[k].to)
  BY FitsIs
<1>2. Move(i, j).from = i /\ Move(i, j).to = j
  BY DEF Move
<1> QED
  BY <1>1, <1>2 DEF Moves

\* A move is from a deletion to an insertion that no other names.
LEMMA MoveFit ==
    ASSUME NEW b, MovesFit(b), NEW k \in DOMAIN b.moves
    PROVE  /\ b.moves[k].from \in b.deletions /\ b.moves[k].to \in b.insertions
           /\ \A x \in DOMAIN b.moves :
                 b.moves[k].from = b.moves[x].from \/ b.moves[k].to = b.moves[x].to
                    => k = x
  BY DEF MovesFit

\* A move is from a deletion to an insertion (verify).
LEMMA MovesInside ==
    ASSUME NEW b, NEW m, NEW n, Fits(b, m, n), NEW i, NEW j,
           Move(i, j) \in Moves(b)
    PROVE  i \in b.deletions /\ j \in b.insertions
<1>1. PICK k \in DOMAIN b.moves : b.moves[k].from = i /\ b.moves[k].to = j
  BY MoveIs
<1>2. MovesFit(b)
  BY DEF Fits
<1> QED
  BY <1>1, <1>2, MoveFit

\* A row came from one position.
LEMMA CameOnce ==
    ASSUME NEW b, NEW m, NEW n, Fits(b, m, n),
           NEW j \in Nat, NEW i \in Nat, NEW x \in Nat,
           Came(b, j, i), Came(b, j, x)
    PROVE  i = x
<1>1. b.deletions \in SUBSET Nat /\ b.insertions \in SUBSET Nat
  BY FitsIs
<1>2. CASE j \in b.insertions
  <2>1. Move(i, j) \in Moves(b) /\ Move(x, j) \in Moves(b)
    BY <1>2 DEF Came, Kept
  <2>2. PICK k \in DOMAIN b.moves : b.moves[k].from = i /\ b.moves[k].to = j
    BY <2>1, MoveIs
  <2>3. PICK l \in DOMAIN b.moves : b.moves[l].from = x /\ b.moves[l].to = j
    BY <2>1, MoveIs
  <2>4. MovesFit(b)
    BY DEF Fits
  <2>5. k = l
    BY <2>2, <2>3, <2>4, MoveFit
  <2> QED
    BY <2>2, <2>3, <2>5
<1>3. CASE j \notin b.insertions
  <2>1. Move(i, j) \notin Moves(b) /\ Move(x, j) \notin Moves(b)
    BY <1>3, MovesInside
  <2>2. Kept(b.deletions, b.insertions, i, j) /\ Kept(b.deletions, b.insertions, x, j)
    BY <2>1 DEF Came
  <2> QED
    BY <1>1, <2>2, KeptOrders
<1> QED
  BY <1>2, <1>3

\* It came from a position of the old list.
LEMMA CameInside ==
    ASSUME NEW b, NEW m, NEW n, Fits(b, m, n),
           NEW j \in 0 .. n - 1, NEW i \in Nat, Came(b, j, i)
    PROVE  i \in 0 .. m - 1
<1>1. /\ b.deletions \in SUBSET Nat /\ b.insertions \in SUBSET Nat
      /\ m \in Nat /\ n \in Nat /\ j \in Nat /\ j < n
  BY FitsIs
<1>2. CASE Kept(b.deletions, b.insertions, i, j)
  <2>1. Kept(b.deletions, b.insertions, m, n)
    BY DEF Fits
  <2>2. i < m
    BY <1>1, <1>2, <2>1, KeptOrders
  <2> QED
    BY <1>1, <2>2
<1>3. CASE Move(i, j) \in Moves(b)
  <2>1. i \in b.deletions
    BY <1>3, MovesInside
  <2> QED
    BY <2>1 DEF Fits
<1> QED
  BY <1>2, <1>3 DEF Came

\* A row that is not inserted came from somewhere.
LEMMA CameFrom ==
    ASSUME NEW b, NEW m, NEW n, Fits(b, m, n), NEW j \in Nat \ b.insertions
    PROVE  /\ shift(b.deletions, unshift(b.insertions, j)) \in Nat
           /\ Came(b, j, shift(b.deletions, unshift(b.insertions, j)))
  BY FitsIs, KeptIsShift DEF Came

\* So did one that is moved.
LEMMA CameMoved ==
    ASSUME NEW b, NEW m, NEW n, Fits(b, m, n), NEW k \in DOMAIN b.moves
    PROVE  Came(b, b.moves[k].to, b.moves[k].from)
  BY MoveIs DEF Came
-----------------------------------------------------------------------------
(* Edits *)

\* A row is inserted: the others keep where they came from and their marks, and
\* it came from nowhere.
LEMMA InsertFits ==
    ASSUME NEW X, NEW l \in Seq(X), NEW m, NEW b, Fits(b, m, Len(l)),
           NEW index \in 0 .. Len(l), NEW row \in X
    PROVE  /\ Fits(insert(b, index, 1), m, Len(l) + 1)
           /\ Follows(insert(b, index, 1), InsertAt(l, index + 1, row), b, l)
<1> DEFINE n == Len(l)
           c == insert(b, index, 1)
           D == b.deletions
           I == b.insertions
           M == b.modifications
           J == insert_at(I, index, 1)
           Up(x) == IF x >= index THEN x + 1 ELSE x
           t == InsertAt(l, index + 1, row)
<1>0. n \in Nat /\ index \in Nat /\ index <= n /\ m \in Nat
  BY LenProperties DEF Fits
<1>1. /\ Bounded(D) /\ Bounded(I) /\ Bounded(M) /\ b.mapping = <<>>
      /\ D \in SUBSET Nat /\ I \in SUBSET Nat /\ M \in SUBSET Nat
      /\ b.moves \in Seq(MoveType) /\ Len(b.moves) \in Nat
      /\ DOMAIN b.moves = 1 .. Len(b.moves)
      /\ \A k \in DOMAIN b.moves :
            b.moves[k].from \in Nat /\ b.moves[k].to \in Nat
  BY FitsIs
<1>2. /\ I \subseteq 0 .. n - 1 /\ D \subseteq 0 .. m - 1 /\ M \subseteq 0 .. n - 1
      /\ Kept(D, I, m, n)
      /\ MovesFit(b)
  BY DEF Fits
<1>3. /\ Bounded(J)
      /\ \A j \in Nat : j \in J <=> \/ j = index
                                    \/ j < index /\ j \in I
                                    \/ j > index /\ j - 1 \in I
  BY <1>0, <1>1, CountInserted, Zenon
<1>4. /\ c.deletions = D /\ c.insertions = J
      /\ c.modifications = shift_for_insert_at(M, index, 1)
      /\ c.moves = [k \in DOMAIN b.moves |->
                      Move(b.moves[k].from, Up(b.moves[k].to))]
  BY DEF insert
<1>5. c.mapping = <<>>
  <2>1. \A x : x \notin DOMAIN b.mapping
    BY <1>1
  <2>2. {Up(x) : x \in DOMAIN b.mapping} = {}
    BY <2>1
  <2>3. c.mapping = [k \in {} |->
                        b.mapping[CHOOSE x \in DOMAIN b.mapping : Up(x) = k]]
    BY <2>2 DEF insert
  <2> QED
    BY <2>3
<1>6. /\ c = [deletions |-> c.deletions, insertions |-> c.insertions,
              modifications |-> c.modifications, moves |-> c.moves,
              mapping |-> c.mapping]
  BY DEF insert
<1>7. /\ c.modifications \subseteq 0 .. n
      /\ \A j \in Nat : j # index =>
            (j \in c.modifications <=> Before(j, index) \in M)
  <2>1. \A j : j \in c.modifications <=>
                  \/ j \in M /\ j < index
                  \/ \E x \in M : x >= index /\ j = x + 1
    BY <1>4 DEF shift_for_insert_at
  <2>2. ASSUME NEW j \in c.modifications PROVE j \in 0 .. n
    BY <1>0, <1>2, <2>1
  <2>3. ASSUME NEW j \in Nat, j # index
        PROVE  j \in c.modifications <=> Before(j, index) \in M
    <3>1. CASE j < index
      BY <1>0, <1>1, <2>1, <3>1 DEF Before
    <3>2. CASE j > index
      <4>1. \A x \in M : x \in Nat
        BY <1>1
      <4>2. j - 1 >= index /\ j = (j - 1) + 1
        BY <1>0, <3>2
      <4>3. (\E x \in M : x >= index /\ j = x + 1) <=> j - 1 \in M
        BY <4>1, <4>2
      <4> QED
        BY <1>0, <2>1, <3>2, <4>3 DEF Before
    <3> QED
      BY <1>0, <2>3, <3>1, <3>2
  <2> HIDE DEF c
  <2> QED
    BY <2>2, <2>3
<1> HIDE DEF c, t, J, D, I, M
<1>8. /\ DOMAIN c.moves = DOMAIN b.moves
      /\ \A k \in DOMAIN b.moves :
            c.moves[k].from = b.moves[k].from /\ c.moves[k].to = Up(b.moves[k].to)
  BY <1>4 DEF Move
<1>9. c.moves \in Seq(MoveType)
  <2>0. \A k \in 1 .. Len(b.moves) :
           b.moves[k].from \in Nat /\ Up(b.moves[k].to) \in Nat
    BY <1>0, <1>1
  <2>1. \A k \in 1 .. Len(b.moves) :
           Move(b.moves[k].from, Up(b.moves[k].to)) \in MoveType
    <3> HIDE DEF Up
    <3> QED
      BY <2>0 DEF Move, MoveType
  <2> HIDE DEF Up
  <2> QED
    BY <1>1, <1>4, <2>1
<1>10. MovesFit(c)
  <2>1. ASSUME NEW k \in DOMAIN b.moves
        PROVE  c.moves[k].from \in D /\ c.moves[k].to \in J
    <3>1. b.moves[k].from \in D /\ b.moves[k].to \in I /\ b.moves[k].to \in Nat
      BY <1>1, <1>2 DEF MovesFit, D, I
    <3> QED
      BY <1>0, <1>3, <1>8, <3>1
  <2>2. ASSUME NEW k \in DOMAIN b.moves, NEW x \in DOMAIN b.moves,
               c.moves[k].from = c.moves[x].from \/ c.moves[k].to = c.moves[x].to
        PROVE  k = x
    <3>1. /\ c.moves[k].from = b.moves[k].from /\ c.moves[x].from = b.moves[x].from
          /\ c.moves[k].to = Up(b.moves[k].to) /\ c.moves[x].to = Up(b.moves[x].to)
          /\ b.moves[k].to \in Nat /\ b.moves[x].to \in Nat
      BY <1>1, <1>8
    <3>2. b.moves[k].from = b.moves[x].from \/ b.moves[k].to = b.moves[x].to
      BY <1>0, <2>2, <3>1
    <3> QED
      BY <1>2, <3>2, MoveFit
  <2> QED
    BY <1>4, <1>8, <2>1, <2>2 DEF MovesFit
<1>11. \A i, j \in Nat : Kept(D, J, i, j)
                            <=> j # index /\ Kept(D, I, i, Before(j, index))
  BY <1>0, <1>1, KeptInserted DEF J
<1>12. Kept(D, J, m, n + 1)
  <2>1. n + 1 \in Nat /\ n + 1 # index /\ Before(n + 1, index) = n
    BY <1>0 DEF Before
  <2> QED
    BY <1>0, <1>2, <1>11, <2>1
<1>13. J \subseteq 0 .. n
  <2>1. \A j \in J : j \in Nat
    BY <1>3 DEF Bounded
  <2>2. \A j \in Nat : j \in J => j <= n
    BY <1>0, <1>2, <1>3
  <2> QED
    BY <1>0, <2>1, <2>2
<1>14. Fits(c, m, n + 1)
  <2>1. n + 1 \in Nat /\ (n + 1) - 1 = n
    BY <1>0
  <2>2. J \in SUBSET Nat /\ c.modifications \in SUBSET Nat
    BY <1>3, <1>7 DEF Bounded
  <2>3. c \in Builder
    BY <1>1, <1>4, <1>5, <1>6, <1>9, <2>2 DEF Builder
  <2> HIDE DEF n
  <2> QED
    BY <1>0, <1>2, <1>4, <1>7, <1>10, <1>12, <1>13, <2>1, <2>3 DEF Fits
<1>15. Len(t) = n + 1 /\ \A j \in 0 .. n : j # index => t[j + 1] = l[Before(j, index) + 1]
  <2>1. /\ Len(t) = n + 1
        /\ \A j \in 0 .. n : t[j + 1] = IF j = index THEN row
                                        ELSE l[Before(j, index) + 1]
    <3> DEFINE u == InsertAt(l, index + 1, row)
    <3>1. /\ u \in Seq(X) /\ Len(u) = Len(l) + 1
          /\ \A j \in 0 .. Len(l) : u[j + 1] = IF j = index THEN row
                                             ELSE l[Before(j, index) + 1]
      BY InsertedIs
    <3> HIDE DEF u
    <3> QED
      BY <3>1 DEF t, u
  <2> QED
    BY <2>1
<1>16. ASSUME NEW j \in Positions(t), NEW i \in Nat, Came(c, j, i)
       PROVE  \E k \in Positions(l) :
                 /\ Came(b, k, i) /\ t[j + 1] = l[k + 1]
                 /\ j \in c.modifications <=> k \in M
  <2>1. j \in 0 .. n /\ j \in Nat
    BY <1>0, <1>15 DEF Positions
  <2>2. j # index /\ Came(b, Before(j, index), i)
    <3>1. CASE Kept(D, J, i, j)
      BY <1>11, <2>1, <3>1 DEF Came, D, I
    <3>2. CASE Move(i, j) \in Moves(c)
      <4>1. PICK k \in DOMAIN b.moves : c.moves[k].from = i /\ c.moves[k].to = j
        BY <1>8, <1>14, <3>2, MoveIs
      <4>2. b.moves[k].from = i /\ Up(b.moves[k].to) = j /\ b.moves[k].to \in Nat
        BY <1>1, <1>8, <4>1
      <4>3. j # index /\ Before(j, index) = b.moves[k].to
        BY <1>0, <4>2 DEF Before
      <4> QED
        BY <4>2, <4>3, CameMoved
    <3> QED
      BY <1>4, <1>16, <3>1, <3>2 DEF Came
  <2>3. Before(j, index) \in Positions(l)
    BY <1>0, <2>1, <2>2 DEF Before, Positions
  <2> QED
    BY <1>7, <1>15, <2>1, <2>2, <2>3
<1>17. Follows(c, t, b, l)
  BY <1>16 DEF Follows, M
<1> QED
  BY <1>14, <1>17 DEF c, t

\* The moves s of c are those of b, but for those to index.
Left(s, b, index) ==
    /\ s \in Seq(MoveType)
    /\ \E h \in [DOMAIN s -> DOMAIN b.moves] :
          /\ \A p \in DOMAIN s :
                /\ b.moves[h[p]].to # index
                /\ s[p].from = b.moves[h[p]].from
                /\ s[p].to \in Nat
                /\ b.moves[h[p]].to = Behind(s[p].to, index)
          /\ \A p, q \in DOMAIN s : h[p] = h[q] => p = q

\* What the moves to an index that goes away leave.
LEMMA MovesErased ==
    ASSUME NEW b, NEW m, NEW n, Fits(b, m, n), NEW index \in Nat
    PROVE  Left(erase(b, index).moves, b, index)
<1> DEFINE gone == {k \in Positions(b.moves) : b.moves[k + 1].to = index}
           left == Rest(b.moves, gone)
           Down(x) == IF x > index THEN x - 1 ELSE x
           c == erase(b, index)
<1>1. /\ b.moves \in Seq(MoveType) /\ Len(b.moves) \in Nat
      /\ DOMAIN b.moves = 1 .. Len(b.moves)
      /\ \A k \in DOMAIN b.moves :
            b.moves[k].from \in Nat /\ b.moves[k].to \in Nat
  BY FitsIs
<1>2. gone \subseteq 0 .. Len(b.moves) - 1
  BY DEF Positions
<1>3. \A k \in DOMAIN b.moves : k - 1 \notin gone => b.moves[k].to # index
  <2> TAKE k \in DOMAIN b.moves
  <2>1. k - 1 \in Positions(b.moves) /\ (k - 1) + 1 = k
    BY <1>1 DEF Positions
  <2> QED
    BY <2>1
<1>4. c.moves = [i \in DOMAIN left |-> Move(left[i].from, Down(left[i].to))]
  BY DEF erase
<1> HIDE DEF gone, c
<1>5. /\ left \in Seq(MoveType)
      /\ \E h \in [DOMAIN left -> DOMAIN b.moves] :
            /\ \A p \in DOMAIN left : h[p] - 1 \notin gone /\ left[p] = b.moves[h[p]]
            /\ \A p, q \in DOMAIN left : h[p] = h[q] => p = q
  BY <1>1, <1>2, RestIs
<1> HIDE DEF left
<1>6. PICK h \in [DOMAIN left -> DOMAIN b.moves] :
         /\ \A p \in DOMAIN left : h[p] - 1 \notin gone /\ left[p] = b.moves[h[p]]
         /\ \A p, q \in DOMAIN left : h[p] = h[q] => p = q
  BY <1>5
<1>7. ASSUME NEW p \in DOMAIN left
      PROVE  /\ h[p] \in DOMAIN b.moves /\ left[p] = b.moves[h[p]]
             /\ left[p].from \in Nat /\ left[p].to \in Nat /\ left[p].to # index
             /\ Down(left[p].to) \in Nat
             /\ left[p].to = Behind(Down(left[p].to), index)
  <2>1. h[p] \in DOMAIN b.moves /\ left[p] = b.moves[h[p]] /\ h[p] - 1 \notin gone
    BY <1>6
  <2>2. left[p].from \in Nat /\ left[p].to \in Nat /\ left[p].to # index
    BY <1>1, <1>3, <2>1
  <2> DEFINE x == left[p].to
  <2>3. x \in Nat /\ x # index
    BY <2>2
  <2> HIDE DEF x
  <2>4. Down(x) \in Nat /\ x = Behind(Down(x), index)
    BY <2>3 DEF Behind
  <2> QED
    BY <2>1, <2>2, <2>4 DEF x
<1> HIDE DEF Down
<1>8. /\ DOMAIN c.moves = DOMAIN left
      /\ \A p \in DOMAIN left :
            c.moves[p].from = left[p].from /\ c.moves[p].to = Down(left[p].to)
  BY <1>4 DEF Move
<1>9. c.moves \in Seq(MoveType)
  <2>1. Len(left) \in Nat /\ DOMAIN left = 1 .. Len(left)
    BY <1>5, LenProperties
  <2>2. \A p \in 1 .. Len(left) : Move(left[p].from, Down(left[p].to)) \in MoveType
    BY <1>7, <2>1 DEF Move, MoveType
  <2> QED
    BY <1>4, <2>1, <2>2
<1>10. \A p \in DOMAIN c.moves :
          /\ b.moves[h[p]].to # index
          /\ c.moves[p].from = b.moves[h[p]].from
          /\ c.moves[p].to \in Nat
          /\ b.moves[h[p]].to = Behind(c.moves[p].to, index)
  BY <1>7, <1>8
<1>11. h \in [DOMAIN c.moves -> DOMAIN b.moves]
  BY <1>8
<1> QED
  BY <1>6, <1>8, <1>9, <1>10, <1>11 DEF c, Left

\* Deletions and insertions after an entry is taken out.
LEMMA DeletedFits ==
    ASSUME NEW b, NEW m, NEW n, Fits(b, m, n), NEW index \in 0 .. n - 1
    PROVE  LET D == DeletedAt(b.deletions, b.insertions, index)
               I == erase_at(b.insertions, index)
           IN  /\ Bounded(D) /\ Bounded(I)
               /\ D \subseteq 0 .. m - 1 /\ b.deletions \subseteq D
               /\ I \subseteq 0 .. n - 2
               /\ Kept(D, I, m, n - 1)
               /\ \A i, j \in Nat :
                     Kept(D, I, i, j)
                        <=> Kept(b.deletions, b.insertions, i, Behind(j, index))
               /\ \A j \in Nat :
                     j \in I <=> Behind(j, index) \in b.insertions
<1> DEFINE D == DeletedAt(b.deletions, b.insertions, index)
           I == erase_at(b.insertions, index)
           a == shift(b.deletions, unshift(b.insertions, index))
<1>1. /\ m \in Nat /\ n \in Nat /\ index \in Nat /\ index < n /\ n - 1 \in Nat
      /\ Bounded(b.deletions) /\ Bounded(b.insertions)
      /\ b.deletions \in SUBSET Nat /\ b.insertions \in SUBSET Nat
  BY FitsIs
<1>2. /\ b.deletions \subseteq 0 .. m - 1 /\ b.insertions \subseteq 0 .. n - 1
      /\ Kept(b.deletions, b.insertions, m, n)
  BY DEF Fits
<1>3. /\ Bounded(D) /\ b.deletions \subseteq D
      /\ index \notin b.insertions =>
            Kept(b.deletions, b.insertions, a, index) /\ a \in Nat
  BY <1>1, DeletedAtIs
<1>4. index \notin b.insertions => a \in 0 .. m - 1
  <2>1. index \notin b.insertions => a < m
    BY <1>1, <1>2, <1>3, KeptOrders
  <2> QED
    BY <1>1, <1>3, <2>1
<1>5. D \subseteq 0 .. m - 1
  <2>1. D = IF index \in b.insertions THEN b.deletions ELSE b.deletions \cup {a}
    BY DEF DeletedAt
  <2> QED
    BY <1>2, <1>4, <2>1
<1>6. \A i, j \in Nat :
         Kept(D, I, i, j) <=> Kept(b.deletions, b.insertions, i, Behind(j, index))
  BY <1>1, KeptErased
<1>7. Kept(D, I, m, n - 1)
  <2>1. Behind(n - 1, index) = n
    BY <1>1 DEF Behind
  <2> QED
    BY <1>1, <1>2, <1>6, <2>1
<1>8. /\ Bounded(I)
      /\ \A j \in Nat : j \in I <=> \/ j < index /\ j \in b.insertions
                                    \/ j >= index /\ j + 1 \in b.insertions
  BY <1>1, CountErased, Zenon
<1>9. \A j \in Nat : j \in I <=> Behind(j, index) \in b.insertions
  BY <1>1, <1>8 DEF Behind
<1>10. I \subseteq 0 .. n - 2
  <2>1. I \in SUBSET Nat
    BY <1>8 DEF Bounded
  <2>2. ASSUME NEW j \in I PROVE j \in 0 .. n - 2
    <3>1. j \in Nat
      BY <2>1
    <3>2. \/ j < index
          \/ j + 1 \in 0 .. n - 1
      BY <1>2, <1>8, <3>1
    <3> HIDE DEF I
    <3> QED
      BY <1>1, <3>1, <3>2
  <2> QED
    BY <2>2
<1> QED
  BY <1>3, <1>5, <1>6, <1>7, <1>8, <1>9, <1>10

\* A row is erased: the others keep where they came from and their marks.
LEMMA EraseFits ==
    ASSUME NEW X, NEW l \in Seq(X), NEW m, NEW b, Fits(b, m, Len(l)),
           NEW index \in 0 .. Len(l) - 1
    PROVE  /\ Fits(erase(b, index), m, Len(l) - 1)
           /\ Follows(erase(b, index), RemoveAt(l, index + 1), b, l)
<1> DEFINE n == Len(l)
           c == erase(b, index)
           t == RemoveAt(l, index + 1)
<1>0. n \in Nat /\ index \in Nat /\ index < n /\ m \in Nat
  BY LenProperties DEF Fits
<1>1. /\ Bounded(b.modifications) /\ b.mapping = <<>> /\ Fits(b, m, n)
      /\ b.modifications \subseteq 0 .. n - 1 /\ MovesFit(b)
  BY FitsIs DEF Fits
<1>2. /\ c.deletions = DeletedAt(b.deletions, b.insertions, index)
      /\ c.insertions = erase_at(b.insertions, index)
      /\ c.modifications = erase_at(b.modifications, index)
      /\ c.mapping = <<>>
      /\ c = [deletions |-> c.deletions, insertions |-> c.insertions,
              modifications |-> c.modifications, moves |-> c.moves,
              mapping |-> c.mapping]
  BY <1>1 DEF erase, Deleted, DeletedAt
<1>3. /\ Bounded(c.deletions) /\ Bounded(c.insertions)
      /\ c.deletions \subseteq 0 .. m - 1 /\ b.deletions \subseteq c.deletions
      /\ c.insertions \subseteq 0 .. n - 2
      /\ Kept(c.deletions, c.insertions, m, n - 1)
      /\ \A i, j \in Nat :
            Kept(c.deletions, c.insertions, i, j)
               <=> Kept(b.deletions, b.insertions, i, Behind(j, index))
      /\ \A j \in Nat : j \in c.insertions <=> Behind(j, index) \in b.insertions
  <2> HIDE DEF c, n
  <2> QED
    BY <1>0, <1>1, <1>2, DeletedFits
<1>4. /\ Bounded(c.modifications)
      /\ \A j \in Nat : j \in c.modifications <=> Behind(j, index) \in b.modifications
  <2>1. /\ Bounded(c.modifications)
        /\ \A j \in Nat : j \in c.modifications
                             <=> \/ j < index /\ j \in b.modifications
                                 \/ j >= index /\ j + 1 \in b.modifications
    <3> DEFINE E == erase_at(b.modifications, index)
    <3>1. /\ Bounded(E)
          /\ \A j \in Nat : j \in E <=> \/ j < index /\ j \in b.modifications
                                        \/ j >= index /\ j + 1 \in b.modifications
      BY <1>0, <1>1, CountErased, Zenon
    <3> HIDE DEF E
    <3>2. c.modifications = E
      BY <1>2 DEF E
    <3> HIDE DEF c
    <3> QED
      BY <3>1, <3>2
  <2> HIDE DEF c
  <2> QED
    BY <1>0, <2>1 DEF Behind
<1>5. c.modifications \subseteq 0 .. n - 2
  <2>1. \A j \in c.modifications : j \in Nat
    BY <1>4 DEF Bounded
  <2>2. ASSUME NEW j \in c.modifications PROVE j \in 0 .. n - 2
    <3>1. j \in Nat /\ Behind(j, index) \in 0 .. n - 1
      BY <1>1, <1>4, <2>1
    <3> HIDE DEF c, n
    <3> QED
      BY <1>0, <3>1 DEF Behind
  <2> QED
    BY <2>2
<1>6. Left(c.moves, b, index)
  BY <1>0, <1>1, MovesErased
<1> HIDE DEF c, t
<1>7. PICK h \in [DOMAIN c.moves -> DOMAIN b.moves] :
         /\ \A p \in DOMAIN c.moves :
               /\ b.moves[h[p]].to # index
               /\ c.moves[p].from = b.moves[h[p]].from
               /\ c.moves[p].to \in Nat
               /\ b.moves[h[p]].to = Behind(c.moves[p].to, index)
         /\ \A p, q \in DOMAIN c.moves : h[p] = h[q] => p = q
  BY <1>6 DEF Left
<1>8. MovesFit(c)
  <2>1. ASSUME NEW p \in DOMAIN c.moves
        PROVE  c.moves[p].from \in c.deletions /\ c.moves[p].to \in c.insertions
    <3>1. /\ h[p] \in DOMAIN b.moves
          /\ b.moves[h[p]].from \in b.deletions /\ b.moves[h[p]].to \in b.insertions
      BY <1>1, <1>7, MoveFit
    <3> QED
      BY <1>3, <1>7, <3>1
  <2>2. ASSUME NEW p \in DOMAIN c.moves, NEW q \in DOMAIN c.moves,
               c.moves[p].from = c.moves[q].from \/ c.moves[p].to = c.moves[q].to
        PROVE  p = q
    <3>1. /\ h[p] \in DOMAIN b.moves /\ h[q] \in DOMAIN b.moves
          /\ \/ b.moves[h[p]].from = b.moves[h[q]].from
             \/ b.moves[h[p]].to = b.moves[h[q]].to
      BY <1>7, <2>2
    <3>2. h[p] = h[q]
      BY <1>1, <3>1, MoveFit
    <3> QED
      BY <1>7, <3>2
  <2> QED
    BY <2>1, <2>2 DEF MovesFit
<1>9. Fits(c, m, n - 1)
  <2>1. n - 1 \in Nat /\ (n - 1) - 1 = n - 2
    BY <1>0
  <2>2. /\ c.deletions \in SUBSET Nat /\ c.insertions \in SUBSET Nat
        /\ c.modifications \in SUBSET Nat
    BY <1>3, <1>4 DEF Bounded
  <2>3. c \in Builder
    BY <1>2, <1>6, <2>2 DEF Builder, Left
  <2> HIDE DEF n
  <2> QED
    BY <1>0, <1>3, <1>5, <1>8, <2>1, <2>3 DEF Fits
<1>10. Len(t) = n - 1 /\ \A j \in 0 .. n - 2 : t[j + 1] = l[Behind(j, index) + 1]
  <2> DEFINE u == RemoveAt(l, index + 1)
  <2>1. /\ u \in Seq(X) /\ Len(u) = Len(l) - 1 /\ Len(u) \in Nat
        /\ \A j \in 0 .. Len(l) - 2 : u[j + 1] = l[Behind(j, index) + 1]
    BY ErasedIs
  <2> HIDE DEF u
  <2> QED
    BY <2>1 DEF t, u
<1>11. ASSUME NEW j \in Positions(t), NEW i \in Nat, Came(c, j, i)
       PROVE  \E k \in Positions(l) :
                 /\ Came(b, k, i) /\ t[j + 1] = l[k + 1]
                 /\ j \in c.modifications <=> k \in b.modifications
  <2>1. j \in 0 .. n - 2 /\ j \in Nat
    BY <1>0, <1>10 DEF Positions
  <2>2. Came(b, Behind(j, index), i)
    <3>1. CASE Kept(c.deletions, c.insertions, i, j)
      BY <1>3, <2>1, <3>1 DEF Came
    <3>2. CASE Move(i, j) \in Moves(c)
      <4>1. PICK p \in DOMAIN c.moves : c.moves[p].from = i /\ c.moves[p].to = j
        BY <1>9, <3>2, MoveIs
      <4>2. /\ h[p] \in DOMAIN b.moves /\ b.moves[h[p]].from = i
            /\ b.moves[h[p]].to = Behind(j, index)
        BY <1>7, <4>1
      <4> QED
        BY <1>1, <4>2, CameMoved
    <3> QED
      BY <1>11, <3>1, <3>2 DEF Came
  <2>3. Behind(j, index) \in Positions(l)
    BY <1>0, <2>1 DEF Behind, Positions
  <2> QED
    BY <1>4, <1>10, <2>1, <2>2, <2>3
<1> QED
  BY <1>9, <1>11 DEF c, t, Follows

\* The members after an index is inserted that is not one.
LEMMA ShiftedIs ==
    ASSUME NEW S, Bounded(S), NEW index \in Nat
    PROVE  LET T == shift_for_insert_at(S, index, 1)
           IN  /\ T \in SUBSET Nat
               /\ \A j \in Nat : j \in T <=> \/ j < index /\ j \in S
                                             \/ j > index /\ j - 1 \in S
<1> DEFINE T == shift_for_insert_at(S, index, 1)
<1>1. S \in SUBSET Nat
  BY DEF Bounded
<1>2. \A j : j \in T <=> \/ j \in S /\ j < index
                         \/ \E x \in S : x >= index /\ j = x + 1
  BY DEF shift_for_insert_at
<1> HIDE DEF T
<1>3. \A x \in S : x \in Nat /\ x + 1 \in Nat /\ (x + 1) - 1 = x
  BY <1>1
<1>4. T \in SUBSET Nat
  BY <1>2, <1>3
<1>5. ASSUME NEW j \in Nat
      PROVE  (\E x \in S : x >= index /\ j = x + 1) <=> j > index /\ j - 1 \in S
  <2>1. ASSUME NEW x \in S, x >= index, j = x + 1 PROVE j > index /\ j - 1 \in S
    BY <1>3, <2>1
  <2>2. ASSUME j > index, j - 1 \in S PROVE \E x \in S : x >= index /\ j = x + 1
    <3>1. j - 1 >= index /\ j = (j - 1) + 1
      BY <2>2
    <3> QED
      BY <2>2, <3>1
  <2> QED
    BY <2>1, <2>2
<1> QED
  BY <1>2, <1>4, <1>5 DEF T

\* Where the entry at j was before the one at `from` was moved to `to`.
Source(j, from, to) == IF j = to THEN from ELSE Behind(Before(j, to), from)

\* Every place but `from` leads to the place it is found at.
LEMMA PassedIs ==
    ASSUME NEW from \in Nat, NEW to \in Nat, NEW x \in Nat, x # from
    PROVE  LET j == Passed(x, from, to)
           IN  j \in Nat /\ j # to /\ Source(j, from, to) = x
<1>1. CASE x >= to /\ x < from
  BY <1>1 DEF Passed, Source, Before, Behind
<1>2. CASE x <= to /\ x > from
  BY <1>2 DEF Passed, Source, Before, Behind
<1>3. CASE ~(x >= to /\ x < from) /\ ~(x <= to /\ x > from)
  BY <1>3 DEF Passed, Source, Before, Behind
<1> QED
  BY <1>1, <1>2, <1>3

\* An entry that is moved comes from inside the list.
LEMMA SourceInside ==
    ASSUME NEW n \in Nat, NEW from \in 0 .. n - 1, NEW to \in 0 .. n - 1,
           NEW j \in 0 .. n - 1
    PROVE  /\ Source(j, from, to) \in 0 .. n - 1
           /\ j # to => /\ Before(j, to) \in 0 .. n - 2
                        /\ Source(j, from, to) = Behind(Before(j, to), from)
  BY DEF Source, Before, Behind

\* The list when an entry is moved.
Moved(l, from, to) == InsertAt(RemoveAt(l, from + 1), to + 1, l[from + 1])

\* A list with an entry moved has the entries it had, each at its Source.
LEMMA MovedIs ==
    ASSUME NEW X, NEW l \in Seq(X),
           NEW from \in Positions(l), NEW to \in Positions(l)
    PROVE  /\ Moved(l, from, to) \in Seq(X) /\ Len(Moved(l, from, to)) = Len(l)
           /\ \A j \in Positions(l) :
                 /\ Moved(l, from, to)[j + 1] = l[Source(j, from, to) + 1]
                 /\ Source(j, from, to) \in Positions(l)
<1> DEFINE n == Len(l)
           r == RemoveAt(l, from + 1)
           e == l[from + 1]
           t == InsertAt(r, to + 1, e)
<1>0. /\ n \in Nat /\ DOMAIN l = 1 .. n
      /\ from \in 0 .. n - 1 /\ to \in 0 .. n - 1 /\ e \in X
  BY LenProperties, ElementOfSeq DEF Positions
<1>1. /\ r \in Seq(X) /\ Len(r) = n - 1
      /\ \A j \in 0 .. n - 2 : r[j + 1] = l[Behind(j, from) + 1]
  BY <1>0, ErasedIs
<1> HIDE DEF r, e
<1>2. to \in 0 .. Len(r)
  BY <1>0, <1>1
<1>3. /\ t \in Seq(X) /\ Len(t) = Len(r) + 1
      /\ \A j \in 0 .. Len(r) : t[j + 1] = IF j = to THEN e ELSE r[Before(j, to) + 1]
  <2> DEFINE u == InsertAt(r, to + 1, e)
  <2>1. r \in Seq(X) /\ e \in X
    BY <1>0, <1>1
  <2> HIDE DEF n
  <2>2. /\ u \in Seq(X) /\ Len(u) = Len(r) + 1
        /\ \A j \in 0 .. Len(r) : u[j + 1] = IF j = to THEN e ELSE r[Before(j, to) + 1]
    BY <1>2, <2>1, InsertedIs
  <2> HIDE DEF u
  <2> QED
    BY <2>2 DEF t, u
<1> HIDE DEF t
<1>4. Len(t) = n /\ 0 .. Len(r) = 0 .. n - 1
  BY <1>0, <1>1, <1>3
<1>5. ASSUME NEW j \in 0 .. n - 1
      PROVE  t[j + 1] = l[Source(j, from, to) + 1] /\ Source(j, from, to) \in 0 .. n - 1
  <2>1. /\ Source(j, from, to) \in 0 .. n - 1
        /\ j # to => /\ Before(j, to) \in 0 .. n - 2
                     /\ Source(j, from, to) = Behind(Before(j, to), from)
    BY <1>0, SourceInside
  <2>2. t[j + 1] = IF j = to THEN e ELSE r[Before(j, to) + 1]
    BY <1>3, <1>4
  <2> HIDE DEF n
  <2>3. CASE j = to
    BY <2>1, <2>2, <2>3 DEF Source, e
  <2>4. CASE j # to
    BY <1>1, <2>1, <2>2, <2>4
  <2> QED
    BY <2>1, <2>3, <2>4
<1>6. t = Moved(l, from, to)
  BY DEF t, r, e, Moved
<1> QED
  BY <1>3, <1>4, <1>5, <1>6 DEF Positions

\* The rows that are marked are marked where they are moved to.
LEMMA MarksMoved ==
    ASSUME NEW M, Bounded(M), NEW n \in Nat, M \subseteq 0 .. n - 1,
           NEW from \in 0 .. n - 1, NEW to \in 0 .. n - 1
    PROVE  /\ MovePosition(M, from, to) \subseteq 0 .. n - 1
           /\ \A j \in 0 .. n - 1 :
                 j \in MovePosition(M, from, to) <=> Source(j, from, to) \in M
<1> DEFINE E == erase_at(M, from)
           T == insert_at(E, to, 1)
           U == shift_for_insert_at(E, to, 1)
           P == MovePosition(M, from, to)
<1>0. from \in Nat /\ to \in Nat /\ from < n /\ to < n
  OBVIOUS
<1>1. /\ Bounded(E)
      /\ \A j \in Nat : j \in E <=> \/ j < from /\ j \in M
                                    \/ j >= from /\ j + 1 \in M
  BY <1>0, CountErased, Zenon
<1> HIDE DEF E
<1>2. /\ Bounded(T)
      /\ \A j \in Nat : j \in T <=> \/ j = to
                                    \/ j < to /\ j \in E
                                    \/ j > to /\ j - 1 \in E
  BY <1>0, <1>1, CountInserted, Zenon
<1>3. /\ U \in SUBSET Nat
      /\ \A j \in Nat : j \in U <=> \/ j < to /\ j \in E
                                    \/ j > to /\ j - 1 \in E
  BY <1>0, <1>1, ShiftedIs, Zenon
<1>4. P = IF from \in M THEN T ELSE U
  BY DEF MovePosition, E
<1> HIDE DEF T, U, P
<1>5. /\ P \in SUBSET Nat
      /\ \A j \in Nat : j \in P <=> \/ j = to /\ from \in M
                                    \/ j < to /\ j \in E
                                    \/ j > to /\ j - 1 \in E
  <2>1. T \in SUBSET Nat
    BY <1>2 DEF Bounded
  <2>2. CASE from \in M
    BY <1>2, <1>4, <2>1, <2>2
  <2>3. CASE from \notin M
    BY <1>3, <1>4, <2>3
  <2> QED
    BY <2>2, <2>3
<1>6. ASSUME NEW j \in Nat
      PROVE  j \in P <=> Source(j, from, to) \in M
  <2>1. CASE j = to
    BY <1>0, <1>5, <2>1 DEF Source
  <2>2. CASE j < to
    BY <1>0, <1>1, <1>5, <2>2 DEF Source, Before, Behind
  <2>3. CASE j > to
    <3>1. j - 1 \in Nat /\ (j - 1) + 1 = j
      BY <1>0, <2>3
    <3>2. j - 1 \in E <=> \/ j - 1 < from /\ j - 1 \in M
                          \/ j - 1 >= from /\ j \in M
      BY <1>1, <3>1
    <3> QED
      BY <1>0, <1>5, <2>3, <3>1, <3>2 DEF Source, Before, Behind
  <2> QED
    BY <1>0, <2>1, <2>2, <2>3
<1>7. P \subseteq 0 .. n - 1
  <2>1. ASSUME NEW j \in P PROVE j \in 0 .. n - 1
    <3>1. j \in Nat /\ Source(j, from, to) \in 0 .. n - 1
      BY <1>5, <1>6
    <3> QED
      BY <1>0, <3>1 DEF Source, Before, Behind
  <2> QED
    BY <2>1
<1> QED
  BY <1>0, <1>6, <1>7 DEF P

\* The moves s are those of b, to where their rows are moved, and one from `at`
\* when the row was not new.
Sent(s, b, from, to, at) ==
    /\ s \in Seq(MoveType)
    /\ \A p \in DOMAIN s :
          \/ /\ p \in DOMAIN b.moves /\ s[p].from = b.moves[p].from
             /\ s[p].to \in Nat /\ Source(s[p].to, from, to) = b.moves[p].to
          \/ /\ p = Len(b.moves) + 1 /\ from \notin b.insertions
             /\ s[p].from = at /\ s[p].to = to

\* What move makes of the moves: at most one more, and the others go along.
LEMMA MovesMoved ==
    ASSUME NEW b, NEW m, NEW n, Fits(b, m, n), NEW from \in Nat, NEW to \in Nat
    PROVE  Sent(move(b, from, to).moves, b, from, to,
                shift(b.deletions, unshift(b.insertions, from)))
<1> DEFINE at == shift(b.deletions, unshift(b.insertions, from))
           Target(x) == IF x = from THEN to ELSE Passed(x, from, to)
           passed == [i \in DOMAIN b.moves |->
                        Move(b.moves[i].from, Target(b.moves[i].to))]
           s == move(b, from, to).moves
           last == Move(at, to)
<1>1. /\ b.moves \in Seq(MoveType) /\ Len(b.moves) \in Nat
      /\ DOMAIN b.moves = 1 .. Len(b.moves)
      /\ \A k \in DOMAIN b.moves :
            b.moves[k].from \in Nat /\ b.moves[k].to \in Nat
      /\ Bounded(b.deletions) /\ Bounded(b.insertions)
  BY FitsIs
<1>2. \A x \in Nat : Target(x) \in Nat /\ Source(Target(x), from, to) = x
  <2> TAKE x \in Nat
  <2>1. CASE x = from
    BY <2>1 DEF Source
  <2>2. CASE x # from
    BY <2>2, PassedIs
  <2> QED
    BY <2>1, <2>2
<1> HIDE DEF Target
<1>3. /\ DOMAIN passed = DOMAIN b.moves
      /\ \A k \in DOMAIN b.moves :
            /\ passed[k] \in MoveType /\ passed[k].from = b.moves[k].from
            /\ passed[k].to = Target(b.moves[k].to)
  BY <1>1, <1>2 DEF Move, MoveType
<1>4. passed \in Seq(MoveType)
  <2>1. passed \in [1 .. Len(b.moves) -> MoveType]
    BY <1>1, <1>3
  <2> HIDE DEF passed
  <2> QED
    BY <1>1, <2>1
<1>5. s = IF (\E x \in Moves(b) : x.to = from) \/ from \in b.insertions
          THEN passed ELSE Append(passed, last)
  BY DEF move, Target
<1> HIDE DEF passed, s
<1>6. \A p \in DOMAIN passed :
         /\ p \in DOMAIN b.moves /\ passed[p].from = b.moves[p].from
         /\ passed[p].to \in Nat /\ Source(passed[p].to, from, to) = b.moves[p].to
  BY <1>1, <1>2, <1>3
<1>7. CASE s = passed
  <2>1. /\ s \in Seq(MoveType)
        /\ \A p \in DOMAIN s :
              /\ p \in DOMAIN b.moves /\ s[p].from = b.moves[p].from
              /\ s[p].to \in Nat /\ Source(s[p].to, from, to) = b.moves[p].to
    BY <1>4, <1>6, <1>7
  <2>2. Sent(s, b, from, to, at)
    BY <2>1 DEF Sent
  <2> QED
    BY <2>2 DEF s
<1>8. CASE s = Append(passed, last) /\ from \notin b.insertions
  <2>1. at \in Nat
    BY <1>1, <1>8, KeptIsShift
  <2>2. last \in MoveType /\ last.from = at /\ last.to = to
    BY <2>1 DEF Move, MoveType
  <2> HIDE DEF last, at
  <2>3. Len(passed) = Len(b.moves)
    BY <1>1, <1>3, <1>4, LenProperties
  <2>4. /\ s \in Seq(MoveType) /\ DOMAIN s = 1 .. Len(passed) + 1
        /\ \A p \in DOMAIN s : p # Len(passed) + 1 =>
              p \in DOMAIN passed /\ s[p] = passed[p]
        /\ s[Len(passed) + 1] = last
    <3>1. Append(passed, last) \in Seq(MoveType)
      BY <1>4, <2>2
    <3>2. Len(passed) \in Nat /\ DOMAIN passed = 1 .. Len(passed)
      BY <1>1, <1>3, <2>3
    <3>3. Len(s) = Len(passed) + 1 /\ DOMAIN s = 1 .. Len(s)
      BY <1>4, <1>8, <3>1, LenProperties
    <3>4. \A p \in 1 .. Len(passed) : s[p] = passed[p]
      BY <1>4, <1>8
    <3>5. s[Len(passed) + 1] = last
      BY <1>4, <1>8
    <3> QED
      BY <1>8, <3>1, <3>2, <3>3, <3>4, <3>5
  <2>5. ASSUME NEW p \in DOMAIN s
        PROVE  \/ /\ p \in DOMAIN b.moves /\ s[p].from = b.moves[p].from
                  /\ s[p].to \in Nat /\ Source(s[p].to, from, to) = b.moves[p].to
               \/ /\ p = Len(b.moves) + 1 /\ from \notin b.insertions
                  /\ s[p].from = at /\ s[p].to = to
    <3>1. CASE p = Len(passed) + 1
      BY <1>8, <2>2, <2>3, <2>4, <3>1
    <3>2. CASE p # Len(passed) + 1
      BY <1>6, <2>4, <3>2
    <3> QED
      BY <3>1, <3>2
  <2> QED
    BY <2>4, <2>5 DEF Sent, s, at
<1> QED
  <2>1. \A x \in Moves(b) : x.to = from => from \in b.insertions
    <3> SUFFICES ASSUME NEW x \in Moves(b), x.to = from
                 PROVE  from \in b.insertions
      OBVIOUS
    <3>1. PICK k \in DOMAIN b.moves : x = b.moves[k]
      BY DEF Moves
    <3>2. MovesFit(b)
      BY DEF Fits
    <3> QED
      BY <3>1, <3>2, MoveFit
  <2> QED
    BY <1>5, <1>7, <1>8, <2>1

\* A row is moved: all keep where they came from and their marks.
LEMMA MoveFits ==
    ASSUME NEW X, NEW l \in Seq(X), NEW m, NEW b, Fits(b, m, Len(l)),
           NEW from \in Positions(l), NEW to \in Positions(l)
    PROVE  /\ Fits(move(b, from, to), m, Len(l))
           /\ Follows(move(b, from, to), Moved(l, from, to), b, l)
<1> DEFINE n == Len(l)
           c == move(b, from, to)
           D == b.deletions
           I == b.insertions
           at == shift(D, unshift(I, from))
           D1 == DeletedAt(D, I, from)
           I1 == erase_at(I, from)
           J == insert_at(I1, to, 1)
           src(j) == Source(j, from, to)
<1>0. /\ n \in Nat /\ from \in 0 .. n - 1 /\ to \in 0 .. n - 1
      /\ from \in Nat /\ to \in Nat /\ from < n /\ to < n /\ m \in Nat
  BY LenProperties DEF Fits, Positions
<1>1. /\ Bounded(D) /\ Bounded(I) /\ D \in SUBSET Nat
      /\ Bounded(b.modifications) /\ b.mapping = <<>> /\ Fits(b, m, n)
      /\ b.modifications \subseteq 0 .. n - 1 /\ MovesFit(b)
      /\ DOMAIN b.moves = 1 .. Len(b.moves) /\ Len(b.moves) \in Nat
  BY FitsIs DEF Fits
<1>2. /\ c.deletions = D1 /\ c.insertions = J
      /\ c.modifications = MovePosition(b.modifications, from, to)
      /\ c.mapping = <<>>
      /\ c = [deletions |-> c.deletions, insertions |-> c.insertions,
              modifications |-> c.modifications, moves |-> c.moves,
              mapping |-> c.mapping]
  BY <1>1 DEF move, Deleted, DeletedAt
<1>3. Sent(c.moves, b, from, to, at)
  BY <1>0, <1>1, MovesMoved
<1> HIDE DEF c, n
<1>4. /\ Bounded(D1) /\ Bounded(I1)
      /\ D1 \subseteq 0 .. m - 1 /\ D \subseteq D1 /\ I1 \subseteq 0 .. n - 2
      /\ Kept(D1, I1, m, n - 1)
      /\ \A i, j \in Nat : Kept(D1, I1, i, j) <=> Kept(D, I, i, Behind(j, from))
      /\ \A j \in Nat : j \in I1 <=> Behind(j, from) \in I
  BY <1>0, <1>1, DeletedFits
<1> HIDE DEF D1, I1
<1>5. /\ Bounded(J)
      /\ \A j \in Nat : j \in J <=> \/ j = to
                                    \/ j < to /\ j \in I1
                                    \/ j > to /\ j - 1 \in I1
  BY <1>0, <1>4, CountInserted, Zenon
<1>6. \A i, j \in Nat :
         Kept(D1, J, i, j) <=> j # to /\ Kept(D1, I1, i, Before(j, to))
  BY <1>0, <1>4, KeptInserted
<1> HIDE DEF J
<1>7. ASSUME NEW j \in Nat, j # to
      PROVE  Before(j, to) \in Nat /\ src(j) = Behind(Before(j, to), from)
  BY <1>0, <1>7 DEF Before, Source
<1>8. ASSUME NEW j \in Nat
      PROVE  j \in J <=> j = to \/ src(j) \in I
  <2>1. CASE j # to
    <3>1. j \in J <=> Before(j, to) \in I1
      BY <1>0, <1>5, <2>1 DEF Before
    <3> HIDE DEF src
    <3> QED
      BY <1>4, <1>7, <2>1, <3>1
  <2> QED
    BY <1>5, <2>1
<1>9. ASSUME NEW i \in Nat, NEW j \in Nat
      PROVE  Kept(D1, J, i, j) <=> j # to /\ Kept(D, I, i, src(j))
  <2> HIDE DEF src
  <2> QED
    BY <1>4, <1>6, <1>7
<1>10. J \subseteq 0 .. n - 1
  <2>1. ASSUME NEW j \in J PROVE j \in 0 .. n - 1
    <3>1. j \in Nat
      BY <1>5 DEF Bounded
    <3>2. \/ j = to
          \/ j < to
          \/ j - 1 \in 0 .. n - 2
      BY <1>4, <1>5, <3>1
    <3> QED
      BY <1>0, <3>1, <3>2
  <2> QED
    BY <2>1
<1>11. Kept(D1, J, m, n)
  <2>1. n # to /\ Before(n, to) = n - 1
    BY <1>0 DEF Before
  <2> QED
    BY <1>0, <1>4, <1>6, <2>1
<1>12. /\ c.modifications \subseteq 0 .. n - 1
       /\ \A j \in 0 .. n - 1 : j \in c.modifications <=> src(j) \in b.modifications
  BY <1>0, <1>1, <1>2, MarksMoved
<1>13. from \notin I => /\ Kept(D, I, at, from) /\ at \in Nat /\ at \notin D
                        /\ at \in D1
  <2>1. from \notin I => Kept(D, I, at, from) /\ at \in Nat
    BY <1>0, <1>1, DeletedAtIs
  <2> HIDE DEF at
  <2> QED
    BY <2>1 DEF Kept, D1, DeletedAt, at
<1> HIDE DEF at
<1>14. ASSUME NEW p \in DOMAIN c.moves
       PROVE  \/ /\ p \in DOMAIN b.moves /\ c.moves[p].from = b.moves[p].from
                 /\ c.moves[p].to \in Nat /\ src(c.moves[p].to) = b.moves[p].to
              \/ /\ p = Len(b.moves) + 1 /\ from \notin I
                 /\ c.moves[p].from = at /\ c.moves[p].to = to
  BY <1>3 DEF Sent
<1>15. MovesFit(c)
  <2>1. ASSUME NEW p \in DOMAIN c.moves
        PROVE  c.moves[p].from \in D1 /\ c.moves[p].to \in J
    <3>1. CASE /\ p \in DOMAIN b.moves /\ c.moves[p].from = b.moves[p].from
               /\ c.moves[p].to \in Nat /\ src(c.moves[p].to) = b.moves[p].to
      <4>1. b.moves[p].from \in D /\ b.moves[p].to \in I
        BY <1>1, <3>1, MoveFit
      <4> HIDE DEF src
      <4> QED
        BY <1>4, <1>8, <3>1, <4>1
    <3>2. CASE /\ p = Len(b.moves) + 1 /\ from \notin I
               /\ c.moves[p].from = at /\ c.moves[p].to = to
      BY <1>0, <1>5, <1>13, <3>2
    <3> QED
      BY <1>14, <3>1, <3>2
  <2>2. ASSUME NEW p \in DOMAIN c.moves, NEW q \in DOMAIN c.moves,
               p \in DOMAIN b.moves, c.moves[p].from = b.moves[p].from,
               c.moves[p].to \in Nat, src(c.moves[p].to) = b.moves[p].to,
               c.moves[p].from = c.moves[q].from \/ c.moves[p].to = c.moves[q].to
        PROVE  p = q
    <3>1. b.moves[p].from \in D /\ b.moves[p].to \in I
      BY <1>1, <2>2, MoveFit
    <3>2. CASE /\ q \in DOMAIN b.moves /\ c.moves[q].from = b.moves[q].from
               /\ c.moves[q].to \in Nat /\ src(c.moves[q].to) = b.moves[q].to
      <4>1. b.moves[p].from = b.moves[q].from \/ b.moves[p].to = b.moves[q].to
        BY <2>2, <3>2
      <4> QED
        BY <1>1, <2>2, <3>2, <4>1, MoveFit
    <3>3. CASE /\ q = Len(b.moves) + 1 /\ from \notin I
               /\ c.moves[q].from = at /\ c.moves[q].to = to
      <4>1. c.moves[p].from # at
        BY <1>13, <2>2, <3>1, <3>3
      <4>2. src(to) = from
        BY DEF Source
      <4>3. c.moves[p].to # to
        BY <2>2, <3>1, <3>3, <4>2
      <4> QED
        BY <2>2, <3>3, <4>1, <4>3
    <3> QED
      BY <1>14, <3>2, <3>3
  <2>3. ASSUME NEW p \in DOMAIN c.moves, NEW q \in DOMAIN c.moves,
               c.moves[p].from = c.moves[q].from \/ c.moves[p].to = c.moves[q].to
        PROVE  p = q
    <3>1. CASE p \in DOMAIN b.moves
      <4>1. /\ c.moves[p].from = b.moves[p].from
            /\ c.moves[p].to \in Nat /\ src(c.moves[p].to) = b.moves[p].to
        <5>1. p # Len(b.moves) + 1
          BY <1>1, <3>1
        <5> QED
          BY <1>14, <5>1
      <4> QED
        BY <2>2, <2>3, <3>1, <4>1
    <3>2. CASE q \in DOMAIN b.moves
      <4>1. /\ c.moves[q].from = b.moves[q].from
            /\ c.moves[q].to \in Nat /\ src(c.moves[q].to) = b.moves[q].to
        <5>1. q # Len(b.moves) + 1
          BY <1>1, <3>2
        <5> QED
          BY <1>14, <5>1
      <4>2. c.moves[q].from = c.moves[p].from \/ c.moves[q].to = c.moves[p].to
        BY <2>3
      <4> QED
        BY <2>2, <3>2, <4>1, <4>2
    <3>3. CASE p \notin DOMAIN b.moves /\ q \notin DOMAIN b.moves
      BY <1>14, <3>3
    <3> QED
      BY <3>1, <3>2, <3>3
  <2> QED
    BY <1>2, <2>1, <2>3 DEF MovesFit
<1>16. Fits(c, m, n)
  <2>1. /\ c.deletions \in SUBSET Nat /\ c.insertions \in SUBSET Nat
        /\ c.modifications \in SUBSET Nat
    BY <1>2, <1>4, <1>5, <1>12 DEF Bounded
  <2>2. c \in Builder
    BY <1>2, <1>3, <2>1 DEF Builder, Sent
  <2> QED
    BY <1>0, <1>2, <1>4, <1>10, <1>11, <1>12, <1>15, <2>2 DEF Fits
<1> DEFINE t == Moved(l, from, to)
<1>17. /\ Len(t) = n
       /\ \A j \in Positions(l) : t[j + 1] = l[src(j) + 1] /\ src(j) \in Positions(l)
  BY MovedIs DEF n
<1> HIDE DEF t
<1>18. ASSUME NEW j \in Positions(t), NEW i \in Nat, Came(c, j, i)
       PROVE  \E k \in Positions(l) :
                 /\ Came(b, k, i) /\ t[j + 1] = l[k + 1]
                 /\ j \in c.modifications <=> k \in b.modifications
  <2>1. j \in 0 .. n - 1 /\ j \in Nat /\ j \in Positions(l)
    BY <1>0, <1>17 DEF Positions, n
  <2> HIDE DEF src
  <2>2. Came(b, src(j), i)
    <3>1. CASE Kept(D1, J, i, j)
      BY <1>9, <2>1, <3>1 DEF Came
    <3>2. CASE Move(i, j) \in Moves(c)
      <4>1. PICK p \in DOMAIN c.moves : c.moves[p].from = i /\ c.moves[p].to = j
        BY <1>16, <3>2, MoveIs
      <4>2. CASE p \in DOMAIN b.moves /\ b.moves[p].from = i /\ b.moves[p].to = src(j)
        BY <1>1, <4>2, CameMoved
      <4>3. CASE from \notin I /\ i = at /\ j = to
        <5>1. src(j) = from
          BY <4>3 DEF src, Source
        <5> QED
          BY <1>13, <4>3, <5>1 DEF Came
      <4> QED
        BY <1>14, <4>1, <4>2, <4>3
    <3> QED
      BY <1>2, <1>18, <3>1, <3>2 DEF Came
  <2> QED
    BY <1>12, <1>17, <2>1, <2>2
<1> QED
  BY <1>16, <1>18 DEF c, t, Follows, n
-----------------------------------------------------------------------------
(* Moves that are undone *)

\* clean_up_stale_moves after the first i moves, for every i.
IsCleaned(b, n, cleaned) ==
    cleaned = [i \in 0 .. n |-> IF i = 0 THEN [b EXCEPT !.moves = <<>>]
                                ELSE Cleaned(cleaned[i - 1], b.moves[i])]

\* There is such a function, however many moves there are.
LEMMA CleanedExists ==
    ASSUME NEW b, NEW n \in Nat
    PROVE  \E cleaned : IsCleaned(b, n, cleaned)
<1> DEFINE T == {k \in Nat : ~ \E cleaned : IsCleaned(b, k, cleaned)}
           none == [b EXCEPT !.moves = <<>>]
<1>1. SUFFICES ASSUME T # {} PROVE FALSE
  OBVIOUS
<1>2. PICK k \in T : \A x \in T : k <= x
  <2> HIDE DEF T
  <2>1. T \in SUBSET Nat
    BY DEF T
  <2> QED
    BY <1>1, <2>1, LeastIs
<1>3. k # 0
  <2>1. IsCleaned(b, 0, [i \in 0 .. 0 |-> none])
    BY DEF IsCleaned
  <2> QED
    BY <2>1
<1>4. k - 1 \in Nat /\ k - 1 \notin T
  BY <1>2, <1>3
<1>5. PICK g : IsCleaned(b, k - 1, g)
  BY <1>4
<1> DEFINE f == [i \in 0 .. k |-> IF i < k THEN g[i]
                                  ELSE Cleaned(g[k - 1], b.moves[k])]
           After(p, j) == Cleaned(p[j - 1], b.moves[j])
<1> HIDE DEF none
<1>6. \A i \in 0 .. k : f[i] = IF i = 0 THEN none ELSE After(f, i)
  <2> TAKE i \in 0 .. k
  <2>1. \A j \in 0 .. k - 1 : f[j] = g[j]
    BY <1>4
  <2>2. \A j \in 0 .. k - 1 : g[j] = IF j = 0 THEN none ELSE After(g, j)
    <3> DEFINE e == [j \in 0 .. k - 1 |-> IF j = 0 THEN none ELSE After(g, j)]
    <3>1. g = e
      BY <1>5 DEF IsCleaned, none
    <3>2. \A j \in 0 .. k - 1 : e[j] = IF j = 0 THEN none ELSE After(g, j)
      OBVIOUS
    <3> HIDE DEF e, After, f
    <3> QED
      BY <3>1, <3>2, Zenon
  <2>3. f[k] = After(g, k)
    BY <1>4
  <2>4. \A j \in 1 .. k : After(f, j) = After(g, j)
    BY <1>4, <2>1
  <2> HIDE DEF f, After
  <2>5. CASE i = k
    BY <2>5, <1>3, <1>4, <2>3, <2>4
  <2>6. CASE i # k
    BY <2>6, <1>4, <2>1, <2>2, <2>4
  <2> QED
    BY <2>5, <2>6
<1>7. f = [i \in 0 .. k |-> IF i = 0 THEN none ELSE After(f, i)]
  <2>1. f = [i \in 0 .. k |-> f[i]]
    OBVIOUS
  <2> HIDE DEF f, After
  <2> QED
    BY <1>6, <2>1
<1>8. IsCleaned(b, k, f)
  BY <1>7 DEF IsCleaned, none
<1> QED
  BY <1>2, <1>8

\* The changes c delete and insert no more than b, and mark the same rows.
Less(c, b) ==
    /\ c.deletions \subseteq b.deletions /\ c.insertions \subseteq b.insertions
    /\ c.modifications = b.modifications
    /\ \A i, j \in Nat : Kept(b.deletions, b.insertions, i, j)
                            => Kept(c.deletions, c.insertions, i, j)

\* The changes c are b without the moves among its first k that are undone.
Tidied(c, b, k, m, n) ==
    /\ Fits(c, m, n)
    /\ Less(c, b)
    /\ \A i, j \in Nat : Kept(c.deletions, c.insertions, i, j) => Came(b, j, i)
    /\ \A p \in DOMAIN c.moves : \E q \in 1 .. k : c.moves[p] = b.moves[q]
    /\ \A q \in k + 1 .. Len(b.moves) :
          b.moves[q].from \in c.deletions /\ b.moves[q].to \in c.insertions

\* One more row is kept.
KeptToo(D1, I1, D, I, a, b) ==
    \A i, j \in Nat :
       Kept(D1, I1, i, j) <=> Kept(D, I, i, j) \/ (i = a /\ j = b)

\* A move that is undone was of a row that is kept.
LEMMA KeptAgain ==
    ASSUME NEW D \in SUBSET Nat, NEW I \in SUBSET Nat,
           NEW a \in D, NEW b \in I, unshift(D, a) = unshift(I, b),
           NEW D1, D1 = D \ {a}, NEW I1, I1 = I \ {b}
    PROVE  KeptToo(D1, I1, D, I, a, b)
<1>1. /\ D1 \in SUBSET Nat /\ I1 \in SUBSET Nat /\ a \in Nat \ D1 /\ b \in Nat \ I1
      /\ D1 \cup {a} = D /\ I1 \cup {b} = I
  OBVIOUS
<1>2. unshift(D, a) = unshift(D1, a) /\ unshift(I, b) = unshift(I1, b)
  <2>1. /\ unshift(D1 \cup {a}, a) = IF a <= a THEN unshift(D1, a)
                                      ELSE unshift(D1, a) - 1
        /\ unshift(I1 \cup {b}, b) = IF b <= b THEN unshift(I1, b)
                                      ELSE unshift(I1, b) - 1
    BY <1>1, CountWith
  <2> QED
    BY <1>1, <2>1
<1>3. Kept(D1, I1, a, b)
  BY <1>1, <1>2 DEF Kept
<1>4. \A i, j \in Nat : Kept(D1 \cup {a}, I1 \cup {b}, i, j)
                           <=> Kept(D1, I1, i, j) /\ ~(i = a /\ j = b)
  BY <1>1, <1>3, KeptWithout
<1>5. \A i, j \in Nat : Kept(D, I, i, j)
                           <=> Kept(D1, I1, i, j) /\ ~(i = a /\ j = b)
  BY <1>1, <1>4
<1> QED
  BY <1>3, <1>5 DEF KeptToo

\* One more move is tidied.
LEMMA TidiedStep ==
    ASSUME NEW b, NEW m, NEW n, Fits(b, m, n), NEW k \in 1 .. Len(b.moves),
           NEW c, Tidied(c, b, k - 1, m, n)
    PROVE  Tidied(Cleaned(c, b.moves[k]), b, k, m, n)
<1> DEFINE mv == b.moves[k]
           d == Cleaned(c, mv)
<1>1. /\ DOMAIN b.moves = 1 .. Len(b.moves) /\ Len(b.moves) \in Nat
      /\ mv \in MoveType /\ mv.from \in Nat /\ mv.to \in Nat
      /\ m \in Nat /\ n \in Nat /\ MovesFit(b)
      /\ k \in DOMAIN b.moves /\ k - 1 \in Nat /\ (k - 1) + 1 = k
  <2>1. MovesFit(b)
    BY DEF Fits
  <2> QED
    BY <2>1, FitsIs
<1>2. /\ Fits(c, m, n)
      /\ Less(c, b)
      /\ \A i, j \in Nat : Kept(c.deletions, c.insertions, i, j) => Came(b, j, i)
      /\ \A p \in DOMAIN c.moves : \E q \in 1 .. k - 1 : c.moves[p] = b.moves[q]
      /\ \A q \in k .. Len(b.moves) :
            b.moves[q].from \in c.deletions /\ b.moves[q].to \in c.insertions
  BY <1>1 DEF Tidied
<1>3. /\ c = [deletions |-> c.deletions, insertions |-> c.insertions,
              modifications |-> c.modifications, moves |-> c.moves,
              mapping |-> <<>>]
      /\ c.deletions \in SUBSET Nat /\ c.insertions \in SUBSET Nat
      /\ c.modifications \in SUBSET Nat
      /\ c.moves \in Seq(MoveType) /\ Len(c.moves) \in Nat
      /\ DOMAIN c.moves = 1 .. Len(c.moves)
  BY <1>2, FitsIs
<1>4. /\ c.deletions \subseteq 0 .. m - 1 /\ c.insertions \subseteq 0 .. n - 1
      /\ c.modifications \subseteq 0 .. n - 1
      /\ Kept(c.deletions, c.insertions, m, n) /\ MovesFit(c)
  BY <1>2 DEF Fits
<1>5. mv.from \in c.deletions /\ mv.to \in c.insertions
  <2>1. k \in k .. Len(b.moves)
    BY <1>1
  <2> QED
    BY <1>2, <2>1
<1> HIDE DEF mv
<1>6. ASSUME NEW q \in DOMAIN b.moves, q # k
      PROVE  b.moves[q].from # mv.from /\ b.moves[q].to # mv.to
  <2>1. \A x \in DOMAIN b.moves :
           b.moves[q].from = b.moves[x].from \/ b.moves[q].to = b.moves[x].to
              => q = x
    BY <1>1, <1>6, MoveFit
  <2> QED
    BY <1>1, <1>6, <2>1 DEF mv
<1>7. ASSUME NEW p \in DOMAIN c.moves
      PROVE  /\ c.moves[p].from # mv.from /\ c.moves[p].to # mv.to
             /\ \E q \in 1 .. k : c.moves[p] = b.moves[q]
  <2>1. PICK q \in 1 .. k - 1 : c.moves[p] = b.moves[q]
    BY <1>2
  <2>2. q \in DOMAIN b.moves /\ q # k /\ q \in 1 .. k
    BY <1>1, <2>1
  <2> QED
    BY <1>6, <2>1, <2>2
<1>8. CASE unshift(c.deletions, mv.from) = unshift(c.insertions, mv.to)
  <2> DEFINE D1 == c.deletions \ {mv.from}
             I1 == c.insertions \ {mv.to}
  <2>1. d = [c EXCEPT !.deletions = D1, !.insertions = I1]
    BY <1>8 DEF Cleaned
  <2>2. /\ d.deletions = D1 /\ d.insertions = I1 /\ d.moves = c.moves
        /\ d.modifications = c.modifications /\ d \in Builder
    <3> HIDE DEF d
    <3>1. D1 \in SUBSET Nat /\ I1 \in SUBSET Nat
      BY <1>3
    <3> HIDE DEF D1, I1
    <3>2. /\ d.deletions = D1 /\ d.insertions = I1 /\ d.moves = c.moves
          /\ d.modifications = c.modifications
      BY <1>3, <2>1
    <3>3. c \in Builder
      BY <1>2, FitsIs
    <3>4. d \in Builder
      BY <2>1, <3>1, <3>3 DEF Builder
    <3> QED
      BY <3>2, <3>4
  <2> HIDE DEF d
  <2>3. \A i, j \in Nat :
           Kept(D1, I1, i, j)
              <=> Kept(c.deletions, c.insertions, i, j)
                     \/ (i = mv.from /\ j = mv.to)
    <3>1. c.deletions \in SUBSET Nat /\ c.insertions \in SUBSET Nat
      BY <1>3
    <3>2. D1 = c.deletions \ {mv.from} /\ I1 = c.insertions \ {mv.to}
      OBVIOUS
    <3> HIDE DEF D1, I1
    <3>3. KeptToo(D1, I1, c.deletions, c.insertions, mv.from, mv.to)
      BY <1>5, <1>8, <3>1, <3>2, KeptAgain
    <3> QED
      BY <3>3 DEF KeptToo
  <2>4. Came(b, mv.to, mv.from)
    BY <1>1, CameMoved DEF mv
  <2>5. \A i, j \in Nat : Kept(D1, I1, i, j) => Came(b, j, i)
    BY <1>2, <2>3, <2>4
  <2>6. Kept(D1, I1, m, n)
    BY <1>1, <1>4, <2>3
  <2>7. MovesFit(d)
    BY <1>4, <1>7, <2>2 DEF MovesFit
  <2>8. D1 \subseteq 0 .. m - 1 /\ I1 \subseteq 0 .. n - 1
    BY <1>4
  <2>9. Fits(d, m, n)
    <3> HIDE DEF D1, I1
    <3> QED
      BY <1>1, <1>4, <2>2, <2>6, <2>7, <2>8 DEF Fits
  <2>10. \A q \in k + 1 .. Len(b.moves) :
            b.moves[q].from \in D1 /\ b.moves[q].to \in I1
    <3> TAKE q \in k + 1 .. Len(b.moves)
    <3>1. q \in k .. Len(b.moves) /\ q # k /\ q \in DOMAIN b.moves
      BY <1>1
    <3> QED
      BY <1>2, <1>6, <3>1
  <2> HIDE DEF D1, I1
  <2>11. Less(d, b)
    BY <1>2, <2>2, <2>3 DEF Less, D1, I1
  <2>12. Tidied(d, b, k, m, n)
    BY <1>2, <1>7, <2>2, <2>5, <2>9, <2>10, <2>11 DEF Tidied
  <2> QED
    BY <2>12 DEF d, mv
<1>9. CASE unshift(c.deletions, mv.from) # unshift(c.insertions, mv.to)
  <2> DEFINE s == Append(c.moves, mv)
             N == Len(c.moves) + 1
  <2>1. d = [c EXCEPT !.moves = s]
    BY <1>9 DEF Cleaned
  <2>2. s \in Seq(MoveType)
    BY <1>1, <1>3
  <2>3. /\ DOMAIN s = 1 .. N /\ s[N] = mv
        /\ \A p \in 1 .. Len(c.moves) : s[p] = c.moves[p]
    <3>1. DOMAIN s = 1 .. Len(s) /\ Len(s) = Len(c.moves) + 1
      BY <1>3, <2>2, LenProperties
    <3>2. s[Len(c.moves) + 1] = mv /\ \A p \in 1 .. Len(c.moves) : s[p] = c.moves[p]
      BY <1>3
    <3> QED
      BY <3>1, <3>2
  <2> HIDE DEF d, s
  <2>4. /\ d.deletions = c.deletions /\ d.insertions = c.insertions
        /\ d.moves = s /\ d.modifications = c.modifications /\ d \in Builder
    BY <1>3, <2>1, <2>2 DEF Builder
  <2>5. ASSUME NEW p \in 1 .. N PROVE p = N \/ p \in DOMAIN c.moves
    BY <1>3
  <2>6. MovesFit(d)
    <3>1. ASSUME NEW p \in DOMAIN s
          PROVE  s[p].from \in c.deletions /\ s[p].to \in c.insertions
      <4>1. CASE p = N
        BY <1>5, <2>3, <4>1
      <4>2. CASE p \in DOMAIN c.moves
        BY <1>3, <1>4, <2>3, <4>2, MoveFit
      <4> QED
        BY <2>3, <2>5, <4>1, <4>2
    <3>2. ASSUME NEW p \in DOMAIN s, NEW q \in DOMAIN s,
                 s[p].from = s[q].from \/ s[p].to = s[q].to
          PROVE  p = q
      <4>1. CASE p \in DOMAIN c.moves /\ q \in DOMAIN c.moves
        <5>1. s[p] = c.moves[p] /\ s[q] = c.moves[q]
          BY <1>3, <2>3, <4>1
        <5> QED
          BY <1>4, <3>2, <4>1, <5>1, MoveFit
      <4>2. CASE p = N /\ q \in DOMAIN c.moves
        <5>1. s[p] = mv /\ s[q] = c.moves[q]
          BY <1>3, <2>3, <4>2
        <5> QED
          BY <1>7, <3>2, <4>2, <5>1
      <4>3. CASE q = N /\ p \in DOMAIN c.moves
        <5>1. s[q] = mv /\ s[p] = c.moves[p]
          BY <1>3, <2>3, <4>3
        <5> QED
          BY <1>7, <3>2, <4>3, <5>1
      <4>4. CASE p = N /\ q = N
        BY <4>4
      <4> QED
        BY <2>3, <2>5, <4>1, <4>2, <4>3, <4>4
    <3> QED
      BY <2>4, <3>1, <3>2 DEF MovesFit
  <2>7. Fits(d, m, n)
    BY <1>1, <1>4, <2>4, <2>6 DEF Fits
  <2>8. \A p \in DOMAIN s : \E q \in 1 .. k : s[p] = b.moves[q]
    <3> TAKE p \in DOMAIN s
    <3>1. CASE p = N
      <4>1. k \in 1 .. k
        BY <1>1
      <4> QED
        BY <2>3, <3>1, <4>1 DEF mv
    <3>2. CASE p \in DOMAIN c.moves
      BY <1>3, <1>7, <2>3, <3>2
    <3> QED
      BY <2>3, <2>5, <3>1, <3>2
  <2>9. \A q \in k + 1 .. Len(b.moves) : q \in k .. Len(b.moves)
    BY <1>1
  <2>10. Less(d, b)
    BY <1>2, <2>4 DEF Less
  <2>11. Tidied(d, b, k, m, n)
    BY <1>2, <2>4, <2>7, <2>8, <2>9, <2>10 DEF Tidied
  <2> QED
    BY <2>11 DEF d, mv
<1> QED
  BY <1>8, <1>9

\* clean_up_stale_moves keeps every mark, and where it still says that a row came
\* from, the row came from before.
THEOREM CleanFits ==
    ASSUME NEW b, NEW m, NEW n, Fits(b, m, n)
    PROVE  LET c == clean_up_stale_moves(b)
           IN  /\ Fits(c, m, n) /\ Less(c, b)
               /\ \A i, j \in Nat : Came(c, j, i) => Came(b, j, i)
<1> DEFINE N == Len(b.moves)
           P(f) == f = [i \in 0 .. N |-> IF i = 0 THEN [b EXCEPT !.moves = <<>>]
                                         ELSE Cleaned(f[i - 1], b.moves[i])]
           c == clean_up_stale_moves(b)
<1>1. N \in Nat /\ DOMAIN b.moves = 1 .. N /\ MovesFit(b)
  BY FitsIs DEF Fits
<1>2. \E f : P(f)
  BY <1>1, CleanedExists DEF IsCleaned
<1> DEFINE g == CHOOSE f : P(f)
<1>3. P(g)
  BY <1>2, Zenon
<1>4. c = g[N]
  BY DEF clean_up_stale_moves
<1>5. IsCleaned(b, N, g)
  BY <1>3 DEF IsCleaned
<1> HIDE DEF g, c, P
<1>6. /\ g[0] = [b EXCEPT !.moves = <<>>]
      /\ \A i \in 1 .. N : g[i] = Cleaned(g[i - 1], b.moves[i])
  <2> DEFINE e == [i \in 0 .. N |-> IF i = 0 THEN [b EXCEPT !.moves = <<>>]
                                    ELSE Cleaned(g[i - 1], b.moves[i])]
  <2>1. g = e
    BY <1>5 DEF IsCleaned
  <2>2. \A i \in 0 .. N : e[i] = IF i = 0 THEN [b EXCEPT !.moves = <<>>]
                                 ELSE Cleaned(g[i - 1], b.moves[i])
    OBVIOUS
  <2> HIDE DEF e
  <2> QED
    BY <1>1, <2>1, <2>2
<1>7. Tidied(g[0], b, 0, m, n)
  <2> DEFINE d == [b EXCEPT !.moves = <<>>]
  <2>1. /\ d.deletions = b.deletions /\ d.insertions = b.insertions
        /\ d.modifications = b.modifications /\ d.moves = <<>> /\ d \in Builder
    <3>1. b \in Builder /\ <<>> \in Seq(MoveType)
      BY FitsIs
    <3> QED
      BY <3>1 DEF Builder
  <2> HIDE DEF d
  <2>2. DOMAIN d.moves = {}
    BY <2>1
  <2>3. MovesFit(d)
    BY <2>2 DEF MovesFit
  <2>4. Fits(d, m, n)
    BY <2>1, <2>3 DEF Fits
  <2>5. \A q \in 0 + 1 .. Len(b.moves) : q \in DOMAIN b.moves
    BY <1>1
  <2>6. Tidied(d, b, 0, m, n)
    BY <1>1, <2>1, <2>2, <2>4, <2>5, MoveFit DEF Tidied, Came, Less
  <2> QED
    BY <1>6, <2>6 DEF d
<1>8. Tidied(g[N], b, N, m, n)
  <2> DEFINE T == {k \in 0 .. N : ~Tidied(g[k], b, k, m, n)}
  <2>1. SUFFICES ASSUME T # {} PROVE FALSE
    BY <1>1
  <2>2. PICK k \in T : \A x \in T : k <= x
    <3> HIDE DEF T
    <3>1. T \in SUBSET Nat
      BY DEF T
    <3> QED
      BY <2>1, <3>1, LeastIs
  <2>3. k \in 1 .. N /\ k - 1 \in 0 .. N /\ k - 1 \notin T
    BY <1>1, <1>7, <2>2
  <2>4. Tidied(g[k - 1], b, k - 1, m, n)
    BY <2>3
  <2>5. Tidied(Cleaned(g[k - 1], b.moves[k]), b, k, m, n)
    BY <2>3, <2>4, TidiedStep
  <2> QED
    BY <1>6, <2>2, <2>3, <2>5
<1>9. Tidied(c, b, N, m, n)
  BY <1>4, <1>8
<1>10. Fits(c, m, n) /\ Less(c, b)
  BY <1>9 DEF Tidied
<1>11. ASSUME NEW i \in Nat, NEW j \in Nat, Came(c, j, i)
       PROVE  Came(b, j, i)
  <2>1. CASE Kept(c.deletions, c.insertions, i, j)
    BY <1>9, <2>1 DEF Tidied
  <2>2. CASE Move(i, j) \in Moves(c)
    <3>1. PICK p \in DOMAIN c.moves : c.moves[p].from = i /\ c.moves[p].to = j
      BY <1>10, <2>2, MoveIs
    <3>2. PICK q \in 1 .. N : c.moves[p] = b.moves[q]
      BY <1>9, <3>1 DEF Tidied
    <3> QED
      BY <1>1, <3>1, <3>2, CameMoved
  <2> QED
    BY <1>11, <2>1, <2>2 DEF Came
<1> QED
  BY <1>10, <1>11 DEF c
-----------------------------------------------------------------------------
(* Merging *)

\* A row came to one position.
LEMMA LeadsOnce ==
    ASSUME NEW b, NEW m, NEW n, Fits(b, m, n),
           NEW i \in Nat, NEW j \in Nat, NEW y \in Nat,
           Came(b, j, i), Came(b, y, i)
    PROVE  j = y
<1>1. b.deletions \in SUBSET Nat /\ b.insertions \in SUBSET Nat /\ MovesFit(b)
  BY FitsIs DEF Fits
<1>2. CASE i \in b.deletions
  <2>1. Move(i, j) \in Moves(b) /\ Move(i, y) \in Moves(b)
    BY <1>2 DEF Came, Kept
  <2>2. PICK k \in DOMAIN b.moves : b.moves[k].from = i /\ b.moves[k].to = j
    BY <2>1, MoveIs
  <2>3. PICK l \in DOMAIN b.moves : b.moves[l].from = i /\ b.moves[l].to = y
    BY <2>1, MoveIs
  <2>4. k = l
    BY <1>1, <2>2, <2>3, MoveFit
  <2> QED
    BY <2>2, <2>3, <2>4
<1>3. CASE i \notin b.deletions
  <2>1. Move(i, j) \notin Moves(b) /\ Move(i, y) \notin Moves(b)
    BY <1>3, MovesInside
  <2>2. Kept(b.deletions, b.insertions, i, j) /\ Kept(b.deletions, b.insertions, i, y)
    BY <2>1 DEF Came
  <2> QED
    BY <1>1, <2>2, KeptOrders
<1> QED
  BY <1>2, <1>3

\* What is added to a set through the positions of kept rows.
LEMMA AddedIs ==
    ASSUME NEW P, NEW Q, NEW R, Bounded(P), Bounded(Q), Bounded(R),
           NEW X, X = P \cup {shift(P, unshift(Q, z)) : z \in R \ Q}
    PROVE  Traced(X, P, Q, R)
<1>1. P \in SUBSET Nat /\ Q \in SUBSET Nat /\ R \in SUBSET Nat
  BY DEF Bounded
<1>2. \A z \in R \ Q : /\ shift(P, unshift(Q, z)) \in Nat
                       /\ \A i \in Nat : Kept(P, Q, i, z)
                                            <=> i = shift(P, unshift(Q, z))
  BY <1>1, KeptIsShift
<1>3. X \in SUBSET Nat
  BY <1>1, <1>2
<1>4. \A k \in Nat : k \in X <=> k \in P \/ \E z \in R : Kept(P, Q, k, z)
  <2> TAKE k \in Nat
  <2>1. \A z \in R : Kept(P, Q, k, z) => z \in R \ Q
    BY DEF Kept
  <2>2. (\E z \in R : Kept(P, Q, k, z))
           <=> \E z \in R \ Q : k = shift(P, unshift(Q, z))
    BY <1>2, <2>1
  <2> QED
    BY <2>2
<1> QED
  BY <1>3, <1>4 DEF Traced

\* The deletions and insertions of the merged changes.
MergedInsertions(b, c) ==
    insert_at_set(erase_at_set(b.insertions, c.deletions), c.insertions)

\* The deletions and insertions of merge: a row that is kept by both is kept, and no
\* other is.
LEMMA MergedIs ==
    ASSUME NEW b, NEW c, NEW m, NEW k, NEW n, Fits(b, m, k), Fits(c, k, n)
    PROVE  LET D == MergedDeletions(b, c)
               I == MergedInsertions(b, c)
           IN  /\ Traced(D, b.deletions, b.insertions, c.deletions)
               /\ Traced(I, c.insertions, c.deletions, b.insertions)
               /\ D \subseteq 0 .. m - 1 /\ I \subseteq 0 .. n - 1
               /\ Kept(D, I, m, n)
               /\ \A i, j \in Nat : Kept(D, I, i, j) =>
                     \E x \in Nat : /\ Kept(b.deletions, b.insertions, i, x)
                                    /\ Kept(c.deletions, c.insertions, x, j)
<1> DEFINE D == MergedDeletions(b, c)
           I == MergedInsertions(b, c)
<1>1. /\ Bounded(b.deletions) /\ Bounded(b.insertions)
      /\ Bounded(c.deletions) /\ Bounded(c.insertions)
      /\ m \in Nat /\ k \in Nat /\ n \in Nat
      /\ b.deletions \in SUBSET Nat /\ b.insertions \in SUBSET Nat
      /\ c.deletions \in SUBSET Nat /\ c.insertions \in SUBSET Nat
  BY FitsIs
<1>2. /\ b.deletions \subseteq 0 .. m - 1 /\ b.insertions \subseteq 0 .. k - 1
      /\ c.deletions \subseteq 0 .. k - 1 /\ c.insertions \subseteq 0 .. n - 1
      /\ Kept(b.deletions, b.insertions, m, k)
      /\ Kept(c.deletions, c.insertions, k, n)
  BY DEF Fits
<1>3. Traced(D, b.deletions, b.insertions, c.deletions)
  <2>1. D = b.deletions \cup {shift(b.deletions, unshift(b.insertions, z)) :
                                 z \in c.deletions \ b.insertions}
    BY DEF MergedDeletions, add_shifted_by
  <2> HIDE DEF D
  <2> QED
    BY <1>1, <2>1, AddedIs
<1>4. Traced(I, c.insertions, c.deletions, b.insertions)
  <2>1. I = c.insertions \cup {shift(c.insertions, unshift(c.deletions, z)) :
                                  z \in b.insertions \ c.deletions}
    BY DEF MergedInsertions, insert_at_set, erase_at_set
  <2> HIDE DEF I
  <2> QED
    BY <1>1, <2>1, AddedIs
<1> HIDE DEF D, I
<1>5. ASSUME NEW i \in D PROVE i \in 0 .. m - 1
  <2>1. i \in Nat
    BY <1>3 DEF Traced
  <2>2. CASE i \in b.deletions
    BY <1>2, <2>2
  <2>3. CASE i \notin b.deletions
    <3>1. PICK z \in c.deletions : Kept(b.deletions, b.insertions, i, z)
      BY <1>3, <2>1, <2>3 DEF Traced
    <3>2. z \in Nat /\ z < k
      BY <1>1, <1>2
    <3>3. i < m
      BY <1>1, <1>2, <2>1, <3>1, <3>2, KeptOrders
    <3> QED
      BY <1>1, <2>1, <3>3
  <2> QED
    BY <2>2, <2>3
<1>6. ASSUME NEW j \in I PROVE j \in 0 .. n - 1
  <2>1. j \in Nat
    BY <1>4 DEF Traced
  <2>2. CASE j \in c.insertions
    BY <1>2, <2>2
  <2>3. CASE j \notin c.insertions
    <3>1. PICK z \in b.insertions : Kept(c.insertions, c.deletions, j, z)
      BY <1>4, <2>1, <2>3 DEF Traced
    <3>2. z \in Nat /\ z < k
      BY <1>1, <1>2
    <3>3. Kept(c.deletions, c.insertions, z, j)
      BY <3>1 DEF Kept
    <3>4. j < n
      BY <1>1, <1>2, <2>1, <3>2, <3>3, KeptOrders
    <3> QED
      BY <1>1, <2>1, <3>4
  <2> QED
    BY <2>2, <2>3
<1>7. ASSUME NEW i \in Nat, NEW j \in Nat
      PROVE  Kept(D, I, i, j) <=>
                /\ i \notin D /\ j \notin I
                /\ \E x \in Nat : /\ Kept(b.deletions, b.insertions, i, x)
                                  /\ Kept(c.deletions, c.insertions, x, j)
  BY <1>1, <1>3, <1>4, KeptComposed
<1>8. Kept(D, I, m, n)
  <2>1. m \notin D /\ n \notin I
    BY <1>1, <1>5, <1>6
  <2> QED
    BY <1>1, <1>2, <1>7, <2>1
<1> QED
  BY <1>3, <1>4, <1>5, <1>6, <1>7, <1>8 DEF D, I

\* A row at i came to x by b and to j by c, and one of them moved it.
Via(b, c, i, j, x) ==
    /\ i \in Nat /\ j \in Nat /\ x \in Nat
    /\ Came(b, x, i) /\ Came(c, j, x)
    /\ x \in b.insertions \/ x \in c.deletions

\* Every move of s is of a row of its own, at a position of S in between.
Through(s, b, c, S) ==
    /\ s \in Seq(MoveType)
    /\ \E X \in [DOMAIN s -> S] :
          /\ \A p \in DOMAIN s : Via(b, c, s[p].from, s[p].to, X[p])
          /\ \A p, q \in DOMAIN s : X[p] = X[q] => p = q

\* The row was deleted and inserted.
LEMMA ViaInside ==
    ASSUME NEW b, NEW c, NEW m, NEW k, NEW n, Fits(b, m, k), Fits(c, k, n),
           NEW i, NEW j, NEW x, Via(b, c, i, j, x)
    PROVE  i \in MergedDeletions(b, c) /\ j \in MergedInsertions(b, c)
<1> DEFINE D == MergedDeletions(b, c)
           I == MergedInsertions(b, c)
<1>1. /\ Traced(D, b.deletions, b.insertions, c.deletions)
      /\ Traced(I, c.insertions, c.deletions, b.insertions)
  BY MergedIs
<1> HIDE DEF D, I
<1>2. /\ i \in Nat /\ j \in Nat /\ x \in Nat
      /\ Came(b, x, i) /\ Came(c, j, x)
      /\ x \in b.insertions \/ x \in c.deletions
  BY DEF Via
<1>3. /\ \A a \in Nat : a \in D <=> \/ a \in b.deletions
                                    \/ \E z \in c.deletions :
                                          Kept(b.deletions, b.insertions, a, z)
      /\ \A a \in Nat : a \in I <=> \/ a \in c.insertions
                                    \/ \E z \in b.insertions :
                                          Kept(c.insertions, c.deletions, a, z)
  BY <1>1 DEF Traced
<1>4. CASE x \in b.insertions
  <2>1. i \in b.deletions
    BY <1>2, <1>4, MovesInside DEF Came, Kept
  <2>2. j \in I
    <3>1. CASE Kept(c.deletions, c.insertions, x, j)
      <4>1. Kept(c.insertions, c.deletions, j, x)
        BY <3>1 DEF Kept
      <4> QED
        BY <1>2, <1>3, <1>4, <4>1
    <3>2. CASE Move(x, j) \in Moves(c)
      BY <1>2, <1>3, <3>2, MovesInside
    <3> QED
      BY <1>2, <3>1, <3>2 DEF Came
  <2> QED
    BY <1>2, <1>3, <2>1, <2>2 DEF D, I
<1>5. CASE x \in c.deletions
  <2>1. j \in c.insertions
    BY <1>2, <1>5, MovesInside DEF Came, Kept
  <2>2. i \in D
    <3>1. CASE Kept(b.deletions, b.insertions, i, x)
      BY <1>2, <1>3, <1>5, <3>1
    <3>2. CASE Move(i, x) \in Moves(b)
      BY <1>2, <1>3, <3>2, MovesInside
    <3> QED
      BY <1>2, <3>1, <3>2 DEF Came
  <2> QED
    BY <1>2, <1>3, <2>1, <2>2 DEF D, I
<1> QED
  BY <1>2, <1>4, <1>5

\* Moves of different rows are put together.
LEMMA ThroughBoth ==
    ASSUME NEW b, NEW c, NEW s, NEW t, NEW S, NEW T,
           Through(s, b, c, S), Through(t, b, c, T), S \cap T = {}
    PROVE  Through(s \o t, b, c, S \cup T)
<1> DEFINE u == s \o t
           M == Len(s)
           N == Len(t)
<1>1. s \in Seq(MoveType) /\ t \in Seq(MoveType)
  BY DEF Through
<1>2. /\ M \in Nat /\ N \in Nat /\ DOMAIN s = 1 .. M /\ DOMAIN t = 1 .. N
  BY <1>1, LenProperties
<1>3. /\ u \in Seq(MoveType) /\ Len(u) = M + N
      /\ \A p \in 1 .. M + N : u[p] = IF p <= M THEN s[p] ELSE t[p - M]
  BY <1>1, ConcatProperties, Zenon
<1>4. PICK X \in [DOMAIN s -> S] :
         /\ \A p \in DOMAIN s : Via(b, c, s[p].from, s[p].to, X[p])
         /\ \A p, q \in DOMAIN s : X[p] = X[q] => p = q
  BY DEF Through
<1>5. PICK Y \in [DOMAIN t -> T] :
         /\ \A p \in DOMAIN t : Via(b, c, t[p].from, t[p].to, Y[p])
         /\ \A p, q \in DOMAIN t : Y[p] = Y[q] => p = q
  BY DEF Through
<1> HIDE DEF u, M, N
<1>6. DOMAIN u = 1 .. M + N
  <2>1. DOMAIN u = 1 .. Len(u)
    BY <1>3, LenProperties
  <2> QED
    BY <1>3, <2>1
<1> DEFINE Z == [p \in 1 .. M + N |-> IF p <= M THEN X[p] ELSE Y[p - M]]
<1>7. ASSUME NEW p \in 1 .. M + N
      PROVE  \/ /\ p \in DOMAIN s /\ p <= M
                /\ u[p] = s[p] /\ Z[p] = X[p] /\ X[p] \in S
             \/ /\ p - M \in DOMAIN t /\ p > M
                /\ u[p] = t[p - M] /\ Z[p] = Y[p - M] /\ Y[p - M] \in T
  <2>1. CASE p <= M
    <3>1. p \in 1 .. M
      BY <1>2, <2>1
    <3> QED
      BY <1>2, <1>3, <1>4, <2>1, <3>1
  <2>2. CASE p > M
    <3>1. p - M \in 1 .. N /\ ~(p <= M)
      BY <1>2, <2>2
    <3> QED
      BY <1>2, <1>3, <1>5, <2>2, <3>1
  <2> QED
    BY <1>2, <2>1, <2>2
<1>8. Z \in [DOMAIN u -> S \cup T]
  <2>1. \A p \in 1 .. M + N : Z[p] \in S \cup T
    <3> HIDE DEF Z
    <3> QED
      BY <1>7
  <2> QED
    BY <1>6, <2>1
<1> HIDE DEF Z
<1>9. \A p \in DOMAIN u : Via(b, c, u[p].from, u[p].to, Z[p])
  <2> TAKE p \in DOMAIN u
  <2>1. p \in 1 .. M + N
    BY <1>6
  <2> QED
    BY <1>4, <1>5, <1>7, <2>1
<1>10. ASSUME NEW p \in DOMAIN u, NEW q \in DOMAIN u, Z[p] = Z[q]
       PROVE  p = q
  <2>1. p \in 1 .. M + N /\ q \in 1 .. M + N
    BY <1>6
  <2>2. CASE p <= M /\ q <= M
    <3>1. p \in DOMAIN s /\ q \in DOMAIN s /\ Z[p] = X[p] /\ Z[q] = X[q]
      BY <1>2, <1>7, <2>1, <2>2
    <3> QED
      BY <1>4, <1>10, <3>1
  <2>3. CASE p > M /\ q > M
    <3>1. p - M \in DOMAIN t /\ q - M \in DOMAIN t /\ Z[p] = Y[p - M] /\ Z[q] = Y[q - M]
      BY <1>2, <1>7, <2>1, <2>3
    <3>2. p - M = q - M
      BY <1>5, <1>10, <3>1
    <3> QED
      BY <1>2, <2>1, <3>2
  <2>4. CASE p <= M /\ q > M
    <3>1. Z[p] \in S /\ Z[q] \in T
      BY <1>2, <1>7, <2>1, <2>4
    <3> QED
      BY <1>10, <3>1
  <2>5. CASE p > M /\ q <= M
    <3>1. Z[q] \in S /\ Z[p] \in T
      BY <1>2, <1>7, <2>1, <2>5
    <3> QED
      BY <1>10, <3>1
  <2> QED
    BY <1>2, <2>1, <2>2, <2>3, <2>4, <2>5
<1>11. Through(u, b, c, S \cup T)
  BY <1>3, <1>8, <1>9, <1>10 DEF Through
<1> QED
  BY <1>11 DEF u

\* Moves of c of rows that b neither moved nor inserted.
FreshMoves(b, c) ==
    LET fresh == Rest(c.moves, {k \in Positions(c.moves) :
                    LET from == c.moves[k + 1].from
                    IN  from \in b.insertions \/ \E m \in Moves(b) : m.to = from})
    IN  [i \in DOMAIN fresh |->
           Move(shift(b.deletions, unshift(b.insertions, fresh[i].from)),
                fresh[i].to)]

\* The first part of merge's moves goes through rows the older changes kept.
LEMMA FreshIs ==
    ASSUME NEW b, NEW c, NEW m, NEW k, NEW n, Fits(b, m, k), Fits(c, k, n)
    PROVE  Through(FreshMoves(b, c), b, c, Nat \ b.insertions)
<1> DEFINE gone == {x \in Positions(c.moves) :
                      LET from == c.moves[x + 1].from
                      IN  from \in b.insertions \/ \E y \in Moves(b) : y.to = from}
           fresh == Rest(c.moves, gone)
           Back(x) == shift(b.deletions, unshift(b.insertions, x))
           s == [i \in DOMAIN fresh |-> Move(Back(fresh[i].from), fresh[i].to)]
<1>0. FreshMoves(b, c) = s
  BY DEF FreshMoves
<1>1. /\ c.moves \in Seq(MoveType) /\ Len(c.moves) \in Nat
      /\ DOMAIN c.moves = 1 .. Len(c.moves)
      /\ \A x \in DOMAIN c.moves :
            c.moves[x].from \in Nat /\ c.moves[x].to \in Nat
      /\ Bounded(b.deletions) /\ Bounded(b.insertions) /\ MovesFit(c)
  BY FitsIs DEF Fits
<1>2. gone \subseteq 0 .. Len(c.moves) - 1
  BY DEF Positions
<1>3. \A x \in DOMAIN c.moves : x - 1 \notin gone => c.moves[x].from \notin b.insertions
  <2> TAKE x \in DOMAIN c.moves
  <2>1. x - 1 \in Positions(c.moves) /\ (x - 1) + 1 = x
    BY <1>1 DEF Positions
  <2> QED
    BY <2>1
<1> HIDE DEF gone
<1>4. /\ fresh \in Seq(MoveType)
      /\ \E h \in [DOMAIN fresh -> DOMAIN c.moves] :
            /\ \A p \in DOMAIN fresh : h[p] - 1 \notin gone /\ fresh[p] = c.moves[h[p]]
            /\ \A p, q \in DOMAIN fresh : h[p] = h[q] => p = q
  BY <1>1, <1>2, RestIs
<1> HIDE DEF fresh
<1>5. PICK h \in [DOMAIN fresh -> DOMAIN c.moves] :
         /\ \A p \in DOMAIN fresh : h[p] - 1 \notin gone /\ fresh[p] = c.moves[h[p]]
         /\ \A p, q \in DOMAIN fresh : h[p] = h[q] => p = q
  BY <1>4
<1>6. ASSUME NEW p \in DOMAIN fresh
      PROVE  /\ h[p] \in DOMAIN c.moves /\ fresh[p] = c.moves[h[p]]
             /\ fresh[p].from \in Nat \ b.insertions /\ fresh[p].to \in Nat
             /\ fresh[p].from \in c.deletions
             /\ Back(fresh[p].from) \in Nat
             /\ Kept(b.deletions, b.insertions, Back(fresh[p].from), fresh[p].from)
  <2>1. h[p] \in DOMAIN c.moves /\ fresh[p] = c.moves[h[p]] /\ h[p] - 1 \notin gone
    BY <1>5
  <2>2. fresh[p].from \in Nat \ b.insertions /\ fresh[p].to \in Nat
    BY <1>1, <1>3, <2>1
  <2>3. fresh[p].from \in c.deletions
    BY <1>1, <2>1, MoveFit
  <2> QED
    BY <1>1, <2>1, <2>2, <2>3, KeptIsShift
<1> HIDE DEF Back
<1>7. /\ DOMAIN s = DOMAIN fresh
      /\ \A p \in DOMAIN fresh :
            s[p].from = Back(fresh[p].from) /\ s[p].to = fresh[p].to
  BY DEF Move
<1>8. s \in Seq(MoveType)
  <2>1. Len(fresh) \in Nat /\ DOMAIN fresh = 1 .. Len(fresh)
    BY <1>4, LenProperties
  <2>2. \A p \in 1 .. Len(fresh) : Move(Back(fresh[p].from), fresh[p].to) \in MoveType
    BY <1>6, <2>1 DEF Move, MoveType
  <2>3. s \in [1 .. Len(fresh) -> MoveType]
    BY <2>1, <2>2
  <2> HIDE DEF s
  <2> QED
    BY <2>1, <2>3
<1> HIDE DEF s
<1> DEFINE X == [p \in DOMAIN s |-> fresh[p].from]
<1>9. X \in [DOMAIN s -> Nat \ b.insertions]
  BY <1>6, <1>7
<1>10. ASSUME NEW p \in DOMAIN s
       PROVE  X[p] = fresh[p].from /\ Via(b, c, s[p].from, s[p].to, X[p])
  <2>1. X[p] = fresh[p].from
    OBVIOUS
  <2> HIDE DEF X
  <2>2. Came(b, X[p], s[p].from)
    BY <1>6, <1>7, <2>1 DEF Came
  <2>3. Came(c, s[p].to, X[p])
    BY <1>6, <1>7, <2>1, CameMoved
  <2> QED
    BY <1>6, <1>7, <2>1, <2>2, <2>3 DEF Via
<1> HIDE DEF X
<1>11. ASSUME NEW p \in DOMAIN s, NEW q \in DOMAIN s, X[p] = X[q]
       PROVE  p = q
  <2>1. /\ h[p] \in DOMAIN c.moves /\ h[q] \in DOMAIN c.moves
        /\ c.moves[h[p]].from = c.moves[h[q]].from
    BY <1>6, <1>7, <1>10, <1>11
  <2>2. h[p] = h[q]
    BY <1>1, <2>1, MoveFit
  <2> QED
    BY <1>5, <1>7, <2>2
<1>12. Through(s, b, c, Nat \ b.insertions)
  BY <1>8, <1>9, <1>10, <1>11 DEF Through
<1> QED
  BY <1>0, <1>12

\* The moves of b, where c leaves their rows.
OldMoves(b, c) ==
    LET again(m) == {n \in Moves(c) : n.from = m.to}
        followed ==
           [i \in DOMAIN b.moves |->
              LET m == b.moves[i]
              IN  IF again(m) # {}
                  THEN Move(m.from, (CHOOSE n \in again(m) : TRUE).to)
                  ELSE IF m.to \in c.deletions THEN Move(m.from, npos)
                  ELSE Move(m.from, Shifted(c, m.to))]
    IN  Rest(followed, {k \in Positions(followed) : followed[k + 1].to = npos})

\* The second part goes through rows the older changes had moved.
LEMMA OldIs ==
    ASSUME NEW b, NEW c, NEW m, NEW k, NEW n, Fits(b, m, k), Fits(c, k, n)
    PROVE  Through(OldMoves(b, c), b, c, b.insertions)
<1> DEFINE again(v) == {y \in Moves(c) : y.from = v.to}
           Follow(v) == IF again(v) # {}
                        THEN Move(v.from, (CHOOSE y \in again(v) : TRUE).to)
                        ELSE IF v.to \in c.deletions THEN Move(v.from, npos)
                        ELSE Move(v.from, Shifted(c, v.to))
           followed == [i \in DOMAIN b.moves |-> Follow(b.moves[i])]
           gone == {x \in Positions(followed) : followed[x + 1].to = npos}
           s == Rest(followed, gone)
           P == [from : Nat, to : Int]
<1>0. OldMoves(b, c) = s
  BY DEF OldMoves
<1>1. /\ b.moves \in Seq(MoveType) /\ Len(b.moves) \in Nat
      /\ DOMAIN b.moves = 1 .. Len(b.moves)
      /\ \A x \in DOMAIN b.moves :
            b.moves[x].from \in Nat /\ b.moves[x].to \in Nat
      /\ Bounded(c.deletions) /\ Bounded(c.insertions) /\ MovesFit(b)
      /\ b.insertions \in SUBSET Nat
  BY FitsIs DEF Fits
<1>2. ASSUME NEW x \in DOMAIN b.moves
      PROVE  LET v == b.moves[x]
                 w == Follow(v)
             IN  /\ w.from = v.from /\ w.from \in Nat /\ w.to \in Int
                 /\ w.to # npos => w.to \in Nat /\ Came(c, w.to, v.to)
                 /\ w \in P
  <2> DEFINE v == b.moves[x]
             w == Follow(v)
  <2>1. v.from \in Nat /\ v.to \in Nat
    BY <1>1
  <2> HIDE DEF v
  <2>2. CASE again(v) # {}
    <3> DEFINE y == CHOOSE z \in again(v) : TRUE
    <3>1. y \in Moves(c) /\ y.from = v.to
      BY <2>2
    <3>2. w = Move(v.from, y.to)
      BY <2>2
    <3> HIDE DEF y, w
    <3>3. PICK q \in DOMAIN c.moves : y = c.moves[q]
      BY <3>1 DEF Moves
    <3>4. y.to \in Nat /\ Came(c, y.to, v.to)
      BY <3>1, <3>3, FitsIs, CameMoved
    <3>5. w.from = v.from /\ w.to = y.to /\ w \in P
      BY <2>1, <3>2, <3>4 DEF Move
    <3> QED
      BY <2>1, <3>4, <3>5 DEF w, v
  <2>3. CASE again(v) = {} /\ v.to \in c.deletions
    <3>1. w = Move(v.from, npos)
      BY <2>3
    <3> HIDE DEF w
    <3>2. w.from = v.from /\ w.to = npos /\ npos \in Int /\ w \in P
      BY <2>1, <3>1 DEF Move, npos
    <3> QED
      BY <2>1, <3>2 DEF w, v
  <2>4. CASE again(v) = {} /\ v.to \notin c.deletions
    <3>1. w = Move(v.from, Shifted(c, v.to))
      BY <2>4
    <3> HIDE DEF w
    <3>2. /\ Shifted(c, v.to) \in Nat
          /\ Kept(c.insertions, c.deletions, Shifted(c, v.to), v.to)
      BY <1>1, <2>1, <2>4, KeptIsShift DEF Shifted
    <3>3. Came(c, Shifted(c, v.to), v.to)
      BY <3>2 DEF Came, Kept
    <3>4. w.from = v.from /\ w.to = Shifted(c, v.to) /\ w \in P
      BY <2>1, <3>1, <3>2 DEF Move
    <3> QED
      BY <2>1, <3>2, <3>3, <3>4 DEF w, v
  <2> QED
    BY <2>2, <2>3, <2>4
<1> HIDE DEF Follow
<1>3. followed \in Seq(P) /\ Len(followed) = Len(b.moves)
  <2>1. followed \in [1 .. Len(b.moves) -> P]
    BY <1>1, <1>2
  <2> HIDE DEF followed, P
  <2> QED
    BY <1>1, <2>1
<1>4. /\ DOMAIN followed = DOMAIN b.moves
      /\ \A x \in DOMAIN b.moves : followed[x] = Follow(b.moves[x])
  OBVIOUS
<1> HIDE DEF followed, P
<1>5. gone \subseteq 0 .. Len(followed) - 1
  BY DEF Positions
<1>6. \A x \in DOMAIN b.moves : x - 1 \notin gone => followed[x].to # npos
  <2> TAKE x \in DOMAIN b.moves
  <2>1. x - 1 \in Positions(followed) /\ (x - 1) + 1 = x
    BY <1>1, <1>3 DEF Positions
  <2> QED
    BY <2>1
<1> HIDE DEF gone
<1>7. /\ s \in Seq(P)
      /\ \E h \in [DOMAIN s -> DOMAIN followed] :
            /\ \A p \in DOMAIN s : h[p] - 1 \notin gone /\ s[p] = followed[h[p]]
            /\ \A p, q \in DOMAIN s : h[p] = h[q] => p = q
  BY <1>3, <1>5, RestIs
<1> HIDE DEF s
<1>8. PICK h \in [DOMAIN s -> DOMAIN followed] :
         /\ \A p \in DOMAIN s : h[p] - 1 \notin gone /\ s[p] = followed[h[p]]
         /\ \A p, q \in DOMAIN s : h[p] = h[q] => p = q
  BY <1>7
<1>9. ASSUME NEW p \in DOMAIN s
      PROVE  /\ h[p] \in DOMAIN b.moves
             /\ s[p].from = b.moves[h[p]].from /\ s[p].from \in Nat
             /\ s[p].to \in Nat /\ Came(c, s[p].to, b.moves[h[p]].to)
             /\ b.moves[h[p]].to \in Nat /\ b.moves[h[p]].to \in b.insertions
             /\ s[p] \in P
  <2>1. h[p] \in DOMAIN b.moves /\ s[p] = Follow(b.moves[h[p]]) /\ s[p].to # npos
    BY <1>4, <1>6, <1>8
  <2>2. b.moves[h[p]].to \in Nat /\ b.moves[h[p]].to \in b.insertions
    BY <1>1, <2>1, MoveFit
  <2> QED
    BY <1>2, <2>1, <2>2
<1>10. s \in Seq(MoveType)
  <2>1. Len(s) \in Nat /\ DOMAIN s = 1 .. Len(s)
    BY <1>7, LenProperties
  <2>2. \A p \in 1 .. Len(s) : s[p] \in MoveType
    BY <1>9, <2>1 DEF MoveType, P
  <2>3. s = [p \in 1 .. Len(s) |-> s[p]]
    BY <1>7
  <2>4. s \in [1 .. Len(s) -> MoveType]
    BY <2>2, <2>3
  <2> QED
    BY <2>1, <2>4
<1> DEFINE X == [p \in DOMAIN s |-> b.moves[h[p]].to]
<1>11. X \in [DOMAIN s -> b.insertions]
  BY <1>9
<1>12. ASSUME NEW p \in DOMAIN s
       PROVE  X[p] = b.moves[h[p]].to /\ Via(b, c, s[p].from, s[p].to, X[p])
  <2>1. X[p] = b.moves[h[p]].to
    OBVIOUS
  <2> HIDE DEF X
  <2>2. Came(b, X[p], s[p].from)
    BY <1>9, <2>1, CameMoved
  <2> QED
    BY <1>9, <2>1, <2>2 DEF Via
<1> HIDE DEF X
<1>13. ASSUME NEW p \in DOMAIN s, NEW q \in DOMAIN s, X[p] = X[q]
       PROVE  p = q
  <2>1. /\ h[p] \in DOMAIN b.moves /\ h[q] \in DOMAIN b.moves
        /\ b.moves[h[p]].to = b.moves[h[q]].to
    BY <1>9, <1>12, <1>13
  <2>2. h[p] = h[q]
    BY <1>1, <2>1, MoveFit
  <2> QED
    BY <1>8, <2>2
<1>14. Through(s, b, c, b.insertions)
  BY <1>10, <1>11, <1>12, <1>13 DEF Through
<1> QED
  BY <1>0, <1>14

\* Behind all changes every row is kept.
LEMMA KeptBeyond ==
    ASSUME NEW m \in Nat, NEW n \in Nat, NEW k \in Nat,
           NEW D, D \subseteq 0 .. m - 1, NEW I, I \subseteq 0 .. n - 1,
           Kept(D, I, m, n)
    PROVE  Kept(D, I, m + k, n + k)
<1>1. /\ D \in SUBSET Nat /\ I \in SUBSET Nat /\ m + k \in Nat /\ n + k \in Nat
      /\ \A x \in D : x < m /\ x < m + k
      /\ \A x \in I : x < n /\ x < n + k
  OBVIOUS
<1>2. /\ unshift(D, m) = m - Cardinality(D) /\ Cardinality(D) \in Nat
      /\ unshift(D, m + k) = (m + k) - Cardinality(D)
      /\ unshift(I, n) = n - Cardinality(I) /\ Cardinality(I) \in Nat
      /\ unshift(I, n + k) = (n + k) - Cardinality(I)
  BY <1>1, CountAll
<1>3. m - Cardinality(D) = n - Cardinality(I)
  BY <1>2 DEF Kept
<1>4. m + k \notin D /\ n + k \notin I
  BY <1>1
<1> QED
  BY <1>2, <1>3, <1>4 DEF Kept

\* The changes of two builders, before their moves are tidied.
Together(b, c) ==
    [deletions |-> MergedDeletions(b, c), insertions |-> MergedInsertions(b, c),
     modifications |-> b.modifications, moves |-> OldMoves(b, c) \o FreshMoves(b, c),
     mapping |-> <<>>]

\* They are changes of the two lists, with the marks of the first; a row came
\* from where the second had it, and there from where the first had it.
LEMMA TogetherFits ==
    ASSUME NEW b, NEW c, NEW m, NEW k, NEW n, Fits(b, m, k), Fits(c, k, n)
    PROVE  LET d == Together(b, c)
           IN  /\ Fits(d, m + k, n + k) /\ d.modifications = b.modifications
               /\ d.deletions \subseteq 0 .. m - 1 /\ d.insertions \subseteq 0 .. n - 1
               /\ Kept(d.deletions, d.insertions, m, n)
               /\ \A i, j \in Nat : Came(d, j, i) =>
                     \E x \in Nat : Came(b, x, i) /\ Came(c, j, x)
<1> DEFINE d == Together(b, c)
           D == MergedDeletions(b, c)
           I == MergedInsertions(b, c)
           s == OldMoves(b, c) \o FreshMoves(b, c)
<1>1. /\ Traced(D, b.deletions, b.insertions, c.deletions)
      /\ Traced(I, c.insertions, c.deletions, b.insertions)
      /\ D \subseteq 0 .. m - 1 /\ I \subseteq 0 .. n - 1
      /\ Kept(D, I, m, n)
      /\ \A i, j \in Nat : Kept(D, I, i, j) =>
            \E x \in Nat : /\ Kept(b.deletions, b.insertions, i, x)
                           /\ Kept(c.deletions, c.insertions, x, j)
  BY MergedIs
<1>2. /\ b.insertions \in SUBSET Nat /\ m \in Nat /\ n \in Nat /\ k \in Nat
      /\ b.modifications \in SUBSET Nat /\ b.modifications \subseteq 0 .. k - 1
  BY FitsIs DEF Fits
<1>3. Through(s, b, c, b.insertions \cup (Nat \ b.insertions))
  <2>1. b.insertions \cap (Nat \ b.insertions) = {}
    OBVIOUS
  <2> QED
    BY <2>1, OldIs, FreshIs, ThroughBoth
<1> HIDE DEF s, D, I
<1>4. s \in Seq(MoveType)
  BY <1>3 DEF Through
<1>5. PICK X \in [DOMAIN s -> b.insertions \cup (Nat \ b.insertions)] :
         /\ \A p \in DOMAIN s : Via(b, c, s[p].from, s[p].to, X[p])
         /\ \A p, q \in DOMAIN s : X[p] = X[q] => p = q
  BY <1>3 DEF Through
<1>6. d = [deletions |-> D, insertions |-> I, modifications |-> b.modifications,
           moves |-> s, mapping |-> <<>>]
  BY DEF Together, D, I, s
<1>7. /\ d.deletions = D /\ d.insertions = I /\ d.moves = s
      /\ d.modifications = b.modifications
  BY <1>6
<1> HIDE DEF d
<1>8. MovesFit(d)
  <2>1. ASSUME NEW p \in DOMAIN s
        PROVE  s[p].from \in D /\ s[p].to \in I
    BY <1>5, ViaInside DEF D, I
  <2>2. ASSUME NEW p \in DOMAIN s, NEW q \in DOMAIN s,
               s[p].from = s[q].from \/ s[p].to = s[q].to
        PROVE  p = q
    <3>1. /\ s[p].from \in Nat /\ s[p].to \in Nat /\ X[p] \in Nat
          /\ s[q].from \in Nat /\ s[q].to \in Nat /\ X[q] \in Nat
          /\ Came(b, X[p], s[p].from) /\ Came(c, s[p].to, X[p])
          /\ Came(b, X[q], s[q].from) /\ Came(c, s[q].to, X[q])
      BY <1>5 DEF Via
    <3>2. CASE s[p].from = s[q].from
      <4>1. X[p] = X[q]
        BY <3>1, <3>2, LeadsOnce
      <4> QED
        BY <1>5, <4>1
    <3>3. CASE s[p].to = s[q].to
      <4>1. X[p] = X[q]
        BY <3>1, <3>3, CameOnce
      <4> QED
        BY <1>5, <4>1
    <3> QED
      BY <2>2, <3>2, <3>3
  <2> QED
    BY <1>7, <2>1, <2>2 DEF MovesFit
<1>9. Fits(d, m + k, n + k)
  <2>1. D \in SUBSET Nat /\ I \in SUBSET Nat
    BY <1>1 DEF Traced
  <2>2. d \in Builder
    BY <1>2, <1>4, <1>6, <2>1 DEF Builder
  <2>3. /\ m + k \in Nat /\ n + k \in Nat
        /\ D \subseteq 0 .. (m + k) - 1 /\ I \subseteq 0 .. (n + k) - 1
        /\ b.modifications \subseteq 0 .. (n + k) - 1
    BY <1>1, <1>2
  <2>4. Kept(D, I, m + k, n + k)
    BY <1>1, <1>2, KeptBeyond
  <2> QED
    BY <1>7, <1>8, <2>2, <2>3, <2>4 DEF Fits
<1>10. ASSUME NEW i \in Nat, NEW j \in Nat, Came(d, j, i)
       PROVE  \E x \in Nat : Came(b, x, i) /\ Came(c, j, x)
  <2>1. CASE Kept(D, I, i, j)
    <3>1. PICK x \in Nat : /\ Kept(b.deletions, b.insertions, i, x)
                           /\ Kept(c.deletions, c.insertions, x, j)
      BY <1>1, <2>1
    <3> QED
      BY <3>1 DEF Came
  <2>2. CASE Move(i, j) \in Moves(d)
    <3>1. PICK p \in DOMAIN s : s[p].from = i /\ s[p].to = j
      BY <1>7, <1>9, <2>2, MoveIs
    <3> QED
      BY <1>5, <3>1 DEF Via
  <2> QED
    BY <1>7, <1>10, <2>1, <2>2 DEF Came
<1> QED
  BY <1>1, <1>7, <1>9, <1>10 DEF d

\* When nothing changed every row is where it was.
LEMMA EmptyIs ==
    ASSUME NEW b, NEW m, NEW n, Fits(b, m, n), empty(b)
    PROVE  /\ m = n /\ b.modifications = {}
           /\ \A i, j \in Nat : Came(b, j, i) <=> i = j
<1>1. /\ b.deletions = {} /\ b.insertions = {} /\ b.modifications = {}
      /\ b.moves = <<>> /\ {} \in SUBSET Nat
  BY DEF empty
<1>2. m \in Nat /\ n \in Nat /\ Kept({}, {}, m, n)
  BY <1>1 DEF Fits
<1>3. ASSUME NEW i \in Nat, NEW j \in Nat PROVE Kept({}, {}, i, j) <=> i = j
  <2>1. i \in Nat \ {} /\ j \in Nat \ {}
    OBVIOUS
  <2>2. i = j <=> unshift({}, i) = unshift({}, j)
    BY <1>1, <2>1, CountOrders
  <2> QED
    BY <2>2 DEF Kept
<1>4. \A i, j : Move(i, j) \notin Moves(b)
  BY <1>1 DEF Moves
<1> QED
  BY <1>1, <1>2, <1>3, <1>4 DEF Came

\* What does not change anything.
LEMMA NoChangesFit ==
    ASSUME NEW n \in Nat
    PROVE  Fits(NoChanges, n, n) /\ empty(NoChanges)
<1>1. /\ NoChanges \in Builder /\ empty(NoChanges)
      /\ DOMAIN NoChanges.moves = {}
  <2>1. <<>> \in Seq(MoveType) /\ DOMAIN <<>> = {}
    OBVIOUS
  <2> QED
    BY <2>1 DEF NoChanges, Builder, empty
<1>2. MovesFit(NoChanges)
  BY <1>1 DEF MovesFit
<1>3. Kept({}, {}, n, n)
  BY DEF Kept
<1> QED
  BY <1>1, <1>2, <1>3 DEF Fits, NoChanges

\* The rows marked by the changes b and then c.
MergedMarks(b, c) ==
    shift_for_insert_at_set(erase_at_set(b.modifications, c.deletions), c.insertions)
       \cup c.modifications \cup CarriedModifications(b, c)

\* A row is marked when either marked it, where it is now.
LEMMA MarksMerged ==
    ASSUME NEW b, NEW c, NEW m, NEW k, NEW n, Fits(b, m, k), Fits(c, k, n)
    PROVE  /\ MergedMarks(b, c) \subseteq 0 .. n - 1
           /\ \A i, j, x \in Nat :
                 Came(b, x, i) /\ Came(c, j, x) =>
                    (j \in MergedMarks(b, c)
                        <=> j \in c.modifications \/ x \in b.modifications)
<1> DEFINE S == shift_for_insert_at_set(
                   erase_at_set(b.modifications, c.deletions), c.insertions)
           C == CarriedModifications(b, c)
<1>1. /\ Bounded(c.deletions) /\ Bounded(c.insertions)
      /\ c.deletions \in SUBSET Nat /\ c.insertions \in SUBSET Nat
      /\ b.modifications \in SUBSET Nat /\ c.modifications \in SUBSET Nat
      /\ k \in Nat /\ n \in Nat
  BY FitsIs
<1>2. /\ b.modifications \subseteq 0 .. k - 1 /\ c.modifications \subseteq 0 .. n - 1
      /\ c.insertions \subseteq 0 .. n - 1 /\ Kept(c.deletions, c.insertions, k, n)
  BY DEF Fits
<1>3. \A j : j \in S <=>
                \E y \in b.modifications \ c.deletions :
                   j = shift(c.insertions, unshift(c.deletions, y))
  BY DEF shift_for_insert_at_set, erase_at_set
<1>4. \A j : j \in C <=>
                \E v \in Moves(c) :
                   /\ v.to = j /\ v.from \in b.modifications
                   /\ \/ v.from \notin b.insertions
                      \/ \E w \in Moves(b) : w.to = v.from
  BY DEF CarriedModifications
<1>5. MergedMarks(b, c) = S \cup c.modifications \cup C
  BY DEF MergedMarks
<1> HIDE DEF S, C
<1>6. ASSUME NEW y \in b.modifications \ c.deletions
      PROVE  /\ y \in Nat /\ y < k
             /\ shift(c.insertions, unshift(c.deletions, y)) \in Nat
             /\ \A j \in Nat : Kept(c.deletions, c.insertions, y, j)
                                  <=> j = shift(c.insertions, unshift(c.deletions, y))
  <2>1. y \in Nat \ c.deletions /\ y < k
    BY <1>1, <1>2
  <2>2. /\ shift(c.insertions, unshift(c.deletions, y)) \in Nat
        /\ \A j \in Nat : Kept(c.insertions, c.deletions, j, y)
                             <=> j = shift(c.insertions, unshift(c.deletions, y))
    BY <1>1, <2>1, KeptIsShift
  <2> QED
    BY <2>1, <2>2 DEF Kept
<1>7. \A v \in Moves(c) : /\ v.to \in c.insertions /\ v.from \in Nat /\ v.to \in Nat
                          /\ Came(c, v.to, v.from)
  <2> TAKE v \in Moves(c)
  <2>1. PICK p \in DOMAIN c.moves : v = c.moves[p]
    BY DEF Moves
  <2>2. MovesFit(c)
    BY DEF Fits
  <2> QED
    BY <1>1, <2>1, <2>2, MoveFit, FitsIs, CameMoved
<1>8. MergedMarks(b, c) \subseteq 0 .. n - 1
  <2>1. ASSUME NEW j \in S PROVE j \in 0 .. n - 1
    <3>1. PICK y \in b.modifications \ c.deletions :
             j = shift(c.insertions, unshift(c.deletions, y))
      BY <1>3
    <3>2. y \in Nat /\ y < k /\ j \in Nat /\ Kept(c.deletions, c.insertions, y, j)
      BY <1>6, <3>1
    <3>3. j < n
      BY <1>1, <1>2, <3>2, KeptOrders
    <3> QED
      BY <1>1, <3>2, <3>3
  <2>2. ASSUME NEW j \in C PROVE j \in 0 .. n - 1
    BY <1>2, <1>4, <1>7
  <2> QED
    BY <1>2, <1>5, <2>1, <2>2
<1>9. ASSUME NEW i \in Nat, NEW j \in Nat, NEW x \in Nat,
             Came(b, x, i), Came(c, j, x)
      PROVE  j \in MergedMarks(b, c) <=> j \in c.modifications \/ x \in b.modifications
  <2>1. ASSUME j \in S PROVE x \in b.modifications
    <3>1. PICK y \in b.modifications \ c.deletions :
             j = shift(c.insertions, unshift(c.deletions, y))
      BY <1>3, <2>1
    <3>2. y \in Nat /\ Kept(c.deletions, c.insertions, y, j)
      BY <1>6, <3>1
    <3>3. Came(c, j, y)
      BY <3>2 DEF Came
    <3>4. x = y
      BY <1>9, <3>2, <3>3, CameOnce
    <3> QED
      BY <3>4
  <2>2. ASSUME j \in C PROVE x \in b.modifications
    <3>1. PICK v \in Moves(c) : v.to = j /\ v.from \in b.modifications
      BY <1>4, <2>2
    <3>2. v.from \in Nat /\ Came(c, j, v.from)
      BY <1>7, <3>1
    <3>3. x = v.from
      BY <1>9, <3>2, CameOnce
    <3> QED
      BY <3>1, <3>3
  <2>3. ASSUME x \in b.modifications PROVE j \in S \/ j \in C
    <3>1. CASE Kept(c.deletions, c.insertions, x, j)
      <4>1. x \in b.modifications \ c.deletions
        BY <2>3, <3>1 DEF Kept
      <4>2. j = shift(c.insertions, unshift(c.deletions, x))
        BY <1>6, <3>1, <4>1
      <4> QED
        BY <1>3, <4>1, <4>2
    <3>2. CASE Move(x, j) \in Moves(c)
      <4> DEFINE v == Move(x, j)
      <4>1. v.from = x /\ v.to = j /\ v \in Moves(c)
        BY <3>2 DEF Move
      <4>2. x \notin b.insertions \/ \E w \in Moves(b) : w.to = x
        <5>1. CASE Kept(b.deletions, b.insertions, i, x)
          BY <5>1 DEF Kept
        <5>2. CASE Move(i, x) \in Moves(b)
          <6>1. Move(i, x).to = x
            BY DEF Move
          <6> QED
            BY <5>2, <6>1
        <5> QED
          BY <1>9, <5>1, <5>2 DEF Came
      <4> HIDE DEF v
      <4> QED
        BY <1>4, <2>3, <4>1, <4>2
    <3> QED
      BY <1>9, <3>1, <3>2 DEF Came
  <2> QED
    BY <1>5, <2>1, <2>2, <2>3
<1> QED
  BY <1>8, <1>9

\* A row came by d from where c had it, there from where b had it, and is marked
\* when either marked it.
Composed(d, b, c) ==
    \A i, j \in Nat : Came(d, j, i) =>
       \E x \in Nat :
          /\ Came(b, x, i) /\ Came(c, j, x)
          /\ j \in d.modifications <=> j \in c.modifications \/ x \in b.modifications

\* merge composes changes: a row came from where the older changes say the newer one's
\* origin came from, has its mark from either, and no move has another than its own row,
\* for lists of any length.
THEOREM MergeFits ==
    ASSUME NEW b, NEW c, NEW m, NEW k, NEW n, Fits(b, m, k), Fits(c, k, n)
    PROVE  Fits(merge(b, c), m, n) /\ Composed(merge(b, c), b, c)
<1>1. merge(b, c) =
         IF empty(c) THEN b
         ELSE IF empty(b) THEN c
         ELSE [clean_up_stale_moves(Together(b, c)) EXCEPT !.modifications =
                 shift_for_insert_at_set(erase_at_set(@, c.deletions), c.insertions)
                    \cup c.modifications \cup CarriedModifications(b, c)]
  BY DEF merge, Together, OldMoves, FreshMoves, MergedInsertions
<1>2. CASE empty(c)
  <2>1. /\ merge(b, c) = b /\ k = n /\ c.modifications = {}
        /\ \A i, j \in Nat : Came(c, j, i) <=> i = j
    BY <1>1, <1>2, EmptyIs
  <2>2. Composed(b, b, c)
    BY <2>1 DEF Composed
  <2> QED
    BY <2>1, <2>2
<1>3. CASE ~empty(c) /\ empty(b)
  <2>1. /\ merge(b, c) = c /\ m = k /\ b.modifications = {}
        /\ \A i, j \in Nat : Came(b, j, i) <=> i = j
    BY <1>1, <1>3, EmptyIs
  <2>2. Composed(c, b, c)
    BY <2>1 DEF Composed
  <2> QED
    BY <2>1, <2>2
<1>4. CASE ~empty(c) /\ ~empty(b)
  <2> DEFINE t == Together(b, c)
             u == clean_up_stale_moves(t)
             d == merge(b, c)
  <2>1. /\ Fits(t, m + k, n + k) /\ t.modifications = b.modifications
        /\ t.deletions \subseteq 0 .. m - 1 /\ t.insertions \subseteq 0 .. n - 1
        /\ Kept(t.deletions, t.insertions, m, n)
        /\ \A i, j \in Nat : Came(t, j, i) =>
              \E x \in Nat : Came(b, x, i) /\ Came(c, j, x)
    BY TogetherFits
  <2>2. d = [u EXCEPT !.modifications =
               shift_for_insert_at_set(erase_at_set(@, c.deletions), c.insertions)
                  \cup c.modifications \cup CarriedModifications(b, c)]
    BY <1>1, <1>4
  <2> HIDE DEF t
  <2>3. /\ Fits(u, m + k, n + k) /\ Less(u, t)
        /\ \A i, j \in Nat : Came(u, j, i) => Came(t, j, i)
    BY <2>1, CleanFits
  <2> HIDE DEF u, d
  <2>4. u.modifications = b.modifications
    BY <2>1, <2>3 DEF Less
  <2>5. d = [u EXCEPT !.modifications = MergedMarks(b, c)]
    BY <2>2, <2>4 DEF MergedMarks
  <2>6. /\ u = [deletions |-> u.deletions, insertions |-> u.insertions,
                modifications |-> u.modifications, moves |-> u.moves,
                mapping |-> <<>>]
        /\ u \in Builder
    BY <2>3, FitsIs
  <2>7. /\ MergedMarks(b, c) \subseteq 0 .. n - 1
        /\ \A i, j, x \in Nat :
              Came(b, x, i) /\ Came(c, j, x) =>
                 (j \in MergedMarks(b, c)
                     <=> j \in c.modifications \/ x \in b.modifications)
    BY MarksMerged
  <2> DEFINE M == MergedMarks(b, c)
  <2> HIDE DEF M
  <2>8. /\ d.deletions = u.deletions /\ d.insertions = u.insertions
        /\ d.moves = u.moves /\ d.modifications = M
    BY <2>5, <2>6 DEF M
  <2>9. d \in Builder
    <3>1. M \in SUBSET Nat
      BY <2>7 DEF M
    <3>2. d = [u EXCEPT !.modifications = M]
      BY <2>5 DEF M
    <3> QED
      BY <2>6, <3>1, <3>2 DEF Builder
  <2>10. MovesFit(d)
    <3>1. MovesFit(u)
      BY <2>3 DEF Fits
    <3> QED
      BY <2>8, <3>1 DEF MovesFit
  <2>11. m \in Nat /\ n \in Nat
    BY FitsIs
  <2>12. /\ u.deletions \subseteq 0 .. m - 1 /\ u.insertions \subseteq 0 .. n - 1
         /\ Kept(u.deletions, u.insertions, m, n)
    BY <2>1, <2>3, <2>11 DEF Less
  <2>13. Fits(d, m, n)
    BY <2>7, <2>8, <2>9, <2>10, <2>11, <2>12 DEF Fits, M
  <2>14. Composed(d, b, c)
    <3> SUFFICES ASSUME NEW i \in Nat, NEW j \in Nat, Came(d, j, i)
                 PROVE  \E x \in Nat :
                           /\ Came(b, x, i) /\ Came(c, j, x)
                           /\ j \in d.modifications
                                 <=> j \in c.modifications \/ x \in b.modifications
      BY DEF Composed
    <3>1. Came(u, j, i)
      BY <2>8 DEF Came, Moves
    <3>2. PICK x \in Nat : Came(b, x, i) /\ Came(c, j, x)
      BY <2>1, <2>3, <3>1
    <3> QED
      BY <2>7, <2>8, <3>2 DEF M
  <2> QED
    BY <2>13, <2>14 DEF d
<1> QED
  BY <1>2, <1>3, <1>4
-----------------------------------------------------------------------------
(* The inductive invariant *)

\* A row that came to where it is, and there in the list before, has its mark.
MarksFollow(l, c, a, t) ==
    \A j \in Positions(l), x, i \in Nat :
       Came(c, j, x) /\ Came(a, x, i) =>
          (l[j + 1] \in t <=> j \in c.modifications \/ x \in a.modifications)

\* The list has rows that were given out, each once.
RowsFit(l, r) ==
    /\ l \in Seq(1 .. r) /\ Len(l) <= r
    /\ \A p, q \in Positions(l) : l[p + 1] = l[q + 1] => p = q

\* The lists have rows that were given out.
ListsFit ==
    /\ rows \in InitialSize .. MaxRow /\ edits \in 0 .. MaxEdits
    /\ touched \subseteq 1 .. rows
    /\ RowsFit(list, rows)
    /\ before \in Seq(1 .. MaxRow) /\ Len(before) <= rows
    /\ seen \in Seq(1 .. MaxRow) /\ Len(seen) <= rows

\* The changes lead from list to list, and marks are where their rows are.
IInv ==
    /\ ListsFit
    /\ Leads(changes, before, list)
    /\ Leads(accumulated, seen, before)
    /\ MarksFollow(list, changes, accumulated, touched)
-----------------------------------------------------------------------------
(* What an edit preserves *)

\* Following changes composes.
LEMMA FollowsTwice ==
    ASSUME NEW c, NEW l, NEW b, NEW new, NEW a, NEW old,
           Follows(c, l, b, new), Follows(b, new, a, old)
    PROVE  Follows(c, l, a, old)
<1> SUFFICES ASSUME NEW j \in Positions(l), NEW i \in Nat, Came(c, j, i)
             PROVE  \E k \in Positions(old) :
                       /\ Came(a, k, i) /\ l[j + 1] = old[k + 1]
                       /\ j \in c.modifications <=> k \in a.modifications
  BY DEF Follows
<1>1. PICK y \in Positions(new) :
         /\ Came(b, y, i) /\ l[j + 1] = new[y + 1]
         /\ j \in c.modifications <=> y \in b.modifications
  BY DEF Follows
<1>2. PICK k \in Positions(old) :
         /\ Came(a, k, i) /\ new[y + 1] = old[k + 1]
         /\ y \in b.modifications <=> k \in a.modifications
  BY <1>1 DEF Follows
<1> QED
  BY <1>1, <1>2

\* Changes that follow some that lead to a list lead to the list they follow.
LEMMA LeadsAfter ==
    ASSUME NEW b, NEW old, NEW new, Leads(b, old, new),
           NEW c, NEW l, Fits(c, Len(old), Len(l)), Follows(c, l, b, new)
    PROVE  Leads(c, old, l)
<1> SUFFICES ASSUME NEW j \in Positions(l), NEW i \in Nat, Came(c, j, i)
             PROVE  j \in c.modifications \/ l[j + 1] = old[i + 1]
  BY DEF Leads
<1>1. PICK y \in Positions(new) :
         /\ Came(b, y, i) /\ l[j + 1] = new[y + 1]
         /\ j \in c.modifications <=> y \in b.modifications
  BY DEF Follows
<1> QED
  BY <1>1 DEF Leads

\* They keep every mark with its row.
LEMMA MarksAfter ==
    ASSUME NEW b, NEW new, NEW a, NEW t, MarksFollow(new, b, a, t),
           NEW c, NEW l, Follows(c, l, b, new)
    PROVE  MarksFollow(l, c, a, t)
<1> SUFFICES ASSUME NEW j \in Positions(l), NEW x \in Nat, NEW i \in Nat,
                    Came(c, j, x), Came(a, x, i)
             PROVE  l[j + 1] \in t <=> j \in c.modifications \/ x \in a.modifications
  BY DEF MarksFollow
<1>1. PICK y \in Positions(new) :
         /\ Came(b, y, x) /\ l[j + 1] = new[y + 1]
         /\ j \in c.modifications <=> y \in b.modifications
  BY DEF Follows
<1> QED
  BY <1>1 DEF MarksFollow

\* An edit that marks nothing.
LEMMA EditKeeps ==
    ASSUME IInv, NEW l, NEW b, rows' \in rows .. MaxRow, RowsFit(l, rows'),
           Fits(b, Len(before), Len(l)), Follows(b, l, changes, list),
           Edit(l, b), UNCHANGED touched
    PROVE  IInv'
<1>1. /\ list' = l /\ changes' = b /\ edits' \in 0 .. MaxEdits
      /\ UNCHANGED <<seen, before, accumulated, touched>>
  BY ListAssumption DEF Edit, IInv, ListsFit
<1>2. ListsFit'
  <2>1. /\ rows \in InitialSize .. MaxRow /\ touched \subseteq 1 .. rows
        /\ before \in Seq(1 .. MaxRow) /\ Len(before) <= rows /\ Len(before) \in Nat
        /\ seen \in Seq(1 .. MaxRow) /\ Len(seen) <= rows /\ Len(seen) \in Nat
    BY LenProperties DEF IInv, ListsFit
  <2>2. rows' \in InitialSize .. MaxRow /\ touched \subseteq 1 .. rows'
    BY <2>1, ListAssumption
  <2>3. Len(before) <= rows' /\ Len(seen) <= rows'
    BY <2>1, ListAssumption
  <2> QED
    BY <1>1, <2>1, <2>2, <2>3 DEF ListsFit
<1>3. Leads(b, before, l)
  BY LeadsAfter DEF IInv
<1>4. MarksFollow(l, b, accumulated, touched)
  BY MarksAfter DEF IInv
<1> QED
  BY <1>1, <1>2, <1>3, <1>4 DEF IInv

\* The rows at S of the list l are T, and the others are those of old.
Marks(l, old, S, T) ==
    \A j \in Positions(old) : /\ l[j + 1] \in T <=> j \in S
                              /\ j \notin S => l[j + 1] = old[j + 1]

\* A row that came from somewhere by c came from there by b.
ComesAs(c, b) == \A i, j \in Nat : Came(c, j, i) => Came(b, j, i)

\* An edit that marks the rows at S.
LEMMA MarkKeeps ==
    ASSUME IInv, NEW l, NEW b, rows' \in rows .. MaxRow, RowsFit(l, rows'),
           Len(l) = Len(list), Fits(b, Len(before), Len(list)), Edit(l, b),
           NEW S, NEW T, T \subseteq 1 .. rows', touched' = touched \cup T,
           b.modifications = changes.modifications \cup S,
           Marks(l, list, S, T), ComesAs(b, changes)
    PROVE  IInv'
<1>1. /\ list' = l /\ changes' = b /\ edits' \in 0 .. MaxEdits
      /\ UNCHANGED <<seen, before, accumulated>>
  BY ListAssumption DEF Edit, IInv, ListsFit
<1>2. ListsFit'
  <2>1. /\ rows \in InitialSize .. MaxRow /\ touched \subseteq 1 .. rows
        /\ before \in Seq(1 .. MaxRow) /\ Len(before) <= rows /\ Len(before) \in Nat
        /\ seen \in Seq(1 .. MaxRow) /\ Len(seen) <= rows /\ Len(seen) \in Nat
    BY LenProperties DEF IInv, ListsFit
  <2>2. rows' \in InitialSize .. MaxRow /\ touched \cup T \subseteq 1 .. rows'
    BY <2>1, ListAssumption
  <2>3. Len(before) <= rows' /\ Len(seen) <= rows'
    BY <2>1, ListAssumption
  <2> QED
    BY <1>1, <2>1, <2>2, <2>3 DEF ListsFit
<1>3. Positions(l) = Positions(list) /\ \A j \in Positions(l) : j \in Nat
  BY DEF Positions
<1>4. Leads(b, before, l)
  BY <1>3 DEF Leads, IInv, Marks, ComesAs
<1>5. MarksFollow(l, b, accumulated, touched \cup T)
  <2> SUFFICES ASSUME NEW j \in Positions(l), NEW x \in Nat, NEW i \in Nat,
                      Came(b, j, x), Came(accumulated, x, i)
               PROVE  l[j + 1] \in touched \cup T
                         <=> j \in b.modifications \/ x \in accumulated.modifications
    BY DEF MarksFollow
  <2>1. Came(changes, j, x) /\ j \in Positions(list)
    BY <1>3 DEF ComesAs
  <2>2. list[j + 1] \in touched
           <=> j \in changes.modifications \/ x \in accumulated.modifications
    BY <2>1 DEF MarksFollow, IInv
  <2> QED
    BY <2>1, <2>2 DEF Marks
<1> QED
  BY <1>1, <1>2, <1>4, <1>5 DEF IInv
-----------------------------------------------------------------------------
(* Edits of the builder that do not move rows *)

\* A row is marked.
LEMMA ModifyFits ==
    ASSUME NEW b, NEW m, NEW n, Fits(b, m, n), NEW i \in 0 .. n - 1
    PROVE  /\ Fits(modify(b, i), m, n)
           /\ modify(b, i).modifications = b.modifications \cup {i}
           /\ ComesAs(modify(b, i), b)
<1> DEFINE c == modify(b, i)
<1>1. b \in Builder /\ n \in Nat
  BY DEF Fits
<1>2. /\ c.deletions = b.deletions /\ c.insertions = b.insertions
      /\ c.moves = b.moves /\ c.modifications = b.modifications \cup {i}
      /\ c \in Builder
  BY <1>1 DEF modify, Builder
<1> HIDE DEF c
<1>3. MovesFit(c)
  BY <1>2 DEF Fits, MovesFit
<1>4. Fits(c, m, n)
  BY <1>2, <1>3 DEF Fits
<1>5. ComesAs(c, b)
  BY <1>2 DEF ComesAs, Came, Moves
<1> QED
  BY <1>2, <1>4, <1>5 DEF c

\* The list is emptied: every row of the old list is deleted.
LEMMA ClearFits ==
    ASSUME NEW b, NEW m, NEW n, Fits(b, m, n)
    PROVE  Fits(clear(b, n), m, 0)
<1> DEFINE c == clear(b, n)
           D == 0 .. m - 1
<1>1. m \in Nat /\ n \in Nat /\ b.deletions \in SUBSET Nat /\ b.insertions \in SUBSET Nat
  BY FitsIs
<1>2. /\ \A x \in b.deletions : x < m
      /\ \A x \in b.insertions : x < n
      /\ Kept(b.deletions, b.insertions, m, n)
  BY <1>1 DEF Fits
<1>3. n + Cardinality(b.deletions) - Cardinality(b.insertions) - 1 = m - 1
  <2>1. /\ unshift(b.deletions, m) = m - Cardinality(b.deletions)
        /\ unshift(b.insertions, n) = n - Cardinality(b.insertions)
        /\ Cardinality(b.deletions) \in Nat /\ Cardinality(b.insertions) \in Nat
    BY <1>1, <1>2, CountAll
  <2>2. unshift(b.deletions, m) = unshift(b.insertions, n)
    BY <1>2 DEF Kept
  <2> QED
    BY <1>1, <2>1, <2>2
<1>4. /\ c.deletions = D /\ c.insertions = {} /\ c.modifications = {}
      /\ c.moves = <<>> /\ c \in Builder
  <2>1. c = [NoChanges EXCEPT !.deletions = D]
    BY <1>3, Zenon DEF clear
  <2>2. D \in SUBSET Nat /\ <<>> \in Seq(MoveType)
    OBVIOUS
  <2> HIDE DEF c, D
  <2> QED
    BY <2>1, <2>2 DEF NoChanges, Builder
<1> HIDE DEF c
<1>5. Kept(D, {}, m, 0)
  <2>1. D \in SUBSET Nat /\ {} \in SUBSET Nat /\ \A x \in D : x < m
    BY <1>1
  <2>2. unshift(D, m) = m - Cardinality(D) /\ unshift({}, 0) = 0
    BY <1>1, <2>1, CountAll, CountNext
  <2>3. Cardinality(D) = m
    <3>1. 0 \in Int /\ m - 1 \in Int /\ (IF 0 > m - 1 THEN 0 ELSE m - 1 - 0 + 1) = m
      BY <1>1
    <3>2. Cardinality(0 .. m - 1) = IF 0 > m - 1 THEN 0 ELSE m - 1 - 0 + 1
      BY <3>1, FS_Interval
    <3> QED
      BY <3>1, <3>2
  <2>4. m \notin D
    BY <1>1
  <2> QED
    BY <1>1, <2>2, <2>3, <2>4 DEF Kept
<1>6. MovesFit(c)
  <2>1. DOMAIN c.moves = {}
    BY <1>4
  <2> QED
    BY <2>1 DEF MovesFit
<1>7. {} \subseteq 0 .. 0 - 1 /\ 0 \in Nat
  OBVIOUS
<1> HIDE DEF D
<1>8. Fits(c, m, 0)
  BY <1>1, <1>4, <1>5, <1>6, <1>7 DEF Fits, D
<1> QED
  BY <1>8 DEF c
-----------------------------------------------------------------------------
(* Lists *)

\* A row that is put in is one that was not given out before.
LEMMA RowsInserted ==
    ASSUME NEW l, NEW r \in Nat, RowsFit(l, r), NEW i \in 0 .. Len(l)
    PROVE  RowsFit(InsertAt(l, i + 1, r + 1), r + 1)
<1> DEFINE t == InsertAt(l, i + 1, r + 1)
           n == Len(l)
           P == 1 .. r + 1
<1>1. l \in Seq(1 .. r) /\ n \in Nat /\ n <= r /\ DOMAIN l = 1 .. n
  BY LenProperties DEF RowsFit
<1>2. \A j \in 0 .. n - 1 : l[j + 1] \in 1 .. r
  <2> TAKE j \in 0 .. n - 1
  <2>1. j + 1 \in 1 .. n
    BY <1>1
  <2> QED
    BY <1>1, <2>1, ElementOfSeq
<1>3. l \in Seq(P) /\ r + 1 \in P
  <2>1. \A x \in 1 .. r : x \in P
    OBVIOUS
  <2>2. l \in [1 .. n -> 1 .. r]
    BY <1>1
  <2>3. l \in [1 .. n -> P]
    BY <2>1, <2>2
  <2>4. r + 1 \in P
    OBVIOUS
  <2> HIDE DEF P
  <2> QED
    BY <1>1, <2>3, <2>4
<1> HIDE DEF P
<1>4. /\ t \in Seq(P) /\ Len(t) = n + 1
      /\ \A j \in 0 .. n : t[j + 1] = IF j = i THEN r + 1 ELSE l[Before(j, i) + 1]
  BY <1>3, InsertedIs
<1> HIDE DEF t
<1>5. ASSUME NEW p \in 0 .. n, NEW q \in 0 .. n, t[p + 1] = t[q + 1]
      PROVE  p = q
  <2>1. ASSUME NEW j \in 0 .. n, j # i
        PROVE  Before(j, i) \in 0 .. n - 1 /\ t[j + 1] = l[Before(j, i) + 1]
    BY <1>1, <1>4, <2>1 DEF Before
  <2>2. \A j \in 0 .. n : j # i => t[j + 1] \in 1 .. r
    BY <1>2, <2>1
  <2>3. t[i + 1] = r + 1 /\ r + 1 \notin 1 .. r /\ i \in 0 .. n
    BY <1>1, <1>4
  <2>4. CASE p = i \/ q = i
    BY <1>5, <2>2, <2>3, <2>4
  <2>5. CASE p # i /\ q # i
    <3>1. /\ Before(p, i) \in 0 .. n - 1 /\ Before(q, i) \in 0 .. n - 1
          /\ l[Before(p, i) + 1] = l[Before(q, i) + 1]
      BY <1>5, <2>1, <2>5
    <3>2. Before(p, i) = Before(q, i)
      BY <3>1 DEF RowsFit, Positions
    <3> QED
      BY <1>1, <2>5, <3>2 DEF Before
  <2> QED
    BY <2>4, <2>5
<1>6. Positions(t) = 0 .. n /\ Len(t) <= r + 1
  BY <1>1, <1>4 DEF Positions
<1>7. RowsFit(t, r + 1)
  BY <1>4, <1>5, <1>6 DEF RowsFit, P
<1> QED
  BY <1>7 DEF t

\* The other rows stay when one is erased.
LEMMA RowsErased ==
    ASSUME NEW l, NEW r \in Nat, RowsFit(l, r), NEW i \in Positions(l)
    PROVE  RowsFit(RemoveAt(l, i + 1), r) /\ Len(RemoveAt(l, i + 1)) = Len(l) - 1
<1> DEFINE t == RemoveAt(l, i + 1)
           n == Len(l)
<1>1. l \in Seq(1 .. r) /\ n \in Nat /\ n <= r /\ i \in 0 .. n - 1
  BY LenProperties DEF RowsFit, Positions
<1>2. /\ t \in Seq(1 .. r) /\ Len(t) = n - 1
      /\ \A j \in 0 .. n - 2 : t[j + 1] = l[Behind(j, i) + 1]
  BY <1>1, ErasedIs
<1> HIDE DEF t
<1>3. ASSUME NEW p \in 0 .. n - 2, NEW q \in 0 .. n - 2, t[p + 1] = t[q + 1]
      PROVE  p = q
  <2>1. /\ Behind(p, i) \in 0 .. n - 1 /\ Behind(q, i) \in 0 .. n - 1
        /\ l[Behind(p, i) + 1] = l[Behind(q, i) + 1]
    <3>1. Behind(p, i) \in 0 .. n - 1 /\ Behind(q, i) \in 0 .. n - 1
      BY <1>1 DEF Behind
    <3> QED
      BY <1>2, <1>3, <3>1
  <2>2. Behind(p, i) = Behind(q, i)
    BY <2>1 DEF RowsFit, Positions
  <2> QED
    BY <1>1, <2>2 DEF Behind
<1>4. Positions(t) = 0 .. n - 2 /\ Len(t) <= r
  BY <1>1, <1>2 DEF Positions
<1>5. RowsFit(t, r)
  BY <1>2, <1>3, <1>4 DEF RowsFit
<1> QED
  BY <1>2, <1>5 DEF t

\* All rows stay when one is moved.
LEMMA RowsMoved ==
    ASSUME NEW l, NEW r \in Nat, RowsFit(l, r),
           NEW from \in Positions(l), NEW to \in Positions(l)
    PROVE  RowsFit(Moved(l, from, to), r)
<1> DEFINE t == Moved(l, from, to)
           n == Len(l)
<1>1. /\ l \in Seq(1 .. r) /\ n \in Nat /\ n <= r
      /\ from \in 0 .. n - 1 /\ to \in 0 .. n - 1
  BY LenProperties DEF RowsFit, Positions
<1>2. /\ t \in Seq(1 .. r) /\ Len(t) = n
      /\ \A j \in Positions(l) : /\ t[j + 1] = l[Source(j, from, to) + 1]
                                 /\ Source(j, from, to) \in Positions(l)
  BY <1>1, MovedIs
<1> HIDE DEF t
<1>3. Positions(t) = Positions(l) /\ Len(t) <= r
  BY <1>1, <1>2 DEF Positions
<1>4. ASSUME NEW p \in Positions(t), NEW q \in Positions(t), t[p + 1] = t[q + 1]
      PROVE  p = q
  <2>1. Source(p, from, to) = Source(q, from, to)
    BY <1>2, <1>3, <1>4 DEF RowsFit
  <2>2. p \in Nat /\ q \in Nat /\ from \in Nat /\ to \in Nat
    BY <1>1, <1>3 DEF Positions
  <2> QED
    BY <2>1, <2>2 DEF Source, Before, Behind
<1>5. RowsFit(t, r)
  BY <1>2, <1>3, <1>4 DEF RowsFit
<1> QED
  BY <1>5 DEF t

\* Two entries change places.
Swapped(l, i, j) == [l EXCEPT ![i + 1] = l[j + 1], ![j + 1] = l[i + 1]]

\* Where the entry at p was before those at i and j changed places.
Other(p, i, j) == IF p = i THEN j ELSE IF p = j THEN i ELSE p

\* A list in which two entries changed places.
LEMMA SwappedIs ==
    ASSUME NEW X, NEW l \in Seq(X), NEW i \in Positions(l), NEW j \in Positions(l)
    PROVE  /\ Swapped(l, i, j) \in Seq(X) /\ Len(Swapped(l, i, j)) = Len(l)
           /\ \A p \in Positions(l) :
                 /\ Other(p, i, j) \in Positions(l)
                 /\ Swapped(l, i, j)[p + 1] = l[Other(p, i, j) + 1]
<1> DEFINE t == Swapped(l, i, j)
           n == Len(l)
<1>1. /\ n \in Nat /\ l \in [1 .. n -> X] /\ i \in 0 .. n - 1 /\ j \in 0 .. n - 1
      /\ i + 1 \in 1 .. n /\ j + 1 \in 1 .. n
  BY LenProperties DEF Positions
<1>2. t \in [1 .. n -> X]
  BY <1>1 DEF Swapped
<1>3. t \in Seq(X) /\ Len(t) = n
  <2> HIDE DEF t
  <2> QED
    BY <1>1, <1>2
<1>4. ASSUME NEW p \in 0 .. n - 1
      PROVE  Other(p, i, j) \in 0 .. n - 1 /\ t[p + 1] = l[Other(p, i, j) + 1]
  <2>1. p + 1 \in 1 .. n /\ (p + 1 = i + 1 <=> p = i) /\ (p + 1 = j + 1 <=> p = j)
    BY <1>1
  <2>2. t[p + 1] = IF p + 1 = j + 1 THEN l[i + 1]
                   ELSE IF p + 1 = i + 1 THEN l[j + 1] ELSE l[p + 1]
    BY <1>1, <2>1 DEF Swapped
  <2> HIDE DEF t
  <2> QED
    BY <1>1, <2>1, <2>2 DEF Other
<1> QED
  BY <1>3, <1>4 DEF Positions

\* All rows stay when two of them change places.
LEMMA RowsSwapped ==
    ASSUME NEW l, NEW r \in Nat, RowsFit(l, r),
           NEW i \in Positions(l), NEW j \in Positions(l)
    PROVE  RowsFit(Swapped(l, i, j), r) /\ Len(Swapped(l, i, j)) = Len(l)
<1> DEFINE t == Swapped(l, i, j)
<1>1. l \in Seq(1 .. r) /\ Len(l) <= r
  BY DEF RowsFit
<1>2. /\ t \in Seq(1 .. r) /\ Len(t) = Len(l)
      /\ \A p \in Positions(l) : /\ Other(p, i, j) \in Positions(l)
                                 /\ t[p + 1] = l[Other(p, i, j) + 1]
  BY <1>1, SwappedIs
<1> HIDE DEF t
<1>3. Positions(t) = Positions(l)
  BY <1>2 DEF Positions
<1>4. ASSUME NEW p \in Positions(t), NEW q \in Positions(t), t[p + 1] = t[q + 1]
      PROVE  p = q
  <2>1. Other(p, i, j) = Other(q, i, j)
    BY <1>2, <1>3, <1>4 DEF RowsFit
  <2> QED
    BY <2>1 DEF Other
<1>5. RowsFit(t, r)
  BY <1>1, <1>2, <1>3, <1>4 DEF RowsFit
<1> QED
  BY <1>2, <1>5 DEF t

\* In a list two entries change places by moving one behind the other, and that
\* one back.
LEMMA SwappedByMoves ==
    ASSUME NEW X, NEW l \in Seq(X),
           NEW i \in Positions(l), NEW j \in Positions(l), i < j
    PROVE  LET once == Moved(l, i, j)
           IN  Swapped(l, i, j) = IF i + 1 # j THEN Moved(once, j - 1, i) ELSE once
<1> DEFINE n == Len(l)
           t == Swapped(l, i, j)
           once == Moved(l, i, j)
           twice == Moved(once, j - 1, i)
<1>1. /\ n \in Nat /\ i \in 0 .. n - 1 /\ j \in 0 .. n - 1
      /\ Positions(l) = 0 .. n - 1 /\ j - 1 \in 0 .. n - 1
  BY LenProperties DEF Positions
<1>2. /\ t \in Seq(X) /\ Len(t) = n
      /\ \A p \in 0 .. n - 1 : t[p + 1] = l[Other(p, i, j) + 1]
  BY <1>1, SwappedIs
<1>3. /\ once \in Seq(X) /\ Len(once) = n
      /\ \A p \in 0 .. n - 1 : /\ once[p + 1] = l[Source(p, i, j) + 1]
                               /\ Source(p, i, j) \in 0 .. n - 1
  <2>1. /\ once \in Seq(X) /\ Len(once) = Len(l)
        /\ \A p \in Positions(l) : /\ once[p + 1] = l[Source(p, i, j) + 1]
                                   /\ Source(p, i, j) \in Positions(l)
    BY MovedIs
  <2> HIDE DEF once
  <2> QED
    BY <1>1, <2>1
<1> HIDE DEF once, t
<1>4. Positions(once) = 0 .. n - 1
  BY <1>3 DEF Positions
<1>5. /\ twice \in Seq(X) /\ Len(twice) = n
      /\ \A p \in 0 .. n - 1 : /\ twice[p + 1] = once[Source(p, j - 1, i) + 1]
                               /\ Source(p, j - 1, i) \in 0 .. n - 1
  <2>1. j - 1 \in Positions(once) /\ i \in Positions(once) /\ once \in Seq(X)
    BY <1>1, <1>3, <1>4
  <2>2. /\ twice \in Seq(X) /\ Len(twice) = Len(once)
        /\ \A p \in Positions(once) :
              /\ twice[p + 1] = once[Source(p, j - 1, i) + 1]
              /\ Source(p, j - 1, i) \in Positions(once)
    BY <2>1, MovedIs
  <2> HIDE DEF twice
  <2> QED
    BY <1>3, <1>4, <2>2
<1> HIDE DEF twice
<1>6. ASSUME NEW u, u \in Seq(X), Len(u) = n,
             \A p \in 0 .. n - 1 : u[p + 1] = t[p + 1]
      PROVE  t = u
  <2>1. t \in [1 .. n -> X] /\ u \in [1 .. n -> X]
    BY <1>2, <1>6
  <2>2. ASSUME NEW q \in 1 .. n PROVE t[q] = u[q]
    <3>1. q - 1 \in 0 .. n - 1 /\ (q - 1) + 1 = q
      BY <1>1
    <3> QED
      BY <1>6, <3>1
  <2>3. t = [q \in 1 .. n |-> t[q]] /\ u = [q \in 1 .. n |-> u[q]]
    BY <2>1
  <2> HIDE DEF n
  <2> QED
    BY <2>2, <2>3
<1>7. CASE i + 1 = j
  <2>1. \A p \in 0 .. n - 1 : Source(p, i, j) = Other(p, i, j)
    BY <1>1, <1>7 DEF Source, Before, Behind, Other
  <2>2. \A p \in 0 .. n - 1 : once[p + 1] = t[p + 1]
    BY <1>2, <1>3, <2>1
  <2>3. t = once
    BY <1>3, <1>6, <2>2
  <2> QED
    BY <1>7, <2>3 DEF t, once
<1>8. CASE i + 1 # j
  <2>1. \A p \in 0 .. n - 1 : Source(Source(p, j - 1, i), i, j) = Other(p, i, j)
    BY <1>1, <1>8 DEF Source, Before, Behind, Other
  <2>2. \A p \in 0 .. n - 1 : twice[p + 1] = t[p + 1]
    BY <1>2, <1>3, <1>5, <2>1
  <2>3. t = twice
    BY <1>5, <1>6, <2>2
  <2> QED
    BY <1>8, <2>3 DEF t, twice, once
<1> QED
  BY <1>7, <1>8
-----------------------------------------------------------------------------
(* Steps *)

\* What the invariant says of the lists and of the builder of the log.
LEMMA NowFits ==
    ASSUME IInv
    PROVE  /\ rows \in Nat /\ MaxRow \in Nat /\ rows <= MaxRow
           /\ RowsFit(list, rows) /\ list \in Seq(1 .. rows) /\ Len(list) \in Nat
           /\ \A i \in Positions(list) :
                 i \in 0 .. Len(list) - 1 /\ i \in Nat /\ list[i + 1] \in 1 .. rows
           /\ Fits(changes, Len(before), Len(list))
<1>1. rows \in Nat /\ MaxRow \in Nat /\ rows <= MaxRow
  BY ListAssumption DEF IInv, ListsFit
<1>2. RowsFit(list, rows) /\ list \in Seq(1 .. rows)
  BY DEF IInv, ListsFit, RowsFit
<1>3. Len(list) \in Nat /\ DOMAIN list = 1 .. Len(list)
  BY <1>2, LenProperties
<1>4. ASSUME NEW i \in Positions(list)
      PROVE  i \in 0 .. Len(list) - 1 /\ i \in Nat /\ list[i + 1] \in 1 .. rows
  <2>1. i \in 0 .. Len(list) - 1 /\ i + 1 \in 1 .. Len(list)
    BY <1>3 DEF Positions
  <2>2. list \in [1 .. Len(list) -> 1 .. rows]
    BY <1>1, <1>2, <1>3
  <2>3. list[i + 1] \in 1 .. rows
    BY <2>1, <2>2
  <2> QED
    BY <1>3, <2>1, <2>3
<1>5. Fits(changes, Len(before), Len(list))
  BY DEF IInv, Leads
<1> QED
  BY <1>1, <1>2, <1>3, <1>4, <1>5

\* link_list_insert preserves the invariant.
LEMMA InsertKeeps ==
    ASSUME IInv, NEW i \in Positions(list) \cup {Len(list)}, link_list_insert(i)
    PROVE  IInv'
<1> DEFINE l == InsertAt(list, i + 1, rows + 1)
           b == insert(changes, i, 1)
<1>1. /\ rows < MaxRow /\ rows' = rows + 1 /\ Edit(l, b) /\ UNCHANGED touched
  BY DEF link_list_insert
<1>2. /\ rows \in Nat /\ MaxRow \in Nat /\ list \in Seq(1 .. rows)
      /\ RowsFit(list, rows) /\ Len(list) \in Nat
      /\ Fits(changes, Len(before), Len(list))
  BY NowFits
<1>3. i \in 0 .. Len(list)
  BY <1>2 DEF Positions
<1>4. RowsFit(l, rows')
  BY <1>1, <1>2, <1>3, RowsInserted
<1>5. list \in Seq(1 .. rows + 1) /\ rows + 1 \in 1 .. rows + 1
  <2>1. list \in [1 .. Len(list) -> 1 .. rows]
    BY <1>2
  <2>2. \A x \in 1 .. rows : x \in 1 .. rows + 1
    BY <1>2
  <2>3. list \in [1 .. Len(list) -> 1 .. rows + 1]
    BY <2>1, <2>2
  <2> QED
    BY <1>2, <2>3
<1>6. Len(l) = Len(list) + 1
  <2> DEFINE X == 1 .. rows + 1
             row == rows + 1
             u == InsertAt(list, i + 1, row)
  <2>1. list \in Seq(X) /\ i \in 0 .. Len(list) /\ row \in X
    BY <1>3, <1>5
  <2> HIDE DEF X, row
  <2>2. u \in Seq(X) /\ Len(u) = Len(list) + 1
    BY <2>1, InsertedIs
  <2> HIDE DEF u
  <2> QED
    BY <2>2 DEF l, u, row
<1>7. /\ Fits(b, Len(before), Len(list) + 1)
      /\ Follows(b, l, changes, list)
  BY <1>2, <1>3, <1>5, InsertFits
<1> HIDE DEF l, b
<1>8. rows' \in rows .. MaxRow
  BY <1>1, <1>2
<1> QED
  BY <1>1, <1>4, <1>6, <1>7, <1>8, EditKeeps

\* So does link_list_erase,
LEMMA EraseKeeps ==
    ASSUME IInv, NEW i \in Positions(list), link_list_erase(i)
    PROVE  IInv'
<1> DEFINE l == RemoveAt(list, i + 1)
           b == erase(changes, i)
<1>1. rows' = rows /\ Edit(l, b) /\ UNCHANGED touched
  BY DEF link_list_erase
<1>2. /\ rows \in Nat /\ MaxRow \in Nat /\ rows <= MaxRow /\ list \in Seq(1 .. rows)
      /\ RowsFit(list, rows) /\ i \in 0 .. Len(list) - 1
      /\ Fits(changes, Len(before), Len(list))
  BY NowFits
<1>3. RowsFit(l, rows) /\ Len(l) = Len(list) - 1
  BY <1>2, RowsErased
<1>4. /\ Fits(b, Len(before), Len(list) - 1)
      /\ Follows(b, l, changes, list)
  BY <1>2, EraseFits
<1> HIDE DEF l, b
<1>5. rows' \in rows .. MaxRow
  BY <1>1, <1>2
<1> QED
  BY <1>1, <1>3, <1>4, <1>5, EditKeeps

\* link_list_move,
LEMMA MoveKeeps ==
    ASSUME IInv, NEW from \in Positions(list), NEW to \in Positions(list),
           link_list_move(from, to)
    PROVE  IInv'
<1> DEFINE l == Moved(list, from, to)
           b == move(changes, from, to)
<1>1. rows' = rows /\ Edit(l, b) /\ UNCHANGED touched
  BY DEF link_list_move, Moved
<1>2. /\ rows \in Nat /\ MaxRow \in Nat /\ rows <= MaxRow /\ list \in Seq(1 .. rows)
      /\ RowsFit(list, rows)
      /\ Fits(changes, Len(before), Len(list))
  BY NowFits
<1>3. RowsFit(l, rows) /\ Len(l) = Len(list)
  BY <1>2, RowsMoved, MovedIs
<1>4. /\ Fits(b, Len(before), Len(list))
      /\ Follows(b, l, changes, list)
  BY <1>2, MoveFits
<1> HIDE DEF l, b
<1>5. rows' \in rows .. MaxRow
  BY <1>1, <1>2
<1> QED
  BY <1>1, <1>3, <1>4, <1>5, EditKeeps

\* swap_rows, by the two moves it passes on,
LEMMA SwapRowsKeeps ==
    ASSUME IInv, NEW i \in Positions(list), NEW j \in Positions(list), i < j,
           swap_rows(i, j)
    PROVE  IInv'
<1> DEFINE l == Swapped(list, i, j)
           first == Moved(list, i, j)
           once == move(changes, i, j)
           b == IF i + 1 # j THEN move(once, j - 1, i) ELSE once
<1>1. rows' = rows /\ Edit(l, b) /\ UNCHANGED touched
  BY DEF swap_rows, Swapped
<1>2. /\ rows \in Nat /\ MaxRow \in Nat /\ rows <= MaxRow /\ list \in Seq(1 .. rows)
      /\ RowsFit(list, rows)
      /\ Fits(changes, Len(before), Len(list))
      /\ i \in 0 .. Len(list) - 1 /\ j \in 0 .. Len(list) - 1 /\ i \in Nat /\ j \in Nat
  BY NowFits
<1>3. RowsFit(l, rows) /\ Len(l) = Len(list)
  BY <1>2, RowsSwapped
<1>4. l = IF i + 1 # j THEN Moved(first, j - 1, i) ELSE first
  BY <1>2, SwappedByMoves
<1>5. first \in Seq(1 .. rows) /\ Len(first) = Len(list)
  BY <1>2, MovedIs
<1>6. /\ Fits(once, Len(before), Len(list))
      /\ Follows(once, first, changes, list)
  BY <1>2, MoveFits
<1>7. rows' \in rows .. MaxRow
  BY <1>1, <1>2
<1> HIDE DEF l, first, once
<1>8. Fits(b, Len(before), Len(list)) /\ Follows(b, l, changes, list)
  <2>1. CASE i + 1 = j
    BY <1>4, <1>6, <2>1
  <2>2. CASE i + 1 # j
    <3>1. j - 1 \in Positions(first) /\ i \in Positions(first)
      BY <1>2, <1>5 DEF Positions
    <3>2. /\ Fits(move(once, j - 1, i), Len(before), Len(first))
          /\ Follows(move(once, j - 1, i), Moved(first, j - 1, i), once, first)
      BY <1>5, <1>6, <3>1, MoveFits
    <3>3. b = move(once, j - 1, i) /\ l = Moved(first, j - 1, i)
      BY <1>4, <2>2
    <3> HIDE DEF b
    <3>4. Follows(b, l, once, first)
      BY <3>2, <3>3
    <3> QED
      BY <1>5, <1>6, <3>2, <3>3, <3>4, FollowsTwice
  <2> QED
    BY <2>1, <2>2
<1> HIDE DEF b
<1> QED
  BY <1>1, <1>3, <1>7, <1>8, EditKeeps

\* link_list_set, which marks a row of its own,
LEMMA SetKeeps ==
    ASSUME IInv, NEW i \in Positions(list), link_list_set(i)
    PROVE  IInv'
<1> DEFINE l == [list EXCEPT ![i + 1] = rows + 1]
           b == modify(changes, i)
           T == {rows + 1}
           S == {i}
<1>1. /\ rows < MaxRow /\ rows' = rows + 1 /\ Edit(l, b) /\ touched' = touched \cup T
  BY DEF link_list_set
<1>2. /\ rows \in Nat /\ MaxRow \in Nat /\ list \in Seq(1 .. rows)
      /\ RowsFit(list, rows) /\ Len(list) \in Nat
      /\ i \in 0 .. Len(list) - 1 /\ i \in Nat
      /\ \A j \in Positions(list) :
            j \in 0 .. Len(list) - 1 /\ j \in Nat /\ list[j + 1] \in 1 .. rows
      /\ Fits(changes, Len(before), Len(list))
  BY NowFits
<1>3. /\ rows' \in rows .. MaxRow /\ T \subseteq 1 .. rows'
      /\ rows + 1 \notin 1 .. rows
  BY <1>1, <1>2
<1>4. l \in Seq(1 .. rows + 1) /\ Len(l) = Len(list)
  <2>1. list \in [1 .. Len(list) -> 1 .. rows]
    BY <1>2
  <2>2. l \in [1 .. Len(list) -> 1 .. rows + 1]
    BY <1>2, <2>1
  <2> HIDE DEF l
  <2> DEFINE n == Len(list)
             X == 1 .. rows + 1
  <2>3. n \in Nat /\ l \in [1 .. n -> X]
    BY <1>2, <2>2
  <2> HIDE DEF n, X
  <2>4. l \in Seq(X) /\ Len(l) = n
    BY <2>3
  <2> QED
    BY <2>4 DEF n, X
<1>5. ASSUME NEW j \in Positions(list)
      PROVE  l[j + 1] = IF j = i THEN rows + 1 ELSE list[j + 1]
  <2>1. j + 1 \in 1 .. Len(list) /\ DOMAIN list = 1 .. Len(list)
    BY <1>2, LenProperties
  <2>2. j + 1 = i + 1 <=> j = i
    BY <1>2
  <2> QED
    BY <2>1, <2>2
<1> HIDE DEF l
<1>6. RowsFit(l, rows')
  <2>1. Positions(l) = Positions(list)
    BY <1>4 DEF Positions
  <2>2. ASSUME NEW p \in Positions(list), NEW q \in Positions(list),
               l[p + 1] = l[q + 1]
        PROVE  p = q
    <3>1. CASE p = i \/ q = i
      BY <1>2, <1>3, <1>5, <2>2, <3>1
    <3>2. CASE p # i /\ q # i
      BY <1>2, <1>5, <2>2, <3>2 DEF RowsFit
    <3> QED
      BY <3>1, <3>2
  <2>3. Len(l) <= rows + 1
    BY <1>2, <1>4 DEF RowsFit
  <2> QED
    BY <1>1, <1>4, <2>1, <2>2, <2>3 DEF RowsFit
<1>7. /\ Fits(b, Len(before), Len(list))
      /\ b.modifications = changes.modifications \cup S
      /\ ComesAs(b, changes)
  BY <1>2, ModifyFits
<1> HIDE DEF b
<1>8. \A j \in Positions(list) : l[j + 1] \in T <=> j \in S
  BY <1>2, <1>3, <1>5
<1>9. Marks(l, list, S, T)
  BY <1>5, <1>8 DEF Marks
<1> HIDE DEF S, T
<1> QED
  BY <1>1, <1>3, <1>4, <1>6, <1>7, <1>9, MarkKeeps

\* a change of a row of the target table,
LEMMA RowChangesKeeps ==
    ASSUME IInv, NEW i \in Positions(list), RowChanges(i)
    PROVE  IInv'
<1> DEFINE b == modify(changes, i)
           T == {list[i + 1]}
           S == {i}
<1>1. rows' = rows /\ Edit(list, b) /\ touched' = touched \cup T
  BY DEF RowChanges
<1>2. /\ rows \in Nat /\ MaxRow \in Nat /\ rows <= MaxRow
      /\ RowsFit(list, rows) /\ list[i + 1] \in 1 .. rows
      /\ i \in 0 .. Len(list) - 1
      /\ Fits(changes, Len(before), Len(list))
  BY NowFits
<1>3. rows' \in rows .. MaxRow /\ T \subseteq 1 .. rows'
  BY <1>1, <1>2
<1>4. /\ Fits(b, Len(before), Len(list))
      /\ b.modifications = changes.modifications \cup S
      /\ ComesAs(b, changes)
  BY <1>2, ModifyFits
<1> HIDE DEF b
<1>5. Marks(list, list, S, T)
  BY <1>2 DEF RowsFit, Marks
<1> HIDE DEF S, T
<1> QED
  BY <1>1, <1>2, <1>3, <1>4, <1>5, MarkKeeps

\* link_list_swap, which marks both rows where they are now,
LEMMA SwapKeeps ==
    ASSUME IInv, NEW i \in Positions(list), NEW j \in Positions(list),
           link_list_swap(i, j)
    PROVE  IInv'
<1> DEFINE l == Swapped(list, i, j)
           once == modify(changes, i)
           b == modify(once, j)
           T == {list[i + 1], list[j + 1]}
           S == {i, j}
<1>1. rows' = rows /\ Edit(l, b) /\ touched' = touched \cup T
  BY DEF link_list_swap, Swapped
<1>2. /\ rows \in Nat /\ MaxRow \in Nat /\ rows <= MaxRow /\ list \in Seq(1 .. rows)
      /\ RowsFit(list, rows) /\ list[i + 1] \in 1 .. rows /\ list[j + 1] \in 1 .. rows
      /\ i \in 0 .. Len(list) - 1 /\ j \in 0 .. Len(list) - 1
      /\ Fits(changes, Len(before), Len(list))
  BY NowFits
<1>3. rows' \in rows .. MaxRow /\ T \subseteq 1 .. rows'
  BY <1>1, <1>2
<1>4. RowsFit(l, rows) /\ Len(l) = Len(list)
  BY <1>2, RowsSwapped
<1>5. \A p \in Positions(list) : /\ Other(p, i, j) \in Positions(list)
                                 /\ l[p + 1] = list[Other(p, i, j) + 1]
  BY <1>2, SwappedIs
<1> HIDE DEF l
<1>6. /\ Fits(once, Len(before), Len(list))
      /\ once.modifications = changes.modifications \cup {i}
      /\ ComesAs(once, changes)
  BY <1>2, ModifyFits
<1> HIDE DEF once
<1>7. /\ Fits(b, Len(before), Len(list))
      /\ b.modifications = once.modifications \cup {j}
      /\ ComesAs(b, once)
  BY <1>2, <1>6, ModifyFits
<1> HIDE DEF b
<1>8. /\ b.modifications = changes.modifications \cup S
      /\ ComesAs(b, changes)
  BY <1>6, <1>7 DEF ComesAs
<1>9. \A p \in Positions(list) : l[p + 1] \in T <=> p \in S
  <2> TAKE p \in Positions(list)
  <2> DEFINE q == Other(p, i, j)
  <2>1. q \in Positions(list) /\ l[p + 1] = list[q + 1]
    BY <1>5
  <2>2. q \in S <=> p \in S
    BY DEF Other
  <2> HIDE DEF q
  <2>3. list[q + 1] \in T <=> q \in S
    BY <1>2, <2>1 DEF RowsFit
  <2> QED
    BY <2>1, <2>2, <2>3
<1>10. Marks(l, list, S, T)
  BY <1>5, <1>9 DEF Other, Marks
<1> HIDE DEF S, T
<1> QED
  BY <1>1, <1>3, <1>4, <1>7, <1>8, <1>10, MarkKeeps

\* link_list_clear,
LEMMA ClearKeeps ==
    ASSUME IInv, link_list_clear
    PROVE  IInv'
<1> DEFINE l == <<>>
           b == clear(changes, Len(list))
<1>1. rows' = rows /\ Edit(l, b) /\ UNCHANGED touched
  BY DEF link_list_clear
<1>2. /\ rows \in Nat /\ MaxRow \in Nat /\ rows <= MaxRow
      /\ Fits(changes, Len(before), Len(list))
  BY NowFits
<1>3. l \in Seq(1 .. rows) /\ Len(l) = 0 /\ Positions(l) = {}
  <2>1. Len(l) = 0 /\ 0 .. 0 - 1 = {}
    OBVIOUS
  <2> QED
    BY <2>1 DEF Positions
<1> HIDE DEF l
<1>4. RowsFit(l, rows) /\ rows' \in rows .. MaxRow
  BY <1>1, <1>2, <1>3 DEF RowsFit
<1>5. Fits(b, Len(before), Len(l))
  BY <1>2, <1>3, ClearFits
<1> HIDE DEF b
<1>6. Follows(b, l, changes, list)
  BY <1>3 DEF Follows
<1> QED
  BY <1>1, <1>4, <1>5, <1>6, EditKeeps

\* and the end of a log: the tidied changes are merged into the accumulated ones.
LEMMA CompleteKeeps ==
    ASSUME IInv, parse_complete_and_merge
    PROVE  IInv'
<1> DEFINE c == clean_up_stale_moves(changes)
           d == merge(accumulated, c)
<1>1. /\ accumulated' = d /\ changes' = NoChanges /\ before' = list
      /\ UNCHANGED <<list, seen, touched, rows, edits>>
  BY DEF parse_complete_and_merge
<1>2. /\ ListsFit /\ Leads(changes, before, list) /\ Leads(accumulated, seen, before)
      /\ MarksFollow(list, changes, accumulated, touched)
  BY DEF IInv
<1>3. /\ Fits(changes, Len(before), Len(list))
      /\ Fits(accumulated, Len(seen), Len(before))
  BY <1>2 DEF Leads
<1>4. /\ Fits(c, Len(before), Len(list)) /\ Less(c, changes)
      /\ \A i, j \in Nat : Came(c, j, i) => Came(changes, j, i)
  BY <1>3, CleanFits
<1> HIDE DEF c
<1>5. Fits(d, Len(seen), Len(list)) /\ Composed(d, accumulated, c)
  BY <1>3, <1>4, MergeFits
<1> HIDE DEF d
<1>6. c.modifications = changes.modifications
  BY <1>4 DEF Less
<1>7. ASSUME NEW j \in Positions(list), NEW i \in Nat, Came(d, j, i)
      PROVE  \E x \in Positions(before) :
                /\ x \in Nat /\ j \in Nat
                /\ Came(changes, j, x) /\ Came(accumulated, x, i)
                /\ j \in d.modifications
                      <=> j \in changes.modifications \/ x \in accumulated.modifications
  <2>1. j \in 0 .. Len(list) - 1 /\ j \in Nat
    BY DEF Positions
  <2>2. PICK x \in Nat :
           /\ Came(accumulated, x, i) /\ Came(c, j, x)
           /\ j \in d.modifications
                 <=> j \in c.modifications \/ x \in accumulated.modifications
    BY <1>5, <1>7, <2>1 DEF Composed
  <2>3. x \in Positions(before)
    BY <1>4, <2>1, <2>2, CameInside DEF Positions
  <2> QED
    BY <1>4, <1>6, <2>1, <2>2, <2>3
<1>8. Leads(d, seen, list)
  <2>1. ASSUME NEW j \in Positions(list), NEW i \in Nat, Came(d, j, i)
        PROVE  j \in d.modifications \/ list[j + 1] = seen[i + 1]
    <3>1. PICK x \in Positions(before) :
             /\ x \in Nat /\ j \in Nat
             /\ Came(changes, j, x) /\ Came(accumulated, x, i)
             /\ j \in d.modifications
                   <=> j \in changes.modifications \/ x \in accumulated.modifications
      BY <1>7, <2>1
    <3>2. j \in changes.modifications \/ list[j + 1] = before[x + 1]
      BY <1>2, <3>1 DEF Leads
    <3>3. x \in accumulated.modifications \/ before[x + 1] = seen[i + 1]
      BY <1>2, <3>1 DEF Leads
    <3> QED
      BY <3>1, <3>2, <3>3
  <2> QED
    BY <1>5, <2>1 DEF Leads
<1>9. /\ Fits(NoChanges, Len(list), Len(list)) /\ empty(NoChanges)
      /\ NoChanges.modifications = {}
      /\ \A i, j \in Nat : Came(NoChanges, j, i) <=> i = j
  <2>1. Len(list) \in Nat
    BY NowFits
  <2>2. Fits(NoChanges, Len(list), Len(list)) /\ empty(NoChanges)
    BY <2>1, NoChangesFit
  <2> QED
    BY <2>2, EmptyIs
<1>10. \A j \in Positions(list) : j \in Nat
  BY DEF Positions
<1>11. Leads(NoChanges, list, list)
  BY <1>9, <1>10 DEF Leads
<1>12. MarksFollow(list, NoChanges, d, touched)
  <2> SUFFICES ASSUME NEW j \in Positions(list), NEW y \in Nat, NEW i \in Nat,
                      Came(NoChanges, j, y), Came(d, y, i)
               PROVE  list[j + 1] \in touched
                         <=> j \in NoChanges.modifications \/ y \in d.modifications
    BY DEF MarksFollow
  <2>1. y = j /\ Came(d, j, i)
    BY <1>9, <1>10
  <2>2. PICK x \in Positions(before) :
           /\ x \in Nat /\ j \in Nat
           /\ Came(changes, j, x) /\ Came(accumulated, x, i)
           /\ j \in d.modifications
                 <=> j \in changes.modifications \/ x \in accumulated.modifications
    BY <1>7, <2>1
  <2>3. list[j + 1] \in touched
           <=> j \in changes.modifications \/ x \in accumulated.modifications
    BY <1>2, <2>2 DEF MarksFollow
  <2> QED
    BY <1>9, <2>1, <2>2, <2>3
<1>13. ListsFit'
  <2>1. list \in Seq(1 .. MaxRow) /\ Len(list) <= rows
    <3>1. /\ list \in Seq(1 .. rows) /\ Len(list) \in Nat /\ rows \in Nat
          /\ MaxRow \in Nat /\ rows <= MaxRow /\ RowsFit(list, rows)
      BY NowFits
    <3>2. list \in [1 .. Len(list) -> 1 .. rows] /\ \A x \in 1 .. rows : x \in 1 .. MaxRow
      BY <3>1
    <3>3. list \in [1 .. Len(list) -> 1 .. MaxRow]
      BY <3>2
    <3> QED
      BY <3>1, <3>3 DEF RowsFit
  <2> QED
    BY <1>1, <1>2, <2>1 DEF ListsFit
<1> QED
  BY <1>1, <1>8, <1>11, <1>12, <1>13 DEF IInv

\* The observers are called: nothing has changed since.
LEMMA DeliverKeeps ==
    ASSUME IInv, deliver
    PROVE  IInv'
<1>1. /\ accumulated' = NoChanges /\ seen' = list /\ touched' = {}
      /\ UNCHANGED <<list, before, changes, rows, edits>> /\ empty(changes)
  BY DEF deliver
<1>2. /\ rows \in Nat /\ MaxRow \in Nat /\ rows <= MaxRow /\ list \in Seq(1 .. rows)
      /\ RowsFit(list, rows) /\ Len(list) \in Nat
      /\ Fits(changes, Len(before), Len(list))
  BY NowFits
<1>3. /\ Len(before) = Len(list) /\ changes.modifications = {}
      /\ \A i, j \in Nat : Came(changes, j, i) <=> i = j
  BY <1>1, <1>2, EmptyIs
<1>4. /\ Fits(NoChanges, Len(list), Len(list)) /\ empty(NoChanges)
      /\ NoChanges.modifications = {}
      /\ \A i, j \in Nat : Came(NoChanges, j, i) <=> i = j
  <2>1. Fits(NoChanges, Len(list), Len(list)) /\ empty(NoChanges)
    BY <1>2, NoChangesFit
  <2> QED
    BY <2>1, EmptyIs
<1>5. \A j \in Positions(list) : j \in Nat /\ list[j + 1] = before[j + 1]
  <2> TAKE j \in Positions(list)
  <2>1. j \in Nat
    BY DEF Positions
  <2>2. Came(changes, j, j)
    BY <1>3, <2>1
  <2> QED
    BY <1>3, <2>1, <2>2 DEF IInv, Leads
<1>6. Leads(NoChanges, list, before)
  <2>1. Positions(before) = Positions(list)
    BY <1>3 DEF Positions
  <2> QED
    BY <1>3, <1>4, <1>5, <2>1 DEF Leads
<1>7. MarksFollow(list, changes, NoChanges, {})
  BY <1>3, <1>4 DEF MarksFollow
<1>8. ListsFit'
  <2>1. list \in Seq(1 .. MaxRow) /\ Len(list) <= rows
    <3>1. list \in [1 .. Len(list) -> 1 .. rows] /\ \A x \in 1 .. rows : x \in 1 .. MaxRow
      BY <1>2
    <3>2. list \in [1 .. Len(list) -> 1 .. MaxRow]
      BY <3>1
    <3> QED
      BY <1>2, <3>2 DEF RowsFit
  <2> QED
    BY <1>1, <2>1 DEF ListsFit, IInv
<1>9. Leads(changes, before, list)
  BY DEF IInv
<1> QED
  BY <1>1, <1>6, <1>7, <1>8, <1>9 DEF IInv

\* At first nothing has changed.
LEMMA InitHolds ==
    ASSUME Init
    PROVE  IInv
<1> DEFINE n == InitialSize
<1>1. n \in Nat /\ MaxRow \in Nat /\ n <= MaxRow /\ MaxEdits \in Nat
  BY ListAssumption
<1>2. /\ list \in [1 .. n -> 1 .. n] /\ list \in [1 .. n -> 1 .. MaxRow]
      /\ \A x \in 1 .. n : list[x] = x
  BY <1>1 DEF Init
<1>3. /\ seen = list /\ before = list /\ changes = NoChanges
      /\ accumulated = NoChanges /\ touched = {} /\ rows = n /\ edits = 0
  BY DEF Init
<1> HIDE DEF n
<1>4. list \in Seq(1 .. n) /\ list \in Seq(1 .. MaxRow) /\ Len(list) = n
  BY <1>1, <1>2
<1>5. \A j \in Positions(list) : j \in Nat /\ j + 1 \in 1 .. n
  BY <1>1, <1>4 DEF Positions
<1>6. RowsFit(list, n)
  BY <1>1, <1>2, <1>4, <1>5 DEF RowsFit
<1>7. ListsFit
  BY <1>1, <1>3, <1>4, <1>6 DEF ListsFit, n
<1>8. /\ Fits(NoChanges, n, n) /\ empty(NoChanges)
  BY <1>1, NoChangesFit
<1>9. /\ NoChanges.modifications = {}
      /\ \A i, j \in Nat : Came(NoChanges, j, i) <=> i = j
  BY <1>8, EmptyIs
<1>10. Leads(NoChanges, list, list)
  BY <1>4, <1>5, <1>8, <1>9 DEF Leads
<1>11. MarksFollow(list, NoChanges, NoChanges, {})
  BY <1>9 DEF MarksFollow
<1> QED
  BY <1>3, <1>7, <1>10, <1>11 DEF IInv

\* Every state of the list, of the builder of the log and of the accumulated changes
\* fits the others, after any number of edits, logs and callbacks.
THEOREM InvariantHolds == Spec => []IInv
<1>1. Init => IInv
  BY InitHolds
<1>2. IInv /\ [Next]_vars => IInv'
  <2> SUFFICES ASSUME IInv, [Next]_vars PROVE IInv'
    OBVIOUS
  <2>1. ASSUME NEW i \in Positions(list) \cup {Len(list)}, link_list_insert(i)
        PROVE  IInv'
    BY <2>1, InsertKeeps
  <2>2. ASSUME NEW i \in Positions(list), link_list_set(i) PROVE IInv'
    BY <2>2, SetKeeps
  <2>3. ASSUME NEW i \in Positions(list), RowChanges(i) PROVE IInv'
    BY <2>3, RowChangesKeeps
  <2>4. ASSUME NEW i \in Positions(list), link_list_erase(i) PROVE IInv'
    BY <2>4, EraseKeeps
  <2>5. ASSUME NEW i \in Positions(list), NEW j \in Positions(list),
               link_list_swap(i, j)
        PROVE  IInv'
    BY <2>5, SwapKeeps
  <2>6. ASSUME NEW i \in Positions(list), NEW j \in Positions(list), i < j,
               swap_rows(i, j)
        PROVE  IInv'
    BY <2>6, SwapRowsKeeps
  <2>7. ASSUME NEW i \in Positions(list), NEW j \in Positions(list),
               link_list_move(i, j)
        PROVE  IInv'
    BY <2>7, MoveKeeps
  <2>8. CASE link_list_clear
    BY <2>8, ClearKeeps
  <2>9. CASE parse_complete_and_merge
    BY <2>9, CompleteKeeps
  <2>10. CASE deliver
    BY <2>10, DeliverKeeps
  <2>11. CASE UNCHANGED vars
    BY <2>11 DEF vars, IInv, ListsFit
  <2> QED
    BY <2>1, <2>2, <2>3, <2>4, <2>5, <2>6, <2>7, <2>8, <2>9, <2>10, <2>11 DEF Next
<1> QED
  BY <1>1, <1>2, PTL DEF Spec

\* Changes that lead from a list to another explain it.
LEMMA LeadsExplains ==
    ASSUME NEW b, NEW old, NEW new, Leads(b, old, new)
    PROVE  Explains(b, old, new) /\ MovesAreRight(b, old, new)
<1> DEFINE m == Len(old)
           n == Len(new)
           D == b.deletions
           I == b.insertions
<1>1. Fits(b, m, n)
  BY DEF Leads
<1>2. /\ m \in Nat /\ n \in Nat /\ D \in SUBSET Nat /\ I \in SUBSET Nat
      /\ \A k \in DOMAIN b.moves :
            /\ b.moves[k] = Move(b.moves[k].from, b.moves[k].to)
            /\ b.moves[k].from \in Nat /\ b.moves[k].to \in Nat
  BY <1>1, FitsIs
<1>3. D \subseteq 0 .. m - 1 /\ I \subseteq 0 .. n - 1 /\ MovesFit(b) /\ Kept(D, I, m, n)
  BY <1>1 DEF Fits
<1>4. m - Cardinality(D) = n - Cardinality(I)
  <2>1. (\A x \in D : x < m) /\ (\A x \in I : x < n)
    BY <1>2, <1>3
  <2>2. unshift(D, m) = m - Cardinality(D) /\ unshift(I, n) = n - Cardinality(I)
    BY <1>2, <2>1, CountAll
  <2>3. unshift(D, m) = unshift(I, n)
    BY <1>3 DEF Kept
  <2> QED
    BY <2>2, <2>3
<1>5. ASSUME NEW j \in Positions(new) \ I
      PROVE  j \in b.modifications \/ new[j + 1] = old[shift(D, unshift(I, j)) + 1]
  <2>1. j \in Nat \ I
    BY DEF Positions
  <2>2. shift(D, unshift(I, j)) \in Nat /\ Came(b, j, shift(D, unshift(I, j)))
    BY <1>1, <2>1, CameFrom
  <2> QED
    BY <2>2 DEF Leads
<1>6. ASSUME NEW k \in DOMAIN b.moves
      PROVE  /\ b.moves[k].from \in D /\ b.moves[k].to \in I
             /\ \/ b.moves[k].to \in b.modifications
                \/ new[b.moves[k].to + 1] = old[b.moves[k].from + 1]
  <2>1. b.moves[k].from \in D /\ b.moves[k].to \in I
    BY <1>3, MoveFit
  <2>2. Came(b, b.moves[k].to, b.moves[k].from)
    BY <1>1, CameMoved
  <2>3. b.moves[k].to \in Positions(new)
    BY <1>3, <2>1 DEF Positions
  <2> QED
    BY <1>2, <2>1, <2>2, <2>3 DEF Leads
<1>7. MovesAreRight(b, old, new)
  BY <1>6 DEF MovesAreRight, Moves
<1> QED
  BY <1>3, <1>4, <1>5, <1>7 DEF Explains, Positions

\* Between logs a row's mark is the one its position has.
LEMMA MarksAre ==
    ASSUME IInv
    PROVE  MarksAreRight
<1>1. SUFFICES ASSUME empty(changes), NEW j \in Positions(list),
                      \/ j \notin accumulated.insertions
                      \/ \E m \in Moves(accumulated) : m.to = j
               PROVE  j \in accumulated.modifications <=> list[j + 1] \in touched
  BY DEF MarksAreRight
<1>2. /\ Fits(changes, Len(before), Len(list))
      /\ Fits(accumulated, Len(seen), Len(before))
  BY DEF IInv, Leads
<1>3. j \in Nat /\ changes.modifications = {} /\ Came(changes, j, j)
  <2>1. j \in Nat
    BY DEF Positions
  <2> QED
    BY <1>1, <1>2, <2>1, EmptyIs
<1>4. PICK i \in Nat : Came(accumulated, j, i)
  <2>1. CASE j \notin accumulated.insertions
    BY <1>2, <1>3, <2>1, CameFrom
  <2>2. CASE \E m \in Moves(accumulated) : m.to = j
    <3>1. PICK k \in DOMAIN accumulated.moves : accumulated.moves[k].to = j
      BY <2>2 DEF Moves
    <3>2. accumulated.moves[k].from \in Nat
      BY <1>2, FitsIs
    <3>3. Came(accumulated, j, accumulated.moves[k].from)
      BY <1>2, <3>1, CameMoved
    <3> QED
      BY <3>2, <3>3
  <2> QED
    BY <1>1, <2>1, <2>2
<1> QED
  BY <1>3, <1>4 DEF IInv, MarksFollow

\* What the observers are told is what happened (TransactLogObserver, clean_up_stale_moves,
\* merge): the changes of a log and those accumulated over any number of logs take the
\* old list to the new one, moves are of one row, and marks stay with their rows.
THEOREM ListExplained == Spec => []ChangesExplainList
<1>1. IInv => ChangesExplainList
  BY LeadsExplains, MarksAre DEF ChangesExplainList, IInv
<1> QED
  BY <1>1, InvariantHolds, PTL
-----------------------------------------------------------------------------
(* Types *)

\* Changes that fit lists of rows are of their type.
LEMMA FitsTyped ==
    ASSUME NEW b, NEW m, NEW n, Fits(b, m, n), m <= MaxRow, n <= MaxRow
    PROVE  b \in Changes
<1> DEFINE P == 0 .. MaxRow
           R == [from : P, to : P]
<1>1. /\ MaxRow \in Nat /\ m \in Nat /\ n \in Nat
      /\ b = [deletions |-> b.deletions, insertions |-> b.insertions,
              modifications |-> b.modifications, moves |-> b.moves,
              mapping |-> <<>>]
      /\ Len(b.moves) \in Nat /\ DOMAIN b.moves = 1 .. Len(b.moves)
      /\ b.moves \in Seq(MoveType)
      /\ \A k \in DOMAIN b.moves :
            b.moves[k] = Move(b.moves[k].from, b.moves[k].to)
  BY FitsIs, ListAssumption
<1>2. /\ b.deletions \subseteq 0 .. m - 1 /\ b.insertions \subseteq 0 .. n - 1
      /\ b.modifications \subseteq 0 .. n - 1 /\ MovesFit(b)
  BY DEF Fits
<1>3. /\ b.deletions \subseteq P /\ b.insertions \subseteq P
      /\ b.modifications \subseteq P
  BY <1>1, <1>2
<1> HIDE DEF P
<1>4. ASSUME NEW k \in DOMAIN b.moves PROVE b.moves[k] \in R
  <2>1. b.moves[k].from \in P /\ b.moves[k].to \in P
    BY <1>2, <1>3, MoveFit
  <2>2. Move(b.moves[k].from, b.moves[k].to) \in R
    BY <2>1 DEF Move
  <2> HIDE DEF R
  <2> QED
    BY <1>1, <2>2
<1> HIDE DEF R
<1>5. b.moves \in Seq(R)
  <2> DEFINE f == b.moves
             u == Len(f)
  <2>1. u \in Nat /\ DOMAIN f = 1 .. u /\ f \in [1 .. u -> MoveType]
    BY <1>1
  <2>2. \A k \in DOMAIN f : f[k] \in R
    BY <1>4
  <2> HIDE DEF f, u
  <2>3. f \in [1 .. u -> R]
    BY <2>1, <2>2
  <2>4. f \in Seq(R)
    BY <2>1, <2>3
  <2> QED
    BY <2>4 DEF f
<1> QED
  BY <1>1, <1>3, <1>5 DEF Changes, P, R

\* The invariant types every variable.
LEMMA IInvTyped ==
    ASSUME IInv
    PROVE  TypeOK
<1>1. /\ rows \in Nat /\ MaxRow \in Nat /\ rows <= MaxRow /\ list \in Seq(1 .. rows)
      /\ RowsFit(list, rows) /\ Len(list) \in Nat
      /\ Fits(changes, Len(before), Len(list))
  BY NowFits
<1>2. /\ ListsFit /\ Fits(accumulated, Len(seen), Len(before))
      /\ Len(before) \in Nat /\ Len(seen) \in Nat
  BY DEF IInv, Leads, Fits
<1>3. Len(list) <= MaxRow /\ Len(before) <= MaxRow /\ Len(seen) <= MaxRow
  BY <1>1, <1>2 DEF ListsFit, RowsFit
<1>4. changes \in Changes /\ accumulated \in Changes
  BY <1>1, <1>2, <1>3, FitsTyped
<1>5. list \in Seq(1 .. MaxRow)
  <2>1. list \in [1 .. Len(list) -> 1 .. rows] /\ \A x \in 1 .. rows : x \in 1 .. MaxRow
    BY <1>1
  <2>2. list \in [1 .. Len(list) -> 1 .. MaxRow]
    BY <2>1
  <2> QED
    BY <1>1, <2>2
<1> QED
  BY <1>2, <1>4, <1>5 DEF TypeOK, ListsFit

\* Positions, rows and moves stay within the lists there can be.
THEOREM TypeCorrect == Spec => []TypeOK
  BY InvariantHolds, IInvTyped, PTL
-----------------------------------------------------------------------------
(* Key-value observation *)

\* One move: the positions it shifts are those from the old to the new one.
LEMMA OneMoveShifts ==
    ASSUME NEW b, NEW from \in Nat, NEW to \in Nat,
           b.deletions = {from}, b.insertions = {to}
    PROVE  /\ from \in MovedIndices(b)
           /\ \A i \in Nat : (from <= i /\ i <= to) \/ (to <= i /\ i < from)
                                => i \in MovedIndices(b)
<1> DEFINE both == b.deletions \cup b.insertions
           start == Min(both)
           last == Max(both)
           E(p, i) == IF i < start THEN 0
                      ELSE IF i \in b.deletions THEN p[i - 1] - 1
                      ELSE IF i + p[i - 1] \in b.insertions THEN p[i - 1] + 1
                      ELSE p[i - 1]
           P(p) == p = [i \in start - 1 .. last |-> E(p, i)]
           f == CHOOSE p : P(p)
           V(i) == IF i < start THEN 0 ELSE IF from <= to THEN -1
                   ELSE IF i < from THEN 1 ELSE 0
           g == [i \in start - 1 .. last |-> V(i)]
<1>1. MovedIndices(b) = b.deletions \cup {i \in start .. last : f[i] # 0}
  BY DEF MovedIndices
<1>2. /\ start = IF from <= to THEN from ELSE to
      /\ last = IF from <= to THEN to ELSE from
  <2> DEFINE x == IF from <= to THEN from ELSE to
             y == IF from <= to THEN to ELSE from
  <2>1. x \in both /\ y \in both /\ \A z \in both : z \in Nat /\ x <= z /\ z <= y
    OBVIOUS
  <2>2. x \in Nat /\ y \in Nat
    OBVIOUS
  <2> HIDE DEF both, x, y
  <2>3. start \in both /\ \A z \in both : start <= z
    BY <2>1 DEF Min
  <2>4. last \in both /\ \A z \in both : last >= z
    BY <2>1 DEF Max
  <2> HIDE DEF start, last
  <2>5. start = x /\ last = y
    BY <2>1, <2>2, <2>3, <2>4
  <2> QED
    BY <2>5 DEF x, y
<1> HIDE DEF start, last, f
<1>3. start \in Nat /\ last \in Nat /\ start <= last
  BY <1>2
<1>4. \A i \in start - 1 .. last : V(i) \in Int
  OBVIOUS
<1>5. P(g)
  <2>1. ASSUME NEW i \in start - 1 .. last PROVE V(i) = E(g, i)
    <3>1. CASE i < start
      BY <3>1
    <3>2. CASE i >= start
      <4>1. i \in Int /\ i - 1 \in start - 1 .. last
        BY <1>3, <3>2
      <4>2. g[i - 1] = V(i - 1)
        BY <4>1
      <4>3. E(g, i) = IF i = from THEN V(i - 1) - 1
                      ELSE IF i + V(i - 1) = to THEN V(i - 1) + 1 ELSE V(i - 1)
        <5> HIDE DEF g, V
        <5> QED
          BY <1>3, <3>2, <4>1, <4>2
      <4> HIDE DEF g, E
      <4>4. CASE from <= to
        BY <1>2, <3>2, <4>1, <4>3, <4>4
      <4>5. CASE to < from
        BY <1>2, <3>2, <4>1, <4>3, <4>5
      <4> QED
        BY <4>4, <4>5
    <3> QED
      BY <1>3, <3>1, <3>2
  <2> HIDE DEF E, V
  <2> QED
    BY <2>1
<1>6. P(f)
  <2> HIDE DEF P, g
  <2> QED
    BY <1>5, Zenon DEF f
<1>7. \A i \in start .. last : f[i] = V(i)
  <2>0. \A i \in start - 1 .. last : f[i] = E(f, i)
    <3> DEFINE e == [i \in start - 1 .. last |-> E(f, i)]
    <3>1. f = e
      BY <1>6
    <3>2. \A i \in start - 1 .. last : e[i] = E(f, i)
      OBVIOUS
    <3> HIDE DEF e, E
    <3> QED
      BY <3>1, <3>2
  <2> DEFINE T == {i \in start .. last : f[i] # V(i)}
  <2>1. SUFFICES ASSUME T # {} PROVE FALSE
    OBVIOUS
  <2>2. PICK i \in T : \A x \in T : i <= x
    <3>1. \A x \in T : x \in Nat
      BY <1>3
    <3>2. T \in SUBSET Nat
      BY <3>1
    <3> HIDE DEF T
    <3> QED
      BY <2>1, <3>2, LeastIs
  <2>3. i \in start .. last /\ i - 1 \in start - 1 .. last /\ f[i] # V(i)
    BY <1>3
  <2>4. f[i - 1] = V(i - 1)
    <3>1. CASE i = start
      <4>1. f[i - 1] = 0
        BY <1>3, <2>0, <2>3, <3>1
      <4> QED
        BY <1>3, <3>1, <4>1
    <3>2. CASE i # start
      <4>1. i - 1 \in start .. last /\ ~(i <= i - 1)
        BY <1>3, <2>3, <3>2
      <4>2. i - 1 \notin T
        <5> HIDE DEF T
        <5> QED
          BY <2>2, <4>1
      <4> HIDE DEF V
      <4> QED
        BY <4>1, <4>2
    <3> QED
      BY <3>1, <3>2
  <2>5. g[i - 1] = V(i - 1) /\ g[i] = V(i)
    BY <1>3, <2>3
  <2>6. V(i) = E(g, i)
    <3> DEFINE e == [x \in start - 1 .. last |-> E(g, x)]
    <3> HIDE DEF E, V, g
    <3>0. i \in start - 1 .. last
      BY <1>3, <2>3
    <3>1. g = e
      BY <1>5
    <3>2. e[i] = E(g, i)
      BY <3>0
    <3> HIDE DEF e
    <3> QED
      BY <2>5, <3>1, <3>2
  <2>7. f[i] = E(f, i)
    BY <1>3, <2>0, <2>3
  <2> HIDE DEF V, g
  <2>8. E(f, i) = E(g, i)
    BY <2>4, <2>5
  <2> HIDE DEF E
  <2> QED
    BY <2>3, <2>6, <2>7, <2>8
<1>8. ASSUME NEW i \in Nat, (from <= i /\ i <= to) \/ (to <= i /\ i < from)
      PROVE  i \in MovedIndices(b)
  <2>1. i \in start .. last /\ V(i) # 0
    BY <1>2, <1>8
  <2> HIDE DEF V
  <2> QED
    BY <1>1, <1>7, <2>1
<1> QED
  BY <1>1, <1>8

\* One position is counted.
LEMMA CountOne ==
    ASSUME NEW x \in Nat, NEW i \in Nat
    PROVE  unshift({x}, i) = IF x < i THEN i - 1 ELSE i
<1> DEFINE S == {y \in {x} : 0 <= y /\ y < i}
<1>1. unshift({x}, i) = i - Cardinality(S)
  BY DEF unshift, count
<1>2. CASE x < i
  <2>1. S = {x}
    BY <1>2
  <2> HIDE DEF S
  <2>2. Cardinality(S) = 1
    BY <2>1, FS_Singleton
  <2> QED
    BY <1>1, <1>2, <2>2
<1>3. CASE ~(x < i)
  <2>1. S = {}
    BY <1>3
  <2> HIDE DEF S
  <2>2. Cardinality(S) = 0
    BY <2>1, FS_EmptySet
  <2> QED
    BY <1>1, <1>3, <2>2
<1> QED
  BY <1>2, <1>3

\* Of three sets two are empty, unless there are several types of changes.
LEMMA TwoAreEmpty ==
    ASSUME NEW a, NEW b, NEW c,
           ~(Cardinality({s \in {1, 2, 3} : <<a, b, c>>[s] = {}}) < 2)
    PROVE  (a = {} /\ b = {}) \/ (a = {} /\ c = {}) \/ (b = {} /\ c = {})
<1> DEFINE S == {s \in {1, 2, 3} : <<a, b, c>>[s] = {}}
<1>1. SUFFICES ASSUME ~((a = {} /\ b = {}) \/ (a = {} /\ c = {}) \/ (b = {} /\ c = {}))
               PROVE  FALSE
  OBVIOUS
<1>2. \A s : s \in S <=> \/ s = 1 /\ a = {}
                         \/ s = 2 /\ b = {}
                         \/ s = 3 /\ c = {}
  OBVIOUS
<1>3. ~(Cardinality(S) < 2)
  OBVIOUS
<1> HIDE DEF S
<1>4. S = {} \/ \E s : S = {s}
  BY <1>1, <1>2
<1>5. Cardinality(S) = 0 \/ Cardinality(S) = 1
  BY <1>4, FS_EmptySet, FS_Singleton
<1> QED
  BY <1>3, <1>5

\* Nothing is said of an entry that is not told, and it is as it was.
Untold(told, old, new) ==
    CASE told.kind = "None" -> new = old
      [] told.kind = "Set" ->
           /\ Len(new) = Len(old)
           /\ \A i \in Positions(new) \ told.indices : new[i + 1] = old[i + 1]
      [] told.kind = "Insert" -> Rest(new, told.indices) = old
      [] told.kind = "Remove" -> new = Rest(old, told.indices)
      [] told.kind = "SetAll" -> TRUE

\* Sequences with the same entries are equal.
LEMMA SameSequence ==
    ASSUME NEW X, NEW s \in Seq(X), NEW n \in Nat, Len(s) = n,
           NEW f, f = [i \in 1 .. n |-> f[i]], \A i \in 1 .. n : f[i] = s[i]
    PROVE  f = s
<1>1. s \in [1 .. n -> X]
  BY LenProperties
<1> QED
  BY <1>1

\* What KVOAdapter tells of changes with at most one move leaves nothing out.
LEMMA LeadsTells ==
    ASSUME NEW X, NEW old \in Seq(X), NEW new \in Seq(X),
           NEW b, Leads(b, old, new), Len(b.moves) <= 1
    PROVE  Untold(KVOChange(b), old, new)
<1> DEFINE m == Len(old)
           n == Len(new)
           D == b.deletions
           I == b.insertions
           M == b.modifications
           mods == M \ I
           told == KVOChange(b)
           K(kind, indices) == [kind |-> kind, indices |-> indices]
           k == Len(b.moves)
           moved == k > 0 /\ Cardinality(I) = k /\ Cardinality(D) = k
           few == Cardinality({s \in {1, 2, 3} : <<I, mods, D>>[s] = {}}) < 2
<1>1. /\ Fits(b, m, n) /\ m \in Nat /\ n \in Nat /\ k \in Nat
      /\ D \in SUBSET Nat /\ I \in SUBSET Nat /\ M \in SUBSET Nat
      /\ Bounded(D) /\ Bounded(I)
  BY FitsIs DEF Leads
<1>2. /\ Kept(D, I, m, n) /\ (\A x \in D : x < m) /\ (\A x \in I : x < n)
  BY <1>1 DEF Fits
<1>3. /\ IsFiniteSet(D) /\ IsFiniteSet(I)
      /\ Cardinality(D) \in Nat /\ Cardinality(I) \in Nat
      /\ m - Cardinality(D) = n - Cardinality(I)
  <2>1. /\ IsFiniteSet(D) /\ IsFiniteSet(I)
        /\ Cardinality(D) \in Nat /\ Cardinality(I) \in Nat
        /\ unshift(D, m) = m - Cardinality(D) /\ unshift(I, n) = n - Cardinality(I)
    BY <1>1, <1>2, CountAll
  <2> QED
    BY <1>2, <2>1 DEF Kept
<1>4. ASSUME NEW j \in 0 .. n - 1, NEW i \in Nat, Kept(D, I, i, j), j \notin M
      PROVE  new[j + 1] = old[i + 1]
  BY <1>4 DEF Leads, Came, Positions
<1>5. told = IF empty(b) THEN K("None", {})
             ELSE IF moved THEN K("Set", mods \cup MovedIndices(b))
             ELSE IF few THEN K("SetAll", {})
             ELSE IF I # {} THEN K("Insert", I)
             ELSE IF mods # {} THEN K("Set", mods)
             ELSE K("Remove", D)
  BY DEF KVOChange
<1>6. DOMAIN old = 1 .. m /\ DOMAIN new = 1 .. n
  BY LenProperties
<1> HIDE DEF told, moved, few
<1>7. \A x : unshift({}, x) = x - Cardinality({})
  BY DEF unshift, count
<1>8. \A x \in Nat : unshift({}, x) = x
  BY <1>7, FS_EmptySet
<1>9. CASE empty(b)
  <2>1. told.kind = "None"
    BY <1>5, <1>9
  <2>2. m = n /\ M = {} /\ D = {} /\ I = {}
    BY <1>1, <1>9, EmptyIs DEF empty
  <2>3. \A j \in 0 .. n - 1 : Kept(D, I, j, j) /\ j \in Nat
    BY <2>2 DEF Kept
  <2>4. \A j \in 0 .. n - 1 : new[j + 1] = old[j + 1]
    BY <1>4, <2>2, <2>3
  <2>5. \A i \in 1 .. n : new[i] = old[i]
    <3> TAKE i \in 1 .. n
    <3>1. i - 1 \in 0 .. n - 1 /\ (i - 1) + 1 = i
      BY <1>1
    <3> QED
      BY <2>4, <3>1
  <2>6. new = [i \in 1 .. n |-> new[i]]
    <3>1. new \in [1 .. n -> X]
      BY <1>6
    <3> QED
      BY <3>1
  <2>7. new = old
    BY <1>1, <2>2, <2>5, <2>6, SameSequence
  <2> QED
    BY <2>1, <2>7 DEF Untold, told
<1>10. CASE ~empty(b) /\ moved
  <2>1. told.kind = "Set" /\ told.indices = mods \cup MovedIndices(b)
    BY <1>5, <1>10
  <2>2. Cardinality(I) = 1 /\ Cardinality(D) = 1 /\ m = n
    <3>1. k > 0 /\ k <= 1 /\ Cardinality(I) = k /\ Cardinality(D) = k
      BY <1>10 DEF moved
    <3> HIDE DEF k, m, n, D, I
    <3>2. k = 1
      BY <1>1, <3>1
    <3> QED
      BY <1>1, <1>3, <3>1, <3>2
  <2>3. PICK from, to : D = {from} /\ I = {to}
    <3>1. \A S : IsFiniteSet(S) /\ Cardinality(S) = 1 => \E x : S = {x}
      BY FS_Singleton
    <3> HIDE DEF D, I
    <3>2. (\E x : D = {x}) /\ (\E x : I = {x})
      BY <1>3, <2>2, <3>1
    <3> QED
      BY <3>2
  <2>4. from \in Nat /\ to \in Nat
    BY <1>1, <2>3
  <2>5. /\ from \in MovedIndices(b)
        /\ \A i \in Nat : (from <= i /\ i <= to) \/ (to <= i /\ i < from)
                             => i \in MovedIndices(b)
    BY <2>3, <2>4, OneMoveShifts
  <2>6. ASSUME NEW i \in Positions(new) \ told.indices
        PROVE  new[i + 1] = old[i + 1]
    <3>1. i \in 0 .. n - 1 /\ i \in Nat
      BY DEF Positions
    <3>2. i \notin MovedIndices(b) /\ i \notin mods
      BY <2>1
    <3>3. /\ i # from /\ i # to
          /\ (i < from /\ i < to) \/ (i > from /\ i > to)
      BY <2>4, <2>5, <3>1, <3>2
    <3>4. unshift(D, i) = unshift(I, i)
      BY <2>3, <2>4, <3>1, <3>3, CountOne
    <3>5. Kept(D, I, i, i) /\ i \notin M
      BY <2>3, <3>2, <3>3, <3>4 DEF Kept
    <3> QED
      BY <1>4, <3>1, <3>5
  <2> QED
    BY <2>1, <2>2, <2>6 DEF Untold, told
<1>11. CASE ~empty(b) /\ ~moved /\ few
  <2>1. told.kind = "SetAll"
    BY <1>5, <1>11
  <2> QED
    BY <2>1 DEF Untold, told
<1>12. CASE ~empty(b) /\ ~moved /\ ~few
  <2>1. (I = {} /\ mods = {}) \/ (I = {} /\ D = {}) \/ (mods = {} /\ D = {})
    BY <1>12, TwoAreEmpty DEF few
  <2>2. CASE I # {}
    <3>1. told.kind = "Insert" /\ told.indices = I
      BY <1>5, <1>12, <2>2
    <3>2. D = {} /\ mods = {} /\ m = n - Cardinality(I)
      BY <1>1, <1>3, <2>1, <2>2, FS_EmptySet
    <3> DEFINE f == Rest(new, I)
    <3>3. f = [i \in 1 .. m |-> new[shift(I, i - 1) + 1]]
      BY <3>2 DEF Rest
    <3>4. ASSUME NEW i \in 1 .. m PROVE new[shift(I, i - 1) + 1] = old[i]
      <4> DEFINE r == i - 1
                 j == shift(I, r)
      <4>1. r \in Nat /\ r < m /\ r + 1 = i
        BY <1>1
      <4> HIDE DEF r
      <4>2. j \in Nat \ I /\ unshift(I, j) = r
        BY <1>1, <1>3, <4>1, ShiftIs
      <4> HIDE DEF j
      <4>3. Kept(D, I, r, j)
        BY <1>8, <3>2, <4>1, <4>2 DEF Kept
      <4>4. j < n
        BY <1>1, <1>2, <4>1, <4>2, <4>3, KeptOrders
      <4>5. j \in 0 .. n - 1 /\ j \notin M
        BY <1>1, <3>2, <4>2, <4>4
      <4>6. new[j + 1] = old[r + 1]
        BY <1>4, <4>1, <4>3, <4>5
      <4> QED
        BY <4>1, <4>6 DEF j, r
    <3>5. f = [i \in 1 .. m |-> f[i]] /\ \A i \in 1 .. m : f[i] = old[i]
      BY <3>3, <3>4
    <3> HIDE DEF f
    <3>6. f = old
      BY <1>1, <3>5, SameSequence
    <3> QED
      BY <3>1, <3>6 DEF Untold, told, f
  <2>3. CASE I = {} /\ mods # {}
    <3>1. told.kind = "Set" /\ told.indices = mods
      BY <1>5, <1>12, <2>3
    <3>2. D = {} /\ I = {} /\ m = n
      BY <1>1, <1>3, <2>1, <2>3, FS_EmptySet
    <3>3. ASSUME NEW i \in Positions(new) \ told.indices
          PROVE  new[i + 1] = old[i + 1]
      <4>1. i \in 0 .. n - 1 /\ i \in Nat /\ i \notin M
        BY <3>1, <3>2 DEF Positions
      <4>2. Kept(D, I, i, i)
        BY <3>2 DEF Kept
      <4> QED
        BY <1>4, <4>1, <4>2
    <3> QED
      BY <3>1, <3>2, <3>3 DEF Untold, told
  <2>4. CASE I = {} /\ mods = {}
    <3>1. told.kind = "Remove" /\ told.indices = D
      BY <1>5, <1>12, <2>4
    <3>2. M = {} /\ n = m - Cardinality(D)
      BY <1>1, <1>3, <2>4, FS_EmptySet
    <3> DEFINE f == Rest(old, D)
    <3>3. f = [i \in 1 .. n |-> old[shift(D, i - 1) + 1]]
      BY <3>2 DEF Rest
    <3>4. ASSUME NEW i \in 1 .. n PROVE old[shift(D, i - 1) + 1] = new[i]
      <4> DEFINE j == i - 1
                 r == shift(D, j)
      <4>1. j \in Nat /\ j \in 0 .. n - 1 /\ j + 1 = i
        BY <1>1
      <4> HIDE DEF j
      <4>2. r \in Nat \ D /\ unshift(D, r) = j
        BY <1>1, <1>3, <4>1, ShiftIs
      <4> HIDE DEF r
      <4>3. Kept(D, I, r, j)
        BY <1>8, <2>4, <4>1, <4>2 DEF Kept
      <4>4. new[j + 1] = old[r + 1]
        BY <1>4, <3>2, <4>1, <4>2, <4>3
      <4> QED
        BY <4>1, <4>4 DEF j, r
    <3>5. f = [i \in 1 .. n |-> f[i]] /\ \A i \in 1 .. n : f[i] = new[i]
      BY <3>3, <3>4
    <3> HIDE DEF f
    <3>6. f = new
      BY <1>1, <3>5, SameSequence
    <3> QED
      BY <3>1, <3>6 DEF Untold, told, f
  <2> QED
    BY <2>2, <2>3, <2>4
<1> QED
  BY <1>9, <1>10, <1>11, <1>12 DEF told

\* Of the changes of a log that moves at most one entry, a key-value observer is told of
\* every entry that is not as it was (KVOAdapter::before).
THEOREM OneMoveTold == Spec => []OneMoveIsTold
<1>1. ASSUME IInv PROVE OneMoveIsTold
  <2> DEFINE c == clean_up_stale_moves(changes)
  <2>1. SUFFICES ASSUME Len(c.moves) <= 1 PROVE ObserversAreTold
    BY DEF OneMoveIsTold
  <2>2. /\ Leads(changes, before, list) /\ Fits(changes, Len(before), Len(list))
        /\ before \in Seq(1 .. MaxRow) /\ list \in Seq(1 .. MaxRow)
    <3>1. TypeOK
      BY <1>1, IInvTyped
    <3> QED
      BY <1>1, <3>1 DEF IInv, Leads, TypeOK
  <2>3. /\ Fits(c, Len(before), Len(list)) /\ Less(c, changes)
        /\ \A i, j \in Nat : Came(c, j, i) => Came(changes, j, i)
    BY <2>2, CleanFits
  <2> HIDE DEF c
  <2>4. \A j \in Positions(list) : j \in Nat
    BY DEF Positions
  <2>5. Leads(c, before, list)
    BY <2>2, <2>3, <2>4 DEF Leads, Less
  <2>6. Untold(KVOChange(c), before, list)
    BY <2>1, <2>2, <2>5, LeadsTells
  <2> QED
    BY <2>6 DEF ObserversAreTold, Untold, c
<1> QED
  BY <1>1, InvariantHolds, PTL
=============================================================================

---------------------- MODULE CollectionNotifierProofs ----------------------
(***************************************************************************)
(* Proofs about CollectionNotifier and the DeepChangeChecker that it uses.  *)
(*                                                                         *)
(* NotifierCallbacks, for any number of callbacks and commits.              *)
(* m_callback_index and m_callback_count are right only together: the loop  *)
(* stays inside the vector because the callback it is at lies below the     *)
(* count (CountRight), and misses nothing because the callbacks behind the  *)
(* count are new and those up to the index were called (TodoRight).  In     *)
(* deliver_error the callback that was told is found again by its token     *)
(* because the index follows it, or goes back to npos with it (ErrorLoop).  *)
(*                                                                         *)
(* DeepChanges, for any graph, any changes and any limit.  A search may     *)
(* miss a modified row because it was cut at the limit or by a cycle, and   *)
(* what it then remembers would be wrong later.  It is not, because a       *)
(* search that misses a row says so on its path: every link of the path     *)
(* behind which no row is as near to a modified one is marked as exceeded   *)
(* (Complete).  Where a cycle is cut the row stands on the path already, so *)
(* that place lies at or before b, and the marks begin with it.             *)
(***************************************************************************)
EXTENDS NotifierCallbacks, DeepChanges, SequenceTheorems,
        WellFoundedInduction, TLAPS

Delivering == {"packaged", "advanced", "calling", "between"}
InLoop == {"calling", "between"}
OutOfLoop == {"idle", "packaged", "advanced", "counted"}

Slots == 1..Len(callbacks)

\* Tokens are handed out once and in order.
TokensRight ==
    /\ Len(callbacks) < next
    /\ \A i, j \in Slots :
          callbacks[i].token = callbacks[j].token => i = j
    /\ \A i \in Slots : callbacks[i].token < next
    /\ \A t \in called : t < next

\* The index is inside the vector, and npos when no loop is in progress.
IndexRight ==
    /\ index < Len(callbacks)
    /\ pc \in OutOfLoop => index = npos /\ called = {}
    /\ pc \in InLoop => loop # "none"

\* deliver_error calls the first callback each time, and that is the only one
\* it called that may still be there.
ErrorLoop ==
    loop = "error" =>
       /\ pc = "calling" =>
             /\ index \in {npos, 0}
             /\ \A i \in Slots :
                   callbacks[i].token \in called <=> i = 1 /\ index = 0
       /\ pc = "between" =>
             /\ index = npos
             /\ \A i \in Slots : callbacks[i].token \notin called

\* What the count stands for, while no removal miscounted.
CountRight ==
    ~miscounted =>
       /\ pc \in Delivering => count <= Len(callbacks)
       /\ pc \in InLoop => index < count
       /\ pc = "counted" => size = Len(callbacks)
       /\ pc # "undefined"

\* Who has changes to be told of, while no removal miscounted.
TodoRight ==
    ~miscounted =>
       \A i \in Slots :
          \/ callbacks[i].todo = {}
          \/ pc = "counted"
          \/ pc \in Delivering /\ i <= count
                /\ (pc \in InLoop /\ loop = "after" => i > index + 1)

IInv ==
    /\ TypeOK /\ TokensRight /\ IndexRight /\ ErrorLoop /\ CountRight
    /\ TodoRight /\ FlagTellsCallbacks
-----------------------------------------------------------------------------
(* The operators of the model *)

\* Taking an element out of a sequence moves those behind it forward by one.
LEMMA WithoutIs ==
    ASSUME NEW S, NEW s \in Seq(S), NEW i \in 0..Len(s) - 1
    PROVE  /\ Without(s, i) \in Seq(S)
           /\ Len(Without(s, i)) = Len(s) - 1
           /\ \A k \in 1..Len(s) - 1 :
                 Without(s, i)[k] = IF k <= i THEN s[k] ELSE s[k + 1]
<1> DEFINE front == SubSeq(s, 1, i)
           back == SubSeq(s, i + 2, Len(s))
<1>1. Len(s) \in Nat \ {0} /\ \A k \in 1..Len(s) : s[k] \in S
  BY LenProperties, ElementOfSeq
<1>2. /\ front \in Seq(S) /\ Len(front) = i
      /\ \A k \in 1..i : front[k] = s[k]
  BY <1>1, SubSeqProperties
<1>3. /\ back \in Seq(S) /\ Len(back) = Len(s) - 1 - i
      /\ \A k \in 1..Len(s) - 1 - i : back[k] = s[i + 1 + k]
  BY <1>1, SubSeqProperties
<1>4. Without(s, i) = front \o back
  BY DEF Without
<1> HIDE DEF front, back
<1>5. /\ front \o back \in Seq(S) /\ Len(front \o back) = Len(s) - 1
      /\ \A k \in 1..Len(s) - 1 :
            (front \o back)[k] = IF k <= i THEN front[k] ELSE back[k - i]
  BY <1>1, <1>2, <1>3, ConcatProperties
<1>6. ASSUME NEW k \in 1..Len(s) - 1, i < k
      PROVE  back[k - i] = s[k + 1]
  BY <1>1, <1>3, <1>6
<1> QED
  BY <1>1, <1>2, <1>4, <1>5, <1>6

\* A nonempty set of naturals has a least element, and CHOOSE finds it.
LEMMA Minimum ==
    ASSUME NEW T, T \subseteq Nat, T # {}
    PROVE  LET j == CHOOSE k \in T : \A m \in T : k <= m
           IN  j \in T /\ \A m \in T : j <= m
<1>1. \E k \in T : \A m \in T : ~ (<<m, k>> \in OpToRel(<, Nat))
  BY NatLessThanWellFounded, WFMin, Zenon
<1>2. PICK k \in T : \A m \in T : ~ (<<m, k>> \in OpToRel(<, Nat))
  BY <1>1
<1>3. \A m \in T : ~ (m < k)
  BY <1>2, Zenon DEF OpToRel
<1>4. \A m \in T : k <= m
  BY <1>3
<1> QED
  BY <1>4, Zenon

\* The number of callbacks wraps around below zero and nowhere else.
LEMMA CountAfterIs ==
    ASSUME count \in 0..SizeMod - 1
    PROVE  CountAfter = IF count = 0 THEN SizeMod - 1 ELSE count - 1
<1>1. SizeMod \in Nat \ {0}
  BY CallbacksAssumption DEF SizeMod
<1> QED
  BY <1>1 DEF CountAfter

\* find_callback finds the callback.
LEMMA PositionIs ==
    ASSUME TypeOK, NEW t, Present(t)
    PROVE  /\ Position(t) \in 0..Len(callbacks) - 1
           /\ callbacks[Position(t) + 1].token = t
<1>1. PICK i \in 1..Len(callbacks) : callbacks[i].token = t
  BY DEF Present
<1> DEFINE k == CHOOSE j \in 1..Len(callbacks) : callbacks[j].token = t
<1>2. k \in 1..Len(callbacks) /\ callbacks[k].token = t
  BY <1>1
<1>3. Len(callbacks) \in Nat
  BY LenProperties DEF TypeOK
<1>4. Position(t) = k - 1
  BY DEF Position
<1> QED
  BY <1>2, <1>3, <1>4

\* What the removal of a callback does.
Erased(p) ==
    /\ p \in 0..Len(callbacks) - 1
    /\ callbacks' \in Seq(Callback) /\ Len(callbacks') = Len(callbacks) - 1
    /\ \A k \in 1..Len(callbacks) - 1 :
          callbacks'[k] = IF k <= p THEN callbacks[k] ELSE callbacks[k + 1]
    /\ index' = IF index >= p THEN index - 1 ELSE index
    /\ count' = IF count = 0 THEN SizeMod - 1 ELSE count - 1
    /\ have' \in BOOLEAN
    /\ have' <=> callbacks' # <<>>

\* remove_callback erases the callback of the token, and no other.
LEMMA EraseIs ==
    ASSUME TypeOK, NEW t, Present(t), Erase(t)
    PROVE  Erased(Position(t))
<1> DEFINE p == Position(t)
<1>1. p \in 0..Len(callbacks) - 1
  BY PositionIs
<1>2. callbacks' = Without(callbacks, p) /\ callbacks \in Seq(Callback)
  BY DEF Erase, TypeOK
<1>3. index' = IndexAfter(p) /\ index \in npos..MaxToken
  BY DEF Erase, TypeOK
<1>4. count' = IF count = 0 THEN SizeMod - 1 ELSE count - 1
  BY CountAfterIs DEF Erase, TypeOK
<1>5. have' \in BOOLEAN /\ (have' <=> callbacks' # <<>>)
  BY DEF Erase, HaveAfter
<1> HIDE DEF p
<1>6. /\ callbacks' \in Seq(Callback) /\ Len(callbacks') = Len(callbacks) - 1
      /\ \A k \in 1..Len(callbacks) - 1 :
            callbacks'[k] = IF k <= p THEN callbacks[k] ELSE callbacks[k + 1]
  BY <1>1, <1>2, WithoutIs, Zenon
<1>7. index' = IF index >= p THEN index - 1 ELSE index
  <2>1. Len(callbacks) \in Nat
    BY <1>2, LenProperties
  <2> QED
    BY <1>1, <1>3, <2>1, CallbacksAssumption DEF IndexAfter, npos
<1> QED
  BY <1>1, <1>4, <1>5, <1>6, <1>7 DEF Erased, p

\* The three ways for_each_callback goes on: to the end of the loop, to the
\* next callback that is to be called, or past the end of the vector.
Skipped(l, i, j) ==
    \A k \in i + 1 .. j - 1 :
       k < Len(callbacks) /\ ~Needs(l, callbacks[k + 1])

Ends(l, i, n) ==
    /\ Skipped(l, i, n)
    /\ index' = npos /\ called' = {} /\ pc' = AfterLoop(l) /\ loop' = "none"
    /\ callbacks' = callbacks

Calls(l, i, n, j) ==
    /\ j \in i + 1 .. n - 1 /\ j < Len(callbacks) /\ Skipped(l, i, j)
    /\ index' = j /\ pc' = "calling" /\ loop' = l
    /\ called' = called \cup {callbacks[j + 1].token}
    /\ callbacks' = [callbacks EXCEPT ![j + 1] = Called(l, @)]

Overruns(i, n) ==
    /\ \E j \in i + 1 .. n - 1 : j >= Len(callbacks)
    /\ pc' = "undefined" /\ loop' = "none"
    /\ UNCHANGED <<callbacks, index, called>>

\* next_callback ends the loop, calls a later callback or runs past the end.
LEMMA ContinueIs ==
    ASSUME NEW l, NEW i \in Int, npos <= i, NEW n \in Nat,
           Len(callbacks) \in Nat, Continue(l, i, n)
    PROVE  \/ Ends(l, i, n)
           \/ \E j \in i + 1 .. n - 1 : Calls(l, i, n, j)
           \/ Overruns(i, n)
<1> DEFINE todo == {j \in i + 1 .. n - 1 :
                       j >= Len(callbacks) \/ Needs(l, callbacks[j + 1])}
           j == CHOOSE k \in todo : \A m \in todo : k <= m
<1>1. todo \subseteq Nat
  BY DEF npos
<1>2. todo # {} => j \in todo /\ \A m \in todo : j <= m
  BY <1>1, Minimum, Zenon
<1>3. CASE /\ todo = {}
           /\ index' = npos /\ called' = {}
           /\ pc' = AfterLoop(l) /\ loop' = "none"
           /\ UNCHANGED callbacks
  <2>1. \A k \in i + 1 .. n - 1 :
           ~(k >= Len(callbacks) \/ Needs(l, callbacks[k + 1]))
    BY <1>3
  <2>2. Skipped(l, i, n)
    BY <2>1 DEF Skipped, npos
  <2> QED
    BY <1>3, <2>2 DEF Ends
<1>4. CASE /\ todo # {} /\ j < Len(callbacks)
           /\ index' = j /\ pc' = "calling" /\ loop' = l
           /\ called' = called \cup {callbacks[j + 1].token}
           /\ callbacks' = [callbacks EXCEPT ![j + 1] = Called(l, @)]
  <2>1. j \in i + 1 .. n - 1 /\ \A m \in todo : j <= m
    BY <1>2, <1>4
  <2> HIDE DEF j
  <2>2. \A k \in i + 1 .. j - 1 : k \in i + 1 .. n - 1 /\ k \notin todo
    BY <2>1
  <2>3. Skipped(l, i, j)
    BY <2>2 DEF Skipped, npos
  <2>4. Calls(l, i, n, j)
    BY <1>4, <2>1, <2>3 DEF Calls
  <2> QED
    BY <2>1, <2>4
<1>5. CASE /\ todo # {} /\ j >= Len(callbacks)
           /\ pc' = "undefined" /\ loop' = "none"
           /\ UNCHANGED <<callbacks, index, called>>
  <2>1. j \in i + 1 .. n - 1
    BY <1>2, <1>5
  <2> HIDE DEF j
  <2> QED
    BY <1>5, <2>1 DEF Overruns
<1> QED
  BY <1>3, <1>4, <1>5 DEF Continue
-----------------------------------------------------------------------------
(* The inductive invariant *)

\* A sequence is empty if and only if its length is 0.
LEMMA EmptyIs ==
    ASSUME NEW S, NEW s \in Seq(S)
    PROVE  /\ Len(s) \in Nat /\ DOMAIN s = 1..Len(s)
           /\ s # <<>> <=> Len(s) > 0
  BY EmptySeq, LenProperties

\* A new notifier has no callbacks.
LEMMA InitIInv == Init => IInv
<1> SUFFICES ASSUME Init PROVE IInv
  OBVIOUS
<1> USE CallbacksAssumption DEF Init
<1>1. callbacks \in Seq(Callback) /\ Len(callbacks) = 0
  BY EmptySeq
<1>2. TypeOK
  <2>1. /\ index \in npos..MaxToken /\ count \in 0..SizeMod - 1
        /\ next \in 1..MaxToken + 1
        /\ latest \in 0..MaxVersion /\ handed \in 0..latest
        /\ size \in 0..MaxToken
    BY DEF npos, SizeMod
  <2>2. /\ have \in BOOLEAN /\ wake \in BOOLEAN /\ signal \in BOOLEAN
        /\ failed \in BOOLEAN /\ miscounted \in BOOLEAN
    BY Zenon
  <2>3. pc \in Places /\ loop \in Loops /\ called \subseteq Tokens
    BY DEF Places, Loops
  <2>4. Len(callbacks) <= MaxToken
    BY <1>1
  <2> HIDE DEF Init
  <2> QED
    BY <1>1, <2>1, <2>2, <2>3, <2>4 DEF TypeOK
<1>3. TokensRight /\ IndexRight /\ ErrorLoop /\ TodoRight
  BY <1>1 DEF TokensRight, IndexRight, ErrorLoop, TodoRight, Slots, npos,
              InLoop, OutOfLoop
<1>4. CountRight /\ FlagTellsCallbacks
  BY <1>1 DEF CountRight, FlagTellsCallbacks, Delivering, InLoop
<1> QED
  BY <1>2, <1>3, <1>4 DEF IInv

\* add_callback keeps the invariant: the new callback is behind all others.
LEMMA AddKeeps ==
    ASSUME IInv, add_callback
    PROVE  IInv'
<1> USE CallbacksAssumption
<1>1. /\ Len(callbacks) \in Nat /\ DOMAIN callbacks = 1..Len(callbacks)
      /\ callbacks # <<>> <=> Len(callbacks) > 0
      /\ callbacks \in Seq(Callback)
  BY EmptyIs DEF IInv, TypeOK
<1>2. NewCallback \in Callback
  BY DEF NewCallback, Callback, add_callback, IInv, TypeOK, Tokens
<1>3. /\ callbacks' \in Seq(Callback) /\ Len(callbacks') = Len(callbacks) + 1
      /\ \A i \in 1..Len(callbacks) : callbacks'[i] = callbacks[i]
      /\ callbacks'[Len(callbacks) + 1] = NewCallback
      /\ callbacks' # <<>>
  BY <1>1, <1>2, AppendProperties DEF add_callback
<1>4. NewCallback.token = next /\ NewCallback.todo = {}
  BY DEF NewCallback
<1>5. TypeOK'
  <2>1. have' \in BOOLEAN /\ wake' \in BOOLEAN
    BY DEF add_callback, IInv, TypeOK
  <2> QED
    BY <1>3, <2>1
    DEF add_callback, IInv, TypeOK, TokensRight, workerVars, loopVars
<1>6. TokensRight'
  <2>1. next' = next + 1 /\ next \in Nat /\ called' = called
    BY DEF add_callback, IInv, TypeOK, loopVars
  <2>2. /\ Len(callbacks) < next
        /\ \A i, j \in 1..Len(callbacks) :
              callbacks[i].token = callbacks[j].token => i = j
        /\ \A i \in 1..Len(callbacks) : callbacks[i].token < next
    BY DEF IInv, TokensRight, Slots
  <2>3. \A t \in called : t \in Nat /\ t < next
    BY DEF IInv, TypeOK, TokensRight, Tokens
  <2>4. \A i \in 1..Len(callbacks) :
           /\ callbacks'[i].token \in Nat /\ callbacks'[i].token < next
           /\ callbacks'[i].token = callbacks[i].token
    <3>1. \A i \in 1..Len(callbacks) : callbacks[i] \in Callback
      BY <1>1, ElementOfSeq
    <3>2. \A i \in 1..Len(callbacks) : callbacks[i].token \in Nat
      BY <3>1 DEF Callback, Tokens
    <3> QED
      BY <1>1, <1>3, <2>2, <3>2
  <2>5. ASSUME NEW i \in 1..Len(callbacks'), NEW j \in 1..Len(callbacks'),
               callbacks'[i].token = callbacks'[j].token
        PROVE  i = j
    BY <1>1, <1>3, <1>4, <2>1, <2>2, <2>4, <2>5
  <2>6. /\ Len(callbacks') < next'
        /\ \A i \in 1..Len(callbacks') : callbacks'[i].token < next'
        /\ \A t \in called' : t < next'
    BY <1>1, <1>3, <1>4, <2>1, <2>2, <2>3, <2>4
  <2> QED
    BY <2>5, <2>6 DEF TokensRight, Slots
<1>7. IndexRight'
  BY <1>1, <1>3 DEF add_callback, IInv, TypeOK, IndexRight, loopVars
<1>8. ErrorLoop'
  BY <1>1, <1>3, <1>4
  DEF add_callback, IInv, TypeOK, ErrorLoop, TokensRight, IndexRight, Slots,
      loopVars, npos
<1>9. CountRight'
  <2>1. /\ index' = index /\ count' = count /\ size' = size /\ pc' = pc
        /\ miscounted' = miscounted
        /\ pc \in {"idle", "calling"}
    BY DEF add_callback, loopVars
  <2>2. ~miscounted =>
           /\ pc \in Delivering => count <= Len(callbacks)
           /\ pc \in InLoop => index < count
    BY DEF IInv, CountRight
  <2>3. count \in Nat
    BY DEF IInv, TypeOK, SizeMod
  <2> QED
    BY <1>1, <1>3, <2>1, <2>2, <2>3 DEF CountRight
<1>10. TodoRight'
  BY <1>1, <1>3, <1>4
  DEF add_callback, IInv, TypeOK, TodoRight, Slots, loopVars
<1>11. FlagTellsCallbacks'
  <2>1. CASE index = npos
    BY <1>3, <2>1 DEF add_callback, FlagTellsCallbacks
  <2>2. CASE index # npos
    <3>1. Len(callbacks) > 0
      BY <1>1, <2>2 DEF IInv, TypeOK, IndexRight, npos
    <3> QED
      BY <1>1, <1>3, <2>2, <3>1 DEF add_callback, IInv, FlagTellsCallbacks
  <2> QED
    BY <2>1, <2>2
<1> QED
  BY <1>5, <1>6, <1>7, <1>8, <1>9, <1>10, <1>11 DEF IInv

\* What any removal keeps, whoever makes it.
LEMMA ErasedKeeps ==
    ASSUME IInv, NEW p, Erased(p),
           UNCHANGED <<next, wake, signal, workerVars, size, called>>,
           pc' \in Places, loop' = loop, miscounted' \in BOOLEAN
    PROVE  TypeOK' /\ TokensRight' /\ FlagTellsCallbacks'
<1> USE CallbacksAssumption DEF Erased
<1>1. Len(callbacks) \in Nat /\ Len(callbacks') \in Nat
  BY LenProperties DEF IInv, TypeOK
<1>2. TypeOK'
  <2>1. count' \in 0..SizeMod - 1
    BY DEF IInv, TypeOK, SizeMod
  <2>2. index' \in npos..MaxToken
    BY <1>1 DEF IInv, TypeOK, npos
  <2> QED
    BY <1>1, <2>1, <2>2 DEF IInv, TypeOK, workerVars
<1>3. TokensRight'
  <2> SUFFICES /\ Len(callbacks') < next
               /\ \A i, j \in 1..Len(callbacks') :
                     callbacks'[i].token = callbacks'[j].token => i = j
               /\ \A i \in 1..Len(callbacks') : callbacks'[i].token < next
               /\ \A t \in called : t < next
    BY DEF TokensRight, Slots
  <2>1. /\ Len(callbacks') < next
        /\ \A i \in 1..Len(callbacks') : callbacks'[i].token < next
        /\ \A t \in called : t < next
    BY <1>1 DEF IInv, TypeOK, TokensRight, Slots
  <2>2. ASSUME NEW i \in 1..Len(callbacks'), NEW j \in 1..Len(callbacks'),
               callbacks'[i].token = callbacks'[j].token
        PROVE  i = j
    BY <1>1, <2>2 DEF IInv, TokensRight, Slots
  <2> QED
    BY <2>1, <2>2
<1>4. FlagTellsCallbacks'
  BY DEF FlagTellsCallbacks
<1> QED
  BY <1>2, <1>3, <1>4

\* remove_callback keeps the invariant, in each place the handle's thread may
\* be: the index and the count follow the callbacks behind the one removed.
LEMMA RemoveKeeps ==
    ASSUME IInv, NEW t \in Tokens, remove_callback(t)
    PROVE  IInv'
<1> DEFINE p == Position(t)
<1>1. /\ Erased(p) /\ callbacks[p + 1].token = t
      /\ next' = next /\ pc' = pc /\ loop' = loop /\ size' = size
      /\ called' = called /\ miscounted' = (miscounted \/ Miscounts(t))
      /\ pc # "undefined"
      /\ UNCHANGED <<next, wake, signal, workerVars, size, called>>
  BY EraseIs, PositionIs DEF remove_callback, IInv, loopVars
<1>2. /\ Len(callbacks) \in Nat /\ Len(callbacks') = Len(callbacks) - 1
      /\ count \in Nat /\ index \in Int /\ npos <= index
  BY <1>1, LenProperties DEF IInv, TypeOK, Erased, SizeMod, npos
<1>3. ASSUME ~miscounted'
      PROVE  /\ ~miscounted /\ pc # "counted"
             /\ pc \in Delivering => p < count
  <2>1. ~miscounted /\ ~Miscounts(t)
    <3>1. miscounted' = (miscounted \/ Miscounts(t))
      BY <1>1
    <3> QED
      BY <1>3, <3>1, Zenon
  <2>2. pc # "counted" /\ ~(pc \in Delivering /\ p >= count)
    BY <2>1, Zenon DEF Miscounts, Delivering
  <2>3. p \in Int /\ count \in Int
    BY <1>1, <1>2 DEF Erased
  <2> HIDE DEF p
  <2> QED
    BY <2>1, <2>2, <2>3
<1>4. pc' \in Places /\ miscounted' \in BOOLEAN
  <2>1. pc' \in Places /\ miscounted \in BOOLEAN
    BY <1>1 DEF IInv, TypeOK
  <2>2. miscounted' = (miscounted \/ Miscounts(t))
    BY <1>1
  <2> QED
    BY <2>1, <2>2, Zenon
<1>5. TypeOK' /\ TokensRight' /\ FlagTellsCallbacks'
  BY <1>1, <1>4, ErasedKeeps
<1> HIDE DEF p
<1> USE DEF Erased
<1>6. IndexRight'
  BY <1>1, <1>2 DEF IInv, IndexRight, OutOfLoop, InLoop, npos
<1>7. ErrorLoop'
  <2> SUFFICES ASSUME loop = "error"
               PROVE  /\ pc = "calling" =>
                            /\ index' \in {npos, 0}
                            /\ \A i \in 1..Len(callbacks') :
                                  callbacks'[i].token \in called
                                     <=> i = 1 /\ index' = 0
                      /\ pc = "between" =>
                            /\ index' = npos
                            /\ \A i \in 1..Len(callbacks') :
                                  callbacks'[i].token \notin called
    BY <1>1 DEF ErrorLoop, Slots
  <2>1. /\ pc = "calling" =>
              /\ index \in {npos, 0}
              /\ \A i \in 1..Len(callbacks) :
                    callbacks[i].token \in called <=> i = 1 /\ index = 0
        /\ pc = "between" =>
              /\ index = npos
              /\ \A i \in 1..Len(callbacks) : callbacks[i].token \notin called
    BY DEF IInv, ErrorLoop, Slots
  <2>2. ASSUME pc = "calling"
        PROVE  /\ index' \in {npos, 0}
               /\ \A i \in 1..Len(callbacks') :
                     callbacks'[i].token \in called <=> i = 1 /\ index' = 0
    <3>1. CASE p = 0
      BY <1>1, <1>2, <2>1, <2>2, <3>1 DEF npos
    <3>2. CASE p > 0
      BY <1>1, <1>2, <2>1, <2>2, <3>2 DEF npos
    <3> QED
      BY <1>1, <3>1, <3>2
  <2>3. ASSUME pc = "between"
        PROVE  /\ index' = npos
               /\ \A i \in 1..Len(callbacks') :
                     callbacks'[i].token \notin called
    BY <1>1, <1>2, <2>1, <2>3 DEF npos
  <2> QED
    BY <2>2, <2>3
<1>8. CountRight'
  <2> SUFFICES ASSUME ~miscounted'
               PROVE  /\ pc' \in Delivering => count' <= Len(callbacks')
                      /\ pc' \in InLoop => index' < count'
                      /\ pc' = "counted" => size' = Len(callbacks')
                      /\ pc' # "undefined"
    BY DEF CountRight
  <2>1. /\ pc \in Delivering => count <= Len(callbacks)
        /\ pc \in InLoop => index < count
        /\ pc \in InLoop => pc \in Delivering
    BY <1>3 DEF IInv, CountRight, InLoop, Delivering
  <2> QED
    BY <1>1, <1>2, <1>3, <2>1
<1>9. TodoRight'
  <2> SUFFICES ASSUME ~miscounted', NEW i \in 1..Len(callbacks'),
                      callbacks'[i].todo # {}
               PROVE  /\ pc \in Delivering /\ i <= count'
                      /\ pc \in InLoop /\ loop = "after" => i > index' + 1
    BY <1>1 DEF TodoRight, Slots
  <2>1. \A k \in 1..Len(callbacks) :
           \/ callbacks[k].todo = {}
           \/ pc \in Delivering /\ k <= count
                 /\ (pc \in InLoop /\ loop = "after" => k > index + 1)
    BY <1>3 DEF IInv, TodoRight, Slots
  <2>2. CASE i <= p
    <3>1. callbacks'[i] = callbacks[i] /\ i \in 1..Len(callbacks)
      BY <1>1, <1>2, <2>2
    <3> QED
      BY <1>1, <1>2, <1>3, <2>1, <2>2, <3>1
  <2>3. CASE i > p
    <3>1. callbacks'[i] = callbacks[i + 1] /\ i + 1 \in 1..Len(callbacks)
      BY <1>1, <1>2, <2>3
    <3> QED
      BY <1>1, <1>2, <1>3, <2>1, <2>3, <3>1
  <2> QED
    BY <1>1, <2>2, <2>3
<1> QED
  BY <1>5, <1>6, <1>7, <1>8, <1>9 DEF IInv

\* Return keeps the invariant: the callback that was told of an error is the
\* first, and its removal takes the index back to npos.
LEMMA ReturnKeeps ==
    ASSUME IInv, Return
    PROVE  IInv'
<1> DEFINE gone == {t \in called : loop = "error" /\ Present(t)}
<1>1. /\ pc = "calling" /\ pc' = "between"
      /\ next' = next /\ loop' = loop /\ size' = size /\ called' = called
      /\ miscounted' = miscounted
      /\ UNCHANGED <<next, wake, signal, workerVars, size, called>>
  BY DEF Return
<1>2. /\ Len(callbacks) \in Nat /\ count \in Nat /\ index \in Int
      /\ npos <= index /\ index < Len(callbacks)
  BY LenProperties DEF IInv, TypeOK, IndexRight, SizeMod, npos
<1>3. loop = "error" =>
         /\ index \in {npos, 0}
         /\ \A i \in 1..Len(callbacks) :
               callbacks[i].token \in called <=> i = 1 /\ index = 0
  BY <1>1 DEF IInv, ErrorLoop, Slots
<1>4. ~miscounted => count <= Len(callbacks) /\ index < count
  BY <1>1 DEF IInv, CountRight, Delivering, InLoop
<1>5. ~miscounted =>
         \A i \in 1..Len(callbacks) :
            \/ callbacks[i].todo = {}
            \/ i <= count /\ (loop = "after" => i > index + 1)
  BY <1>1 DEF IInv, TodoRight, InLoop, Slots
<1>6. CASE gone = {}
  <2>1. UNCHANGED <<callbacks, index, count, have>>
    BY <1>6 DEF Return
  <2>2. ASSUME loop = "error"
        PROVE  /\ index = npos
               /\ \A i \in 1..Len(callbacks) : callbacks[i].token \notin called
    <3>1. \A i \in 1..Len(callbacks) : callbacks[i].token \notin called
      BY <1>6, <2>2 DEF Present
    <3>2. index # 0
      BY <1>2, <1>3, <2>2, <3>1
    <3> QED
      BY <1>3, <2>2, <3>1, <3>2
  <2>3. TypeOK' /\ FlagTellsCallbacks'
    BY <1>1, <2>1 DEF IInv, TypeOK, FlagTellsCallbacks, Places, workerVars
  <2>4. TokensRight' /\ IndexRight'
    BY <1>1, <2>1 DEF IInv, TokensRight, IndexRight, Slots, InLoop, OutOfLoop
  <2>5. ErrorLoop'
    BY <1>1, <2>1, <2>2 DEF ErrorLoop, Slots
  <2>6. CountRight'
    BY <1>1, <1>4, <2>1 DEF CountRight
  <2>7. TodoRight'
    BY <1>1, <1>5, <2>1 DEF TodoRight, Slots, InLoop, Delivering
  <2> QED
    BY <2>3, <2>4, <2>5, <2>6, <2>7 DEF IInv
<1>7. CASE gone # {}
  <2> DEFINE t == CHOOSE u \in gone : TRUE
             p == Position(t)
  <2>1. t \in called /\ loop = "error" /\ Present(t)
    BY <1>7
  <2>2. Erase(t)
    BY <1>7 DEF Return
  <2>3. Erased(p) /\ callbacks[p + 1].token = t
    BY <2>1, <2>2, EraseIs, PositionIs DEF IInv
  <2> HIDE DEF p, t
  <2>4. /\ p = 0 /\ index = 0 /\ index' = npos
        /\ Len(callbacks') = Len(callbacks) - 1
        /\ \A k \in 1..Len(callbacks) - 1 : callbacks'[k] = callbacks[k + 1]
        /\ count' = IF count = 0 THEN SizeMod - 1 ELSE count - 1
    <3>1. p + 1 = 1 /\ index = 0
      BY <1>2, <1>3, <2>1, <2>3 DEF Erased
    <3>2. p = 0
      BY <2>3, <3>1 DEF Erased
    <3> QED
      BY <1>2, <2>3, <3>1, <3>2 DEF Erased, npos
  <2>5. TypeOK' /\ TokensRight' /\ FlagTellsCallbacks'
    <3>1. pc' \in Places /\ miscounted' \in BOOLEAN
      BY <1>1 DEF IInv, TypeOK, Places
    <3> QED
      BY <1>1, <2>3, <3>1, ErasedKeeps
  <2>6. IndexRight'
    BY <1>1, <1>2, <2>1, <2>4 DEF IndexRight, npos, OutOfLoop
  <2>7. ErrorLoop'
    BY <1>1, <1>2, <1>3, <2>1, <2>4 DEF ErrorLoop, Slots
  <2>8. CountRight'
    BY <1>1, <1>2, <1>4, <2>4 DEF CountRight, npos
  <2>9. TodoRight'
    BY <1>1, <1>2, <1>4, <1>5, <2>1, <2>4
    DEF TodoRight, Slots, InLoop, Delivering
  <2> QED
    BY <2>5, <2>6, <2>7, <2>8, <2>9 DEF IInv
<1> QED
  BY <1>6, <1>7

\* What a step keeps that changes what is kept for the callbacks, but neither
\* adds nor removes one.
SameTokens ==
    /\ callbacks' \in Seq(Callback) /\ Len(callbacks') = Len(callbacks)
    /\ \A i \in 1..Len(callbacks) : callbacks'[i].token = callbacks[i].token

\* Such a step leaves the flag and the tokens right.
LEMMA SameTokensKeeps ==
    ASSUME IInv, SameTokens, next' = next, have' = have
    PROVE  /\ FlagTellsCallbacks'
           /\ called' \subseteq called => TokensRight'
<1>1. callbacks' # <<>> <=> callbacks # <<>>
  BY EmptyIs DEF SameTokens, IInv, TypeOK
<1>2. FlagTellsCallbacks'
  BY <1>1 DEF IInv, FlagTellsCallbacks
<1>3. ASSUME called' \subseteq called
      PROVE  TokensRight'
  BY <1>3 DEF IInv, TokensRight, SameTokens, Slots
<1> QED
  BY <1>2, <1>3

\* Giving every callback something else to keep does not add or remove one.
LEMMA MapIs ==
    ASSUME TypeOK, NEW f, f = [i \in DOMAIN callbacks |-> f[i]],
           \A i \in DOMAIN callbacks : f[i] \in Callback
    PROVE  f \in Seq(Callback) /\ Len(f) = Len(callbacks)
<1>1. Len(callbacks) \in Nat /\ DOMAIN callbacks = 1..Len(callbacks)
  BY LenProperties DEF TypeOK
<1> QED
  BY <1>1

\* Writers and the worker only touch what is collected for the callbacks.
LEMMA WorkerKeeps ==
    ASSUME IInv, Commit \/ WorkerStep
    PROVE  IInv'
<1>1. /\ Len(callbacks) \in Nat /\ DOMAIN callbacks = 1..Len(callbacks)
      /\ \A i \in 1..Len(callbacks) : callbacks[i] \in Callback
  BY LenProperties, ElementOfSeq DEF IInv, TypeOK
<1>2. UNCHANGED <<index, count, have, next, pc, loop, size, called, miscounted>>
  BY DEF Commit, WorkerStep, add_changes, OpenFails, loopVars
<1>3. /\ SameTokens
      /\ \A i \in 1..Len(callbacks) : callbacks'[i].todo = callbacks[i].todo
  <2>1. CASE Commit \/ OpenFails
    BY <2>1 DEF Commit, OpenFails, SameTokens, IInv, TypeOK
  <2>2. CASE add_changes
    <3>1. callbacks' = [i \in 1..Len(callbacks) |->
              [callbacks[i] EXCEPT !.acc = @ \cup (handed + 1 .. latest)]]
      BY <1>1, <2>2 DEF add_changes
    <3>2. handed + 1 .. latest \subseteq Commits
      BY CallbacksAssumption DEF IInv, TypeOK, Commits
    <3>3. \A i \in 1..Len(callbacks) : callbacks'[i] \in Callback
      BY <1>1, <3>1, <3>2 DEF Callback
    <3>4. callbacks' \in Seq(Callback) /\ Len(callbacks') = Len(callbacks)
      BY <1>1, <3>1, <3>3, MapIs DEF IInv
    <3>5. \A i \in 1..Len(callbacks) :
             /\ callbacks'[i].todo = callbacks[i].todo
             /\ callbacks'[i].token = callbacks[i].token
      BY <1>1, <3>1 DEF Callback
    <3> QED
      BY <3>4, <3>5 DEF SameTokens
  <2> QED
    BY <2>1, <2>2 DEF WorkerStep
<1>4. FlagTellsCallbacks' /\ TokensRight'
  BY <1>2, <1>3, SameTokensKeeps
<1>5. TypeOK'
  <2>1. latest' \in 0..MaxVersion /\ handed' \in 0..latest'
    BY CallbacksAssumption
    DEF Commit, WorkerStep, add_changes, OpenFails, IInv, TypeOK, workerVars
  <2>2. wake' \in BOOLEAN /\ signal' \in BOOLEAN /\ failed' \in BOOLEAN
    BY DEF Commit, WorkerStep, add_changes, OpenFails, IInv, TypeOK
  <2> QED
    BY <1>2, <1>3, <2>1, <2>2 DEF IInv, TypeOK, SameTokens
<1>6. IndexRight' /\ CountRight'
  BY <1>2, <1>3 DEF IInv, IndexRight, CountRight, SameTokens
<1>7. ErrorLoop'
  BY <1>2, <1>3 DEF IInv, ErrorLoop, SameTokens, Slots
<1>8. TodoRight'
  BY <1>2, <1>3 DEF IInv, TodoRight, SameTokens, Slots
<1> QED
  BY <1>4, <1>5, <1>6, <1>7, <1>8 DEF IInv

\* Packaging counts the callbacks there are, and takes what was collected.
LEMMA PackageKeeps ==
    ASSUME IInv, package_for_delivery
    PROVE  IInv'
<1>1. /\ Len(callbacks) \in Nat /\ DOMAIN callbacks = 1..Len(callbacks)
      /\ \A i \in 1..Len(callbacks) : callbacks[i] \in Callback
  BY LenProperties, ElementOfSeq DEF IInv, TypeOK
<1>2. /\ UNCHANGED <<index, have, next, latest, handed, wake, failed, loop,
                     size, called>>
      /\ pc = "idle" /\ pc' = "packaged" /\ count' = Len(callbacks)
      /\ signal' = FALSE /\ miscounted' = FALSE
  BY DEF package_for_delivery, otherVars
<1>3. SameTokens
  <2>1. callbacks' = [i \in 1..Len(callbacks) |->
            [callbacks[i] EXCEPT !.todo = callbacks[i].acc, !.acc = {}]]
    BY <1>1 DEF package_for_delivery
  <2>2. \A i \in 1..Len(callbacks) : callbacks'[i] \in Callback
    BY <1>1, <2>1 DEF Callback
  <2>3. callbacks' \in Seq(Callback) /\ Len(callbacks') = Len(callbacks)
    BY <1>1, <2>1, <2>2, MapIs DEF IInv
  <2>4. \A i \in 1..Len(callbacks) :
           callbacks'[i].token = callbacks[i].token
    BY <1>1, <2>1 DEF Callback
  <2> QED
    BY <2>3, <2>4 DEF SameTokens
<1>4. FlagTellsCallbacks' /\ TokensRight'
  BY <1>2, <1>3, SameTokensKeeps
<1>5. TypeOK'
  <2>1. signal' \in BOOLEAN /\ miscounted' \in BOOLEAN
    BY <1>2, Zenon
  <2>2. count' \in 0..SizeMod - 1
    BY <1>1, <1>2, CallbacksAssumption DEF IInv, TypeOK, SizeMod
  <2>3. pc' \in Places
    BY <1>2 DEF Places
  <2>4. UNCHANGED <<index, have, next, latest, handed, wake, failed, loop, size,
                    called>>
    BY <1>2
  <2> QED
    BY <1>3, <2>1, <2>2, <2>3, <2>4 DEF IInv, TypeOK, SameTokens
<1>6. IndexRight' /\ ErrorLoop' /\ CountRight'
  BY <1>1, <1>2, <1>3
  DEF IInv, IndexRight, ErrorLoop, CountRight, SameTokens, InLoop, OutOfLoop
<1>7. TodoRight'
  BY <1>1, <1>2, <1>3
  DEF TodoRight, SameTokens, Slots, InLoop, Delivering
<1> QED
  BY <1>4, <1>5, <1>6, <1>7 DEF IInv

\* deliver_error counts them in a local first.
LEMMA DeliverErrorKeeps ==
    ASSUME IInv, deliver_error
    PROVE  IInv'
<1>1. Len(callbacks) \in Nat
  BY LenProperties DEF IInv, TypeOK
<1>2. /\ UNCHANGED <<callbacks, index, count, have, next, latest, handed, wake,
                     failed, loop, called>>
      /\ pc = "idle" /\ pc' = "counted" /\ size' = Len(callbacks)
      /\ signal' = FALSE /\ miscounted' = FALSE
  BY DEF deliver_error, otherVars
<1>3. TypeOK'
  <2>1. signal' \in BOOLEAN /\ miscounted' \in BOOLEAN
    BY <1>2, Zenon
  <2>2. size' \in 0..MaxToken /\ pc' \in Places
    BY <1>1, <1>2 DEF IInv, TypeOK, Places
  <2>3. UNCHANGED <<callbacks, index, count, have, next, latest, handed, wake,
                    failed, loop, called>>
    BY <1>2
  <2> QED
    BY <2>1, <2>2, <2>3 DEF IInv, TypeOK
<1>4. TokensRight' /\ IndexRight' /\ FlagTellsCallbacks'
  BY <1>2
  DEF IInv, TokensRight, IndexRight, FlagTellsCallbacks, Slots, InLoop,
      OutOfLoop
<1>5. ErrorLoop' /\ CountRight' /\ TodoRight'
  BY <1>2
  DEF ErrorLoop, CountRight, TodoRight, InLoop, Delivering
<1> QED
  BY <1>3, <1>4, <1>5 DEF IInv

\* A loop that begins or goes on with n callbacks to call keeps the invariant,
\* provided that it misses none of the callbacks with changes before the place
\* it is at, and that deliver_error finds only callbacks it has not called.
LEMMA LoopKeeps ==
    ASSUME IInv, NEW l \in {"before", "after", "error"},
           NEW n \in 0..SizeMod - 1, Continue(l, index, n),
           count' = n, size' \in 0..MaxToken,
           UNCHANGED <<signal, otherVars, miscounted>>,
           l = "error" =>
              /\ index = npos
              /\ \A i \in 1..Len(callbacks) : callbacks[i].token \notin called,
           ~miscounted =>
              /\ n <= Len(callbacks)
              /\ \A i \in 1..Len(callbacks) :
                    \/ callbacks[i].todo = {}
                    \/ i <= n /\ (l = "after" => i > index + 1)
    PROVE  IInv'
<1>1. /\ Len(callbacks) \in Nat /\ DOMAIN callbacks = 1..Len(callbacks)
      /\ \A i \in 1..Len(callbacks) : callbacks[i] \in Callback
      /\ index \in Int /\ npos <= index /\ index < Len(callbacks)
      /\ n \in Nat /\ MaxToken \in Nat /\ Len(callbacks) <= MaxToken
  BY LenProperties, ElementOfSeq, CallbacksAssumption
  DEF IInv, TypeOK, IndexRight, npos, SizeMod
<1>2. /\ next' = next /\ have' = have /\ miscounted' = miscounted
      /\ UNCHANGED <<latest, handed, wake, signal, failed>>
  BY DEF otherVars
<1>3. CASE Ends(l, index, n)
  <2>1. /\ index' = npos /\ called' = {} /\ pc' \in {"advanced", "idle"}
        /\ pc' = "advanced" => l = "before"
        /\ loop' = "none" /\ callbacks' = callbacks
        /\ pc' = "idle" => l \in {"after", "error"}
    BY <1>3 DEF Ends, AfterLoop
  <2>2. SameTokens
    BY <2>1 DEF SameTokens, IInv, TypeOK
  <2>3. TokensRight' /\ FlagTellsCallbacks'
    BY <1>2, <2>1, <2>2, SameTokensKeeps
  <2>4. TypeOK'
    <3>1. /\ index' \in npos..MaxToken /\ called' \subseteq Tokens
          /\ pc' \in Places /\ loop' \in Loops
      BY <1>1, <2>1 DEF Places, Loops, npos
    <3> QED
      BY <1>2, <2>1, <3>1 DEF IInv, TypeOK
  <2>5. IndexRight' /\ ErrorLoop' /\ CountRight'
    BY <1>1, <1>2, <2>1
    DEF IndexRight, ErrorLoop, CountRight, InLoop, OutOfLoop, npos
  <2>6. TodoRight'
    <3> SUFFICES ASSUME ~miscounted, NEW i \in 1..Len(callbacks),
                        callbacks[i].todo # {}
                 PROVE  pc' = "advanced" /\ i <= n
      BY <1>2, <2>1 DEF TodoRight, Slots, Delivering, InLoop
    <3>1. i <= n /\ (l = "after" => i > index + 1)
      OBVIOUS
    <3>2. ASSUME l \in {"after", "error"}
          PROVE  FALSE
      <4>1. i - 1 \in index + 1 .. n - 1
        BY <1>1, <3>1, <3>2 DEF npos
      <4>2. ~Needs(l, callbacks[i])
        BY <1>1, <1>3, <4>1 DEF Ends, Skipped
      <4> QED
        BY <3>2, <4>2 DEF Needs
    <3> QED
      BY <2>1, <3>1, <3>2
  <2> QED
    BY <2>3, <2>4, <2>5, <2>6 DEF IInv
<1>4. ASSUME NEW j \in index + 1 .. n - 1, Calls(l, index, n, j)
      PROVE  IInv'
  <2>1. /\ j \in 0..Len(callbacks) - 1 /\ j < n /\ Skipped(l, index, j)
        /\ index' = j /\ pc' = "calling" /\ loop' = l
        /\ called' = called \cup {callbacks[j + 1].token}
        /\ callbacks' = [callbacks EXCEPT ![j + 1] = Called(l, @)]
    BY <1>1, <1>4 DEF Calls, npos
  <2>2. /\ Called(l, callbacks[j + 1]) \in Callback
        /\ Called(l, callbacks[j + 1]).token = callbacks[j + 1].token
        /\ Called(l, callbacks[j + 1]).todo =
               IF l = "after" THEN {} ELSE callbacks[j + 1].todo
    <3>1. callbacks[j + 1] \in Callback
      BY <1>1, <2>1
    <3>2. CASE l = "after"
      BY <3>1, <3>2 DEF Called, Callback
    <3>3. CASE l # "after"
      BY <3>1, <3>3 DEF Called
    <3> QED
      BY <3>2, <3>3
  <2>3. /\ SameTokens
        /\ \A i \in 1..Len(callbacks) :
              callbacks'[i].todo = IF i = j + 1 /\ l = "after" THEN {}
                                   ELSE callbacks[i].todo
    <3>1. /\ callbacks' \in Seq(Callback) /\ Len(callbacks') = Len(callbacks)
          /\ \A i \in 1..Len(callbacks) : callbacks'[i] =
                IF i = j + 1 THEN Called(l, callbacks[i]) ELSE callbacks[i]
      BY <1>1, <2>1, <2>2, ExceptSeq DEF IInv, TypeOK
    <3> QED
      BY <2>2, <3>1 DEF SameTokens
  <2>4. FlagTellsCallbacks' /\ TokensRight'
    <3>1. callbacks[j + 1].token < next
      BY <2>1 DEF IInv, TokensRight, Slots
    <3> QED
      BY <1>2, <2>1, <2>3, <3>1, SameTokensKeeps
      DEF IInv, TokensRight, SameTokens, Slots
  <2>5. TypeOK'
    <3>1. callbacks[j + 1].token \in Tokens
      BY <1>1, <2>1 DEF Callback
    <3>2. index' \in npos..MaxToken
      BY <1>1, <2>1 DEF npos
    <3> QED
      BY <1>2, <2>1, <2>3, <3>1, <3>2
      DEF IInv, TypeOK, Places, Loops, SameTokens
  <2>6. IndexRight'
    BY <1>1, <2>1, <2>3 DEF IndexRight, OutOfLoop, SameTokens
  <2>7. ErrorLoop'
    <3> SUFFICES ASSUME l = "error"
                 PROVE  /\ j = 0
                        /\ \A i \in 1..Len(callbacks) :
                              callbacks[i].token \in called' <=> i = 1
      BY <2>1, <2>3 DEF ErrorLoop, SameTokens, Slots
    <3>1. j = 0
      <4>1. ASSUME j > 0 PROVE FALSE
        <5>1. 0 \in index + 1 .. j - 1
          BY <2>1, <4>1 DEF npos
        <5> QED
          BY <2>1, <5>1 DEF Skipped, Needs
      <4> QED
        BY <2>1, <4>1
    <3>2. \A i \in 1..Len(callbacks) : callbacks[i].token = callbacks[1].token
                                          => i = 1
      BY <2>1 DEF IInv, TokensRight, Slots
    <3> QED
      BY <2>1, <3>1, <3>2
  <2>8. CountRight'
    BY <1>1, <1>2, <2>1, <2>3 DEF CountRight, SameTokens
  <2>9. TodoRight'
    <3> SUFFICES ASSUME ~miscounted, NEW i \in 1..Len(callbacks),
                        callbacks'[i].todo # {}
                 PROVE  i <= n /\ (l = "after" => i > j + 1)
      BY <1>2, <2>1, <2>3 DEF TodoRight, Slots, Delivering, SameTokens
    <3>1. callbacks[i].todo # {} /\ ~(i = j + 1 /\ l = "after")
      BY <2>3
    <3>2. i <= n /\ (l = "after" => i > index + 1)
      BY <3>1
    <3>3. ASSUME l = "after", i <= j
          PROVE  FALSE
      <4>1. i - 1 \in index + 1 .. j - 1
        BY <1>1, <2>1, <3>2, <3>3 DEF npos
      <4>2. ~Needs(l, callbacks[i])
        BY <2>1, <4>1 DEF Skipped
      <4> QED
        BY <3>1, <3>3, <4>2 DEF Needs
    <3> QED
      BY <2>1, <3>1, <3>2, <3>3
  <2> QED
    BY <2>4, <2>5, <2>6, <2>7, <2>8, <2>9 DEF IInv
<1>5. CASE Overruns(index, n)
  <2>1. /\ UNCHANGED <<callbacks, index, called>>
        /\ pc' = "undefined" /\ loop' = "none"
        /\ \E j \in index + 1 .. n - 1 : j >= Len(callbacks)
    BY <1>5 DEF Overruns
  <2>2. miscounted
    BY <1>1, <2>1 DEF npos
  <2>3. SameTokens
    BY <2>1 DEF SameTokens, IInv, TypeOK
  <2>4. TokensRight' /\ FlagTellsCallbacks'
    BY <1>2, <2>1, <2>3, SameTokensKeeps
  <2>5. TypeOK'
    BY <1>2, <2>1 DEF IInv, TypeOK, Places, Loops
  <2>6. IndexRight' /\ ErrorLoop'
    BY <1>1, <2>1 DEF IndexRight, ErrorLoop, InLoop, OutOfLoop
  <2>7. CountRight' /\ TodoRight'
    BY <1>2, <2>2 DEF CountRight, TodoRight
  <2> QED
    BY <2>4, <2>5, <2>6, <2>7 DEF IInv
<1> QED
  BY <1>1, <1>3, <1>4, <1>5, ContinueIs

\* deliver_error's loop begins with an index of npos, and the other loops
\* begin or go on where the invariant says who still has changes.
LEMMA LoopStepKeeps ==
    ASSUME IInv, before_advance \/ after_advance \/ DeliverErrorLoop \/ GoOn
    PROVE  IInv'
<1>1. count \in 0..SizeMod - 1 /\ size \in 0..SizeMod - 1
      /\ 0 \in 0..MaxToken /\ size \in 0..MaxToken
  BY CallbacksAssumption DEF IInv, TypeOK, SizeMod
<1>2. ASSUME before_advance PROVE IInv'
  <2>1. /\ pc = "packaged" /\ Continue("before", index, count)
        /\ count' = count /\ size' = size
        /\ UNCHANGED <<signal, otherVars, miscounted>>
    BY <1>2 DEF before_advance
  <2>2. ~miscounted =>
           /\ count <= Len(callbacks)
           /\ \A i \in 1..Len(callbacks) : callbacks[i].todo = {} \/ i <= count
    BY <2>1 DEF IInv, CountRight, TodoRight, Slots, Delivering
  <2> QED
    BY <1>1, <2>1, <2>2, LoopKeeps
<1>3. ASSUME after_advance PROVE IInv'
  <2>1. /\ pc \in {"packaged", "advanced"} /\ Continue("after", index, count)
        /\ count' = count /\ size' = size
        /\ UNCHANGED <<signal, otherVars, miscounted>>
    BY <1>3 DEF after_advance
  <2>2. index = npos
    BY <2>1 DEF IInv, IndexRight, OutOfLoop
  <2>3. ~miscounted =>
           /\ count <= Len(callbacks)
           /\ \A i \in 1..Len(callbacks) :
                 callbacks[i].todo = {} \/ (i <= count /\ i > index + 1)
    BY <2>1, <2>2 DEF IInv, CountRight, TodoRight, Slots, Delivering, npos
  <2> QED
    BY <1>1, <2>1, <2>3, LoopKeeps
<1>4. ASSUME DeliverErrorLoop PROVE IInv'
  <2>1. /\ pc = "counted" /\ Continue("error", index, size)
        /\ count' = size /\ size' = 0
        /\ UNCHANGED <<signal, otherVars, miscounted>>
    BY <1>4 DEF DeliverErrorLoop
  <2>2. index = npos /\ called = {}
    BY <2>1 DEF IInv, IndexRight, OutOfLoop
  <2>3. ~miscounted =>
           /\ size <= Len(callbacks)
           /\ \A i \in 1..Len(callbacks) : i <= size
    BY <1>1, <2>1 DEF IInv, CountRight
  <2> QED
    BY <1>1, <2>1, <2>2, <2>3, LoopKeeps
<1>5. ASSUME GoOn PROVE IInv'
  <2>1. /\ pc = "between" /\ Continue(loop, index, count)
        /\ count' = count /\ size' = size
        /\ UNCHANGED <<signal, otherVars, miscounted>>
    BY <1>5 DEF GoOn
  <2>2. loop \in {"before", "after", "error"}
    BY <2>1 DEF IInv, TypeOK, IndexRight, InLoop, Loops
  <2>3. loop = "error" =>
           /\ index = npos
           /\ \A i \in 1..Len(callbacks) : callbacks[i].token \notin called
    BY <2>1 DEF IInv, ErrorLoop, Slots
  <2>4. ~miscounted =>
           /\ count <= Len(callbacks)
           /\ \A i \in 1..Len(callbacks) :
                 \/ callbacks[i].todo = {}
                 \/ i <= count /\ (loop = "after" => i > index + 1)
    BY <2>1 DEF IInv, CountRight, TodoRight, Slots, Delivering, InLoop
  <2> QED
    BY <1>1, <2>1, <2>2, <2>3, <2>4, LoopKeeps
<1> QED
  BY <1>2, <1>3, <1>4, <1>5

\* Every step keeps the invariant.
LEMMA NextIInv == IInv /\ [Next]_vars => IInv'
<1> SUFFICES ASSUME IInv, [Next]_vars PROVE IInv'
  OBVIOUS
<1>1. ASSUME Next PROVE IInv'
  BY <1>1, AddKeeps, RemoveKeeps, WorkerKeeps, PackageKeeps, DeliverErrorKeeps,
     ReturnKeeps, LoopStepKeeps, Zenon DEF Next, HandleStep
<1>2. CASE UNCHANGED vars
  BY <1>2
  DEF vars, IInv, TypeOK, TokensRight, IndexRight, ErrorLoop, CountRight,
      TodoRight, FlagTellsCallbacks, Slots, workerVars, loopVars
<1> QED
  BY <1>1, <1>2

\* The invariant holds, whatever the callbacks do and whenever they are added
\* and removed.
THEOREM InvariantHolds == Spec => []IInv
<1> QED
  BY InitIInv, NextIInv, PTL DEF Spec

\* The variables have their types in every state: the index and the count of
\* the loop stay within the bounds of their types.
THEOREM TypeCorrect == Spec => []TypeOK
<1>1. IInv => TypeOK
  BY DEF IInv
<1> QED
  BY <1>1, InvariantHolds, PTL

\* for_each_callback's assertion holds, and the loop stays inside the vector,
\* unless a removal was made that m_callback_count is not made for.
THEOREM CountIsInRange == Spec => []CountStaysInRange
<1>1. IInv => CountStaysInRange
  BY DEF IInv, CountRight, CountStaysInRange, Delivering
<1> QED
  BY <1>1, InvariantHolds, PTL

\* after_advance calls every callback that changes were packaged for, however
\* callbacks are added and removed between the calls.
THEOREM DeliveryIsComplete == Spec => []PackagedIsDelivered
<1>1. IInv => PackagedIsDelivered
  <2> SUFFICES ASSUME IInv, pc = "idle", ~miscounted,
                      NEW i \in DOMAIN callbacks
               PROVE  callbacks[i].todo = {}
    BY DEF PackagedIsDelivered
  <2>1. i \in Slots
    BY LenProperties DEF IInv, TypeOK, Slots
  <2> QED
    BY <2>1 DEF IInv, TodoRight, Delivering
<1> QED
  BY <1>1, InvariantHolds, PTL

\* m_have_callbacks tells whether there are callbacks, though add_callback does
\* not set it while callbacks are called.
THEOREM FlagIsRight == Spec => []FlagTellsCallbacks
<1>1. IInv => FlagTellsCallbacks
  BY DEF IInv
<1> QED
  BY <1>1, InvariantHolds, PTL
-----------------------------------------------------------------------------
(* DeepChanges: the number with which a claim first fails *)

\* A set of numbers that is not empty has a least one.
LEMMA LeastIs ==
    ASSUME NEW T \in SUBSET Nat, T # {}
    PROVE  \E k \in T : \A m \in T : k <= m
BY Minimum
-----------------------------------------------------------------------------
(* any_of *)

\* One step of the search, unless it has its answer.
Stepped(step, t, i) == IF t.ret THEN t ELSE step[i][t]

\* The searches after each step.
IsRun(f, step, s, n) ==
    f = [i \in 0..n |-> IF i = 0 THEN s
                        ELSE LET t == f[i - 1]
                             IN  IF t.ret THEN t ELSE step[i][t]]

\* What a run is, one step after the other.
LEMMA RunIs ==
    ASSUME NEW f, NEW step, NEW s, NEW n \in Nat
    PROVE  IsRun(f, step, s, n)
              <=> /\ f = [i \in 0..n |-> f[i]]
                  /\ f[0] = s
                  /\ \A i \in 1..n : f[i] = Stepped(step, f[i - 1], i)
<1> DEFINE e == [i \in 0..n |-> IF i = 0 THEN s ELSE Stepped(step, f[i - 1], i)]
<1>1. IsRun(f, step, s, n) <=> f = e
  BY DEF IsRun, Stepped
<1>2. /\ e = [i \in 0..n |-> e[i]] /\ e[0] = s
      /\ \A i \in 1..n : e[i] = Stepped(step, f[i - 1], i)
  OBVIOUS
<1>3. ASSUME f = [i \in 0..n |-> f[i]], f[0] = s,
             \A i \in 1..n : f[i] = Stepped(step, f[i - 1], i)
      PROVE  f = e
  <2>1. \A i \in 0..n : f[i] = e[i]
    <3> TAKE i \in 0..n
    <3>1. CASE i = 0
      BY <1>3, <1>2, <3>1
    <3>2. CASE i # 0
      <4>1. i \in 1..n
        BY <3>2
      <4> HIDE DEF e
      <4> QED
        BY <1>3, <1>2, <4>1
    <3> QED
      BY <3>1, <3>2
  <2> HIDE DEF e
  <2> QED
    BY <1>2, <1>3, <2>1
<1> HIDE DEF e
<1> QED
  BY <1>1, <1>2, <1>3

\* There is a run, however many steps there are.
LEMMA RunExists ==
    ASSUME NEW step, NEW s, NEW n \in Nat
    PROVE  \E f : IsRun(f, step, s, n)
<1> DEFINE T == {k \in Nat : ~ \E f : IsRun(f, step, s, k)}
<1>1. SUFFICES ASSUME T # {} PROVE FALSE
  OBVIOUS
<1>2. PICK k \in T : \A m \in T : k <= m
  <2>1. T \in SUBSET Nat
    OBVIOUS
  <2> HIDE DEF T
  <2> QED
    BY <1>1, <2>1, LeastIs
<1>3. k # 0
  <2> DEFINE f == [i \in 0..0 |-> s]
  <2>1. f = [i \in 0..0 |-> f[i]] /\ f[0] = s
    OBVIOUS
  <2>2. 1..0 = {}
    OBVIOUS
  <2> HIDE DEF f
  <2>3. IsRun(f, step, s, 0)
    BY <2>1, <2>2, RunIs
  <2> QED
    BY <2>3
<1>4. k \in Nat /\ k - 1 \in Nat /\ k - 1 \notin T
  BY <1>2, <1>3
<1>5. PICK g : IsRun(g, step, s, k - 1)
  BY <1>4
<1>6. /\ g[0] = s
      /\ \A i \in 1..k - 1 : g[i] = Stepped(step, g[i - 1], i)
  BY <1>4, <1>5, RunIs
<1> DEFINE f == [i \in 0..k |-> IF i = k THEN Stepped(step, g[k - 1], k) ELSE g[i]]
<1>7. /\ f = [i \in 0..k |-> f[i]]
      /\ \A i \in 0..k - 1 : f[i] = g[i]
      /\ f[k] = Stepped(step, g[k - 1], k)
  BY <1>4
<1> HIDE DEF f
<1>8. f[0] = s
  <2>1. 0 \in 0..k - 1
    BY <1>3, <1>4
  <2> QED
    BY <2>1, <1>6, <1>7, Zenon
<1>9. \A i \in 1..k : f[i] = Stepped(step, f[i - 1], i)
  <2> TAKE i \in 1..k
  <2>1. f[i - 1] = g[i - 1]
    <3>1. i - 1 \in 0..k - 1
      BY <1>4
    <3> QED
      BY <3>1, <1>7, Zenon
  <2>2. CASE i = k
    BY <2>1, <2>2, <1>7
  <2>3. CASE i # k
    <3>1. i \in 1..k - 1 /\ i \in 0..k - 1
      BY <1>4, <2>3
    <3> QED
      BY <2>1, <3>1, <1>6, <1>7
  <2> QED
    BY <2>2, <2>3
<1>10. IsRun(f, step, s, k)
  BY <1>4, <1>7, <1>8, <1>9, RunIs
<1> QED
  BY <1>2, <1>10

\* any_of ends where the run ends.
LEMMA AnyOfIs ==
    ASSUME NEW step, NEW s, NEW n \in Nat
    PROVE  \E f : /\ any_of(step, s, n) = f[n]
                  /\ f[0] = s
                  /\ \A i \in 1..n : f[i] = Stepped(step, f[i - 1], i)
<1> DEFINE P(f) == f = [i \in 0..n |-> IF i = 0 THEN s
                        ELSE LET t == f[i - 1]
                             IN  IF t.ret THEN t ELSE step[i][t]]
           g == CHOOSE f : P(f)
<1>1. \E f : P(f)
  <2>1. PICK f : IsRun(f, step, s, n)
    BY RunExists
  <2>2. P(f)
    BY <2>1 DEF IsRun
  <2> HIDE DEF P
  <2> QED
    BY <2>2
<1>2. P(g)
  <2> HIDE DEF P
  <2> QED
    BY <1>1
<1>3. IsRun(g, step, s, n)
  BY <1>2 DEF IsRun
<1>4. any_of(step, s, n) = g[n]
  BY DEF any_of
<1> HIDE DEF g
<1> QED
  BY <1>3, <1>4, RunIs

\* What every step keeps, any_of keeps.
LEMMA AnyOfKeeps ==
    ASSUME NEW I, NEW n \in Nat, NEW s \in I, NEW step,
           \A t \in I, i \in 1..n : ~t.ret => step[i][t] \in I
    PROVE  any_of(step, s, n) \in I
<1>1. PICK f : /\ any_of(step, s, n) = f[n] /\ f[0] = s
               /\ \A i \in 1..n : f[i] = Stepped(step, f[i - 1], i)
  BY AnyOfIs
<1> DEFINE T == {i \in 0..n : f[i] \notin I}
<1>2. SUFFICES ASSUME T # {} PROVE FALSE
  BY <1>1
<1>3. PICK k \in T : \A m \in T : k <= m
  <2>1. T \in SUBSET Nat
    OBVIOUS
  <2> HIDE DEF T
  <2> QED
    BY <1>2, <2>1, LeastIs
<1>4. k \in 1..n /\ k - 1 \in 0..n /\ k - 1 \notin T /\ f[k] \notin I
  BY <1>1, <1>3
<1>5. f[k - 1] \in I /\ f[k] = Stepped(step, f[k - 1], k)
  BY <1>1, <1>4
<1>6. Stepped(step, f[k - 1], k) \in I
  BY <1>4, <1>5 DEF Stepped
<1> QED
  BY <1>4, <1>5, <1>6

\* A search that ends without an answer took every step: what step k sees to,
\* and the steps after it keep, holds at the end.
LEMMA AnyOfSeesTo ==
    ASSUME NEW I, NEW J, NEW n \in Nat, NEW s \in I, NEW step, NEW k \in 1..n,
           \A t \in I, i \in 1..n : ~t.ret => step[i][t] \in I,
           \A t \in I : ~t.ret /\ ~step[k][t].ret => step[k][t] \in J,
           \A t \in I \cap J, i \in 1..n :
              ~t.ret /\ ~step[i][t].ret => step[i][t] \in J,
           ~any_of(step, s, n).ret
    PROVE  any_of(step, s, n) \in J
<1>1. PICK f : /\ any_of(step, s, n) = f[n] /\ f[0] = s
               /\ \A i \in 1..n : f[i] = Stepped(step, f[i - 1], i)
  BY AnyOfIs
<1>2. \A m \in 0..n : f[m] \in I
  <2> TAKE m \in 0..n
  <2> DEFINE T == {i \in 0..n : f[i] \notin I}
  <2>2. SUFFICES ASSUME T # {} PROVE FALSE
    OBVIOUS
  <2>3. PICK j \in T : \A l \in T : j <= l
    <3>1. T \in SUBSET Nat
      OBVIOUS
    <3> HIDE DEF T
    <3> QED
      BY <2>2, <3>1, LeastIs
  <2>4. j \in 1..n /\ j - 1 \in 0..n /\ j - 1 \notin T /\ f[j] \notin I
    BY <1>1, <2>3
  <2>5. f[j - 1] \in I /\ f[j] = Stepped(step, f[j - 1], j)
    BY <1>1, <2>4
  <2>6. Stepped(step, f[j - 1], j) \in I
    BY <2>4, <2>5 DEF Stepped
  <2> QED
    BY <2>4, <2>5, <2>6
<1> DEFINE Bad(i) == f[i].ret \/ f[i] \notin J
           T == {i \in k..n : Bad(i)}
<1>3. \A i \in 0..n : ~f[i].ret
  <2> DEFINE R == {l \in Nat : l <= n /\ f[n - l].ret}
  <2>1. SUFFICES ASSUME R # {} PROVE FALSE
    <3> SUFFICES ASSUME NEW i \in 0..n, f[i].ret PROVE R # {}
      BY <2>1
    <3>1. n - i \in Nat /\ n - i <= n /\ n - (n - i) = i
      OBVIOUS
    <3>2. n - i \in R
      BY <3>1
    <3> QED
      BY <3>2
  <2>2. PICK l \in R : \A m \in R : l <= m
    <3>1. R \in SUBSET Nat
      OBVIOUS
    <3> HIDE DEF R
    <3> QED
      BY <2>1, <3>1, LeastIs
  <2>3. l # 0 /\ l \in Nat /\ l <= n /\ f[n - l].ret
    <3>1. ~f[n - 0].ret
      BY <1>1
    <3> QED
      BY <2>2, <3>1
  <2>4. l - 1 \in Nat /\ l - 1 <= n /\ l - 1 \notin R
    BY <2>2, <2>3
  <2>5. ~f[n - (l - 1)].ret
    BY <2>4
  <2>6. n - (l - 1) \in 1..n /\ (n - (l - 1)) - 1 = n - l
    BY <2>3
  <2>7. f[n - (l - 1)] = Stepped(step, f[n - l], n - (l - 1))
    BY <1>1, <2>6
  <2> QED
    BY <2>3, <2>5, <2>7 DEF Stepped
<1>4. SUFFICES ASSUME T # {} PROVE FALSE
  <2>1. n \in k..n
    OBVIOUS
  <2>2. T = {} => ~Bad(n)
    BY <2>1
  <2> QED
    BY <1>1, <1>4, <2>2
<1>5. PICK j \in T : \A m \in T : j <= m
  <2>1. T \in SUBSET Nat
    OBVIOUS
  <2> HIDE DEF T
  <2> QED
    BY <1>4, <2>1, LeastIs
<1>6. j \in k..n /\ j \in 1..n /\ j - 1 \in 0..n /\ f[j] \notin J
  BY <1>3, <1>5
<1>7. f[j] = step[j][f[j - 1]] /\ ~f[j - 1].ret /\ ~f[j].ret /\ f[j - 1] \in I
  BY <1>1, <1>2, <1>3, <1>6 DEF Stepped
<1>8. CASE j = k
  BY <1>6, <1>7, <1>8
<1>9. CASE j # k
  <2>1. j - 1 \in k..n /\ j - 1 \notin T
    BY <1>5, <1>6, <1>9
  <2>2. f[j - 1] \in J
    BY <2>1
  <2> QED
    BY <1>6, <1>7, <2>2
<1> QED
  BY <1>8, <1>9
-----------------------------------------------------------------------------
(* The rows that lead to a modified one *)

Graph == links \in [Rows -> Seq(Seq(Rows))] /\ modified \in SUBSET Rows

\* One link further.
Wider(rows) == rows \cup {r \in Rows : LinksTo(r, rows)}

\* Affected, up to n links.
IsAffected(f, n) ==
    f = [i \in 0..n |-> IF i = 0 THEN modified ELSE Wider(f[i - 1])]

\* Such a function is given by its recursion.
LEMMA IsAffectedIs ==
    ASSUME NEW f, NEW n \in Nat
    PROVE  IsAffected(f, n)
              <=> /\ f = [i \in 0..n |-> f[i]]
                  /\ f[0] = modified
                  /\ \A i \in 1..n : f[i] = Wider(f[i - 1])
<1> DEFINE e == [i \in 0..n |-> IF i = 0 THEN modified ELSE Wider(f[i - 1])]
<1>1. IsAffected(f, n) <=> f = e
  BY DEF IsAffected
<1>2. /\ e = [i \in 0..n |-> e[i]] /\ e[0] = modified
      /\ \A i \in 1..n : e[i] = Wider(f[i - 1])
  OBVIOUS
<1>3. ASSUME f = [i \in 0..n |-> f[i]], f[0] = modified,
             \A i \in 1..n : f[i] = Wider(f[i - 1])
      PROVE  f = e
  <2>1. \A i \in 0..n : f[i] = e[i]
    <3> TAKE i \in 0..n
    <3>1. CASE i = 0
      BY <1>3, <1>2, <3>1
    <3>2. CASE i # 0
      <4>1. i \in 1..n
        BY <3>2
      <4> HIDE DEF e
      <4> QED
        BY <1>3, <1>2, <4>1
    <3> QED
      BY <3>1, <3>2
  <2> HIDE DEF e
  <2> QED
    BY <1>2, <1>3, <2>1
<1> HIDE DEF e
<1> QED
  BY <1>1, <1>2, <1>3

\* There is one, however many links are allowed.
LEMMA AffectedExists ==
    ASSUME NEW n \in Nat
    PROVE  \E f : IsAffected(f, n)
<1> DEFINE T == {k \in Nat : ~ \E f : IsAffected(f, k)}
<1>1. SUFFICES ASSUME T # {} PROVE FALSE
  OBVIOUS
<1>2. PICK k \in T : \A m \in T : k <= m
  <2>1. T \in SUBSET Nat
    OBVIOUS
  <2> HIDE DEF T
  <2> QED
    BY <1>1, <2>1, LeastIs
<1>3. k # 0
  <2> DEFINE f == [i \in 0..0 |-> modified]
  <2>1. f = [i \in 0..0 |-> f[i]] /\ f[0] = modified
    OBVIOUS
  <2>2. 1..0 = {}
    OBVIOUS
  <2> HIDE DEF f
  <2>3. IsAffected(f, 0)
    BY <2>1, <2>2, IsAffectedIs
  <2> QED
    BY <2>3
<1>4. k \in Nat /\ k - 1 \in Nat /\ k - 1 \notin T
  BY <1>2, <1>3
<1>5. PICK g : IsAffected(g, k - 1)
  BY <1>4
<1>6. g[0] = modified /\ \A i \in 1..k - 1 : g[i] = Wider(g[i - 1])
  BY <1>4, <1>5, IsAffectedIs
<1> DEFINE f == [i \in 0..k |-> IF i = k THEN Wider(g[k - 1]) ELSE g[i]]
<1>7. /\ f = [i \in 0..k |-> f[i]]
      /\ \A i \in 0..k - 1 : f[i] = g[i]
      /\ f[k] = Wider(g[k - 1])
  BY <1>4
<1> HIDE DEF f
<1>8. f[0] = modified
  <2>1. 0 \in 0..k - 1
    BY <1>3, <1>4
  <2> QED
    BY <2>1, <1>6, <1>7, Zenon
<1>9. \A i \in 1..k : f[i] = Wider(f[i - 1])
  <2> TAKE i \in 1..k
  <2>1. f[i - 1] = g[i - 1]
    <3>1. i - 1 \in 0..k - 1
      BY <1>4
    <3> QED
      BY <3>1, <1>7, Zenon
  <2>2. CASE i = k
    BY <2>1, <2>2, <1>7
  <2>3. CASE i # k
    <3>1. i \in 1..k - 1 /\ i \in 0..k - 1
      BY <1>4, <2>3
    <3> QED
      BY <2>1, <3>1, <1>6, <1>7
  <2> QED
    BY <2>2, <2>3
<1>10. IsAffected(f, k)
  BY <1>4, <1>7, <1>8, <1>9, IsAffectedIs
<1> QED
  BY <1>2, <1>10

\* Affected by its recursion, and growing with the number of links.
LEMMA AffectedIs ==
    /\ Affected[0] = modified
    /\ \A n \in 1..MaxDepth : Affected[n] = Wider(Affected[n - 1])
<1> DEFINE P(f) == f = [n \in 0..MaxDepth |->
                          IF n = 0 THEN modified
                          ELSE f[n - 1] \cup {r \in Rows : LinksTo(r, f[n - 1])}]
           g == CHOOSE f : P(f)
<1>0. MaxDepth \in Nat
  BY DeepAssumption
<1>1. \E f : P(f)
  <2>1. PICK f : IsAffected(f, MaxDepth)
    BY <1>0, AffectedExists
  <2>2. P(f)
    BY <2>1 DEF IsAffected, Wider
  <2> HIDE DEF P
  <2> QED
    BY <2>2
<1>2. P(g)
  <2> HIDE DEF P
  <2> QED
    BY <1>1
<1>3. IsAffected(g, MaxDepth)
  BY <1>2 DEF IsAffected, Wider
<1>4. Affected = g
  BY DEF Affected
<1> HIDE DEF g
<1> QED
  BY <1>0, <1>3, <1>4, IsAffectedIs

\* More links reach more.
LEMMA AffectedGrows ==
    ASSUME NEW n \in 0..MaxDepth, NEW m \in 0..n
    PROVE  Affected[m] \subseteq Affected[n]
<1> DEFINE T == {k \in Nat : m + k <= n /\ ~(Affected[m] \subseteq Affected[m + k])}
<1>0. MaxDepth \in Nat /\ m \in Nat /\ n \in Nat
  BY DeepAssumption
<1>1. SUFFICES ASSUME T # {} PROVE FALSE
  <2>1. n - m \in Nat /\ m + (n - m) = n
    BY <1>0
  <2>2. n - m \notin T
    BY <1>1
  <2> QED
    BY <2>1, <2>2
<1>2. PICK k \in T : \A j \in T : k <= j
  <2>1. T \in SUBSET Nat
    OBVIOUS
  <2> HIDE DEF T
  <2> QED
    BY <1>1, <2>1, LeastIs
<1>3. k \in Nat /\ m + k <= n /\ ~(Affected[m] \subseteq Affected[m + k])
  OBVIOUS
<1>4. k # 0
  <2> SUFFICES ASSUME k = 0 PROVE FALSE
    OBVIOUS
  <2>1. m + k = m
    BY <1>0
  <2> QED
    BY <1>3, <2>1
<1>5. k - 1 \in Nat /\ m + (k - 1) <= n /\ k - 1 \notin T
  BY <1>0, <1>2, <1>3, <1>4
<1>6. Affected[m] \subseteq Affected[m + (k - 1)]
  BY <1>5
<1>7. m + k \in 1..MaxDepth /\ (m + k) - 1 = m + (k - 1)
  BY <1>0, <1>3, <1>4
<1>8. Affected[m + k] = Wider(Affected[m + (k - 1)])
  BY <1>7, AffectedIs
<1> QED
  BY <1>3, <1>6, <1>8 DEF Wider

\* A modified row is exactly n links away.
Exact(row, n) == row \in Affected[n] /\ \A m \in 0..n - 1 : row \notin Affected[m]

\* An affected row is exactly some number of links away.
LEMMA ExactExists ==
    ASSUME NEW n \in 0..MaxDepth, NEW row \in Affected[n]
    PROVE  \E m \in 0..n : Exact(row, m)
<1> DEFINE T == {k \in Nat : k <= n /\ row \in Affected[k]}
<1>0. MaxDepth \in Nat /\ n \in Nat
  BY DeepAssumption
<1>1. T # {}
  BY <1>0
<1>2. PICK k \in T : \A j \in T : k <= j
  <2>1. T \in SUBSET Nat
    OBVIOUS
  <2> HIDE DEF T
  <2> QED
    BY <1>1, <2>1, LeastIs
<1>3. k \in 0..n /\ row \in Affected[k]
  BY <1>0
<1>4. \A m \in 0..k - 1 : row \notin Affected[m]
  BY <1>0, <1>2, <1>3
<1> QED
  BY <1>3, <1>4 DEF Exact

\* It has a link to a row that is one link less away.
LEMMA ExactLinks ==
    ASSUME NEW n \in 1..MaxDepth, NEW row, Exact(row, n)
    PROVE  \E c \in DOMAIN links[row] : \E k \in DOMAIN links[row][c] :
              Exact(links[row][c][k], n - 1)
<1>0. MaxDepth \in Nat /\ n \in Nat /\ n - 1 \in 0..n - 1 /\ n - 1 \in Nat
  BY DeepAssumption
<1>1. row \in Affected[n] /\ row \notin Affected[n - 1]
  BY <1>0 DEF Exact
<1>2. LinksTo(row, Affected[n - 1])
  BY <1>1, AffectedIs DEF Wider
<1>20. PICK c \in DOMAIN links[row] : \E k \in DOMAIN links[row][c] :
         links[row][c][k] \in Affected[n - 1]
  BY <1>2 DEF LinksTo
<1>3. PICK k \in DOMAIN links[row][c] : links[row][c][k] \in Affected[n - 1]
  BY <1>20
<1>4. ASSUME NEW m \in 0..(n - 1) - 1 PROVE links[row][c][k] \notin Affected[m]
  <2> SUFFICES ASSUME links[row][c][k] \in Affected[m] PROVE FALSE
    OBVIOUS
  <2>1. m + 1 \in 1..MaxDepth /\ (m + 1) - 1 = m /\ m + 1 \in 0..n - 1
    BY <1>0
  <2>2. LinksTo(row, Affected[m])
    BY <1>3 DEF LinksTo
  <2>3. row \in Rows
    <3>1. row \in {r \in Rows : LinksTo(r, Affected[n - 1])}
      BY <1>1, AffectedIs DEF Wider
    <3> QED
      BY <3>1
  <2>4. Affected[m + 1] = Wider(Affected[m])
    BY <2>1, AffectedIs
  <2>5. row \in Affected[m + 1]
    BY <2>2, <2>3, <2>4 DEF Wider
  <2> QED
    BY <2>1, <2>5 DEF Exact
<1> QED
  BY <1>3, <1>4 DEF Exact
-----------------------------------------------------------------------------
(* One level of the search *)

\* What a step of the search at depth d leaves of the path above it.
Frame(s, t, d) ==
    \A k \in 1..d : /\ t.path[k].row = s.path[k].row
                    /\ s.path[k].exceeded => t.path[k].exceeded

\* No remembered row leads to a modified one.
CacheOk(cache) == \A r \in cache : r \notin Affected[MaxDepth - 1]

\* The search at depth d is right: it keeps the cache right and the path above
\* it, and what it finds is within the limit.
Found(t, d, row) == t.ret => d < MaxDepth /\ row \in Affected[MaxDepth - 1 - d]

Ready(s, d, row) ==
    ~s.ret /\ CacheOk(s.cache) /\ (d > 0 \/ row \notin modified)

Sound(f, d) ==
    \A row \in Rows, s \in Search :
       Ready(s, d, row) =>
          /\ f[row][s] \in Search /\ Frame(s, f[row][s], d)
          /\ CacheOk(f[row][s].cache) /\ Found(f[row][s], d, row)

\* The search at depth d misses a row that is n links away only if it says so:
\* for every place b of the path behind which no row is as near, that place is
\* marked as exceeded; when b is 0 the row is too far away.
Away(s, b, d, n) == \A k \in b + 1 .. d : s.path[k].row \notin Affected[n]

Flagged(t, b, d, n) ==
    IF b = 0 THEN d + n >= MaxDepth ELSE t.path[b].exceeded

Complete(f, d) ==
    \A row \in Rows, s \in Search, n \in 0..MaxDepth - 1, b \in 0..d :
       Ready(s, d, row) /\ Exact(row, n) /\ Away(s, b, d, n) /\ ~f[row][s].ret
          => Flagged(f[row][s], b, d, n)

\* Marking links changes nothing else.
LEMMA ExceedIs ==
    ASSUME NEW s \in Search, NEW places, NEW d \in 0..MaxDepth
    PROVE  /\ Exceed(s, places) \in Search
           /\ Exceed(s, places).ret = s.ret /\ Exceed(s, places).cache = s.cache
           /\ Frame(s, Exceed(s, places), d)
           /\ \A k \in places \cap 1..MaxDepth : Exceed(s, places).path[k].exceeded
<1> DEFINE path == [k \in 1..MaxDepth |->
                      IF k \in places THEN [s.path[k] EXCEPT !.exceeded = TRUE]
                      ELSE s.path[k]]
<1>0. MaxDepth \in Nat
  BY DeepAssumption
<1>1. /\ s = [ret |-> s.ret, cache |-> s.cache, path |-> s.path]
      /\ s.path \in [1..MaxDepth -> Link]
      /\ s.ret \in BOOLEAN /\ s.cache \in SUBSET Rows
  BY DEF Search
<1>2. \A k \in 1..MaxDepth :
         /\ path[k] \in Link /\ path[k].row = s.path[k].row
         /\ s.path[k].exceeded => path[k].exceeded
         /\ k \in places => path[k].exceeded
  <2> TAKE k \in 1..MaxDepth
  <2>1. s.path[k] \in Link
    BY <1>1
  <2> DEFINE e == s.path[k]
  <2>2. path[k] = IF k \in places THEN [e EXCEPT !.exceeded = TRUE] ELSE e
    OBVIOUS
  <2> HIDE DEF path, e
  <2>3. [e EXCEPT !.exceeded = TRUE] \in Link
        /\ [e EXCEPT !.exceeded = TRUE].row = e.row
        /\ [e EXCEPT !.exceeded = TRUE].exceeded = TRUE
    BY <2>1 DEF Link, e
  <2> QED
    BY <2>1, <2>2, <2>3 DEF e
<1>3. path \in [1..MaxDepth -> Link]
  <2>1. path = [k \in 1..MaxDepth |-> path[k]]
    OBVIOUS
  <2> HIDE DEF path
  <2> QED
    BY <1>2, <2>1
<1>4. Exceed(s, places) = [s EXCEPT !.path = path]
  BY DEF Exceed
<1> HIDE DEF path
<1>5. /\ [s EXCEPT !.path = path] \in Search
      /\ [s EXCEPT !.path = path].ret = s.ret
      /\ [s EXCEPT !.path = path].cache = s.cache
      /\ [s EXCEPT !.path = path].path = path
  BY <1>1, <1>3 DEF Search
<1>6. \A k \in 1..d : k \in 1..MaxDepth
  BY <1>0
<1> QED
  BY <1>2, <1>4, <1>5, <1>6 DEF Frame

\* A search that goes through a column of links, one row after the other.
Entered(t, d, row, col) ==
    [t EXCEPT !.path[d + 1] = [row |-> row, col |-> col, exceeded |-> FALSE]]

Inside(t, d, row) ==
    {v \in Search : /\ Frame(t, v, d) /\ CacheOk(v.cache) /\ Found(v, d, row)
                    /\ v.path[d + 1].row = row}

\* It is one when it begins with the column.
LEMMA InsideIs ==
    ASSUME NEW d \in 0..MaxDepth - 1, NEW t \in Search, NEW row \in Rows,
           NEW col \in Nat, Ready(t, d, row)
    PROVE  Entered(t, d, row, col) \in Inside(t, d, row)
<1> DEFINE entry == [row |-> row, col |-> col, exceeded |-> FALSE]
           entered == [t EXCEPT !.path[d + 1] = entry]
<1>0. MaxDepth \in Nat /\ d \in Nat /\ d + 1 \in 1..MaxDepth /\ ~t.ret
      /\ CacheOk(t.cache)
  BY DeepAssumption DEF Ready
<1>1. entry \in Link
  BY DEF Link
<1>2. /\ entered \in Search /\ entered.ret = t.ret /\ entered.cache = t.cache
      /\ entered.path = [t.path EXCEPT ![d + 1] = entry]
  <2> HIDE DEF entry
  <2> QED
    BY <1>0, <1>1 DEF Search
<1>3. t.path \in [1..MaxDepth -> Link]
  BY DEF Search
<1>4. entered.path[d + 1] = entry /\ entry.row = row
  BY <1>0, <1>2, <1>3
<1>5. \A k \in 1..d : entered.path[k] = t.path[k]
  BY <1>0, <1>2, <1>3
<1>6. Entered(t, d, row, col) = entered
  BY DEF Entered
<1> HIDE DEF entered, entry
<1> QED
  BY <1>0, <1>2, <1>4, <1>5, <1>6 DEF Frame, Found, Inside

\* It remains one after each row of the column.
LEMMA InsideKeeps ==
    ASSUME Graph, NEW g, NEW d \in 0..MaxDepth - 1, Sound(g, d + 1),
           NEW t \in Search, NEW row \in Rows, NEW col \in 1..Len(links[row]),
           NEW v \in Inside(t, d, row), NEW j \in 1..Len(links[row][col]), ~v.ret
    PROVE  /\ links[row][col][j] \in Rows
           /\ Ready(v, d + 1, links[row][col][j])
           /\ g[links[row][col][j]][v] \in Inside(t, d, row)
           /\ g[links[row][col][j]][v].path[d + 1].row = v.path[d + 1].row
<1> DEFINE dst == links[row][col][j]
           w == g[dst][v]
<1>0. MaxDepth \in Nat /\ d \in Nat /\ d + 1 \in 1..MaxDepth
  BY DeepAssumption
<1>1. /\ dst \in Rows /\ col \in DOMAIN links[row]
      /\ j \in DOMAIN links[row][col]
  <2>1. links[row] \in Seq(Seq(Rows))
    BY DEF Graph
  <2>2. links[row][col] \in Seq(Rows)
    BY <2>1
  <2> QED
    BY <2>1, <2>2
<1>2. /\ v \in Search /\ Frame(t, v, d) /\ v.path[d + 1].row = row
      /\ CacheOk(v.cache)
  BY DEF Inside
<1>3. Ready(v, d + 1, dst)
  BY <1>0, <1>2 DEF Ready
<1>4. /\ w \in Search /\ Frame(v, w, d + 1) /\ CacheOk(w.cache)
      /\ Found(w, d + 1, dst)
  BY <1>1, <1>2, <1>3 DEF Sound
<1> HIDE DEF w, dst
<1>5. Frame(t, w, d) /\ w.path[d + 1].row = row
  BY <1>0, <1>2, <1>4 DEF Frame
<1>6. Found(w, d, row)
  <2> SUFFICES ASSUME w.ret PROVE row \in Affected[MaxDepth - 1 - d]
    BY <1>0 DEF Found
  <2>1. d + 1 < MaxDepth /\ dst \in Affected[MaxDepth - 1 - (d + 1)]
    BY <1>4 DEF Found
  <2>2. MaxDepth - 1 - d \in 1..MaxDepth
        /\ (MaxDepth - 1 - d) - 1 = MaxDepth - 1 - (d + 1)
    BY <1>0, <2>1
  <2>3. LinksTo(row, Affected[MaxDepth - 1 - (d + 1)])
    BY <1>1, <2>1 DEF LinksTo, dst
  <2>4. Affected[MaxDepth - 1 - d] = Wider(Affected[MaxDepth - 1 - (d + 1)])
    BY <2>2, AffectedIs
  <2> QED
    BY <2>3, <2>4 DEF Wider
<1>7. w \in Inside(t, d, row)
  BY <1>4, <1>5, <1>6 DEF Inside
<1> QED
  BY <1>1, <1>2, <1>3, <1>5, <1>7 DEF w, dst

\* Which of the two a column is: one that is being followed, or a new one.
Matches(t, d, row, col) ==
    {k \in 1..d : t.path[k].row = row /\ t.path[k].col = col}

LEMMA LinkedCases ==
    ASSUME NEW g, NEW d, NEW t, NEW row, NEW col
    PROVE  linked_object_changed(g, t, row, col, d) =
              IF Matches(t, d, row, col) # {}
              THEN Exceed(t, {k \in 1..d : \E m \in Matches(t, d, row, col) : m <= k})
              ELSE any_of([j \in 1..Len(links[row][col]) |-> g[links[row][col][j]]],
                          Entered(t, d, row, col), Len(links[row][col]))
BY DEF linked_object_changed, Matches, Entered

\* What a column of links does to a search at depth d.
LEMMA LinkedIs ==
    ASSUME Graph, NEW g, NEW d \in 0..MaxDepth - 1, Sound(g, d + 1),
           NEW t \in Search, NEW row \in Rows, NEW col \in 1..Len(links[row]),
           Ready(t, d, row)
    PROVE  LET u == linked_object_changed(g, t, row, col, d)
           IN  /\ u \in Search /\ Frame(t, u, d)
               /\ CacheOk(u.cache) /\ Found(u, d, row)
<1> DEFINE match == Matches(t, d, row, col)
           places == {k \in 1..d : \E m \in match : m <= k}
           list == links[row][col]
           n == Len(list)
           step == [j \in 1..n |-> g[list[j]]]
           entered == Entered(t, d, row, col)
           u == linked_object_changed(g, t, row, col, d)
           I == Inside(t, d, row)
<1>0. /\ MaxDepth \in Nat /\ d \in Nat /\ d + 1 \in 1..MaxDepth /\ ~t.ret
      /\ CacheOk(t.cache) /\ n \in Nat /\ col \in Nat
  <2>1. MaxDepth \in Nat /\ d \in Nat /\ d + 1 \in 1..MaxDepth /\ ~t.ret
        /\ CacheOk(t.cache)
    BY DeepAssumption DEF Ready
  <2>2. links[row] \in Seq(Seq(Rows)) /\ col \in Nat
    BY DEF Graph
  <2>3. links[row][col] \in Seq(Rows)
    BY <2>2
  <2> QED
    BY <2>1, <2>2, <2>3
<1>1. u = IF match # {} THEN Exceed(t, places) ELSE any_of(step, entered, n)
  BY LinkedCases
<1>2. CASE match # {}
  <2>1. u = Exceed(t, places)
    BY <1>1, <1>2
  <2> HIDE DEF u, places
  <2>2. d \in 0..MaxDepth
    BY <1>0
  <2>3. u \in Search /\ u.ret = t.ret /\ u.cache = t.cache /\ Frame(t, u, d)
    BY <2>1, <2>2, ExceedIs
  <2>4. CacheOk(u.cache) /\ Found(u, d, row)
    BY <1>0, <2>3, Zenon DEF Found
  <2> QED
    BY <2>3, <2>4 DEF u
<1>3. CASE match = {}
  <2>1. u = any_of(step, entered, n)
    BY <1>1, <1>3
  <2>2. entered \in I
    BY <1>0, InsideIs
  <2>3. \A v \in I, j \in 1..n : ~v.ret => step[j][v] \in I
    <3> TAKE v \in I, j \in 1..n
    <3> HAVE ~v.ret
    <3>1. g[list[j]][v] \in I
      BY InsideKeeps
    <3> QED
      BY <3>1
  <2> HIDE DEF I, step, entered, n, u
  <2>4. any_of(step, entered, n) \in I
    BY <1>0, <2>2, <2>3, AnyOfKeeps
  <2>5. u \in Search /\ Frame(t, u, d) /\ CacheOk(u.cache) /\ Found(u, d, row)
    BY <2>1, <2>4 DEF I, Inside
  <2> QED
    BY <2>5 DEF u
<1> QED
  BY <1>2, <1>3

\* The column with the link that leads to a modified row sees to it that the
\* search finds it or marks its path.
LEMMA LinkedSeesTo ==
    ASSUME Graph, NEW g, NEW d \in 0..MaxDepth - 1,
           Sound(g, d + 1), Complete(g, d + 1),
           NEW t \in Search, NEW row \in Rows, NEW col \in 1..Len(links[row]),
           Ready(t, d, row), NEW n \in 1..MaxDepth - 1, Exact(row, n),
           NEW k \in 1..Len(links[row][col]), Exact(links[row][col][k], n - 1),
           NEW b \in 0..d, Away(t, b, d, n),
           ~linked_object_changed(g, t, row, col, d).ret
    PROVE  Flagged(linked_object_changed(g, t, row, col, d), b, d, n)
<1> DEFINE match == Matches(t, d, row, col)
           places == {l \in 1..d : \E m \in match : m <= l}
           list == links[row][col]
           len == Len(list)
           step == [j \in 1..len |-> g[list[j]]]
           entered == Entered(t, d, row, col)
           u == linked_object_changed(g, t, row, col, d)
           I == Inside(t, d, row)
           J == {v \in Search : Flagged(v, b, d, n)}
<1>0. /\ MaxDepth \in Nat /\ d \in Nat /\ d + 1 \in 1..MaxDepth /\ ~t.ret
      /\ CacheOk(t.cache) /\ len \in Nat /\ col \in Nat /\ b \in Nat /\ n \in Nat
  <2>1. MaxDepth \in Nat /\ d \in Nat /\ d + 1 \in 1..MaxDepth /\ ~t.ret
        /\ CacheOk(t.cache) /\ b \in Nat /\ n \in Nat
    BY DeepAssumption DEF Ready
  <2>2. links[row] \in Seq(Seq(Rows)) /\ col \in Nat
    BY DEF Graph
  <2>3. links[row][col] \in Seq(Rows)
    BY <2>2
  <2> QED
    BY <2>1, <2>2, <2>3
<1>1. u = IF match # {} THEN Exceed(t, places) ELSE any_of(step, entered, len)
  BY LinkedCases
<1>2. CASE match # {}
  <2>1. u = Exceed(t, places)
    BY <1>1, <1>2
  <2>2. PICK m \in 1..d : t.path[m].row = row /\ m \in match
    BY <1>2 DEF Matches
  <2>3. m \notin b + 1 .. d
    <3>1. row \in Affected[n]
      BY DEF Exact
    <3> QED
      BY <2>2, <3>1 DEF Away
  <2>4. b \in places \cap 1..MaxDepth /\ b # 0
    BY <1>0, <2>2, <2>3
  <2>5. d \in 0..MaxDepth
    BY <1>0
  <2> HIDE DEF u, places
  <2>6. u.path[b].exceeded
    BY <2>1, <2>4, <2>5, ExceedIs
  <2> QED
    BY <2>4, <2>6 DEF Flagged, u
<1>3. CASE match = {}
  <2>1. u = any_of(step, entered, len)
    BY <1>1, <1>3
  <2>2. entered \in I
    BY <1>0, InsideIs
  <2>3. \A v \in I, j \in 1..len : ~v.ret => step[j][v] \in I
    <3> TAKE v \in I, j \in 1..len
    <3> HAVE ~v.ret
    <3>1. g[list[j]][v] \in I
      BY InsideKeeps
    <3> QED
      BY <3>1
  <2>4. \A v \in I : ~v.ret /\ ~step[k][v].ret => step[k][v] \in J
    <3> TAKE v \in I
    <3> HAVE ~v.ret /\ ~step[k][v].ret
    <3> DEFINE w == g[list[k]][v]
    <3>1. list[k] \in Rows /\ Ready(v, d + 1, list[k]) /\ w \in I
      BY InsideKeeps
    <3>2. step[k][v] = w
      OBVIOUS
    <3>3. v \in Search /\ w \in Search /\ Frame(t, v, d) /\ v.path[d + 1].row = row
      BY <3>1 DEF Inside
    <3>4. Away(v, b, d + 1, n - 1)
      <4> SUFFICES ASSUME NEW l \in b + 1 .. d + 1
                   PROVE  v.path[l].row \notin Affected[n - 1]
        BY DEF Away
      <4>1. n - 1 \in 0..n - 1 /\ n - 1 \in 0..n /\ n \in 0..MaxDepth
        BY <1>0
      <4>2. CASE l = d + 1
        BY <3>3, <4>1, <4>2 DEF Exact
      <4>3. CASE l # d + 1
        <5>1. l \in 1..d /\ l \in b + 1 .. d
          BY <1>0, <4>3
        <5>2. v.path[l].row = t.path[l].row /\ t.path[l].row \notin Affected[n]
          BY <3>3, <5>1 DEF Frame, Away
        <5> QED
          BY <4>1, <5>2, AffectedGrows
      <4> QED
        BY <4>2, <4>3
    <3>5. n - 1 \in 0..MaxDepth - 1 /\ b \in 0..d + 1 /\ ~w.ret
      BY <1>0, <3>2
    <3> HIDE DEF w, step, I
    <3>6. Flagged(w, b, d + 1, n - 1)
      BY <3>1, <3>3, <3>4, <3>5 DEF Complete, w
    <3>7. Flagged(w, b, d, n)
      BY <1>0, <3>6 DEF Flagged
    <3> QED
      BY <3>2, <3>3, <3>7
  <2>5. \A v \in I \cap J, j \in 1..len :
           ~v.ret /\ ~step[j][v].ret => step[j][v] \in J
    <3> TAKE v \in I \cap J, j \in 1..len
    <3> HAVE ~v.ret /\ ~step[j][v].ret
    <3> DEFINE w == g[list[j]][v]
    <3>1. list[j] \in Rows /\ Ready(v, d + 1, list[j]) /\ w \in I
      BY InsideKeeps
    <3>2. step[j][v] = w /\ v \in Search
      OBVIOUS
    <3>3. Frame(v, w, d + 1) /\ w \in Search
      BY <3>1, <3>2 DEF Sound
    <3>4. Flagged(v, b, d, n)
      OBVIOUS
    <3> HIDE DEF w, step, I
    <3>5. CASE b = 0
      BY <3>2, <3>3, <3>4, <3>5 DEF Flagged
    <3>6. CASE b # 0
      <4>1. b \in 1..d + 1
        BY <1>0, <3>6
      <4>2. Flagged(w, b, d, n)
        BY <3>3, <3>4, <3>6, <4>1, Zenon DEF Flagged, Frame
      <4> QED
        BY <3>2, <3>3, <4>2
    <3> QED
      BY <3>5, <3>6
  <2> HIDE DEF I, J, step, entered, len, u
  <2>6. any_of(step, entered, len) \in J
    <3>1. ~any_of(step, entered, len).ret
      BY <2>1 DEF u
    <3>2. k \in 1..len
      BY DEF len
    <3> QED
      BY <1>0, <2>2, <2>3, <2>4, <2>5, <3>1, <3>2, AnyOfSeesTo
  <2> QED
    BY <2>1, <2>6 DEF J, u
<1> QED
  BY <1>2, <1>3

\* All columns.
Columns(g, row, d) ==
    [col \in 1..Len(links[row]) |->
       [t \in Search |-> linked_object_changed(g, t, row, col, d)]]

Around(s, d, row) ==
    {v \in Search : Frame(s, v, d) /\ CacheOk(v.cache) /\ Found(v, d, row)}

\* Each column keeps what holds of the searches between columns.
LEMMA AroundKeeps ==
    ASSUME Graph, NEW g, NEW d \in 0..MaxDepth - 1, Sound(g, d + 1),
           NEW s \in Search, NEW row \in Rows, Ready(s, d, row),
           NEW v \in Around(s, d, row), NEW col \in 1..Len(links[row]), ~v.ret
    PROVE  /\ Ready(v, d, row) /\ v \in Search
           /\ linked_object_changed(g, v, row, col, d) \in Around(s, d, row)
           /\ Frame(v, linked_object_changed(g, v, row, col, d), d)
<1> DEFINE u == linked_object_changed(g, v, row, col, d)
<1>1. /\ v \in Search /\ Frame(s, v, d) /\ CacheOk(v.cache)
      /\ Ready(v, d, row)
  BY DEF Around, Ready
<1>2. /\ u \in Search /\ Frame(v, u, d) /\ CacheOk(u.cache) /\ Found(u, d, row)
  BY <1>1, LinkedIs
<1> HIDE DEF u
<1>3. Frame(s, u, d)
  BY <1>1, <1>2, Zenon DEF Frame
<1>4. u \in Around(s, d, row)
  BY <1>2, <1>3 DEF Around
<1> QED
  BY <1>1, <1>2, <1>4 DEF u

\* So do all of them.
LEMMA OutgoingIs ==
    ASSUME Graph, NEW g, NEW d \in 0..MaxDepth - 1, Sound(g, d + 1),
           NEW s \in Search, NEW row \in Rows, Ready(s, d, row)
    PROVE  check_outgoing_links(g, s, row, d) \in Around(s, d, row)
<1> DEFINE n == Len(links[row])
           step == Columns(g, row, d)
           I == Around(s, d, row)
<1>1. n \in Nat
  <2>1. links[row] \in Seq(Seq(Rows))
    BY DEF Graph
  <2> QED
    BY <2>1
<1>2. check_outgoing_links(g, s, row, d) = any_of(step, s, n)
  BY DEF check_outgoing_links, Columns
<1>3. s \in I
  BY Zenon DEF Around, Frame, Found, Ready
<1>4. \A v \in I, col \in 1..n : ~v.ret => step[col][v] \in I
  <2> TAKE v \in I, col \in 1..n
  <2> HAVE ~v.ret
  <2>1. v \in Search /\ linked_object_changed(g, v, row, col, d) \in I
    BY AroundKeeps
  <2>2. step[col][v] = linked_object_changed(g, v, row, col, d)
    BY <2>1 DEF Columns
  <2> QED
    BY <2>1, <2>2
<1> HIDE DEF I, step, n
<1>5. any_of(step, s, n) \in I
  BY <1>1, <1>3, <1>4, AnyOfKeeps
<1> QED
  BY <1>2, <1>5 DEF I

\* One of the columns leads to the modified row, so they see to it.
LEMMA OutgoingSeesTo ==
    ASSUME Graph, NEW g, NEW d \in 0..MaxDepth - 1,
           Sound(g, d + 1), Complete(g, d + 1),
           NEW s \in Search, NEW row \in Rows, Ready(s, d, row),
           NEW n \in 1..MaxDepth - 1, Exact(row, n),
           NEW b \in 0..d, Away(s, b, d, n),
           ~check_outgoing_links(g, s, row, d).ret
    PROVE  Flagged(check_outgoing_links(g, s, row, d), b, d, n)
<1> DEFINE len == Len(links[row])
           step == Columns(g, row, d)
           I == Around(s, d, row)
           J == {v \in Search : Flagged(v, b, d, n)}
           o == check_outgoing_links(g, s, row, d)
<1>0. MaxDepth \in Nat /\ n \in 1..MaxDepth
  BY DeepAssumption
<1>1. links[row] \in Seq(Seq(Rows)) /\ len \in Nat
  <2>1. links[row] \in Seq(Seq(Rows))
    BY DEF Graph
  <2> QED
    BY <2>1
<1>2. o = any_of(step, s, len)
  BY DEF check_outgoing_links, Columns
<1>3. s \in I
  BY Zenon DEF Around, Frame, Found, Ready
<1>4. \A v \in I, col \in 1..len :
         ~v.ret => /\ step[col][v] = linked_object_changed(g, v, row, col, d)
                   /\ step[col][v] \in I
  <2> TAKE v \in I, col \in 1..len
  <2> HAVE ~v.ret
  <2>1. v \in Search /\ linked_object_changed(g, v, row, col, d) \in I
    BY AroundKeeps
  <2>2. step[col][v] = linked_object_changed(g, v, row, col, d)
    BY <2>1 DEF Columns
  <2> QED
    BY <2>1, <2>2
<1>5. PICK c \in DOMAIN links[row] : \E k \in DOMAIN links[row][c] :
         Exact(links[row][c][k], n - 1)
  BY <1>0, ExactLinks
<1>6. PICK k \in DOMAIN links[row][c] : Exact(links[row][c][k], n - 1)
  BY <1>5
<1>7. c \in 1..len /\ k \in 1..Len(links[row][c])
  <2>1. c \in 1..len
    BY <1>1
  <2>2. links[row][c] \in Seq(Rows)
    BY <1>1, <2>1
  <2> QED
    BY <2>1, <2>2
<1>8. \A v \in I : ~v.ret /\ ~step[c][v].ret => step[c][v] \in J
  <2> TAKE v \in I
  <2> HAVE ~v.ret /\ ~step[c][v].ret
  <2> DEFINE u == linked_object_changed(g, v, row, c, d)
  <2>1. Ready(v, d, row) /\ v \in Search /\ u \in I
    BY <1>7, AroundKeeps
  <2>2. step[c][v] = u
    BY <1>4, <1>7
  <2>3. Away(v, b, d, n)
    <3>1. Frame(s, v, d)
      BY DEF Around
    <3>2. \A l \in b + 1 .. d : l \in 1..d
      OBVIOUS
    <3> QED
      BY <3>1, <3>2, Zenon DEF Away, Frame
  <2>4. ~u.ret
    BY <2>2
  <2>5. Flagged(u, b, d, n)
    BY <1>6, <1>7, <2>1, <2>3, <2>4, LinkedSeesTo
  <2> HIDE DEF u, step
  <2>6. u \in Search
    BY <2>1 DEF Around
  <2> QED
    BY <2>2, <2>5, <2>6
<1>9. \A v \in I \cap J, col \in 1..len :
         ~v.ret /\ ~step[col][v].ret => step[col][v] \in J
  <2> TAKE v \in I \cap J, col \in 1..len
  <2> HAVE ~v.ret /\ ~step[col][v].ret
  <2> DEFINE u == linked_object_changed(g, v, row, col, d)
  <2>1. Frame(v, u, d) /\ u \in I
    BY AroundKeeps
  <2>2. step[col][v] = u
    BY <1>4
  <2>3. Flagged(v, b, d, n)
    OBVIOUS
  <2> HIDE DEF u, step
  <2>4. u \in Search
    BY <2>1 DEF Around
  <2>5. Flagged(u, b, d, n)
    <3>1. CASE b = 0
      BY <2>3, <3>1 DEF Flagged
    <3>2. CASE b # 0
      <4>1. b \in 1..d
        BY <3>2
      <4> QED
        BY <2>1, <2>3, <3>2, <4>1, Zenon DEF Flagged, Frame
    <3> QED
      BY <3>1, <3>2
  <2> QED
    BY <2>2, <2>4, <2>5
<1>10. \A v \in I, col \in 1..len : ~v.ret => step[col][v] \in I
  BY <1>4
<1> HIDE DEF I, J, step, len, o
<1>11. any_of(step, s, len) \in J
  <2>1. ~any_of(step, s, len).ret
    BY <1>2 DEF o
  <2>2. c \in 1..len /\ len \in Nat
    BY <1>1, <1>7
  <2> QED
    BY <1>3, <1>8, <1>9, <1>10, <2>1, <2>2, AnyOfSeesTo, Zenon
<1> QED
  BY <1>2, <1>11 DEF J, o
-----------------------------------------------------------------------------
(* All levels *)

\* check_row below the limit, and as a whole; g is the level below.
Inner(g, s, row, d) ==
    IF d > 0 /\ row \in modified THEN [s EXCEPT !.ret = TRUE]
    ELSE IF row \in s.cache THEN s
    ELSE LET t == check_outgoing_links(g, s, row, d)
         IN  [t EXCEPT !.cache = @ \cup CacheRow(t, row, d)]

Level(g, d) ==
    [row \in Rows |-> [s \in Search |->
       IF d = MaxDepth THEN Exceed(s, 1..MaxDepth) ELSE Inner(g, s, row, d)]]

\* The search from a row that is not modified and not remembered.
LEMMA InnerSearches ==
    ASSUME Graph, NEW g, NEW d \in 0..MaxDepth - 1,
           Sound(g, d + 1), Complete(g, d + 1),
           NEW s \in Search, NEW row \in Rows, Ready(s, d, row),
           row \notin modified, row \notin s.cache
    PROVE  LET t == Inner(g, s, row, d)
           IN  /\ t \in Search /\ Frame(s, t, d)
               /\ CacheOk(t.cache) /\ Found(t, d, row)
               /\ \A n \in 0..MaxDepth - 1, b \in 0..d :
                     Exact(row, n) /\ Away(s, b, d, n) /\ ~t.ret
                        => Flagged(t, b, d, n)
<1> DEFINE o == check_outgoing_links(g, s, row, d)
           new == CacheRow(o, row, d)
           t == Inner(g, s, row, d)
<1>0. MaxDepth \in Nat \ {0} /\ d \in Nat /\ d < MaxDepth /\ 0 \in 0..MaxDepth
      /\ MaxDepth - 1 \in 0..MaxDepth
  BY DeepAssumption
<1>1. t = [o EXCEPT !.cache = @ \cup new]
  BY DEF Inner
<1>2. o \in Search /\ Frame(s, o, d) /\ CacheOk(o.cache) /\ Found(o, d, row)
  <2>1. o \in Around(s, d, row)
    BY OutgoingIs
  <2> HIDE DEF o
  <2> QED
    BY <2>1 DEF Around
<1>3. \A n \in 0..MaxDepth - 1, b \in 0..d :
         Exact(row, n) /\ Away(s, b, d, n) /\ ~o.ret => Flagged(o, b, d, n)
  <2> TAKE n \in 0..MaxDepth - 1, b \in 0..d
  <2> HAVE Exact(row, n) /\ Away(s, b, d, n) /\ ~o.ret
  <2>1. n # 0
    BY AffectedIs DEF Exact
  <2>2. n \in 1..MaxDepth - 1
    BY <1>0, <2>1
  <2> QED
    BY <2>2, OutgoingSeesTo
<1> HIDE DEF o, t
<1>4. new \in SUBSET Rows
  BY DEF CacheRow
<1>5. /\ t \in Search /\ t.ret = o.ret /\ t.path = o.path
      /\ t.cache = o.cache \cup new
  <2> HIDE DEF new
  <2> QED
    BY <1>1, <1>2, <1>4 DEF Search
<1>6. CacheOk(t.cache)
  <2> SUFFICES ASSUME row \in new, row \in Affected[MaxDepth - 1] PROVE FALSE
    BY <1>2, <1>5 DEF CacheOk, CacheRow
  <2>1. ~o.ret /\ ~(d > 0 /\ o.path[d].exceeded)
    BY DEF CacheRow
  <2>2. PICK n \in 0..MaxDepth - 1 : Exact(row, n)
    BY <1>0, ExactExists
  <2>3. d \in 0..d /\ Away(s, d, d, n)
    BY <1>0 DEF Away
  <2>4. Flagged(o, d, d, n)
    BY <1>3, <2>1, <2>2, <2>3
  <2> QED
    BY <1>0, <2>1, <2>4 DEF Flagged
<1>7. Frame(s, t, d) /\ Found(t, d, row)
  BY <1>2, <1>5, Zenon DEF Frame, Found
<1>8. ASSUME NEW n \in 0..MaxDepth - 1, NEW b \in 0..d,
             Exact(row, n) /\ Away(s, b, d, n) /\ ~t.ret
      PROVE  Flagged(t, b, d, n)
  <2>1. Flagged(o, b, d, n)
    BY <1>3, <1>5, <1>8
  <2> QED
    BY <1>5, <2>1, Zenon DEF Flagged
<1> QED
  BY <1>5, <1>6, <1>7, <1>8 DEF t

\* A level is right if the one below it is.
LEMMA LevelRight ==
    ASSUME Graph, NEW g, NEW d \in 0..MaxDepth - 1,
           Sound(g, d + 1), Complete(g, d + 1)
    PROVE  Sound(Level(g, d), d) /\ Complete(Level(g, d), d)
<1>0. MaxDepth \in Nat \ {0} /\ d \in Nat /\ d # MaxDepth /\ 0 \in 0..MaxDepth
      /\ d < MaxDepth /\ MaxDepth - 1 \in 0..MaxDepth
      /\ MaxDepth - 1 - d \in 0..MaxDepth /\ 0 \in 0..MaxDepth - 1 - d
  BY DeepAssumption
<1>1. SUFFICES ASSUME NEW row \in Rows, NEW s \in Search, Ready(s, d, row)
      PROVE  LET t == Inner(g, s, row, d)
             IN  /\ t \in Search /\ Frame(s, t, d)
                 /\ CacheOk(t.cache) /\ Found(t, d, row)
                 /\ \A n \in 0..MaxDepth - 1, b \in 0..d :
                       Exact(row, n) /\ Away(s, b, d, n) /\ ~t.ret
                          => Flagged(t, b, d, n)
  <2>1. \A row \in Rows, s \in Search : Level(g, d)[row][s] = Inner(g, s, row, d)
    BY <1>0 DEF Level
  <2> QED
    BY <1>1, <2>1, Zenon DEF Sound, Complete
<1>2. CASE d > 0 /\ row \in modified
  <2> DEFINE t == [s EXCEPT !.ret = TRUE]
  <2>1. Inner(g, s, row, d) = t
    BY <1>2 DEF Inner
  <2>2. t \in Search /\ t.ret /\ t.path = s.path /\ t.cache = s.cache
    BY DEF Search
  <2> HIDE DEF t
  <2>3. row \in Affected[MaxDepth - 1 - d]
    BY <1>0, <1>2, AffectedIs, AffectedGrows
  <2>4. Frame(s, t, d) /\ CacheOk(t.cache) /\ Found(t, d, row)
    BY <1>0, <1>1, <2>2, <2>3, Zenon DEF Frame, Found, Ready
  <2> QED
    BY <2>1, <2>2, <2>4
<1>3. CASE ~(d > 0 /\ row \in modified) /\ row \in s.cache
  <2>1. Inner(g, s, row, d) = s
    BY <1>3 DEF Inner
  <2>2. Frame(s, s, d) /\ CacheOk(s.cache) /\ Found(s, d, row)
    BY <1>1, Zenon DEF Frame, Found, Ready
  <2>3. \A n \in 0..MaxDepth - 1 : ~Exact(row, n)
    <3> SUFFICES ASSUME NEW n \in 0..MaxDepth - 1, Exact(row, n) PROVE FALSE
      OBVIOUS
    <3>1. row \in Affected[MaxDepth - 1]
      BY <1>0, AffectedGrows DEF Exact
    <3> QED
      BY <1>3, <2>2, <3>1 DEF CacheOk
  <2> QED
    BY <2>1, <2>2, <2>3
<1>4. CASE ~(d > 0 /\ row \in modified) /\ row \notin s.cache
  <2>1. row \notin modified
    BY <1>0, <1>1, <1>4 DEF Ready
  <2> QED
    BY <1>1, <1>4, <2>1, InnerSearches, Zenon
<1> QED
  BY <1>2, <1>3, <1>4

\* The last level only marks the path.
LEMMA BottomRight ==
    ASSUME NEW g
    PROVE  /\ Sound(Level(g, MaxDepth), MaxDepth)
           /\ Complete(Level(g, MaxDepth), MaxDepth)
<1>0. MaxDepth \in Nat /\ MaxDepth \in 0..MaxDepth
  BY DeepAssumption
<1>1. \A row \in Rows, s \in Search :
         Level(g, MaxDepth)[row][s] = Exceed(s, 1..MaxDepth)
  BY DEF Level
<1>2. ASSUME NEW row \in Rows, NEW s \in Search, Ready(s, MaxDepth, row)
      PROVE  LET t == Exceed(s, 1..MaxDepth)
             IN  /\ t \in Search /\ Frame(s, t, MaxDepth)
                 /\ CacheOk(t.cache) /\ Found(t, MaxDepth, row)
                 /\ \A n \in 0..MaxDepth - 1, b \in 0..MaxDepth :
                       Flagged(t, b, MaxDepth, n)
  <2> DEFINE t == Exceed(s, 1..MaxDepth)
  <2>1. /\ t \in Search /\ t.ret = s.ret /\ t.cache = s.cache
        /\ Frame(s, t, MaxDepth)
        /\ \A k \in (1..MaxDepth) \cap (1..MaxDepth) : t.path[k].exceeded
    BY <1>0, ExceedIs
  <2> HIDE DEF t
  <2>2. CacheOk(t.cache) /\ Found(t, MaxDepth, row)
    BY <1>2, <2>1, Zenon DEF Found, Ready
  <2>3. ASSUME NEW n \in 0..MaxDepth - 1, NEW b \in 0..MaxDepth
        PROVE  Flagged(t, b, MaxDepth, n)
    <3>1. CASE b = 0
      BY <1>0, <3>1 DEF Flagged
    <3>2. CASE b # 0
      <4>1. b \in (1..MaxDepth) \cap (1..MaxDepth)
        BY <1>0, <3>2
      <4> QED
        BY <2>1, <3>2, <4>1, Zenon DEF Flagged
    <3> QED
      BY <3>1, <3>2
  <2> QED
    BY <2>1, <2>2, <2>3 DEF t
<1> QED
  BY <1>1, <1>2, Zenon DEF Sound, Complete

\* check_row is these levels, one above the other.
IsLevels(f, k) == f = [d \in MaxDepth - k .. MaxDepth |-> Level(f[d + 1], d)]

\* The last level does not look deeper.
LEMMA BottomIs ==
    ASSUME NEW g, NEW h
    PROVE  Level(g, MaxDepth) = Level(h, MaxDepth)
<1>1. Level(g, MaxDepth) = [row \in Rows |-> [s \in Search |-> Exceed(s, 1..MaxDepth)]]
  BY Zenon DEF Level
<1>2. Level(h, MaxDepth) = [row \in Rows |-> [s \in Search |-> Exceed(s, 1..MaxDepth)]]
  BY Zenon DEF Level
<1> QED
  BY <1>1, <1>2

\* Levels are given by their recursion.
LEMMA IsLevelsIs ==
    ASSUME NEW f, NEW k \in 0..MaxDepth
    PROVE  IsLevels(f, k)
              <=> /\ f = [d \in MaxDepth - k .. MaxDepth |-> f[d]]
                  /\ f[MaxDepth] = Level({}, MaxDepth)
                  /\ \A d \in MaxDepth - k .. MaxDepth - 1 : f[d] = Level(f[d + 1], d)
<1> DEFINE e == [d \in MaxDepth - k .. MaxDepth |-> Level(f[d + 1], d)]
<1>0. MaxDepth \in Nat /\ k \in Nat /\ MaxDepth \in MaxDepth - k .. MaxDepth
  BY DeepAssumption
<1>1. IsLevels(f, k) <=> f = e
  BY DEF IsLevels
<1>2. /\ e = [d \in MaxDepth - k .. MaxDepth |-> e[d]]
      /\ \A d \in MaxDepth - k .. MaxDepth : e[d] = Level(f[d + 1], d)
  OBVIOUS
<1>3. e[MaxDepth] = Level({}, MaxDepth)
  <2> HIDE DEF e
  <2>1. e[MaxDepth] = Level(f[MaxDepth + 1], MaxDepth)
    BY <1>0, <1>2
  <2> QED
    BY <2>1, BottomIs
<1>4. \A d \in MaxDepth - k .. MaxDepth - 1 : d \in MaxDepth - k .. MaxDepth
  BY <1>0
<1>5. ASSUME f = [d \in MaxDepth - k .. MaxDepth |-> f[d]],
             f[MaxDepth] = Level({}, MaxDepth),
             \A d \in MaxDepth - k .. MaxDepth - 1 : f[d] = Level(f[d + 1], d)
      PROVE  f = e
  <2>1. \A d \in MaxDepth - k .. MaxDepth : f[d] = e[d]
    <3> TAKE d \in MaxDepth - k .. MaxDepth
    <3> HIDE DEF e
    <3>1. CASE d = MaxDepth
      BY <1>3, <1>5, <3>1
    <3>2. CASE d # MaxDepth
      <4>1. d \in MaxDepth - k .. MaxDepth - 1
        BY <1>0, <3>2
      <4> QED
        BY <1>2, <1>5, <4>1
    <3> QED
      BY <3>1, <3>2
  <2> HIDE DEF e
  <2> QED
    BY <1>2, <1>5, <2>1
<1> HIDE DEF e
<1> QED
  BY <1>1, <1>2, <1>3, <1>4, <1>5

\* There are such levels, whatever the limit.
LEMMA LevelsExist == \E f : IsLevels(f, MaxDepth)
<1> DEFINE T == {k \in 0..MaxDepth : ~ \E f : IsLevels(f, k)}
<1>0. MaxDepth \in Nat /\ 0 \in 0..MaxDepth /\ MaxDepth \in 0..MaxDepth
  BY DeepAssumption
<1>1. SUFFICES ASSUME T # {} PROVE FALSE
  BY <1>0
<1>2. PICK k \in T : \A m \in T : k <= m
  <2>1. T \in SUBSET Nat
    BY <1>0
  <2> HIDE DEF T
  <2> QED
    BY <1>1, <2>1, LeastIs
<1>3. k # 0
  <2> DEFINE f == [d \in MaxDepth - 0 .. MaxDepth |-> Level({}, MaxDepth)]
  <2>1. MaxDepth \in MaxDepth - 0 .. MaxDepth
    BY <1>0
  <2>2. f = [d \in MaxDepth - 0 .. MaxDepth |-> f[d]]
        /\ f[MaxDepth] = Level({}, MaxDepth)
    BY <2>1
  <2>3. MaxDepth - 0 .. MaxDepth - 1 = {}
    BY <1>0
  <2> HIDE DEF f
  <2>4. IsLevels(f, 0)
    BY <1>0, <2>2, <2>3, IsLevelsIs
  <2> QED
    BY <2>4
<1>4. /\ k \in 0..MaxDepth /\ k - 1 \in 0..MaxDepth /\ k - 1 \notin T
      /\ k \in Nat /\ k >= 1
  BY <1>0, <1>2, <1>3
<1>5. PICK g : IsLevels(g, k - 1)
  BY <1>4
<1> DEFINE low == MaxDepth - k
           f == [d \in low .. MaxDepth |->
                   IF d = low THEN Level(g[low + 1], low) ELSE g[d]]
<1>6. low \in Nat /\ low < MaxDepth /\ MaxDepth - (k - 1) = low + 1
  BY <1>0, <1>4
<1>7. /\ g[MaxDepth] = Level({}, MaxDepth)
      /\ \A d \in low + 1 .. MaxDepth - 1 : g[d] = Level(g[d + 1], d)
  <2>1. /\ g[MaxDepth] = Level({}, MaxDepth)
        /\ \A d \in MaxDepth - (k - 1) .. MaxDepth - 1 : g[d] = Level(g[d + 1], d)
    BY <1>4, <1>5, IsLevelsIs
  <2> HIDE DEF low
  <2> QED
    BY <1>6, <2>1
<1>8. /\ f = [d \in low .. MaxDepth |-> f[d]]
      /\ f[low] = Level(g[low + 1], low)
      /\ \A d \in low + 1 .. MaxDepth : f[d] = g[d]
  <2> HIDE DEF low
  <2> QED
    BY <1>0, <1>6
<1> HIDE DEF f, low
<1>9. f[MaxDepth] = Level({}, MaxDepth)
  <2>1. MaxDepth \in low + 1 .. MaxDepth
    BY <1>0, <1>6
  <2> QED
    BY <1>7, <1>8, <2>1
<1>10. \A d \in low .. MaxDepth - 1 : f[d] = Level(f[d + 1], d)
  <2> TAKE d \in low .. MaxDepth - 1
  <2>1. f[d + 1] = g[d + 1]
    <3>1. d + 1 \in low + 1 .. MaxDepth
      BY <1>0, <1>6
    <3> QED
      BY <3>1, <1>8, Zenon
  <2>2. CASE d = low
    BY <1>8, <2>1, <2>2
  <2>3. CASE d # low
    <3>1. d \in low + 1 .. MaxDepth - 1 /\ d \in low + 1 .. MaxDepth
      BY <1>0, <1>6, <2>3
    <3> QED
      BY <1>7, <1>8, <2>1, <3>1
  <2> QED
    BY <2>2, <2>3
<1>11. IsLevels(f, k)
  BY <1>4, <1>8, <1>9, <1>10, IsLevelsIs DEF low
<1> QED
  BY <1>2, <1>11

\* check_row is given by its recursion.
LEMMA CheckRowIs ==
    /\ check_row[MaxDepth] = Level({}, MaxDepth)
    /\ \A d \in 0..MaxDepth - 1 : check_row[d] = Level(check_row[d + 1], d)
<1> DEFINE P(f) == f = [depth \in 0..MaxDepth |->
             [row \in Rows |-> [s \in Search |->
               IF depth = MaxDepth THEN Exceed(s, 1..MaxDepth)
               ELSE IF depth > 0 /\ row \in modified THEN [s EXCEPT !.ret = TRUE]
               ELSE IF row \in s.cache THEN s
               ELSE LET t == check_outgoing_links(f[depth + 1], s, row, depth)
                    IN  [t EXCEPT !.cache = @ \cup CacheRow(t, row, depth)]]]]
           g == CHOOSE f : P(f)
<1>0. MaxDepth \in Nat /\ MaxDepth \in 0..MaxDepth /\ MaxDepth - MaxDepth = 0
  BY DeepAssumption
<1>1. \A f : P(f) <=> f = [d \in 0..MaxDepth |-> Level(f[d + 1], d)]
  BY DEF Level, Inner
<1>2. PICK h : IsLevels(h, MaxDepth)
  BY LevelsExist
<1>3. P(h)
  <2>1. h = [d \in 0..MaxDepth |-> Level(h[d + 1], d)]
    BY <1>0, <1>2 DEF IsLevels
  <2> HIDE DEF P
  <2> QED
    BY <1>1, <2>1
<1>4. P(g)
  <2> HIDE DEF P
  <2> QED
    BY <1>3
<1>5. check_row = g
  BY DEF check_row
<1> HIDE DEF g
<1>6. IsLevels(g, MaxDepth)
  <2> HIDE DEF P
  <2>1. g = [d \in 0..MaxDepth |-> Level(g[d + 1], d)]
    BY <1>1, <1>4
  <2> QED
    BY <1>0, <2>1 DEF IsLevels
<1>7. /\ g[MaxDepth] = Level({}, MaxDepth)
      /\ \A d \in MaxDepth - MaxDepth .. MaxDepth - 1 : g[d] = Level(g[d + 1], d)
  BY <1>0, <1>6, IsLevelsIs
<1> QED
  BY <1>0, <1>5, <1>7

\* The search is right at every depth.
LEMMA CheckRowRight ==
    ASSUME Graph, NEW d \in 0..MaxDepth
    PROVE  Sound(check_row[d], d) /\ Complete(check_row[d], d)
<1> DEFINE Right(c) == Sound(check_row[c], c) /\ Complete(check_row[c], c)
           T == {k \in 0..MaxDepth : ~Right(MaxDepth - k)}
<1>0. MaxDepth \in Nat /\ d \in Nat
  BY DeepAssumption
<1>1. SUFFICES ASSUME T # {} PROVE FALSE
  <2>1. MaxDepth - d \in 0..MaxDepth /\ MaxDepth - (MaxDepth - d) = d
    BY <1>0
  <2> HIDE DEF Right
  <2>2. Right(MaxDepth - (MaxDepth - d))
    BY <1>1, <2>1
  <2>3. Right(d)
    BY <2>1, <2>2
  <2> QED
    BY <2>3 DEF Right
<1>2. PICK k \in T : \A m \in T : k <= m
  <2>1. T \in SUBSET Nat
    BY <1>0
  <2> HIDE DEF T
  <2> QED
    BY <1>1, <2>1, LeastIs
<1> DEFINE c == MaxDepth - k
<1>3. k \in 0..MaxDepth /\ ~Right(c)
  <2> HIDE DEF Right
  <2> QED
    OBVIOUS
<1>4. k # 0
  <2>1. Right(MaxDepth)
    BY CheckRowIs, BottomRight
  <2> HIDE DEF Right
  <2>2. MaxDepth - 0 = MaxDepth
    BY <1>0
  <2> QED
    BY <1>3, <2>1, <2>2
<1>5. /\ k - 1 \in 0..MaxDepth /\ k - 1 \notin T
      /\ c \in 0..MaxDepth - 1 /\ MaxDepth - (k - 1) = c + 1
  <2> HIDE DEF Right
  <2>1. k - 1 \in 0..MaxDepth /\ ~(k <= k - 1)
    BY <1>0, <1>3, <1>4
  <2>2. c \in 0..MaxDepth - 1 /\ MaxDepth - (k - 1) = c + 1
    BY <1>0, <1>3, <1>4
  <2>3. k - 1 \notin T
    <3> HIDE DEF T
    <3> QED
      BY <1>2, <2>1
  <2> QED
    BY <2>1, <2>2, <2>3
<1>6. Right(c + 1)
  <2> HIDE DEF Right, c
  <2> QED
    BY <1>5
<1>7. Right(c)
  <2> HIDE DEF c
  <2>1. check_row[c] = Level(check_row[c + 1], c)
    BY <1>5, CheckRowIs
  <2> QED
    BY <1>5, <1>6, <2>1, LevelRight
<1> QED
  BY <1>3, <1>7
-----------------------------------------------------------------------------
(* The answers *)

\* Types, the cache and the last answer.
DeepIInv ==
    /\ Graph
    /\ m_not_modified \in SUBSET Rows /\ CacheOk(m_not_modified)
    /\ asked \in Rows /\ answer \in BOOLEAN
    /\ AnswersAreRight

\* It holds before anything is asked,
LEMMA DeepInitIInv == DeepInit => DeepIInv
<1> SUFFICES ASSUME DeepInit PROVE DeepIInv
  OBVIOUS
<1>0. MaxDepth \in Nat /\ MaxDepth - 1 \in 0..MaxDepth /\ 0 \in 0..MaxDepth - 1
  BY DeepAssumption
<1>6. PICK columns \in Tables : \E to \in [Linking -> columns] :
         links = [r \in Rows |-> IF r \in Linking THEN to[r] ELSE <<>>]
  BY DEF DeepInit
<1>1. PICK to \in [Linking -> columns] :
         links = [r \in Rows |-> IF r \in Linking THEN to[r] ELSE <<>>]
  BY <1>6
<1>2. links \in [Rows -> Seq(Seq(Rows))]
  <2>1. \A r \in Linking : to[r] \in Seq(Seq(Rows))
    BY DeepAssumption
  <2>2. <<>> \in Seq(Seq(Rows))
    OBVIOUS
  <2> HIDE DEF DeepInit
  <2> QED
    BY <1>1, <2>1, <2>2, Zenon
<1>3. modified \in SUBSET Rows /\ asked \in modified
  BY DeepAssumption DEF DeepInit
<1>4. m_not_modified = {} /\ answer = TRUE
  BY DEF DeepInit
<1>5. asked \in Affected[MaxDepth - 1]
  BY <1>0, <1>3, AffectedIs, AffectedGrows
<1> QED
  BY <1>2, <1>3, <1>4, <1>5 DEF DeepIInv, Graph, CacheOk, AnswersAreRight

\* What one search answers and remembers.
LEMMA AskIs ==
    ASSUME DeepIInv, NEW row \in Linking, Ask(row)
    PROVE  /\ links' = links /\ modified' = modified /\ asked' = row /\ row \in Rows
           /\ m_not_modified' \in SUBSET Rows /\ CacheOk(m_not_modified')
           /\ answer' \in BOOLEAN
           /\ answer' <=> row \in Affected[MaxDepth - 1]
<1> DEFINE link == [row |-> row, col |-> 0, exceeded |-> FALSE]
           blank == [k \in 1..MaxDepth |-> link]
           s == [ret |-> FALSE, cache |-> m_not_modified, path |-> blank]
           found == check_row[0][row][s]
<1>0. /\ MaxDepth \in Nat \ {0} /\ MaxDepth - 1 \in 0..MaxDepth
      /\ 0 \in 0..MaxDepth - 1 /\ 0 \in 0..MaxDepth /\ row \in Rows
      /\ MaxDepth - 1 - 0 = MaxDepth - 1
  BY DeepAssumption
<1>1. /\ links' = links /\ modified' = modified /\ asked' = row
      /\ row \in modified => answer' = TRUE /\ m_not_modified' = m_not_modified
      /\ row \notin modified => answer' = found.ret /\ m_not_modified' = found.cache
  BY DEF Ask
<1>2. m_not_modified \in SUBSET Rows /\ CacheOk(m_not_modified) /\ Graph
  BY DEF DeepIInv
<1>3. CASE row \in modified
  <2>1. row \in Affected[MaxDepth - 1]
    BY <1>0, <1>3, AffectedIs, AffectedGrows
  <2> HIDE DEF found
  <2> QED
    BY <1>0, <1>1, <1>2, <1>3, <2>1
<1>4. CASE row \notin modified
  <2>1. link \in Link
    BY <1>0 DEF Link
  <2>2. blank \in [1..MaxDepth -> Link]
    <3> HIDE DEF link
    <3> QED
      BY <2>1
  <2>3. s \in Search /\ s.ret = FALSE /\ s.cache = m_not_modified
    <3> HIDE DEF blank
    <3> QED
      BY <1>2, <2>2 DEF Search
  <2> HIDE DEF s
  <2>4. Ready(s, 0, row)
    BY <1>2, <1>4, <2>3 DEF Ready
  <2>5. Sound(check_row[0], 0) /\ Complete(check_row[0], 0)
    BY <1>0, <1>2, CheckRowRight
  <2>6. found \in Search /\ CacheOk(found.cache) /\ Found(found, 0, row)
    BY <1>0, <2>3, <2>4, <2>5 DEF Sound
  <2>7. found.ret => row \in Affected[MaxDepth - 1]
    BY <1>0, <2>6 DEF Found
  <2>8. ASSUME row \in Affected[MaxDepth - 1], ~found.ret PROVE FALSE
    <3>1. PICK n \in 0..MaxDepth - 1 : Exact(row, n)
      BY <1>0, <2>8, ExactExists
    <3>2. 0 \in 0..0 /\ Away(s, 0, 0, n)
      BY DEF Away
    <3>3. Flagged(found, 0, 0, n)
      BY <1>0, <2>3, <2>4, <2>5, <2>8, <3>1, <3>2 DEF Complete
    <3> QED
      BY <1>0, <3>3 DEF Flagged
  <2>9. found.ret \in BOOLEAN /\ found.cache \in SUBSET Rows
    BY <2>6 DEF Search
  <2> HIDE DEF found
  <2> QED
    BY <1>0, <1>1, <1>4, <2>6, <2>7, <2>8, <2>9, Zenon
<1> QED
  BY <1>3, <1>4

\* The rows that lead to a modified one stay the same.
LEMMA AffectedStays ==
    ASSUME links' = links, modified' = modified
    PROVE  Affected' = Affected
BY DEF Affected, LinksTo

\* and after every answer.
LEMMA DeepNextIInv == DeepIInv /\ [DeepNext]_deepVars => DeepIInv'
<1> SUFFICES ASSUME DeepIInv, [DeepNext]_deepVars PROVE DeepIInv'
  OBVIOUS
<1>1. CASE DeepNext
  <2>1. PICK row \in Linking : Ask(row)
    BY <1>1 DEF DeepNext
  <2>2. /\ links' = links /\ modified' = modified /\ asked' = row /\ row \in Rows
        /\ m_not_modified' \in SUBSET Rows /\ CacheOk(m_not_modified')
        /\ answer' \in BOOLEAN
        /\ answer' <=> row \in Affected[MaxDepth - 1]
    BY <2>1, AskIs
  <2>3. Affected' = Affected
    BY <2>2, AffectedStays
  <2>4. Graph'
    BY <2>2 DEF Graph, DeepIInv
  <2>5. CacheOk(m_not_modified)'
    BY <2>2, <2>3 DEF CacheOk
  <2>6. AnswersAreRight'
    BY <2>2, <2>3, Zenon DEF AnswersAreRight
  <2> QED
    BY <2>2, <2>4, <2>5, <2>6 DEF DeepIInv
<1>2. CASE UNCHANGED deepVars
  <2>1. /\ links' = links /\ modified' = modified /\ asked' = asked
        /\ m_not_modified' = m_not_modified /\ answer' = answer
    BY <1>2 DEF deepVars
  <2>2. Affected' = Affected
    BY <2>1, AffectedStays
  <2> QED
    BY <2>1, <2>2 DEF DeepIInv, Graph, CacheOk, AnswersAreRight
<1> QED
  BY <1>1, <1>2

\* The cache is right after any number of searches: no row that is remembered as
\* not modified leads to a modified one within the limit.
THEOREM CacheIsRight == DeepSpec => []DeepIInv
<1> QED
  BY DeepInitIInv, DeepNextIInv, PTL DEF DeepSpec

\* A row is told as modified if and only if it is, or leads to a modified row
\* within the limit (DeepChangeChecker::operator()), whatever was asked before,
\* for every graph of links and every limit.
THEOREM AnswersAreReachability == DeepSpec => []AnswersAreRight
<1>1. DeepIInv => AnswersAreRight
  BY DEF DeepIInv
<1> QED
  BY <1>1, CacheIsRight, PTL
=============================================================================

------------------------- MODULE SchemaCacheProofs --------------------------
(***************************************************************************)
(* Proofs about SchemaCache, for any number of handles, schemas and         *)
(* versions.                                                                *)
(*                                                                         *)
(* A handle knows its columns from the version it last looked at, tver      *)
(* (HandlesRight); a handle that is opened takes them from the cache, which *)
(* is right while nobody is between the commit and the clearing of an       *)
(* update (CacheRight), and there is at most one such handle (OneUpdate).   *)
(* The cache stays right because no call of the coordinator that is still   *)
(* to come spans a schema change, but for the one that an updating handle   *)
(* makes before it clears the cache (CallsRight).                           *)
(***************************************************************************)
EXTENDS SchemaCache, SequenceTheorems, WellFoundedInduction, TLAPS

InTransaction == {"Reading", "Writing"}
Updating == {"refreshed", "promote", "apply", "clear"}

Clearing == \E g \in Handles : realm[g].at = "clear"

PendingCalls == [op : {"none", "cache", "advance"}, schema : Schemas,
                 previous : 0..MaxVersion, next : 0..MaxVersion]

\* What a handle knows is the schema of the version it last looked at, and that
\* is the version of its transaction.  The writer is at the last version.
Knows(r, f) ==
    /\ r.stage # "closed" /\ r.at # "clear" /\ ~r.early
          => r.tver \in 1..Len(f) /\ r.cols = f[r.tver]
    /\ r.stage \in InTransaction => r.ver \in 1..Len(f) /\ r.tver = r.ver
    /\ r.stage = "Writing" => r.ver = Len(f)

\* Where a handle is in an update, and what it is to make of the schema.
Placed(r, f) ==
    /\ r.stage = "closed" => r.at = "idle"
    /\ r.at = "opened" => r.stage = "Ready"
    /\ r.at \in {"refreshed", "promote", "clear"} => r.stage = "Reading"
    /\ r.at = "apply" => r.stage = "Writing"
    /\ r.at \in Updating => r.locked
    /\ r.locked => ~r.early
    /\ r.at = "promote" => r.target > r.cols
    /\ r.at = "apply" => r.target > f[Len(f)]
    /\ r.at = "clear" => r.target = f[r.ver]

HandlesRight ==
    \A h \in Handles : Knows(realm[h], file) /\ Placed(realm[h], file)

\* RLMRealm's initLock.
Busy(r) == r.locked /\ r.at # "idle"

OneUpdate == \A g, h \in Handles : Busy(realm[g]) /\ Busy(realm[h]) => g = h

WriterRight == \A h \in Handles : realm[h].stage = "Writing" <=> writer = h

\* The schema is the same from version p to version v.
Same(f, p, v) == \A i \in p..v : f[i] = f[p]

\* A call that handle r is about to make spans no schema change, unless it is
\* the one that is made before the cache is cleared.
Fits(r, q, f) ==
    /\ q.op = "none" => q = NoCall
    /\ q.op = "cache" => q.next \in 1..Len(f) /\ q.schema = f[q.next]
    /\ q.op = "advance" /\ r.at # "clear" =>
          /\ q.previous \in 1..Len(f) /\ q.next \in q.previous..Len(f)
          /\ Same(f, q.previous, q.next)

CallsRight == \A h \in Handles : Fits(realm[h], pending[h], file)

\* The cached schema is the schema of its range of versions.
CacheRight ==
    ~aborted /\ ~Clearing /\ cache.schema # NoSchema =>
       /\ cache.min \in 1..latest /\ cache.max \in cache.min..latest
       /\ \A v \in cache.min..cache.max : file[v] = cache.schema

IInv ==
    /\ TypeOK /\ HandlesRight /\ OneUpdate /\ WriterRight /\ CallsRight
    /\ CacheRight
-----------------------------------------------------------------------------
(* The operators of the model *)

\* A schema that changes at no version from one to the next is the same
\* throughout.
LEMMA SameIs ==
    ASSUME NEW p \in Nat, NEW v \in Nat, ~SchemaChanged(p, v)
    PROVE  Same(file, p, v)
<1> DEFINE T == {i \in p..v : file[i] # file[p]}
<1> SUFFICES ASSUME T # {} PROVE FALSE
  BY DEF Same
<1>1. T \subseteq Nat
  OBVIOUS
<1>2. \E k \in T : \A m \in T : ~ (<<m, k>> \in OpToRel(<, Nat))
  BY <1>1, NatLessThanWellFounded, WFMin, Zenon
<1>3. PICK k \in T : \A m \in T : ~ (<<m, k>> \in OpToRel(<, Nat))
  BY <1>2
<1>4. \A m \in T : <<m, k>> \in Nat \X Nat
  BY <1>1
<1>5. \A m \in T : ~ (m < k)
  BY <1>3, <1>4, Zenon DEF OpToRel
<1>6. k \in p + 1 .. v /\ k - 1 \in p..v
  OBVIOUS
<1>7. k - 1 \notin T
  BY <1>5, <1>6
<1>8. file[k - 1] = file[p] /\ file[k] = file[k - 1]
  BY <1>6, <1>7 DEF SchemaChanged
<1> QED
  BY <1>8

\* The file has a schema at each of its versions.
LEMMA FileIs ==
    ASSUME TypeOK
    PROVE  /\ Len(file) \in 1..MaxVersion /\ latest = Len(file)
           /\ \A v \in 1..Len(file) : file[v] \in Schemas /\ v \in 0..MaxVersion
           /\ 0 \in Schemas /\ 0 \in 0..MaxVersion
<1>1. Len(file) \in 1..MaxVersion /\ latest = Len(file)
  BY DEF TypeOK, latest, Versions
<1>2. \A v \in 1..Len(file) : file[v] \in Schemas
  BY ElementOfSeq DEF TypeOK
<1>3. 0 \in Schemas /\ 0 \in 0..MaxVersion
  BY SchemaAssumption DEF Schemas
<1>4. \A v \in 1..Len(file) : v \in 0..MaxVersion
  BY <1>1, SchemaAssumption
<1> QED
  BY <1>1, <1>2, <1>3, <1>4

\* Reading the schema at version v reports it, unless v is where the handle
\* last looked.
LEMMA ReadIs ==
    ASSUME IInv, NEW h \in Handles, NEW r \in Handle, NEW v \in 1..latest,
           pending[h] = NoCall, ReadSchemaIfNeeded(h, r, v)
    PROVE  \E c \in Schemas, q \in PendingCalls :
              /\ realm' = [realm EXCEPT ![h] =
                              [r EXCEPT !.tver = v, !.cols = c]]
              /\ pending' = [pending EXCEPT ![h] = q]
              /\ c = file[v] \/ (r.tver = v /\ c = r.cols)
              /\ \A x : Fits(x, q, file)
<1>1. /\ file[v] \in Schemas /\ v \in 0..MaxVersion /\ v \in 1..Len(file)
      /\ 0 \in Schemas /\ 0 \in 0..MaxVersion
  BY FileIs DEF IInv
<1>2. CASE r.tver = v
  <2>1. r = [r EXCEPT !.tver = v, !.cols = r.cols]
    BY <1>2 DEF Handle
  <2>2. pending' = [pending EXCEPT ![h] = NoCall]
    BY <1>2 DEF ReadSchemaIfNeeded, IInv, TypeOK
  <2>3. NoCall \in PendingCalls /\ \A x : Fits(x, NoCall, file)
    BY <1>1 DEF NoCall, PendingCalls, Fits
  <2>4. r.cols \in Schemas
    BY DEF Handle
  <2> QED
    BY <1>2, <2>1, <2>2, <2>3, <2>4 DEF ReadSchemaIfNeeded
<1>3. CASE r.tver # v
  <2> DEFINE q == [op |-> "cache", schema |-> file[v], previous |-> 0,
                   next |-> v]
  <2>1. q \in PendingCalls /\ \A x : Fits(x, q, file)
    BY <1>1 DEF PendingCalls, Fits
  <2> QED
    BY <1>1, <1>3, <2>1 DEF ReadSchemaIfNeeded, CallCache
<1> QED
  BY <1>2, <1>3

\* What becomes of handle r in going to version v: the schema it has then, and
\* the call it is about to make.
Moves(h, r, v, c, q) ==
    /\ realm' = [realm EXCEPT ![h] =
                    [r EXCEPT !.ver = v, !.tver = v, !.cols = c]]
    /\ pending' = [pending EXCEPT ![h] = q]
    /\ SchemaChanged(realm[h].ver, v) => c = file[v]
    /\ ~SchemaChanged(realm[h].ver, v) => c = r.cols
    /\ realm[h].cols = file[realm[h].ver] => c = file[v]
    /\ \A x : Fits(x, q, file)

\* Going from one version to a later one reports the schema when it changed,
\* and a longer range for the old one when it did not.
LEMMA AdvanceIs ==
    ASSUME IInv, NEW h \in Handles, NEW r \in Handle, r.cols = realm[h].cols,
           realm[h].stage \in InTransaction, NEW v \in realm[h].ver..latest,
           AdvanceTo(h, r, v)
    PROVE  \E c \in Schemas, q \in PendingCalls : Moves(h, r, v, c, q)
<1> USE DEF Moves
<1>1. realm[h].ver \in 1..latest /\ realm[h].tver = realm[h].ver
  BY DEF IInv, HandlesRight, Knows, latest
<1>2. /\ v \in 1..latest /\ v \in 0..MaxVersion /\ file[v] \in Schemas
      /\ realm[h].ver \in 0..MaxVersion /\ 0 \in 0..MaxVersion
      /\ 0 \in Schemas /\ latest = Len(file)
  BY <1>1, FileIs DEF IInv
<1>3. CASE SchemaChanged(realm[h].ver, v)
  <2> DEFINE q == [op |-> "cache", schema |-> file[v], previous |-> 0,
                   next |-> v]
  <2>1. q \in PendingCalls /\ \A x : Fits(x, q, file)
    BY <1>2 DEF PendingCalls, Fits
  <2> QED
    BY <1>2, <1>3, <2>1 DEF AdvanceTo, CallCache
<1>4. CASE ~SchemaChanged(realm[h].ver, v)
  <2> DEFINE q == [op |-> "advance", schema |-> 0, previous |-> realm[h].ver,
                   next |-> v]
  <2>1. Same(file, realm[h].ver, v)
    BY <1>1, <1>2, <1>4, SameIs
  <2>2. q \in PendingCalls /\ \A x : Fits(x, q, file)
    BY <1>1, <1>2, <2>1 DEF PendingCalls, Fits
  <2>3. r.cols \in Schemas
    BY DEF Handle
  <2>4. [r EXCEPT !.ver = v, !.tver = v]
           = [r EXCEPT !.ver = v, !.tver = v, !.cols = r.cols]
    BY DEF Handle
  <2>5. realm[h].cols = file[realm[h].ver] => r.cols = file[v]
    BY <1>1, <1>2, <2>1 DEF Same
  <2>6. /\ realm' = [realm EXCEPT ![h] = [r EXCEPT !.ver = v, !.tver = v]]
        /\ pending' = [pending EXCEPT ![h] = q]
    BY <1>1, <1>4 DEF AdvanceTo, CallAdvance
  <2> HIDE DEF q
  <2> QED
    BY <1>4, <2>2, <2>3, <2>4, <2>5, <2>6
<1> QED
  BY <1>3, <1>4
-----------------------------------------------------------------------------
(* The inductive invariant *)

\* Nobody has opened the file, and nothing is cached.
LEMMA InitIInv == Init => IInv
<1> SUFFICES ASSUME Init PROVE IInv
  OBVIOUS
<1> USE SchemaAssumption DEF Init
<1>1. PICK s \in Schemas : file = <<s>>
  OBVIOUS
<1>2. file \in Seq(Schemas) /\ Len(file) = 1
  BY <1>1
<1>3. Closed \in Handle /\ NoCall \in PendingCalls
  BY DEF Closed, NoCall, Handle, PendingCalls, Schemas, Unknown
<1>4. TypeOK
  <2>1. aborted \in BOOLEAN
    BY Zenon
  <2> QED
    BY <1>2, <1>3, <2>1
    DEF TypeOK, latest, Versions, PendingCalls, NoSchema, Schemas
<1>5. HandlesRight /\ OneUpdate
  BY DEF HandlesRight, OneUpdate, Busy, Knows, Placed, Closed, InTransaction,
         Updating
<1>6. WriterRight
  BY DEF WriterRight, Closed
<1>7. CallsRight /\ CacheRight
  BY DEF CallsRight, Fits, NoCall, CacheRight
<1> QED
  BY <1>4, <1>5, <1>6, <1>7 DEF IInv

\* The file as it was, or with one more version.
Grows == \E s \in Schemas : file' \in {file, Append(file, s)}

\* Versions that exist keep their schema.
LEMMA GrowsIs ==
    ASSUME TypeOK, Grows
    PROVE  /\ file' \in Seq(Schemas)
           /\ Len(file) \in Nat \ {0} /\ Len(file') \in Len(file)..Len(file) + 1
           /\ Len(file') = Len(file) => file' = file
           /\ \A v \in 1..Len(file) : file'[v] = file[v]
<1>1. file \in Seq(Schemas) /\ Len(file) \in Nat \ {0}
  BY FileIs, SchemaAssumption DEF TypeOK
<1>2. CASE file' = file
  BY <1>1, <1>2
<1>3. ASSUME NEW s \in Schemas, file' = Append(file, s)
      PROVE  /\ file' \in Seq(Schemas) /\ Len(file') = Len(file) + 1
             /\ \A v \in 1..Len(file) : file'[v] = file[v]
  BY <1>1, <1>3, AppendProperties
<1> QED
  BY <1>1, <1>2, <1>3 DEF Grows

\* A new version changes nothing about the others.
LEMMA SameGrows ==
    ASSUME TypeOK, Grows, NEW p \in 1..Len(file), NEW v \in p..Len(file),
           Same(file, p, v)
    PROVE  Same(file', p, v)
<1>1. \A i \in p..v : i \in 1..Len(file)
  BY GrowsIs
<1> QED
  BY <1>1, GrowsIs DEF Same

\* A handle that takes no part in a step goes on as it was.
LEMMA OthersKeep ==
    ASSUME IInv, Grows, NEW g \in Handles,
           realm'[g] = realm[g], pending'[g] = pending[g],
           file' = file \/ realm[g].stage # "Writing"
    PROVE  /\ Knows(realm[g], file') /\ Placed(realm[g], file')
           /\ Fits(realm[g], pending[g], file')
<1>1. /\ Knows(realm[g], file) /\ Placed(realm[g], file)
      /\ Fits(realm[g], pending[g], file)
  BY DEF IInv, HandlesRight, CallsRight
<1>2. Len(file) \in Nat /\ Len(file') \in Nat /\ Len(file) <= Len(file')
      /\ \A v \in 1..Len(file) : v \in 1..Len(file') /\ file'[v] = file[v]
  BY GrowsIs DEF IInv
<1>3. Knows(realm[g], file')
  BY <1>1, <1>2 DEF Knows, InTransaction
<1>4. Placed(realm[g], file')
  BY <1>1, <1>2 DEF Placed, Knows, InTransaction
<1>5. Fits(realm[g], pending[g], file')
  <2>1. pending[g].op = "cache" =>
           /\ pending[g].next \in 1..Len(file')
           /\ pending[g].schema = file'[pending[g].next]
    BY <1>1, <1>2 DEF Fits
  <2>2. ASSUME pending[g].op = "advance", realm[g].at # "clear"
        PROVE  /\ pending[g].previous \in 1..Len(file')
               /\ pending[g].next \in pending[g].previous..Len(file')
               /\ Same(file', pending[g].previous, pending[g].next)
    <3>1. /\ pending[g].previous \in 1..Len(file)
          /\ pending[g].next \in pending[g].previous..Len(file)
          /\ Same(file, pending[g].previous, pending[g].next)
      BY <1>1, <2>2 DEF Fits
    <3> QED
      BY <1>2, <3>1, SameGrows DEF IInv
  <2>3. pending[g].op = "none" => pending[g] = NoCall
    BY <1>1 DEF Fits
  <2> QED
    BY <2>1, <2>2, <2>3 DEF Fits
<1> QED
  BY <1>3, <1>4, <1>5

\* The cache stays right when it is left alone, and when nobody clears who did
\* not before.
LEMMA CacheKeeps ==
    ASSUME IInv, Grows, cache' = cache, aborted' = aborted,
           Clearing => Clearing'
    PROVE  CacheRight'
<1> SUFFICES ASSUME ~aborted, ~Clearing, cache.schema # NoSchema
             PROVE  /\ cache.min \in 1..Len(file')
                    /\ cache.max \in cache.min..Len(file')
                    /\ \A v \in cache.min..cache.max : file'[v] = cache.schema
  BY DEF CacheRight, latest
<1>1. /\ cache.min \in 1..Len(file) /\ cache.max \in cache.min..Len(file)
      /\ \A v \in cache.min..cache.max : file[v] = cache.schema
  BY DEF IInv, CacheRight, latest
<1> QED
  BY <1>1, GrowsIs DEF IInv

\* A step of one handle, which leaves the coordinator alone, keeps the invariant
\* when what it leaves of the handle and of the call to come is right.
LEMMA StepKeeps ==
    ASSUME IInv, Grows, Len(file') \in Versions,
           NEW h \in Handles, NEW r \in Handle, NEW q \in PendingCalls,
           realm' = [realm EXCEPT ![h] = r],
           pending' = [pending EXCEPT ![h] = q],
           file' = file \/ realm[h].stage = "Writing",
           Knows(r, file'), Placed(r, file'), Fits(r, q, file'),
           writer' \in Handles \cup {NoHandle},
           r.stage = "Writing" <=> writer' = h,
           \A g \in Handles \ {h} : writer' = g <=> writer = g,
           Busy(r) => Busy(realm[h])
                      \/ \A g \in Handles : ~Busy(realm[g]),
           realm[h].at # "clear",
           cache' = cache, aborted' = aborted
    PROVE  IInv'
<1>1. /\ realm'[h] = r /\ pending'[h] = q
      /\ \A g \in Handles \ {h} :
            realm'[g] = realm[g] /\ pending'[g] = pending[g]
      /\ realm' \in [Handles -> Handle]
      /\ pending' \in [Handles -> PendingCalls]
  BY DEF IInv, TypeOK, PendingCalls
<1>2. \A g \in Handles \ {h} : file' = file \/ realm[g].stage # "Writing"
  BY DEF IInv, WriterRight
<1>3. TypeOK'
  BY <1>1, GrowsIs DEF IInv, TypeOK, PendingCalls, latest
<1>4. HandlesRight' /\ CallsRight'
  <2>1. \A g \in Handles \ {h} :
           /\ Knows(realm'[g], file') /\ Placed(realm'[g], file')
           /\ Fits(realm'[g], pending'[g], file')
    BY <1>1, <1>2, OthersKeep
  <2> QED
    BY <1>1, <2>1 DEF HandlesRight, CallsRight
<1>5. OneUpdate'
  BY <1>1 DEF IInv, OneUpdate
<1>6. WriterRight'
  BY <1>1 DEF IInv, WriterRight
<1>7. CacheRight'
  <2>1. Clearing => Clearing'
    BY <1>1 DEF Clearing
  <2> QED
    BY <2>1, CacheKeeps
<1> QED
  BY <1>3, <1>4, <1>5, <1>6, <1>7 DEF IInv

\* The same for a step that writes no version and makes no call.
LEMMA QuietStepKeeps ==
    ASSUME IInv, NEW h \in Handles, NEW r \in Handle,
           realm' = [realm EXCEPT ![h] = r],
           UNCHANGED <<file, cache, aborted, pending>>, pending[h] = NoCall,
           Knows(r, file), Placed(r, file),
           writer' \in Handles \cup {NoHandle},
           r.stage = "Writing" <=> writer' = h,
           \A g \in Handles \ {h} : writer' = g <=> writer = g,
           Busy(r) => Busy(realm[h])
                      \/ \A g \in Handles : ~Busy(realm[g]),
           realm[h].at # "clear"
    PROVE  IInv'
<1>1. Grows /\ Len(file') \in Versions
  BY FileIs DEF Grows, IInv, TypeOK, latest
<1>2. /\ NoCall \in PendingCalls /\ Fits(r, NoCall, file)
      /\ pending' = [pending EXCEPT ![h] = NoCall]
  BY FileIs DEF NoCall, PendingCalls, Fits, IInv, TypeOK
<1> QED
  BY <1>1, <1>2, StepKeeps

\* A handle that is opened knows the last schema, from the cache or from the
\* file, or else it is opened while another handle is about to clear the cache;
\* initLock keeps the handles that may update from that.
LEMMA OpenKeeps ==
    ASSUME IInv, NEW h \in Handles, NEW locked \in BOOLEAN, Open(h, locked)
    PROVE  IInv'
<1>1. /\ ~aborted /\ realm[h].at = "idle" /\ pending[h] = NoCall
      /\ realm[h].stage = "closed"
      /\ locked => \A g \in Handles : ~Busy(realm[g])
      /\ UNCHANGED <<file, writer, cache, aborted>>
  BY DEF Open, Idle, Busy
<1>2. /\ writer' \in Handles \cup {NoHandle} /\ writer' # h
      /\ \A g \in Handles \ {h} : writer' = g <=> writer = g
  BY <1>1 DEF IInv, TypeOK, WriterRight
<1>3. locked => ~Clearing
  BY <1>1 DEF IInv, HandlesRight, Placed, Updating, Busy, Clearing
<1>4. ASSUME NEW r \in Handle,
             r.stage = "Ready", r.at = "opened", r.locked = locked,
             ~r.early => r.tver \in 1..latest /\ r.cols = file[r.tver],
             locked => ~r.early
      PROVE  /\ Knows(r, file) /\ Placed(r, file)
             /\ r.stage = "Writing" <=> writer' = h
             /\ Busy(r) => Busy(realm[h]) \/ \A g \in Handles : ~Busy(realm[g])
  <2>1. Knows(r, file) /\ Placed(r, file)
    BY <1>4 DEF Knows, Placed, InTransaction, Updating, latest
  <2> QED
    BY <1>1, <1>2, <1>4, <2>1 DEF Busy
<1>5. CASE /\ cache.schema # NoSchema
           /\ realm' = [realm EXCEPT ![h] =
                 [Closed EXCEPT !.stage = "Ready", !.at = "opened",
                    !.cols = cache.schema, !.tver = cache.max,
                    !.locked = locked,
                    !.early = \E g \in Handles : realm[g].at = "clear"]]
           /\ UNCHANGED pending
  <2> DEFINE early == \E g \in Handles : realm[g].at = "clear"
  <2>1. cache.schema \in Schemas /\ cache.max \in 0..MaxVersion
    BY <1>5 DEF IInv, TypeOK
  <2>2. early \in BOOLEAN
    BY Zenon
  <2>3. locked => ~early
    BY <1>3 DEF Clearing
  <2>4. ~early => cache.max \in 1..latest /\ cache.schema = file[cache.max]
    BY <1>1, <1>5, FileIs DEF IInv, CacheRight, Clearing
  <2> HIDE DEF early
  <2> DEFINE r == [Closed EXCEPT !.stage = "Ready", !.at = "opened",
                     !.cols = cache.schema, !.tver = cache.max,
                     !.locked = locked, !.early = early]
  <2>5. Closed \in Handle
    BY FileIs DEF Closed, Handle, Unknown, IInv
  <2>6. /\ r \in Handle /\ r.stage = "Ready" /\ r.at = "opened"
        /\ r.locked = locked /\ r.early = early
        /\ r.cols = cache.schema /\ r.tver = cache.max
    BY <2>1, <2>2, <2>5 DEF Handle
  <2>7. realm' = [realm EXCEPT ![h] = r]
    BY <1>5 DEF early
  <2> HIDE DEF r
  <2>8. /\ Knows(r, file) /\ Placed(r, file)
        /\ r.stage = "Writing" <=> writer' = h
        /\ Busy(r) => Busy(realm[h]) \/ \A g \in Handles : ~Busy(realm[g])
    BY <1>4, <2>3, <2>4, <2>6
  <2>9. pending' = pending /\ realm[h].at # "clear"
    BY <1>1, <1>5
  <2> QED
    BY <1>1, <1>2, <2>6, <2>7, <2>8, <2>9, QuietStepKeeps
<1>6. CASE /\ cache.schema = NoSchema
           /\ realm' = [realm EXCEPT ![h] =
                 [Closed EXCEPT !.stage = "Ready", !.at = "opened",
                    !.cols = file[latest], !.tver = latest, !.locked = locked]]
           /\ CallCache(h, file[latest], latest)
  <2> DEFINE r == [Closed EXCEPT !.stage = "Ready", !.at = "opened",
                     !.cols = file[latest], !.tver = latest, !.locked = locked]
             q == [op |-> "cache", schema |-> file[latest], previous |-> 0,
                   next |-> latest]
  <2>1. /\ file[latest] \in Schemas /\ latest \in 0..MaxVersion
        /\ latest \in 1..latest
    BY FileIs, SchemaAssumption DEF IInv
  <2>2. Closed \in Handle /\ ~Closed.early
    BY FileIs DEF Closed, Handle, Unknown, IInv
  <2>3. /\ r \in Handle /\ r.stage = "Ready" /\ r.at = "opened"
        /\ r.locked = locked /\ r.early = Closed.early
        /\ r.cols = file[latest] /\ r.tver = latest
    BY <2>1, <2>2 DEF Handle
  <2>4. q \in PendingCalls /\ Fits(r, q, file)
    BY <2>1, FileIs DEF IInv, PendingCalls, Fits
  <2>5. /\ realm' = [realm EXCEPT ![h] = r]
        /\ pending' = [pending EXCEPT ![h] = q]
    BY <1>6 DEF CallCache
  <2>6. Grows /\ Len(file') \in Versions /\ file' = file
    BY <1>1, FileIs DEF Grows, IInv, TypeOK, latest
  <2> HIDE DEF r, q
  <2>7. /\ Knows(r, file) /\ Placed(r, file)
        /\ r.stage = "Writing" <=> writer' = h
        /\ Busy(r) => Busy(realm[h]) \/ \A g \in Handles : ~Busy(realm[g])
    BY <1>4, <2>1, <2>2, <2>3
  <2>8. /\ Knows(r, file') /\ Placed(r, file') /\ Fits(r, q, file')
        /\ realm[h].at # "clear"
    BY <1>1, <2>4, <2>6, <2>7
  <2> QED
    BY <1>1, <1>2, <2>3, <2>4, <2>5, <2>6, <2>7, <2>8, StepKeeps
<1> QED
  BY <1>5, <1>6 DEF Open

\* What the invariant says of one handle.
LEMMA HandleIs ==
    ASSUME IInv, NEW h \in Handles
    PROVE  /\ realm[h] \in Handle /\ pending[h] \in PendingCalls
           /\ Knows(realm[h], file) /\ Placed(realm[h], file)
           /\ Fits(realm[h], pending[h], file)
           /\ realm[h].stage = "Writing" <=> writer = h
           /\ writer \in Handles \cup {NoHandle}
           /\ NoHandle # h
  BY SchemaAssumption
  DEF IInv, TypeOK, HandlesRight, CallsRight, WriterRight, PendingCalls

\* Keeping or setting the schema of a handle that was opened, closing it, giving
\* its snapshot up or its write transaction, all leave it as right as it was.
LEMMA SmallStepKeeps ==
    ASSUME IInv, NEW h \in Handles,
           KeepSchema(h) \/ set_schema_subset(h) \/ close(h) \/ invalidate(h)
              \/ cancel_transaction(h)
    PROVE  IInv'
<1> DEFINE o == realm[h]
<1>1. /\ o \in Handle /\ Knows(o, file) /\ Placed(o, file)
      /\ o.stage = "Writing" <=> writer = h
      /\ writer \in Handles \cup {NoHandle} /\ NoHandle # h
      /\ realm \in [Handles -> Handle]
  BY HandleIs DEF IInv, TypeOK
<1>2. /\ UNCHANGED <<file, pending, cache, aborted>> /\ pending[h] = NoCall
      /\ o.at \in {"opened", "idle"}
  BY DEF KeepSchema, set_schema_subset, close, invalidate, cancel_transaction,
         At, Idle
<1>3. ASSUME NEW r \in Handle, realm' = [realm EXCEPT ![h] = r],
             r.at = "idle", r.locked = o.locked, r.early = o.early,
             r.stage # "closed" =>
                o.stage # "closed" /\ r.tver = o.tver /\ r.cols = o.cols,
             r.stage \in InTransaction =>
                o.stage \in InTransaction /\ r.ver = o.ver,
             r.stage # "Writing",
             writer' = IF writer = h THEN NoHandle ELSE writer
      PROVE  IInv'
  <2>1. Knows(r, file)
    BY <1>1, <1>2, <1>3 DEF Knows, InTransaction
  <2>2. Placed(r, file)
    BY <1>1, <1>2, <1>3 DEF Placed, Updating
  <2>3. /\ writer' \in Handles \cup {NoHandle}
        /\ r.stage = "Writing" <=> writer' = h
        /\ \A g \in Handles \ {h} : writer' = g <=> writer = g
    BY <1>1, <1>3, SchemaAssumption
  <2>4. Busy(r) => Busy(realm[h]) \/ \A g \in Handles : ~Busy(realm[g])
    BY <1>3 DEF Busy
  <2> QED
    BY <1>2, <1>3, <2>1, <2>2, <2>3, <2>4, QuietStepKeeps
<1>4. ASSUME KeepSchema(h) PROVE IInv'
  <2>1. /\ realm' = [realm EXCEPT ![h] = [o EXCEPT !.at = "idle"]]
        /\ o.at = "opened" /\ writer' = writer
    BY <1>1, <1>4 DEF KeepSchema, At
  <2> DEFINE r == [o EXCEPT !.at = "idle"]
  <2>2. /\ r \in Handle /\ r.stage = o.stage /\ r.at = "idle" /\ r.ver = o.ver
        /\ r.tver = o.tver /\ r.cols = o.cols
        /\ r.locked = o.locked /\ r.early = o.early
    BY <1>1, <2>1 DEF Handle
  <2>3. realm' = [realm EXCEPT ![h] = r]
    BY <2>1
  <2>4. /\ writer' = IF writer = h THEN NoHandle ELSE writer
        /\ o.stage = "Ready"
    BY <1>1, <2>1 DEF Placed
  <2> HIDE DEF r, o
  <2> QED
    BY <1>3, <2>1, <2>2, <2>3, <2>4 DEF InTransaction
<1>5. ASSUME set_schema_subset(h) PROVE IInv'
  <2>1. /\ realm' = [realm EXCEPT ![h] =
                        [o EXCEPT !.at = "idle", !.dynamic = FALSE]]
        /\ o.at = "opened" /\ writer' = writer
    BY <1>1, <1>5 DEF set_schema_subset, At
  <2> DEFINE r == [o EXCEPT !.at = "idle", !.dynamic = FALSE]
  <2>2. /\ r \in Handle /\ r.stage = o.stage /\ r.at = "idle" /\ r.ver = o.ver
        /\ r.tver = o.tver /\ r.cols = o.cols
        /\ r.locked = o.locked /\ r.early = o.early
    BY <1>1, <2>1 DEF Handle
  <2>3. realm' = [realm EXCEPT ![h] = r]
    BY <2>1
  <2>4. /\ writer' = IF writer = h THEN NoHandle ELSE writer
        /\ o.stage = "Ready"
    BY <1>1, <2>1 DEF Placed
  <2> HIDE DEF r, o
  <2> QED
    BY <1>3, <2>1, <2>2, <2>3, <2>4 DEF InTransaction
<1>6. ASSUME close(h) PROVE IInv'
  <2>1. /\ realm' = [realm EXCEPT ![h] = Closed] /\ writer' = writer
        /\ o.stage \in {"Ready", "Reading"}
    BY <1>6 DEF close, Idle
  <2>2. /\ Closed \in Handle /\ Knows(Closed, file) /\ Placed(Closed, file)
        /\ Closed.stage = "closed" /\ ~Busy(Closed)
    BY FileIs
    DEF Closed, Handle, Unknown, IInv, Knows, Placed, Busy, InTransaction,
        Updating
  <2>3. /\ Closed.stage = "Writing" <=> writer' = h
        /\ \A g \in Handles \ {h} : writer' = g <=> writer = g
    BY <1>1, <2>1, <2>2
  <2> QED
    BY <1>1, <1>2, <2>1, <2>2, <2>3, QuietStepKeeps
<1>7. ASSUME invalidate(h) PROVE IInv'
  <2>1. /\ realm' = [realm EXCEPT ![h] =
                        [o EXCEPT !.stage = "Ready", !.ver = 0]]
        /\ o.stage = "Reading" /\ o.at = "idle" /\ writer' = writer
        /\ 0 \in 0..MaxVersion
    BY <1>1, <1>7, FileIs DEF invalidate, Idle, IInv
  <2> DEFINE r == [o EXCEPT !.stage = "Ready", !.ver = 0]
  <2>2. /\ r \in Handle /\ r.stage = "Ready" /\ r.at = "idle" /\ r.ver = 0
        /\ r.tver = o.tver /\ r.cols = o.cols
        /\ r.locked = o.locked /\ r.early = o.early
    BY <1>1, <2>1 DEF Handle
  <2>3. realm' = [realm EXCEPT ![h] = r]
    BY <2>1
  <2>4. /\ writer' = IF writer = h THEN NoHandle ELSE writer
        /\ o.stage = "Reading"
    BY <1>1, <2>1
  <2> HIDE DEF r, o
  <2> QED
    BY <1>3, <2>1, <2>2, <2>3, <2>4 DEF InTransaction
<1>8. ASSUME cancel_transaction(h) PROVE IInv'
  <2>1. /\ realm' = [realm EXCEPT ![h] = [o EXCEPT !.stage = "Reading"]]
        /\ o.stage = "Writing" /\ o.at = "idle" /\ writer' = NoHandle
        /\ writer = h
    BY <1>1, <1>8 DEF cancel_transaction, Idle
  <2> DEFINE r == [o EXCEPT !.stage = "Reading"]
  <2>2. /\ r \in Handle /\ r.stage = "Reading" /\ r.at = "idle" /\ r.ver = o.ver
        /\ r.tver = o.tver /\ r.cols = o.cols
        /\ r.locked = o.locked /\ r.early = o.early
    BY <1>1, <2>1 DEF Handle
  <2>3. realm' = [realm EXCEPT ![h] = r]
    BY <2>1
  <2>4. /\ writer' = IF writer = h THEN NoHandle ELSE writer
        /\ o.stage = "Writing"
    BY <1>1, <2>1
  <2> HIDE DEF r, o
  <2> QED
    BY <1>3, <2>1, <2>2, <2>3, <2>4 DEF InTransaction
<1> QED
  BY <1>4, <1>5, <1>6, <1>7, <1>8

\* A step that takes a handle to version v, and leaves it there with the schema
\* of that version, in no update or further in the one it is in.
LEMMA ArriveKeeps ==
    ASSUME IInv, NEW h \in Handles, NEW r \in Handle, NEW q \in PendingCalls,
           NEW v \in 1..latest,
           realm' = [realm EXCEPT ![h] = r],
           pending' = [pending EXCEPT ![h] = q],
           UNCHANGED <<file, cache, aborted>>,
           r.stage \in InTransaction, r.ver = v, r.tver = v,
           ~r.early => r.cols = file[v],
           r.locked = realm[h].locked, r.early = realm[h].early,
           \/ r.at = "idle"
           \/ r.at = "refreshed" /\ r.stage = "Reading" /\ Busy(realm[h])
           \/ r.at = "apply" /\ r.stage = "Writing" /\ Busy(realm[h])
              /\ r.target > file[v],
           r.stage = "Writing" =>
              v = latest /\ writer = NoHandle /\ writer' = h,
           r.stage = "Reading" =>
              realm[h].stage # "Writing" /\ writer' = writer,
           realm[h].at # "clear",
           Fits(r, q, file)
    PROVE  IInv'
<1>1. latest = Len(file) /\ Grows /\ Len(file') \in Versions
  BY FileIs DEF Grows, IInv, TypeOK, latest
<1>2. Knows(r, file)
  BY <1>1 DEF Knows
<1>3. Placed(r, file)
  <2>1. r.locked => ~r.early
    BY HandleIs DEF Placed
  <2>2. r.at \in Updating => r.locked
    BY DEF Busy, Updating
  <2> QED
    BY <1>1, <2>1, <2>2 DEF Placed, InTransaction
<1>4. /\ writer' \in Handles \cup {NoHandle}
      /\ r.stage = "Writing" <=> writer' = h
      /\ \A g \in Handles \ {h} : writer' = g <=> writer = g
  BY HandleIs, SchemaAssumption DEF InTransaction
<1>5. Busy(r) => Busy(realm[h]) \/ \A g \in Handles : ~Busy(realm[g])
  BY DEF Busy
<1> QED
  BY <1>1, <1>2, <1>3, <1>4, <1>5, StepKeeps

\* begin_read, and the refresh that update_schema begins with, read the schema
\* unless the handle knows it.
LEMMA ReadKeeps ==
    ASSUME IInv, NEW h \in Handles,
           \/ \E v \in 1..latest : begin_read(h, v)
           \/ \E s \in Schemas : update_schema(h, s)
    PROVE  IInv'
<1> DEFINE o == realm[h]
<1>1. o \in Handle /\ Knows(o, file) /\ Placed(o, file)
  BY HandleIs
<1>2. ASSUME NEW v \in 1..latest, begin_read(h, v)
      PROVE  IInv'
  <2>0. PICK r : r = [o EXCEPT !.stage = "Reading", !.ver = v]
    OBVIOUS
  <2>1. /\ o.stage = "Ready" /\ o.at = "idle" /\ pending[h] = NoCall
        /\ UNCHANGED <<file, writer, cache, aborted>>
        /\ ReadSchemaIfNeeded(h, r, v)
    BY <1>2, <2>0 DEF begin_read, Idle
  <2>2. v \in 0..MaxVersion
    BY FileIs DEF IInv
  <2>3. /\ r \in Handle /\ r.tver = o.tver /\ r.cols = o.cols
        /\ r.stage = "Reading" /\ r.at = "idle" /\ r.ver = v
        /\ r.locked = o.locked /\ r.early = o.early
    BY <1>1, <2>0, <2>1, <2>2 DEF Handle
  <2>4. PICK c \in Schemas, q \in PendingCalls :
           /\ realm' = [realm EXCEPT ![h] = [r EXCEPT !.tver = v, !.cols = c]]
           /\ pending' = [pending EXCEPT ![h] = q]
           /\ c = file[v] \/ (r.tver = v /\ c = r.cols)
           /\ \A x : Fits(x, q, file)
    <3>1. /\ ReadSchemaIfNeeded(h, r, v)
          /\ pending[h] = NoCall /\ r \in Handle /\ v \in 1..latest
      BY <2>1, <2>3
    <3> QED
      BY <3>1, ReadIs
  <2>5. ~o.early => c = file[v]
    BY <1>1, <2>1, <2>3, <2>4 DEF Knows
  <2> DEFINE n == [r EXCEPT !.tver = v, !.cols = c]
  <2>6. /\ n \in Handle /\ n.stage = "Reading" /\ n.at = "idle"
        /\ n.ver = v /\ n.tver = v /\ n.cols = c
        /\ n.locked = o.locked /\ n.early = o.early
    BY <2>2, <2>3 DEF Handle
  <2>7. realm' = [realm EXCEPT ![h] = n]
    BY <2>4
  <2> HIDE DEF n
  <2> QED
    BY <2>1, <2>4, <2>5, <2>6, <2>7, ArriveKeeps DEF InTransaction
<1>3. ASSUME NEW s \in Schemas, update_schema(h, s)
      PROVE  IInv'
  <2>0. PICK v, r : /\ v = latest
                    /\ r = [o EXCEPT !.at = "refreshed", !.target = s,
                                    !.stage = "Reading", !.ver = latest]
    OBVIOUS
  <2>1. /\ o.at = "opened" /\ o.stage = "Ready" /\ o.locked
        /\ pending[h] = NoCall
        /\ UNCHANGED <<file, writer, cache, aborted>>
        /\ ReadSchemaIfNeeded(h, r, v)
    BY <1>1, <1>3, <2>0 DEF update_schema, At, Placed
  <2>2. v \in 0..MaxVersion /\ v \in 1..latest
    BY <2>0, FileIs, SchemaAssumption DEF IInv
  <2>3. /\ r \in Handle /\ r.tver = o.tver /\ r.cols = o.cols
        /\ r.stage = "Reading" /\ r.at = "refreshed" /\ r.ver = v
        /\ r.locked = o.locked /\ r.early = o.early
    BY <1>1, <2>0, <2>1, <2>2 DEF Handle
  <2>4. PICK c \in Schemas, q \in PendingCalls :
           /\ realm' = [realm EXCEPT ![h] = [r EXCEPT !.tver = v, !.cols = c]]
           /\ pending' = [pending EXCEPT ![h] = q]
           /\ c = file[v] \/ (r.tver = v /\ c = r.cols)
           /\ \A x : Fits(x, q, file)
    <3>1. /\ ReadSchemaIfNeeded(h, r, v)
          /\ pending[h] = NoCall /\ r \in Handle /\ v \in 1..latest
      BY <2>1, <2>2, <2>3
    <3> QED
      BY <3>1, ReadIs
  <2>5. ~o.early => c = file[v]
    BY <1>1, <2>1, <2>3, <2>4 DEF Knows
  <2> DEFINE n == [r EXCEPT !.tver = v, !.cols = c]
  <2>6. /\ n \in Handle /\ n.stage = "Reading" /\ n.at = "refreshed"
        /\ n.ver = v /\ n.tver = v /\ n.cols = c
        /\ n.locked = o.locked /\ n.early = o.early
    BY <2>2, <2>3 DEF Handle
  <2>7. realm' = [realm EXCEPT ![h] = n]
    BY <2>4
  <2>8. Busy(o)
    BY <2>1 DEF Busy
  <2> HIDE DEF n
  <2> QED
    BY <2>1, <2>2, <2>4, <2>5, <2>6, <2>7, <2>8, ArriveKeeps DEF InTransaction
<1> QED
  BY <1>2, <1>3

\* A handle in a transaction goes to a later version.
LEMMA MoveKeeps ==
    ASSUME IInv, NEW h \in Handles, NEW r \in Handle,
           realm[h].stage \in InTransaction, NEW v \in realm[h].ver..latest,
           AdvanceTo(h, r, v), UNCHANGED <<file, cache, aborted>>,
           r.cols = realm[h].cols, r.stage \in InTransaction,
           r.locked = realm[h].locked, r.early = realm[h].early,
           \/ r.at = "idle"
           \/ /\ r.at = "apply" /\ r.stage = "Writing" /\ Busy(realm[h])
              /\ r.target > realm[h].cols
              /\ SchemaChanged(realm[h].ver, v) => r.target > file[v],
           r.stage = "Writing" =>
              v = latest /\ writer = NoHandle /\ writer' = h,
           r.stage = "Reading" =>
              realm[h].stage # "Writing" /\ writer' = writer,
           realm[h].at # "clear"
    PROVE  IInv'
<1> DEFINE o == realm[h]
<1>1. /\ o \in Handle /\ Knows(o, file) /\ Placed(o, file)
      /\ Busy(o) => ~o.early
  BY HandleIs DEF Placed, Busy
<1>2. PICK c \in Schemas, q \in PendingCalls : Moves(h, r, v, c, q)
  <2>1. /\ AdvanceTo(h, r, v) /\ r.cols = realm[h].cols
        /\ realm[h].stage \in InTransaction
    OBVIOUS
  <2> QED
    BY <2>1, AdvanceIs
<1>3. v \in 1..latest /\ v \in 0..MaxVersion /\ latest = Len(file)
  BY <1>1, FileIs DEF Knows, IInv
<1>4. ~o.early => o.cols = file[o.ver] /\ c = file[v]
  BY <1>1, <1>2 DEF Knows, InTransaction, Moves
<1> DEFINE n == [r EXCEPT !.ver = v, !.tver = v, !.cols = c]
<1>5. /\ n \in Handle /\ n.ver = v /\ n.tver = v /\ n.cols = c
      /\ n.stage = r.stage /\ n.at = r.at /\ n.target = r.target
      /\ n.locked = r.locked /\ n.early = r.early
  BY <1>3 DEF Handle
<1>6. realm' = [realm EXCEPT ![h] = n] /\ pending' = [pending EXCEPT ![h] = q]
  BY <1>2 DEF Moves
<1> HIDE DEF n
<1>7. \/ n.at = "idle"
      \/ n.at = "apply" /\ n.stage = "Writing" /\ Busy(realm[h])
         /\ n.target > file[v]
  BY <1>1, <1>2, <1>4, <1>5 DEF Moves
<1>8. Fits(n, q, file) /\ (~n.early => n.cols = file[v])
  BY <1>2, <1>4, <1>5 DEF Moves
<1> QED
  BY <1>3, <1>5, <1>6, <1>7, <1>8, ArriveKeeps

\* refresh and the beginning of a write transaction, whether the user or an
\* update begins it, keep the invariant.
LEMMA AdvanceKeeps ==
    ASSUME IInv, NEW h \in Handles,
           \/ \E v \in realm[h].ver .. latest : advance(h, v)
           \/ begin_transaction(h) \/ UpdateBegins(h)
    PROVE  IInv'
<1> DEFINE o == realm[h]
<1>1. /\ o \in Handle /\ Knows(o, file) /\ Placed(o, file)
      /\ o.stage = "Writing" <=> writer = h
      /\ writer \in Handles \cup {NoHandle} /\ NoHandle # h
  BY HandleIs
<1>2. o.stage \in InTransaction => latest \in o.ver..latest
  BY <1>1, FileIs DEF Knows, IInv
<1>3. ASSUME NEW v \in o.ver .. latest, advance(h, v)
      PROVE  IInv'
  <2>1. /\ o.stage = "Reading" /\ o.at = "idle" /\ writer' = writer
        /\ UNCHANGED <<file, cache, aborted>> /\ AdvanceTo(h, o, v)
    BY <1>3 DEF advance, Idle
  <2> QED
    BY <1>1, <2>1, MoveKeeps DEF InTransaction
<1>4. ASSUME begin_transaction(h)
      PROVE  IInv'
  <2>0. PICK r : r = [o EXCEPT !.stage = "Writing"]
    OBVIOUS
  <2>1. /\ o.stage = "Reading" /\ o.at = "idle" /\ writer = NoHandle
        /\ writer' = h
        /\ UNCHANGED <<file, cache, aborted>> /\ AdvanceTo(h, r, latest)
    BY <1>4, <2>0 DEF begin_transaction, Idle
  <2>2. /\ r \in Handle /\ r.stage = "Writing" /\ r.at = "idle"
        /\ r.cols = o.cols /\ r.locked = o.locked /\ r.early = o.early
    BY <1>1, <2>0, <2>1 DEF Handle
  <2> QED
    BY <1>1, <1>2, <2>1, <2>2, MoveKeeps DEF InTransaction
<1>5. ASSUME UpdateBegins(h)
      PROVE  IInv'
  <2>1. /\ o.at = "promote" /\ o.stage = "Reading" /\ writer = NoHandle
        /\ pending[h] = NoCall /\ UNCHANGED <<file, cache, aborted>>
        /\ o.target > o.cols /\ Busy(o)
    BY <1>1, <1>5 DEF UpdateBegins, At, Placed, Busy, Updating
  <2>2. CASE /\ SchemaChanged(realm[h].ver, latest)
             /\ realm[h].target = file[latest]
             /\ AdvanceTo(h, [realm[h] EXCEPT !.at = "idle", !.dynamic = FALSE,
                                              !.target = 0], latest)
             /\ UNCHANGED writer
    <3>0. PICK r : r = [o EXCEPT !.at = "idle", !.dynamic = FALSE, !.target = 0]
      OBVIOUS
    <3>1. AdvanceTo(h, r, latest) /\ writer' = writer
      BY <2>2, <3>0
    <3>2. /\ r \in Handle /\ r.stage = "Reading" /\ r.at = "idle"
          /\ r.cols = o.cols /\ r.locked = o.locked /\ r.early = o.early
      BY <1>1, <2>1, <3>0, FileIs DEF Handle, IInv
    <3> QED
      BY <1>1, <1>2, <2>1, <3>1, <3>2, MoveKeeps DEF InTransaction
  <2>3. CASE /\ SchemaChanged(realm[h].ver, latest)
             /\ realm[h].target < file[latest]
             /\ realm' = [realm EXCEPT ![h] = Closed]
             /\ UNCHANGED <<writer, pending>>
    <3>1. /\ Closed \in Handle /\ Knows(Closed, file) /\ Placed(Closed, file)
          /\ Closed.stage = "closed" /\ ~Busy(Closed)
      BY FileIs
      DEF Closed, Handle, Unknown, IInv, Knows, Placed, Busy, InTransaction,
          Updating
    <3>2. /\ Closed.stage = "Writing" <=> writer' = h
          /\ \A g \in Handles \ {h} : writer' = g <=> writer = g
      BY <1>1, <2>1, <2>3, <3>1
    <3> QED
      BY <1>1, <2>1, <2>3, <3>1, <3>2, QuietStepKeeps
  <2>4. CASE /\ SchemaChanged(realm[h].ver, latest)
                => realm[h].target > file[latest]
             /\ writer' = h
             /\ AdvanceTo(h, [realm[h] EXCEPT !.at = "apply",
                                              !.stage = "Writing"], latest)
    <3>0. PICK r : r = [o EXCEPT !.at = "apply", !.stage = "Writing"]
      OBVIOUS
    <3>1. AdvanceTo(h, r, latest) /\ writer' = h
      BY <2>4, <3>0
    <3>2. /\ r \in Handle /\ r.stage = "Writing" /\ r.at = "apply"
          /\ r.target = o.target
          /\ r.cols = o.cols /\ r.locked = o.locked /\ r.early = o.early
      BY <1>1, <2>1, <3>0 DEF Handle
    <3> QED
      BY <1>1, <1>2, <2>1, <2>4, <3>1, <3>2, MoveKeeps DEF InTransaction
  <2> QED
    BY <1>5, <2>2, <2>3, <2>4 DEF UpdateBegins
<1> QED
  BY <1>3, <1>4, <1>5

\* The comparison of the schemas sets the schema that the handle knows, refuses
\* an older one, or goes on with a newer one.
LEMMA CompareKeeps ==
    ASSUME IInv, NEW h \in Handles, UpdateCompares(h)
    PROVE  IInv'
<1> DEFINE o == realm[h]
<1>1. /\ o \in Handle /\ Knows(o, file) /\ Placed(o, file)
      /\ o.stage = "Writing" <=> writer = h
      /\ writer \in Handles \cup {NoHandle} /\ NoHandle # h
  BY HandleIs
<1>2. /\ o.at = "refreshed" /\ o.stage = "Reading" /\ o.locked
      /\ pending[h] = NoCall /\ Busy(o)
      /\ UNCHANGED <<file, writer, pending, cache, aborted>>
  BY <1>1 DEF UpdateCompares, At, Placed, Busy, Updating
<1>3. ASSUME NEW r \in Handle, realm' = [realm EXCEPT ![h] = r],
             r.stage # "Writing", Knows(r, file), Placed(r, file)
      PROVE  IInv'
  <2>1. r.stage = "Writing" <=> writer' = h
    BY <1>1, <1>2, <1>3
  <2>2. /\ \A g \in Handles \ {h} : writer' = g <=> writer = g
        /\ writer' \in Handles \cup {NoHandle} /\ realm[h].at # "clear"
    BY <1>1, <1>2
  <2> QED
    BY <1>2, <1>3, <2>1, <2>2, QuietStepKeeps
<1>4. CASE /\ realm[h].target = o.cols
           /\ realm' = [realm EXCEPT ![h].at = "idle", ![h].cols = o.cols,
                                     ![h].dynamic = FALSE, ![h].target = 0]
  <2> DEFINE r == [o EXCEPT !.at = "idle", !.cols = o.cols, !.dynamic = FALSE,
                            !.target = 0]
  <2>1. /\ r \in Handle /\ r.stage = "Reading" /\ r.at = "idle"
        /\ r.cols = o.cols /\ r.tver = o.tver /\ r.ver = o.ver
        /\ r.locked = o.locked /\ r.early = o.early
    BY <1>1, <1>2, FileIs DEF Handle, IInv
  <2>2. realm' = [realm EXCEPT ![h] = r]
    BY <1>4
  <2> HIDE DEF r
  <2>3. Knows(r, file)
    BY <1>1, <1>2, <2>1 DEF Knows, InTransaction
  <2>4. Placed(r, file)
    BY <1>1, <1>2, <2>1 DEF Placed, Updating
  <2> QED
    BY <1>3, <2>1, <2>2, <2>3, <2>4
<1>5. CASE realm' = [realm EXCEPT ![h] = Closed]
  <2>1. /\ Closed \in Handle /\ Knows(Closed, file) /\ Placed(Closed, file)
        /\ Closed.stage = "closed"
    BY FileIs
    DEF Closed, Handle, Unknown, IInv, Knows, Placed, InTransaction, Updating
  <2> QED
    BY <1>3, <1>5, <2>1
<1>6. CASE /\ realm[h].target > realm[h].cols
           /\ realm' = [realm EXCEPT ![h].at = "promote"]
  <2> DEFINE r == [o EXCEPT !.at = "promote"]
  <2>1. /\ r \in Handle /\ r.stage = "Reading" /\ r.at = "promote"
        /\ r.cols = o.cols /\ r.tver = o.tver /\ r.ver = o.ver
        /\ r.locked = o.locked /\ r.early = o.early /\ r.target > r.cols
    BY <1>1, <1>2, <1>6 DEF Handle
  <2>2. realm' = [realm EXCEPT ![h] = r]
    BY <1>6
  <2> HIDE DEF r
  <2>3. Knows(r, file)
    BY <1>1, <1>2, <2>1 DEF Knows, InTransaction
  <2>4. Placed(r, file)
    BY <1>1, <1>2, <2>1 DEF Placed
  <2> QED
    BY <1>3, <2>1, <2>2, <2>3, <2>4
<1> QED
  BY <1>4, <1>5, <1>6 DEF UpdateCompares, CompareSchema

\* The two commits: the transaction's, which leaves the schema as it was, and
\* the update's, which ends with the cache about to be cleared.
LEMMA CommitKeeps ==
    ASSUME IInv, NEW h \in Handles, commit_transaction(h) \/ UpdateCommits(h)
    PROVE  IInv'
<1> DEFINE o == realm[h]
           n == Len(file)
<1>1. /\ o \in Handle /\ Knows(o, file) /\ Placed(o, file)
      /\ o.stage = "Writing" <=> writer = h
      /\ writer \in Handles \cup {NoHandle} /\ NoHandle # h
  BY HandleIs
<1>2. /\ n \in 1..MaxVersion /\ latest = n /\ file \in Seq(Schemas)
      /\ file[n] \in Schemas /\ 0 \in Schemas
      /\ MaxVersion \in Nat
  BY FileIs, SchemaAssumption DEF IInv, TypeOK
<1>3. /\ o.stage = "Writing" /\ o.ver = n /\ o.tver = n
      /\ writer' = NoHandle /\ latest < MaxVersion /\ pending[h] = NoCall
      /\ UNCHANGED <<cache, aborted>>
      /\ o.at # "clear" /\ o.cols \in Schemas
  BY <1>1, <1>2
  DEF commit_transaction, UpdateCommits, Idle, At, Knows, Placed, InTransaction,
      Handle
<1>4. \A g \in Handles \ {h} : writer' = g <=> writer = g
  BY <1>1, <1>3, SchemaAssumption
<1>5. PICK s \in Schemas, at \in {"idle", "clear"} :
         /\ file' = Append(file, s)
         /\ at = "idle" => s = file[n]
         /\ at = "clear" => o.at = "apply" /\ s = o.target
         /\ realm' = [realm EXCEPT ![h] =
               [o EXCEPT !.at = at, !.stage = "Reading", !.ver = n + 1,
                         !.tver = n + 1]]
         /\ CallAdvance(h, o.tver, n + 1)
  <2>1. CASE commit_transaction(h)
    <3>1. /\ file' = Append(file, file[n])
          /\ realm' = [realm EXCEPT ![h] =
                [o EXCEPT !.at = "idle", !.stage = "Reading", !.ver = n + 1,
                          !.tver = n + 1]]
          /\ CallAdvance(h, o.tver, n + 1)
      <4>1. o = [o EXCEPT !.at = "idle"]
        BY <1>1, <2>1 DEF commit_transaction, Idle, Handle
      <4>2. realm' = [realm EXCEPT ![h] =
                [o EXCEPT !.stage = "Reading", !.ver = n + 1, !.tver = n + 1]]
        BY <1>2, <2>1 DEF commit_transaction
      <4>3. [o EXCEPT !.stage = "Reading", !.ver = n + 1, !.tver = n + 1]
              = [o EXCEPT !.at = "idle", !.stage = "Reading", !.ver = n + 1,
                          !.tver = n + 1]
        BY <1>1, <4>1 DEF Handle
      <4> QED
        BY <1>2, <2>1, <4>2, <4>3 DEF commit_transaction
    <3> QED
      BY <1>2, <3>1
  <2>2. CASE UpdateCommits(h)
    BY <1>1, <1>2, <2>2 DEF UpdateCommits, At, Handle
  <2> QED
    BY <2>1, <2>2
<1> DEFINE r == [o EXCEPT !.at = at, !.stage = "Reading", !.ver = n + 1,
                          !.tver = n + 1]
           q == [op |-> "advance", schema |-> 0, previous |-> n, next |-> n + 1]
<1>6. /\ realm' = [realm EXCEPT ![h] = r]
      /\ pending' = [pending EXCEPT ![h] = q]
  BY <1>3, <1>5 DEF CallAdvance
<1>7. /\ file' \in Seq(Schemas) /\ Len(file') = n + 1 /\ file'[n + 1] = s
      /\ file'[n] = file[n]
  BY <1>2, <1>5, AppendProperties
<1>8. Grows /\ Len(file') \in Versions
  BY <1>2, <1>3, <1>5, <1>7 DEF Grows, Versions
<1>9. /\ r \in Handle /\ r.at = at /\ r.stage = "Reading" /\ r.ver = n + 1
      /\ r.tver = n + 1 /\ r.cols = o.cols /\ r.target = o.target
      /\ r.locked = o.locked /\ r.early = o.early
  <2>1. n + 1 \in 0..MaxVersion
    BY <1>2, <1>3
  <2> HIDE DEF n
  <2> QED
    BY <1>1, <2>1 DEF Handle
<1>10. q \in PendingCalls
  BY <1>2, <1>3 DEF PendingCalls
<1> HIDE DEF r
<1>11. Knows(r, file')
  <2>1. ASSUME r.at # "clear", ~r.early
        PROVE  r.cols = file'[n + 1]
    BY <1>1, <1>3, <1>5, <1>7, <1>9, <2>1 DEF Knows
  <2> QED
    BY <1>2, <1>7, <1>9, <2>1 DEF Knows
<1>12. Placed(r, file')
  BY <1>1, <1>5, <1>7, <1>9 DEF Placed, Updating
<1>13. Fits(r, q, file')
  <2>1. ASSUME r.at # "clear"
        PROVE  Same(file', n, n + 1)
    BY <1>2, <1>5, <1>7, <1>9, <2>1 DEF Same
  <2> QED
    BY <1>2, <1>7, <2>1 DEF Fits
<1>14. Busy(r) => Busy(o)
  BY <1>5, <1>9 DEF Busy
<1>15. /\ writer' \in Handles \cup {NoHandle}
       /\ r.stage = "Writing" <=> writer' = h
  BY <1>1, <1>3, <1>9
<1> HIDE DEF q
<1> QED
  BY <1>3, <1>4, <1>6, <1>8, <1>9, <1>10, <1>11, <1>12, <1>13, <1>14, <1>15,
     StepKeeps

\* A commit of another process only adds a version.
LEMMA ExternalKeeps ==
    ASSUME IInv, NEW s \in Schemas, ExternalCommit(s)
    PROVE  IInv'
<1>1. /\ file' = Append(file, s) /\ writer = NoHandle /\ latest < MaxVersion
      /\ UNCHANGED <<writer, realm, pending, cache, aborted>>
  BY DEF ExternalCommit
<1>2. Grows
  BY <1>1 DEF Grows
<1>3. TypeOK'
  <2>1. file' \in Seq(Schemas) /\ Len(file') \in Versions
    BY <1>1, FileIs, AppendProperties, SchemaAssumption
    DEF IInv, TypeOK, Versions
  <2> QED
    BY <1>1, <2>1 DEF IInv, TypeOK, latest
<1>4. HandlesRight' /\ CallsRight'
  <2>1. ASSUME NEW g \in Handles
        PROVE  /\ Knows(realm[g], file') /\ Placed(realm[g], file')
               /\ Fits(realm[g], pending[g], file')
    BY <1>1, <1>2, HandleIs, OthersKeep
  <2> QED
    BY <1>1, <2>1 DEF HandlesRight, CallsRight
<1>5. OneUpdate' /\ WriterRight'
  BY <1>1 DEF IInv, OneUpdate, WriterRight
<1>6. CacheRight'
  BY <1>1, <1>2, CacheKeeps DEF Clearing
<1> QED
  BY <1>3, <1>4, <1>5, <1>6 DEF IInv

\* The coordinator's methods keep the cache right when the call is: the range of
\* advance_schema_cache overlaps the cached one, as its assertion says.
LEMMA CallKeeps ==
    ASSUME IInv, NEW h \in Handles, Call(h)
    PROVE  IInv'
<1> DEFINE q == pending[h]
<1>1. /\ ~aborted /\ q # NoCall /\ UNCHANGED <<file, writer, realm>>
      /\ pending' = [pending EXCEPT ![h] = NoCall]
      /\ q \in PendingCalls /\ q.op \in {"cache", "advance"}
  BY HandleIs DEF Call, Fits, PendingCalls
<1>2. /\ q.op = "cache" => cache' = cache_schema(q.schema, q.next)
      /\ q.op = "advance" =>
            cache' = advance_schema_cache(q.previous, q.next)
  BY <1>1 DEF Call
<1>3. Grows /\ Len(file) \in 1..MaxVersion /\ latest = Len(file)
  BY <1>1, FileIs DEF Grows, IInv
<1>4. /\ cache \in [schema : Schemas \cup {NoSchema},
                    min : 0..MaxVersion, max : 0..MaxVersion]
      /\ q.schema \in Schemas /\ q.previous \in 0..MaxVersion
      /\ q.next \in 0..MaxVersion
  BY <1>1 DEF IInv, TypeOK, PendingCalls
<1>5. aborted' \in BOOLEAN /\ (~aborted' => AssertionHolds(h))
  <2>1. aborted' = ~AssertionHolds(h)
    BY DEF Call
  <2> QED
    BY <2>1, Zenon
<1>6. TypeOK'
  <2>1. cache' \in [schema : Schemas \cup {NoSchema},
                    min : 0..MaxVersion, max : 0..MaxVersion]
    <3>1. CASE q.op = "cache"
      BY <1>2, <1>4, <3>1 DEF cache_schema
    <3>2. CASE q.op = "advance"
      BY <1>2, <1>4, <3>2 DEF advance_schema_cache
    <3> QED
      BY <1>1, <3>1, <3>2
  <2>2. NoCall \in PendingCalls
    BY FileIs DEF NoCall, PendingCalls, IInv
  <2>3. pending' \in [Handles -> PendingCalls]
    BY <1>1, <2>2 DEF IInv, TypeOK, PendingCalls
  <2> QED
    BY <1>1, <1>5, <2>1, <2>3 DEF IInv, TypeOK, PendingCalls, latest
<1>7. HandlesRight' /\ OneUpdate' /\ WriterRight'
  BY <1>1 DEF IInv, HandlesRight, OneUpdate, WriterRight
<1>8. CallsRight'
  <2>1. ASSUME NEW g \in Handles
        PROVE  Fits(realm[g], pending'[g], file)
    <3>1. CASE g = h
      BY <1>1, <3>1 DEF Fits, NoCall, IInv, TypeOK
    <3>2. CASE g # h
      BY <1>1, <3>2, HandleIs DEF IInv, TypeOK
    <3> QED
      BY <3>1, <3>2
  <2> QED
    BY <1>1, <2>1 DEF CallsRight
<1>9. CacheRight'
  <2> SUFFICES ASSUME ~aborted', ~Clearing, cache'.schema # NoSchema
               PROVE  /\ cache'.min \in 1..Len(file)
                      /\ cache'.max \in cache'.min..Len(file)
                      /\ \A v \in cache'.min..cache'.max :
                            file[v] = cache'.schema
    BY <1>1 DEF CacheRight, Clearing, latest
  <2>1. cache.schema # NoSchema =>
           /\ cache.min \in 1..Len(file) /\ cache.max \in cache.min..Len(file)
           /\ \A v \in cache.min..cache.max : file[v] = cache.schema
    BY <1>1 DEF IInv, CacheRight, latest
  <2>2. realm[h].at # "clear" /\ Fits(realm[h], q, file)
    BY HandleIs DEF Clearing
  <2>3. CASE cache' = cache
    BY <2>1, <2>3
  <2>4. CASE q.op = "cache" /\ cache' # cache
    <3>1. /\ cache' = [schema |-> q.schema, min |-> q.next, max |-> q.next]
          /\ q.next \in 1..Len(file) /\ file[q.next] = q.schema
      BY <1>2, <2>2, <2>4 DEF cache_schema, Fits
    <3> QED
      BY <1>3, <3>1
  <2>5. CASE q.op = "advance" /\ cache' # cache
    <3> DEFINE p == q.previous
               n == q.next
    <3>1. /\ cache.schema # NoSchema /\ n >= cache.min
          /\ cache' = [cache EXCEPT !.min = IF p < @ THEN p ELSE @,
                                    !.max = IF n > @ THEN n ELSE @]
      BY <1>2, <1>4, <2>5 DEF advance_schema_cache
    <3>2. p <= cache.max
      BY <1>5, <2>5, <3>1 DEF AssertionHolds
    <3>3. /\ p \in 1..Len(file) /\ n \in p..Len(file)
          /\ \A i \in p..n : file[i] = file[p]
      BY <2>2, <2>5 DEF Fits, Same
    <3> HIDE DEF p, n
    <3>4. /\ cache'.schema = cache.schema
          /\ cache'.min = IF p < cache.min THEN p ELSE cache.min
          /\ cache'.max = IF n > cache.max THEN n ELSE cache.max
      BY <1>4, <3>1
    <3> DEFINE m == IF p < cache.min THEN cache.min ELSE p
    <3>5. m \in p..n /\ m \in cache.min..cache.max
      BY <1>3, <2>1, <3>1, <3>2, <3>3
    <3>6. file[p] = cache.schema
      BY <2>1, <3>1, <3>3, <3>5
    <3>7. ASSUME NEW v \in cache'.min..cache'.max
          PROVE  file[v] = cache.schema
      <4>1. v \in p..n \/ v \in cache.min..cache.max
        BY <1>3, <2>1, <3>1, <3>2, <3>3, <3>4
      <4> QED
        BY <2>1, <3>1, <3>3, <3>6, <4>1
    <3> QED
      BY <1>3, <2>1, <3>1, <3>2, <3>3, <3>4, <3>7
  <2> QED
    BY <1>1, <2>3, <2>4, <2>5
<1> QED
  BY <1>6, <1>7, <1>8, <1>9 DEF IInv

\* Clearing the cache ends the update: what it held may be wrong by then.
LEMMA ClearKeeps ==
    ASSUME IInv, NEW h \in Handles, UpdateClears(h)
    PROVE  IInv'
<1> DEFINE o == realm[h]
           r == [o EXCEPT !.at = "idle", !.cols = o.target, !.dynamic = FALSE,
                          !.target = 0]
<1>1. /\ o \in Handle /\ Knows(o, file) /\ Placed(o, file)
      /\ o.stage = "Writing" <=> writer = h
      /\ o.at = "clear" /\ pending[h] = NoCall
      /\ UNCHANGED <<file, writer, pending, aborted>>
      /\ cache' = [cache EXCEPT !.schema = NoSchema]
      /\ realm' = [realm EXCEPT ![h] = r]
  BY HandleIs DEF UpdateClears, At, clear_schema_cache
<1>2. /\ r \in Handle /\ r.at = "idle" /\ r.stage = o.stage /\ r.cols = o.target
      /\ r.ver = o.ver /\ r.tver = o.tver /\ r.early = o.early
      /\ r.locked = o.locked
  BY <1>1, FileIs DEF IInv, Handle
<1>3. /\ realm'[h] = r /\ realm' \in [Handles -> Handle]
      /\ \A g \in Handles \ {h} : realm'[g] = realm[g]
  BY <1>1, <1>2 DEF IInv, TypeOK
<1> HIDE DEF r
<1>4. Knows(r, file)
  BY <1>1, <1>2 DEF Knows, Placed, InTransaction
<1>5. Placed(r, file)
  BY <1>1, <1>2 DEF Placed, Updating
<1>6. TypeOK'
  <2>1. cache' \in [schema : Schemas \cup {NoSchema},
                    min : 0..MaxVersion, max : 0..MaxVersion]
    BY <1>1 DEF IInv, TypeOK
  <2> QED
    BY <1>1, <1>3, <2>1 DEF IInv, TypeOK, latest
<1>7. HandlesRight'
  BY <1>1, <1>3, <1>4, <1>5 DEF IInv, HandlesRight
<1>8. CallsRight'
  <2>1. ASSUME NEW g \in Handles
        PROVE  Fits(realm'[g], pending[g], file)
    <3>1. CASE g = h
      BY <1>1, <3>1 DEF Fits, NoCall
    <3>2. CASE g # h
      BY <1>3, <3>2, HandleIs
    <3> QED
      BY <3>1, <3>2
  <2> QED
    BY <1>1, <2>1 DEF CallsRight
<1>9. OneUpdate' /\ WriterRight'
  BY <1>1, <1>2, <1>3 DEF IInv, OneUpdate, WriterRight, Busy
<1>10. CacheRight'
  <2>1. cache'.schema = NoSchema
    BY <1>1 DEF IInv, TypeOK
  <2> QED
    BY <2>1 DEF CacheRight
<1> QED
  BY <1>6, <1>7, <1>8, <1>9, <1>10 DEF IInv

\* Every step keeps the invariant.
LEMMA NextIInv == IInv /\ [Next]_vars => IInv'
<1> SUFFICES ASSUME IInv, [Next]_vars PROVE IInv'
  OBVIOUS
<1>1. ASSUME Next PROVE IInv'
  BY <1>1, ExternalKeeps, CallKeeps, OpenKeeps, SmallStepKeeps, ReadKeeps,
     AdvanceKeeps, CommitKeeps, CompareKeeps, ClearKeeps, Zenon DEF Next
<1>2. CASE UNCHANGED vars
  BY <1>2
  DEF vars, IInv, TypeOK, HandlesRight, OneUpdate, WriterRight, CallsRight,
      CacheRight, Clearing, latest
<1> QED
  BY <1>1, <1>2

\* The invariant holds however the handles' threads interleave.
THEOREM InvariantHolds == Spec => []IInv
<1> QED
  BY InitIInv, NextIInv, PTL DEF Spec

\* The variables have their types in every state: the range of the cache and
\* the versions of the handles are versions.
THEOREM TypeCorrect == Spec => []TypeOK
<1>1. IInv => TypeOK
  BY DEF IInv
<1> QED
  BY <1>1, InvariantHolds, PTL

\* A handle in a transaction uses the columns where the file has them, whether
\* it read the schema, took it from the cache or was told of a change.
THEOREM ColumnsAreRight == Spec => []ColumnsAreCurrent
<1>1. IInv => ColumnsAreCurrent
  <2> SUFFICES ASSUME IInv, NEW h \in Handles,
                      realm[h].stage \in {"Reading", "Writing"},
                      realm[h].at # "clear", ~realm[h].early
               PROVE  realm[h].cols = file[realm[h].ver]
    BY DEF ColumnsAreCurrent
  <2> QED
    BY HandleIs DEF Knows, InTransaction
<1> QED
  BY <1>1, InvariantHolds, PTL

\* No commit takes the schema of the file back: an update that has come as far
\* as its write transaction has a later schema than the file.
THEOREM SchemaOnlyAdvances == Spec => SchemaNeverGoesBack
<1>1. ASSUME IInv, [Next]_vars
      PROVE  [latest' > latest => file'[latest'] >= file[latest]]_vars
  <2> SUFFICES ASSUME Next, latest' > latest
               PROVE  file'[latest'] >= file[latest]
    BY <1>1
  <2>1. /\ latest = Len(file) /\ Len(file) \in Nat /\ file[latest] \in Nat
        /\ file \in Seq(Schemas) /\ latest \in 1..latest
    BY <1>1, FileIs, SchemaAssumption DEF IInv, TypeOK, Schemas
  <2>2. ASSUME file' = file PROVE FALSE
    BY <2>1, <2>2 DEF latest
  <2>3. ASSUME NEW s \in Schemas, file' = Append(file, s), s >= file[latest]
        PROVE  file'[latest'] >= file[latest]
    BY <2>1, <2>3, AppendProperties DEF latest
  <2>4. ASSUME NEW s \in Schemas, ExternalCommit(s)
        PROVE  file'[latest'] >= file[latest]
    BY <2>3, <2>4 DEF ExternalCommit
  <2>5. ASSUME NEW h \in Handles, commit_transaction(h)
        PROVE  file'[latest'] >= file[latest]
    <3>1. PICK s : s = file[latest]
      OBVIOUS
    <3>2. s \in Schemas /\ file' = Append(file, s) /\ s >= file[latest]
      BY <1>1, <2>1, <2>5, <3>1, FileIs DEF commit_transaction, IInv
    <3> QED
      BY <2>3, <3>2
  <2>6. ASSUME NEW h \in Handles, UpdateCommits(h)
        PROVE  file'[latest'] >= file[latest]
    <3>1. PICK s : s = realm[h].target
      OBVIOUS
    <3>2. s \in Schemas /\ file' = Append(file, s) /\ s > file[latest]
      BY <1>1, <2>1, <2>6, <3>1, HandleIs DEF UpdateCommits, At, Placed, Handle
    <3>3. s >= file[latest]
      BY <2>1, <3>2, SchemaAssumption DEF Schemas
    <3> QED
      BY <2>3, <3>2, <3>3
  <2> QED
    BY <2>2, <2>4, <2>5, <2>6
    DEF Next, Call, Open, KeepSchema, set_schema_subset, close, begin_read,
        invalidate, advance, begin_transaction, cancel_transaction,
        update_schema, UpdateCompares, UpdateBegins, UpdateClears
<1> QED
  BY <1>1, InvariantHolds, PTL DEF Spec, SchemaNeverGoesBack
=============================================================================

---------------------------- MODULE SchemaCache -----------------------------
(***************************************************************************)
(* How the handles of one file know its schema.  A handle keeps the schema  *)
(* it uses, with the positions of the columns in the file, and the version  *)
(* of the file it is good for; the coordinator keeps the last schema seen   *)
(* and the range of versions it applies to, so that a handle that is        *)
(* opened need not read it.                                                 *)
(*                                                                         *)
(* A schema is its schema version; 0 is the schema of a file that has none. *)
(* The file is the schema at each of its versions.  Every handle has a      *)
(* thread of its own.  A call of the coordinator takes m_schema_cache_mutex *)
(* and is a step of its own: the handle's thread carries it as pending.     *)
(* Versions and the write lock are the storage engine's, and so is the call *)
(* of the schema change handler when a transaction passes over a schema     *)
(* change.                                                                  *)
(***************************************************************************)
EXTENDS Integers, Sequences

CONSTANTS Handles,      \* instances of Realm
          NoHandle,     \* nobody holds the write lock
          OtherProcess, \* whether another process changes the schema
          MaxSchema,    \* bound: schemas
          MaxVersion    \* bound: versions of the file

ASSUME SchemaAssumption ==
    /\ NoHandle \notin Handles
    /\ OtherProcess \in BOOLEAN
    /\ MaxSchema \in Nat /\ MaxVersion \in Nat \ {0}

VARIABLES file,      \* the schema at each version
          writer,    \* the holder of the write lock
          realm,     \* the handles
          pending,   \* the call of the coordinator each is about to make
          cache,     \* the coordinator's fields
          aborted    \* an assertion has failed

vars == <<file, writer, realm, pending, cache, aborted>>

Schemas == 0..MaxSchema
Versions == 1..MaxVersion
NoSchema == -1
Unknown == 0      \* m_schema_transaction_version before it is first set

latest == Len(file)

\* The transaction's stage; the handle's place in an opening or an update; the
\* version it is at; m_schema, m_schema_transaction_version and
\* m_dynamic_schema; the schema it is to have; whether RLMRealm opened it, under
\* its initLock.  History: it was given a schema that was about to be cleared.
Handle ==
    [stage : {"closed", "Ready", "Reading", "Writing"},
     at : {"idle", "opened", "refreshed", "promote", "apply", "clear"},
     ver : 0..MaxVersion, cols : Schemas, tver : 0..MaxVersion,
     dynamic : BOOLEAN, target : Schemas, locked : BOOLEAN, early : BOOLEAN]

NoCall == [op |-> "none", schema |-> 0, previous |-> 0, next |-> 0]

Closed == [stage |-> "closed", at |-> "idle", ver |-> 0, cols |-> 0,
           tver |-> Unknown, dynamic |-> TRUE, target |-> 0,
           locked |-> FALSE, early |-> FALSE]

TypeOK ==
    /\ file \in Seq(Schemas) /\ latest \in Versions
    /\ writer \in Handles \cup {NoHandle}
    /\ realm \in [Handles -> Handle]
    /\ pending \in [Handles ->
          [op : {"none", "cache", "advance"}, schema : Schemas,
           previous : 0..MaxVersion, next : 0..MaxVersion]]
    /\ cache \in [schema : Schemas \cup {NoSchema},
                  min : 0..MaxVersion, max : 0..MaxVersion]
    /\ aborted \in BOOLEAN

Init ==
    /\ file \in {<<s>> : s \in Schemas} /\ writer = NoHandle
    /\ realm = [h \in Handles |-> Closed]
    /\ pending = [h \in Handles |-> NoCall]
    /\ cache = [schema |-> NoSchema, min |-> 0, max |-> 0]
    /\ aborted = FALSE

CallCache(h, s, v) ==
    pending' = [pending EXCEPT ![h] =
                   [op |-> "cache", schema |-> s, previous |-> 0, next |-> v]]

CallAdvance(h, p, v) ==
    pending' = [pending EXCEPT ![h] =
                   [op |-> "advance", schema |-> 0, previous |-> p, next |-> v]]

\* The handle's thread is not inside a call.
Idle(h) == ~aborted /\ realm[h].at = "idle" /\ pending[h] = NoCall

At(h, place) == ~aborted /\ realm[h].at = place /\ pending[h] = NoCall
-----------------------------------------------------------------------------
(* The coordinator *)

cache_schema(s, v) ==
    IF v < cache.max \/ s = 0 THEN cache
    ELSE [schema |-> s, min |-> v, max |-> v]

advance_schema_cache(p, v) ==
    IF cache.schema = NoSchema \/ v < cache.min THEN cache
    ELSE [cache EXCEPT !.min = IF p < @ THEN p ELSE @,
                       !.max = IF v > @ THEN v ELSE @]

\* Mutant of clear_schema_cache: the schema stays.
clear_schema_cacheNot == cache

clear_schema_cache == [cache EXCEPT !.schema = NoSchema]

\* What advance_schema_cache asserts of a call that is about to be made.
AssertionHolds(h) ==
    pending[h].op = "advance" /\ cache.schema # NoSchema
       => pending[h].previous <= cache.max

\* A pending call is made.
Call(h) ==
    /\ ~aborted /\ pending[h] # NoCall
    /\ aborted' = ~AssertionHolds(h)
    /\ cache' = CASE pending[h].op = "cache" ->
                        cache_schema(pending[h].schema, pending[h].next)
                  [] pending[h].op = "advance" ->
                        advance_schema_cache(pending[h].previous,
                                             pending[h].next)
    /\ pending' = [pending EXCEPT ![h] = NoCall]
    /\ UNCHANGED <<file, writer, realm>>
-----------------------------------------------------------------------------
(* The schema a handle uses *)

\* read_schema_from_group_if_needed, at version v.
ReadSchemaIfNeeded(h, r, v) ==
    IF r.tver = v
    THEN /\ realm' = [realm EXCEPT ![h] = r]
         /\ UNCHANGED pending
    ELSE /\ realm' = [realm EXCEPT ![h] =
                         [r EXCEPT !.tver = v, !.cols = file[v]]]
         /\ CallCache(h, file[v], v)

SchemaChanged(from, to) == \E v \in from + 1 .. to : file[v] # file[v - 1]

\* The handle moves to version v; the handler of a schema change reads the new
\* schema; and cache_new_schema reports what was found.
AdvanceTo(h, r, v) ==
    IF SchemaChanged(realm[h].ver, v)
    THEN /\ realm' = [realm EXCEPT ![h] =
                         [r EXCEPT !.ver = v, !.tver = v, !.cols = file[v]]]
         /\ CallCache(h, file[v], v)
    ELSE /\ realm' = [realm EXCEPT ![h] = [r EXCEPT !.ver = v, !.tver = v]]
         /\ CallAdvance(h, realm[h].tver, v)

\* The constructor, with and without a cached schema.  RLMRealm holds its
\* initLock from here until the handle has its schema; a handle made to resolve
\* a reference, or for an asynchronous opening, does not take that lock.
Open(h, locked) ==
    /\ Idle(h) /\ realm[h].stage = "closed"
    /\ locked => \A g \in Handles : realm[g].locked => realm[g].at = "idle"
    /\ \/ /\ cache.schema # NoSchema
          /\ realm' = [realm EXCEPT ![h] =
                [Closed EXCEPT !.stage = "Ready", !.at = "opened",
                   !.cols = cache.schema, !.tver = cache.max, !.locked = locked,
                   !.early = \E g \in Handles : realm[g].at = "clear"]]
          /\ UNCHANGED pending
       \/ /\ cache.schema = NoSchema
          /\ realm' = [realm EXCEPT ![h] =
                [Closed EXCEPT !.stage = "Ready", !.at = "opened",
                   !.cols = file[latest], !.tver = latest, !.locked = locked]]
          /\ CallCache(h, file[latest], latest)
    /\ UNCHANGED <<file, writer, cache, aborted>>

\* A handle that is opened dynamically keeps the schema it was given.
KeepSchema(h) ==
    /\ At(h, "opened") /\ ~realm[h].locked
    /\ realm' = [realm EXCEPT ![h].at = "idle"]
    /\ UNCHANGED <<file, writer, pending, cache, aborted>>

\* set_schema_subset, when the file is open on another thread: the schema is
\* that of the other handle, with the positions this one knows (set_schema).
set_schema_subset(h) ==
    /\ At(h, "opened") /\ realm[h].locked
    /\ \E g \in Handles : ~realm[g].dynamic
    /\ realm' = [realm EXCEPT ![h].at = "idle", ![h].dynamic = FALSE]
    /\ UNCHANGED <<file, writer, pending, cache, aborted>>

close(h) ==
    /\ Idle(h) /\ realm[h].stage \in {"Ready", "Reading"}
    /\ realm' = [realm EXCEPT ![h] = Closed]
    /\ UNCHANGED <<file, writer, pending, cache, aborted>>

\* begin_read, which read_group calls for the last version, and the resolving of
\* a reference for the version the reference was made at.
begin_read(h, v) ==
    /\ Idle(h) /\ realm[h].stage = "Ready" /\ (realm[h].locked => v = latest)
    /\ ReadSchemaIfNeeded(h, [realm[h] EXCEPT !.stage = "Reading",
                                              !.ver = v], v)
    /\ UNCHANGED <<file, writer, cache, aborted>>

invalidate(h) ==
    /\ Idle(h) /\ realm[h].stage = "Reading"
    /\ realm' = [realm EXCEPT ![h].stage = "Ready", ![h].ver = 0]
    /\ UNCHANGED <<file, writer, pending, cache, aborted>>

\* refresh and notify: to the last version, or to the version the notifiers
\* were handed over at.
advance(h, v) ==
    /\ Idle(h) /\ realm[h].stage = "Reading"
    /\ AdvanceTo(h, realm[h], v)
    /\ UNCHANGED <<file, writer, cache, aborted>>

begin_transaction(h) ==
    /\ Idle(h) /\ realm[h].stage = "Reading" /\ writer = NoHandle
    /\ writer' = h
    /\ AdvanceTo(h, [realm[h] EXCEPT !.stage = "Writing"], latest)
    /\ UNCHANGED <<file, cache, aborted>>

commit_transaction(h) ==
    /\ Idle(h) /\ realm[h].stage = "Writing" /\ latest < MaxVersion
    /\ writer' = NoHandle
    /\ file' = Append(file, file[latest])
    /\ realm' = [realm EXCEPT ![h].stage = "Reading", ![h].ver = latest + 1,
                              ![h].tver = latest + 1]
    /\ CallAdvance(h, realm[h].tver, latest + 1)
    /\ UNCHANGED <<cache, aborted>>

cancel_transaction(h) ==
    /\ Idle(h) /\ realm[h].stage = "Writing"
    /\ writer' = NoHandle
    /\ realm' = [realm EXCEPT ![h].stage = "Reading"]
    /\ UNCHANGED <<file, pending, cache, aborted>>
-----------------------------------------------------------------------------
(* update_schema *)

\* get_full_schema begins with a refresh.
update_schema(h, s) ==
    /\ At(h, "opened") /\ realm[h].locked /\ s > 0
    /\ ReadSchemaIfNeeded(h, [realm[h] EXCEPT !.at = "refreshed", !.target = s,
                                              !.stage = "Reading",
                                              !.ver = latest], latest)
    /\ UNCHANGED <<file, writer, cache, aborted>>

\* The schema is set (set_schema), an older one is refused and the handle is
\* released, or there is something to do.
CompareSchema(h, actual) ==
    \/ /\ realm[h].target = actual
       /\ realm' = [realm EXCEPT ![h].at = "idle", ![h].cols = actual,
                                 ![h].dynamic = FALSE, ![h].target = 0]
    \/ /\ realm[h].target < actual
       /\ realm' = [realm EXCEPT ![h] = Closed]

\* Mutant of UpdateCompares: an older schema is not refused.
UpdateComparesAny(h) ==
    /\ At(h, "refreshed")
    /\ \/ realm[h].target = realm[h].cols /\ CompareSchema(h, realm[h].cols)
       \/ /\ realm[h].target # realm[h].cols
          /\ realm' = [realm EXCEPT ![h].at = "promote"]
    /\ UNCHANGED <<file, writer, pending, cache, aborted>>

UpdateCompares(h) ==
    /\ At(h, "refreshed")
    /\ \/ CompareSchema(h, realm[h].cols)
       \/ /\ realm[h].target > realm[h].cols
          /\ realm' = [realm EXCEPT ![h].at = "promote"]
    /\ UNCHANGED <<file, writer, pending, cache, aborted>>

\* The write transaction may have passed over someone else's schema: then
\* there may be nothing left to do, and the transaction is cancelled.
UpdateBegins(h) ==
    /\ At(h, "promote") /\ writer = NoHandle
    /\ \/ /\ SchemaChanged(realm[h].ver, latest)
          /\ realm[h].target = file[latest]
          /\ AdvanceTo(h, [realm[h] EXCEPT !.at = "idle", !.dynamic = FALSE,
                                           !.target = 0], latest)
          /\ UNCHANGED writer
       \/ /\ SchemaChanged(realm[h].ver, latest)
          /\ realm[h].target < file[latest]
          /\ realm' = [realm EXCEPT ![h] = Closed]
          /\ UNCHANGED <<writer, pending>>
       \/ /\ SchemaChanged(realm[h].ver, latest)
             => realm[h].target > file[latest]
          /\ writer' = h
          /\ AdvanceTo(h, [realm[h] EXCEPT !.at = "apply",
                                           !.stage = "Writing"], latest)
    /\ UNCHANGED <<file, cache, aborted>>

\* apply_schema_changes and the commit, which reports the version as one more
\* with the cached schema.
UpdateCommits(h) ==
    /\ At(h, "apply") /\ latest < MaxVersion
    /\ file' = Append(file, realm[h].target)
    /\ writer' = NoHandle
    /\ realm' = [realm EXCEPT ![h].at = "clear", ![h].stage = "Reading",
                              ![h].ver = latest + 1, ![h].tver = latest + 1]
    /\ CallAdvance(h, realm[h].tver, latest + 1)
    /\ UNCHANGED <<cache, aborted>>

\* clear_schema_cache_and_set_schema_version comes last.
UpdateClears(h) ==
    /\ At(h, "clear")
    /\ realm' = [realm EXCEPT ![h].at = "idle", ![h].cols = realm[h].target,
                              ![h].dynamic = FALSE, ![h].target = 0]
    /\ cache' = clear_schema_cache
    /\ UNCHANGED <<file, writer, pending, aborted>>

\* Another process commits, and may have added to the schema.
ExternalCommit(s) ==
    /\ OtherProcess /\ ~aborted
    /\ writer = NoHandle /\ latest < MaxVersion
    /\ s >= file[latest]
    /\ file' = Append(file, s)
    /\ UNCHANGED <<writer, realm, pending, cache, aborted>>

Next ==
    \/ \E s \in Schemas : ExternalCommit(s)
    \/ \E h \in Handles :
          \/ Call(h)
          \/ \E locked \in BOOLEAN : Open(h, locked)
          \/ KeepSchema(h) \/ set_schema_subset(h) \/ close(h)
          \/ \E v \in 1..latest : begin_read(h, v)
          \/ invalidate(h)
          \/ \E v \in realm[h].ver .. latest : advance(h, v)
          \/ begin_transaction(h) \/ commit_transaction(h)
          \/ cancel_transaction(h)
          \/ \E s \in Schemas : update_schema(h, s)
          \/ UpdateCompares(h) \/ UpdateBegins(h) \/ UpdateCommits(h)
          \/ UpdateClears(h)

Spec == Init /\ [][Next]_vars
-----------------------------------------------------------------------------
(* Properties *)

\* A handle in a transaction uses the columns where the file has them: the
\* schema it keeps is the schema of the version it is at ("Ensure that m_schema
\* and m_schema_version match that of the current version of the file",
\* shared_realm.hpp), whether it was read, taken from the cache when the handle
\* was opened or replaced by the schema change handler.  The one exception is a
\* handle opened between the commit of another handle's update, which extends
\* the range of the old schema, and the clearing of the cache.
ColumnsAreCurrent ==
    \A h \in Handles :
       realm[h].stage \in {"Reading", "Writing"} /\ realm[h].at # "clear"
          /\ ~realm[h].early
          => realm[h].cols = file[realm[h].ver]

\* Schema versions never go back in the file: an update is refused when the
\* file already has a later schema (schema_change_needs_write_transaction).
SchemaNeverGoesBack ==
    [][latest' > latest => file'[latest'] >= file[latest]]_vars
=============================================================================

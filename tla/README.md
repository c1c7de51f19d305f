# A verification of seco

`seco` is an iOS application for the issues of bus routes. It fetches the
routes from a server, shows them in a list with a map, and lets the user write
one issue per route with a form; issues are stored on the device in a Realm
database and counted by the badge of the application's icon. This directory
models the application's own code (`seco/seco/`, Swift) and the parts of the
Realm object store that the repository holds as source
(`seco/Pods/Realm/Realm/ObjectStore`, C++) in TLA+. TLC checks the models on
small instances. TLAPS proves, for every instance, what the runs check of the
database layer, the form in both versions, start-up, the routes screen, and of the
object store's notifications, callbacks, deep change checker, schema cache and
the change sets of lists (section 4 has the exceptions).

Paths below are relative to `seco/seco/`, unless they begin with `Pods/` or
belong to the object store, whose directory is left out (`impl/...`,
`shared_realm.cpp`, `index_set.cpp`).

## 1. Inventory

| component | state it keeps | operations | what makes it correct |
|---|---|---|---|
| `DBManager` (DataLayer/DBManager) | a Realm handle, the thread it was opened on; the file | `create` (adds, or updates through `rename`), `getIssue`, `getIssues`, `reset`, `resetHandlerIfNecessary` | one issue per route; a saved issue is stored whole or not at all; safe from any thread |
| issue models (`Issue`, `IssueDB`, `IssueUI`) | none | conversions | nothing is lost on the way through database, domain and form |
| issue form (`FormView`, `IssuePresenterNew`) | the fields, the alert | edit, OK, Back | only well-filled issues are stored; a saved form closes |
| `MainFlowCoordinator` | the navigation stack | `start`, `presentIssue`, pop on dismissal | the right form is popped |
| `RoutesInteractor`, `DataManager` | none (the badge is the system's) | pass calls on; `create` sets the badge | the badge is the number of issues |
| start-up sequencer (`StartUpAppSequencer`, two `ConcurrentOperation`s) | state of each operation | `start`, `main`, the callback of the permission dialog | permission is settled before the list appears; start-up ends |
| routes screen (`RoutesVC`, `RoutesPresenter`, `RouteList`, `RouteMap`) | the list, the annotations, an alert | appear, select a row, a stop or an issue button | what is shown was announced by the server; the spinner goes away |
| `APIManager` | requests in flight | `getAllRoutes`, `getStop` | every response ends in exactly one completion |
| progress HUD (Pods/SVProgressHUD) | visibility, scheduled fade-outs | `show`, `dismiss` | see routes screen |
| UIKit issue form (`IssueVC` and `Issues/View`) | a copy of the issue in the controller and in the view, reused cells | edit, scroll, OK, Back | an entry reaches its field; what is saved is what was entered |
| handles (`Realm`, `shared_realm.cpp`) | a read or write transaction, a schema | open, close, `refresh`, `notify`, `begin_`, `commit_`, `cancel_transaction`, `invalidate`, `update_schema` | a handle's schema is that of its version |
| notification coordinator (`impl/realm_coordinator.cpp`) | new and running notifiers, two helper transactions, the skip version | `register_notifier`, `on_change`, `advance_to_ready`, `process_available_async`, `commit_write`, `promote_to_write` | every commit is told once, at the version the callback sees |
| a notifier's callbacks (`impl/collection_notifier.cpp`) | the callbacks, index and count of the loop over them | add, remove, suppress, deliver | no callback is missed, whoever is added or removed meanwhile |
| schema cache (coordinator and `Realm`) | a schema and a range of versions | `cache_schema`, `advance_schema_cache`, `clear_schema_cache_...` | the cached schema is right for its versions |
| change sets (`impl/collection_change_builder.cpp`, `impl/transact_log_handler.cpp`) | deletions, insertions, modifications, moves | one per instruction of a log, `merge`, `calculate` | old rows and changes give the new rows |
| index sets (`index_set.cpp`) | ranges in chunks | add, remove, shift, insert, erase, count | they are sets of numbers |
| deep change checker (`impl/collection_notifier.cpp`) | a path, rows known to be unmodified | `operator()` | a row is modified if one it leads to is |

How they interact: the list's presenter reads an issue through interactor,
`DataManager` and `DBManager` and posts a block to the main queue; the block
makes `RoutesVC` publish the issue; the coordinator subscribes and pushes a
form. OK on the form calls `create` down the same layers. `create` runs a write
transaction whose block calls `onComplete`: it sets the badge and posts the
block that dismisses the form, before the transaction is committed. Responses
of the server are completed on the main queue and post the presenter's block
there.

In the object store, three kinds of threads meet: those of the handles, the
worker that runs the notifiers, and commits of other processes that wake it. A
notifier is registered by its handle's thread, pinned at its version, caught up
and run by the worker, and handed over under a mutex; its handle's thread
packages what was handed over, advances to that version, and calls the
callbacks, which may call anything again.

What is hard here: nearly everything of the app runs on the main thread, yet in posted
blocks that interleave with the user's taps, with answers of the network in any
order and with each other; failures of Realm are caught and ignored; the
process may be killed between a block and its commit, while the file and the
badge survive. In the object store the worker runs without the mutex on
copies of lists that others change, and positions in a list or table are
translated through one change after another. `PROJECT.json` lists each such hazard at its line with the
properties that would notice it going wrong.

## 2. Modules

| module | models | lines up with the code as |
|---|---|---|
| `IssueData` | the fields of an issue and its conversions, the form's test | one operator per initialiser or function |
| `IssueStore` | the promise of the database layer: a durable map from routes to issues that changes by one save or one reset | an abstract specification |
| `DBManager` | `DBManager.swift` over Realm | one action per public operation, `Commit`/`CommitFails` for the end of `realm.write`, `Kill` and `Launch` for the process |
| `IssueFlow` | list button, coordinator, form, presenters, interactor and badge, composed with `DBManager` (which it extends) | one action per tap, per posted block and per end of a write |
| `StartUp` | the sequencer, its operations, dialog, scene and window | `main` and the posted block or callback of each operation |
| `RoutesScreen` | the routes screen with `APIManager` and the HUD | one action per tap, per step of a request, per posted block |
| `IssueVC` | the UIKit form with its reused cells | one action per event of UIKit or the user; `Fill` is what a cell is given |
| `RealmCoordinator` | handles, notifiers, the worker and the helpers' transactions | one action per public operation of `Realm` and per critical section of the worker |
| `NotifierCallbacks` | the callbacks of one notifier during deliveries | one action per critical section of the mutex |
| `SchemaCache` | the schema that handles of one file share | one action per operation of `Realm`, `update_schema` in its steps |
| `IndexSets` | what the operations of an index set mean, on plain sets | the reference that the modules on changes use |
| `IndexSet` | the same operations on ranges in chunks | one operator per function |
| `ChangeBuilder` | `CollectionChangeBuilder` | one operator per function |
| `ListChanges` | the log of a list, what observers of its owner are told | one action per instruction of the log |
| `TableChanges` | the log of a table | one action per instruction |
| `ChangeCalculation` | `CollectionChangeBuilder::calculate`, in table order and sorted | one operator per function |
| `ResultsChanges` | a query's results and their changes, over `TableChanges` | the worker's `run` and the delivery |
| `DeepChanges` | `DeepChangeChecker` | `check_row`, a function for each depth, and the loops over links |
| `...Proofs` | theorems about `IssueFlow` and the `DBManager` it extends, `StartUp`, `RoutesScreen`, `IssueVC`, `RealmCoordinator`, `SchemaCache`, `ListChanges` with the builder and the sets of indices it uses, and, in `CollectionNotifierProofs`, `NotifierCallbacks` and `DeepChanges` | |
| `MC...` | constants for TLC; `MCAlgorithms` joins `IndexSet` and `DeepChanges`, of which a behaviour is one | |

Abstractions. Texts are opaque, apart from the empty text and the ones that
match the form's e-mail pattern. A report is its length. A timestamp is a whole
number of seconds, negative before 1970; the code keeps a `Double` and converts
it without rounding, so only its sign matters. The routes of a response keep
their ends and stops; their other texts are only shown. A stop is a point that
may be missing and an id that may be missing.

`DBManager`. A call is two steps, the transaction's block and the commit,
because `onComplete` runs inside the block and a process may die in between.
Calls do not overlap: the app calls `DBManager` from the main queue
(responses of Alamofire are completed there too). The calling thread is
nevertheless a parameter, because the class is written for several. The old
handle stays in place when a new one cannot be opened, and using a handle on
another thread, unwrapping a nil handle, or beginning a write inside a
transaction ends the process, as Realm does. A failed commit may or may not
leave its transaction open: both are allowed.

`IssueFlow`. `DispatchQueue.main` is a sequence of blocks. Blocks and taps run
only between two calls of `DBManager` (`Idle`). `popViewController` does
nothing on the last controller. The permission to set a badge is taken as
granted. Three variables are history and influence nothing: `lost` (the last
write block was not committed), `crowd` (a second issue was asked for before
the first form appeared, which puts two forms on the stack), and in a form
`base`, `edited` and `saved`.

`StartUp`. `ConcurrentOperation` never sets `executing`; an operation is
finished when its block or callback says so. `requestAuthorization` answers at
once when the user answered in an earlier launch.

`RoutesScreen`. A request is served, then answered or failed; it may also fail
before the server sees it. A response has a status, a JSON body of some shape
and may or may not decode. The HUD posts its own work to the main queue and
hides in a further step, which a later `show` does not cancel. The operation
queue that the HUD uses and the dispatch queue are one sequence here. An
answer may hold no routes at all. `since` and `results` are history. The database
lookups that a response makes for every route are `RefreshList` of `IssueFlow`;
the form that covers the list is only the flag `covered` here.

`IssueVC`. The controller's issue and the view's are two variables; cells are
taken from a pool and filled for a row. Editing ends with the text the cell has
then. The form is compiled, but the coordinator excludes it with `#if false`.

`RealmCoordinator`. A version is a number, and what a notifier computes is the
set of commits it accounts for (`acc`, `todo`, `told`): which rows changed is
the business of the modules on changes. The worker's pass is a few steps,
because it releases the mutex while it runs; each step of a handle's thread is
what it does under the mutex or up to the next callback. `jumped` (the handle
went to the last version without its notifiers), `asked` and `dropped` are
history.

`NotifierCallbacks`. `for_each_callback` releases the mutex around every call,
so each turn of the loop is an action, and other threads add and remove in
between; so do callbacks. `miscounted` is history: it notes the two removals
that the count is not made for (section 6).

`SchemaCache`. A schema is a number that stands for the columns of its tables.
`update_schema` compares, begins its write, commits and clears the cache in
steps of its own. What a migration does to rows is left out.

The modules on changes know rows by numbers and positions from 0; a row's
modified columns are left out. `ChangesExplainList` and `ChangesTrackRows`
compare the change sets with the rows themselves, which the code does not keep.
`Everything` is the index that stands for the largest `size_t` when a table is
cleared.

## 3. What is checked

| run | distinct states | instance |
|---|---|---|
| `dbmanager` | 464 | two threads, two routes, three requests of which two fight for one route |
| `issue_flow` | 719 thousand | two routes, two forms or blocks alive, two posted blocks, two drafts |
| `startup` | 242 | the whole state space |
| `routes_screen` | 821 thousand | two requests in flight, work bounded by 3, a server that changes its answer twice, once to no routes |
| `issue_vc` | 2.8 million | one form, two text cells for the text rows, one posted block |
| `realm_coordinator` | 1.6 million | two handles with a notifier each, three versions |
| `realm_live` | 68 thousand | one handle, one notifier, three versions, with every fault |
| `callbacks` | 246 thousand | four callbacks, two commits |
| `schema_cache` | 1.1 million | two handles, three schemas, five versions, another process |
| `list_changes` | 1.0 million | a list of three that grows to five, four edits |
| `results_changes` | 244 thousand | a table of three that grows to four, three edits, sorted and unsorted |
| `algorithms` | 595 thousand | index sets below 10 in chunks of up to 4 ranges; graphs of four rows, depth 3 |

The database layer (`dbmanager`):
- `OneIssuePerRoute`: no file and no open transaction, one that a failed commit
  left open included, has two issues for a route.
- `CrashNeedsFault`: a caller on any thread crashes the process only after an
  open or a commit failed.
- `QueriesAreDurable`: without a failed commit, queries between calls answer
  what a restart would.
- `PendingWriteIsTheCall`: an open transaction is exactly the write its caller
  asked for.
- `ImplementsIssueStore`: refinement of the durable map.

The form (`issue_flow`):
- `BadgeCountsIssues`: the badge is the number of issues, or one more when the
  last transaction was not committed.
- `FormsAreFresh`: a form shows, and an issue on its way to a form is, what is
  stored for the route. It is not so after two quick taps or a failed commit;
  the property says both.
- `DismissHitsItsForm`, `SavedFormCloses`: a dismissal closes the form that
  asked for it, and comes. Again, not after two quick taps.
- `DismissMeansStored`: a dismissal that runs belongs to a stored issue.
- `ConfirmingChangesNothing`: OK on an untouched form writes the same issue
  back, except for one dated before 1970, which the form takes for undated.

Start-up (`startup`): `PermissionComesFirst`, `StartUpEnds`, and
`ListAppears`, which says which windows get the list. One that becomes key
after the sequence ended does not.

The routes screen (`routes_screen`):
- `SpinnerStops`: the HUD is never left behind. It may be hidden while a
  request is in flight, which is not claimed.
- `MapShowsOneRoute`: the map shows one announced route, each placed stop
  with its own id.
- `ListIsRecent`: of fetches that overlap, once one has succeeded the list is
  an answer given since the first of them was made, whatever arrives or fails
  afterwards, and a list on screen that is not being fetched has had a result.
  So the screen is left empty only by an answer without routes or when all of
  them failed; it then stays so, as errors are not presented and there is
  nothing to tap. The list may go back to the older of two answers; the
  property says how old that one can be.

The UIKit form (`issue_vc`):
- `RowsShowTheirField`: a cell on screen shows the field of the row it has.
- `LastEntryOrOriginal`: a field of the controller's issue is what was last
  entered for it or what the form was opened with.
- `SavedIsTheControllersCopy`: that copy is what a save stores.

Notifications (`realm_coordinator`, `realm_live`, `callbacks`):
- `WorkerAssertions`: the assertions the coordinator makes on its two helper
  transactions and the skip version, and that notifiers handed over agree on
  the version, hold until an open fails.
- `EveryCommitOnce`: a callback has heard, or is to hear, of every commit up to
  its notifier's version, and of none twice.
- `CallbacksSeeTheirVersion`: callbacks are called in a transaction whose
  commits they have by then heard of, all and no others.
- `OnlyAskedCommitsAreDropped`: changes that a callback is spared are those of
  commits that were made to spare it, of one after a failed commit, or of one
  whose write was begun in a callback before the spared one was handed over.
- `WaitsEnd`, `CommitsAreHeardOf`: nobody waits for the notifiers for ever, and
  every commit is heard of.
- `CountStaysInRange`, `PackagedIsDelivered`, `FlagTellsCallbacks`,
  `InitialCallComes`: no callback that was packaged is missed and none is looked
  for past the last, but for the two removals of section 6.

The schema cache (`schema_cache`): `ColumnsAreCurrent`, with the exception of a
handle opened in the window of section 6, and `SchemaNeverGoesBack`.

Changes (`list_changes`, `results_changes`, `algorithms`):
- `ChangesExplainList`: the changes of a log, and those merged from several,
  turn the old list into the new one; moves and modifications follow their rows.
- `OneMoveIsTold`: an observer of a log with at most one move is told of all
  that changed.
- `ChangesTrackRows`: every row of a table is found again through moves over,
  swaps, merges of rows and merges of logs.
- `ChangesGiveTheResults`, `ModifiedRowsReload`: the changes of a query turn
  the rows on screen into the new ones and reload exactly the modified ones.
- `CallsAreRight`: every operation of an index set, on every small set however
  it is spread over chunks, does what it does on a plain set.
- `AnswersAreRight`: the search along links answers what reachability below the
  limit does, whatever was asked before.

`DBManager`'s `TypeOK` is an invariant of its run. The type invariants of the
other modules are not among the listed properties: most of them are proved
(section 4), and they were checked in the same instances.

### Bounds

- Two routes: one that calls fight for and one that must stay untouched. Three
  requests make `create` add, update and update back.
- `MaxForms = 2` forms or blocks told apart: two is what it takes for a
  dismissal to meet the wrong form or for a form to become stale. `MaxQueue = 2`
  blocks when a user acts; a failing `rename` may add one.
- The two drafts lie on both sides of second 0, and one has the longest report
  that is accepted; the form of a route without an issue is rejected.
  `MaxNow = 2` lets the clock move between the tap and the form.
- `MaxNet = 2` overlapping requests, `MaxWork = 3` units of work (requests,
  posted blocks, fade-outs) when the user acts: enough for two requests to be
  answered in either order with a tap between.
- `MCStatuses` holds the last accepted status and the first refused one.

- `realm_coordinator`: three versions let a notifier be registered at one, run
  at a second and be delivered at a third, which is what the skip version is
  for; two handles let the worker serve one while the other comes or goes.
  Faults are in `realm_live`, whose one notifier they all meet.
- `callbacks`: `MaxToken = 4` is one callback that calls, one before it, one
  after it and one added meanwhile; two commits let a second package replace
  the first.
- `schema_cache`: three schemas, so that an update can be overtaken by another;
  five versions.
- `list_changes`: four edits over two logs reach a row that is inserted, moved,
  modified and deleted; `results_changes`: three edits on a table where a last
  row takes a place and is itself replaced.
- `algorithms`: `MaxSize = 4` is the chunk size of a debug build
  (`index_set.hpp:103`), and ten indices fill more than one chunk.

Deadlock is checked in `dbmanager`, `issue_flow`, `startup` and `algorithms`.
Elsewhere the system really may stop: on the routes screen after a first fetch
that fails (the screen is empty, the error is not presented and nothing can be
tapped), in the UIKit form once it is closed, in the object store once every
commit and call that the bounds allow has been made and delivered.

### Fairness

- `IssueFlow`: strong fairness of the main queue's blocks, because the run loop
  serves it between the user's events however many there are (a call of
  `DBManager` disables it again and again, so weak fairness would not do), and
  weak fairness of the end of a write, which commits or fails.
- `StartUp`: weak fairness of the operation queue's threads, of the posted
  blocks, and of the callback once there is an answer. Not of the user.
- `RoutesScreen`: weak fairness of the main queue and of timers, and of the
  completion of each request, which ends in an answer or a time-out.

- `RealmCoordinator`: fairness of the worker, which a commit wakes, and of the
  steps that a handle's thread takes by itself (deliveries, and `notify`, which
  the run loop calls when the worker signals it). Not of calls of the
  application.
- `NotifierCallbacks`: fairness of the worker while it is woken and of the
  delivery's steps.

Nothing is assumed of the user, of failures, of kills or of the server.

## 4. What is proved

Each module of the table's row `...Proofs` proves theorems of the specification
that TLC checks, for all constants that satisfy the assumptions named in the
module that declares them:

| assumption | what it says |
|---|---|
| `DataAssumption` | the empty text is a text and no valid e-mail address; `NoIssue` is no issue |
| `DBAssumption` | `NoThread` is no thread; what callers save are issues |
| `FlowAssumption` | the main thread is a thread, the drafts are contents, the bounds are numbers, the clock is past 1970 |
| `RequestsAssumption` | what a form may pass to `create` is among what callers save |
| `ScreenAssumption` | the server has an answer, which may hold no routes; `NoPoint` and `NoId` are no numbers; statuses and bounds are |
| `FormAssumption` | the form is opened on issues; what is typed has the type of its row |
| `CoordinatorAssumption` | lists and marked callbacks are notifiers, invalidated handles are handles, the faults are Booleans |
| `CallbacksAssumption`, `SchemaAssumption` | bounds are numbers, `NoHandle` is no handle |
| `ListAssumption` | bounds are numbers, the first list is within them |
| `DeepAssumption` | rows link to rows, a log modifies at least one (otherwise the code makes no checker), the limit is not 0 |

The bounds of section 3 are constants, so a theorem holds for all of them:
any number of handles, notifiers, forms, requests, callbacks and versions, lists and
logs of any length, and graphs of links of any size.

No property below is inductive as it stands. In each module `IInv` (`FlowInv`
for the form) adds what is missing; TLC checked it on the run's instances, and
`Init => IInv` and `IInv /\ [Next]_vars => IInv'` are lemmas with one step per
action. The theorems then follow from `InvariantHolds`, `Spec => []IInv`.

**`IssueFlowProofs`**, its first part, about `DBManager`: `TypeCorrect`, `RoutesAreUnique`, `CrashesAreFaults`,
`NoDirtyReads`, `PendingWrites`, the five invariants of `dbmanager`, and
`Refinement`, `Spec => ImplementsIssueStore`. `IInv` is `TypeOK`,
`OneIssuePerRoute`, `PendingWriteIsTheCall`, `CrashNeedsFault` and `HandleInv`.
- Unique keys survive a commit only because the open transaction has unique
  keys too, and survive `create` because the lookup and the transaction's block
  see the same objects, which needs that no transaction is open between calls
  unless a commit failed (`PendingWriteIsTheCall`).
- `CrashNeedsFault` needs that, while the process runs, the handle belongs to
  the recorded thread (`HandleInv`): re-opening on a change of thread is then
  enough. The invariant survives a failed open because the call that met it
  goes on to use the wrong handle and ends the process in the same step. That a
  handle is replaced inside a transaction, or a write begun in one, takes a
  transaction that outlived its call, hence a failed commit
  (`PendingWriteIsTheCall`).
- For the refinement, `AsMap(disk)` is the abstract map. A commit is an abstract
  save or reset because the open transaction differs from the file by the
  pending request only (lemmas `AsMapSave`, `RenameSaves`); every other step
  leaves the file alone.

**`IssueFlowProofs`**, about the form: `FlowImplementsDBManager`, `FlowSpec => Spec`: every step
of taps and posted blocks is one that `DBManager` allows a caller, or none of
it, so that `FlowImplementsIssueStore` and every theorem about `DBManager` hold
of the composed system. `FlowTypeCorrect`, `BadgeIsRight`, `FormsStayFresh`,
`DismissalsHitTheirForm`, `DismissalsMeanStored` and `ConfirmingIsHarmless` are
the properties of `issue_flow`, but for the liveness of `SavedFormCloses`. They
speak of moments between two calls, yet the badge is set and the dismissal
posted inside the transaction's block: `FlowInv` says of a call in progress that
the badge counts the objects of its transaction (`BadgeRight`), that forms and
blocks agree with those objects (`FormsAgree`, `DismissalsAgree`, over
`Current`), and that without a second tap there is one form at most, with
nothing posted that is not about it (`Orderly`).

**`StartUpProofs`**: `TypeCorrect` and `ListComesAfterPermission`, which states
`PermissionComesFirst`. The dependency of the operations alone is not enough;
`Phases` adds that at most one block is ever posted.

**`RoutesScreenProofs`**: `TypeCorrect`, `ListIsFresh`, which states
`ListIsRecent`, `ListAndMapAreWhole`, and `MapShowsOneAnnounced`, which
states `MapShowsOneRoute`. The list is what one answer of the server makes it,
and the map is the points of one of its routes. A late block could bring
back an answer from before the fetches under way were made, so `IInv` follows
answers, with the moment they were given, through the requests in flight and
the posted blocks (`AnswersAreGiven`): when a fetch is the first of those that
will overlap it, no older one is left in either. That the points are the two ends and
every placed stop with its own id, in order, is a fact about `Points` for every
sequence of stops (`PlacedStep`).

**`IssueVCProofs`**: `TypeCorrect`, `RowsAreRight`, `EntriesAreKept` and
`SavesAreRight`, all properties of `issue_vc`. An edit reaches the controller by
the type of the cell, so it meets the right field only if no two rows share a
cell (`OneRowPerCell`) and the row with the focus still has one
(`FocusIsOnScreen`).

**`RealmCoordinatorProofs`**: `TypeCorrect`, `WorkerAssertionsHold`,
`CommitsAreToldOnce` (`EveryCommitOnce`), `OnlyAskedAreDropped`
(`OnlyAskedCommitsAreDropped`) and `CallbacksSeeRight`, the action property
`CallbacksSeeTheirVersion`. The properties are about what was handed over; the
rest of `IInv` is about what is on its way:
- `RunningRight` and `RestingRight`: the worker's copies of the lists, taken
  under the mutex, stay those of the coordinator while it works without it; for
  each notifier that is alive it has found exactly the changes between the
  version that was handed over and the helper's. `SkipRight` keeps the skip
  version ahead of the worker.
- `StageRight`, `WaitRight`, `WriteRight`, for each handle: a thread that waits
  waits for all of its notifiers, so that when it writes they are at the last
  version with nothing left to tell.
- `LagRight`, `SparedRight`, `ToldRight`, for each notifier: it can be behind
  its handle by the handle's own commit only, and then has nothing to tell; a
  mark to spare a callback covers commits for which it was asked; what was
  told and what is pending are disjoint and are all commits up to its version.

`CallbacksSeeRight` follows from `InvariantHolds` and the lemma `DeliverTells`:
at a delivery a notifier has nothing left and is at its handle's version.

**`CollectionNotifierProofs`**, its first part, about `NotifierCallbacks`:
`TypeCorrect`, `CountIsInRange`,
`DeliveryIsComplete` (`PackagedIsDelivered`) and `FlagIsRight`
(`FlagTellsCallbacks`). The loop's index and the number of packaged callbacks
are positions in a vector that changes while the mutex is released. Together
they are right: the callback that is being called lies below the count
(`CountRight`), what is left to call lies between index and count (`TodoRight`),
and a callback that removes itself during an error is still found
(`ErrorLoop`).

**`CollectionNotifierProofs`**, about `DeepChanges`: `AnswersAreReachability`,
which states `AnswersAreRight`, and `CacheIsRight`. A search may miss a modified
row because it was cut, at the limit or where a cycle closes, and then must not
remember the rows it went through. `Sound` and `Complete` say of the search at
one depth what makes this right, and are proved for each depth from the one
below (`LevelRight`), up from the limit (`CheckRowRight`):
- `Sound`: it keeps the cache right, only adds marks to the path above it, and
  finds nothing that is out of reach.
- `Complete`: if it misses a row that is n links away, then every link of the
  path behind which no row is as near is marked as exceeded, and if no row of the
  path is as near, the limit was reached. It follows the link that leads to the
  modified row on a shortest way. If that link is on the path already, this
  place and all behind it are marked; otherwise the row it leads to is n - 1
  links away, and the depth is one more.
A row is remembered only when the link that led to it is not marked, so by
`Complete` nothing within the limit was missed.

**`SchemaCacheProofs`**: `TypeCorrect`, `ColumnsAreRight`
(`ColumnsAreCurrent`) and `SchemaOnlyAdvances` (the action property
`SchemaNeverGoesBack`). A handle knows the schema of the version it last looked
at (`HandlesRight`), and the cache is right for its range of versions
(`CacheRight`) because no call of the coordinator that is still to be made spans
a change of schema, but for the one that an update makes before it clears the
cache (`CallsRight`), and at most one update is under way (`OneUpdate`).

**`ListChangesProofs`**: `ListExplained` (`ChangesExplainList`), `OneMoveTold`
(`OneMoveIsTold`) and `TypeCorrect`, for lists and logs of any length. Positions
are translated by counting and shifting, so the proof changes to a view of rows
first. `Kept(D, I, i, j)` says that the row at i is at j after deletions `D`
and insertions `I`; it is one-to-one both ways, keeps the order, and how each
instruction changes it follows from lemmas about counts, of which `CountNext`
and `CountGrows` are the ground. `Came` adds the moves, and `Fits` says that a
builder explains how a list of one length became one of another.
- `InsertFits`, `EraseFits`, `MoveFits`: each instruction of the log composes
  the builder's changes with its own.
- `CleanFits`: `clean_up_stale_moves`, whose loop goes over the moves while it
  deletes from them, keeps the marks and says of no row anything that was not
  said before.
- `MergeFits`: `merge` is composition. A row of the newer changes came from
  where the older changes say its origin came from, has the mark of either, and
  what the merge does to the moves of both is right for rows that neither, one
  or both have moved.
- `IInv`: the builder of the log takes the list before the log to the list, the
  accumulated changes take the list of the observer to the one before the log,
  and marks follow rows. `ChangesExplainList` follows for the accumulated
  changes by one more `MergeFits`.
- For `OneMoveTold`, the scan of `MovedIndices` is followed from row to row: with
  at most one move, the running shift is what separates the old and the new
  place of the row the scan has reached.

Induction over data. The theorems of the library that stand for it take an
operator as a parameter, which the provers cannot instantiate. Where recursion
is a recursive function over numbers (`placed`, `by`, the moves that remain, the
steps of `any_of`, the depths of `check_row`), the induction is done by hand: the least number for which a claim
fails (`LeastIs`) is not 0, and the step from its predecessor contradicts it.

### What only TLC checks

- Liveness (`SavedFormCloses`, `StartUpEnds`, `ListAppears`, `SpinnerStops`,
  `WaitsEnd`, `CommitsAreHeardOf`, `InitialCallComes`): the prover handles
  neither fairness nor `ENABLED`.
- `TableChanges` (`ChangesTrackRows`): the log of a table moves last rows over,
  so its builder keeps a map of moves beside the sets. The lemmas on `Kept` and
  `merge` apply to it; those on its instructions are missing.
- `ResultsChanges` (`ChangesGiveTheResults`, `ModifiedRowsReload`) and
  `CallsAreRight` of `MCAlgorithms`: `calculate` and the ranges of `IndexSet`
  are `RECURSIVE` operators, for which the prover has no arithmetic.

## 5. What is not modelled

- `RealmConfig` (file name and key), layout, colours, keyboard padding,
  localisation: no state that a property could be about.
- `AppDelegate.applicationDidBecomeActive`, which sets the badge to 88: the
  application has a scene manifest, so the system calls the scene delegate.
- Memory: the coordinator keeps the subscription of every form.
- The core of Realm. The repository holds about 100 thousand lines of C++, of
  which the larger part are headers (`Pods/Realm/include/core`) of a library
  that comes as a binary. Their templates and inline functions belong to
  operations whose bodies are not here, so no operation of the core can be
  translated from them; where a module needs one (`Table::move_last_over`,
  `Query::find_all`, a commit) it is external. The share of all lines that the
  map covers is small for this reason: it covers what the application itself
  does and the part of the object store that has state over several steps.
- In the object store: migrations and the comparison of schemas (the app has
  one class and no migration), `Results`, `List` and `Object` (accessors over
  the core), thread-safe references, the pipe and kqueue behind the wake-up of
  other processes, and synchronisation, which the app does not use.
- The inside of Alamofire, and SVProgressHUD beyond what the app meets.
- In the modules on changes: modified columns, objects observed one by one,
  changes of the schema within a log; in `DBManager`, notifications, which the
  app does not use.

## 6. Where the code departs from what it says

These came up while modelling. Each property that would meet one names it as an
exception, so that the rest of what it says is checked.

- **Sparing a callback.** `include/RLMRealm.h:321` says that a commit can skip
  blocks. The callbacks are marked before the commit
  (`RLMRealm.mm:659`) and `add_changes` clears the mark at the next handover
  (`impl/collection_notifier.cpp:410`), also one that was under way: the commit
  is then told all the same. When the commit fails, the mark stays and a later
  commit is dropped.
- **Writes inside callbacks.** A callback that begins a write moves its handle
  to the last version; what was handed over for an older one is discarded by
  the next `advance_to_ready` (`impl/realm_coordinator.cpp:906`), although the
  comment at :903 says that only `begin_read` leads there. A write that is left
  open delays the notification until somebody else commits. Such a write begins
  without waiting for the notifiers (`shared_realm.cpp:682`), and its commit
  overwrites the skip version of an earlier one that has not been used yet
  (`impl/realm_coordinator.cpp:525`): a callback spared for the earlier commit
  then misses both, although `include/RLMRealm.h:321` speaks of skipping the
  changes made in one write transaction. TLC found the behaviour, with two
  handles and writes in callbacks, while the inductive invariant was checked;
  `OnlyAskedCommitsAreDropped` names it as an exception.
- **A failed open.** `pin_version` returns early once an error is set, so a
  notifier registered afterwards is not pinned, although
  `clean_up_dead_notifiers` asserts that it is
  (`impl/realm_coordinator.cpp:625`). A thread that was already waiting for the
  notifiers keeps waiting, because the error is in its package by value.
- **The number of packaged callbacks.** `remove_callback` decrements it for
  callbacks that were added since, too (`impl/collection_notifier.cpp:214`):
  the loop misses a callback, or the count falls below zero. `deliver_error`
  reads the number without the mutex (:341).
- **Adding a callback inside a callback.** It does not wake the worker
  (`impl/collection_notifier.cpp:190`), so the first call that
  `include/RLMResults.h:204` promises waits for the next commit.
- **The window of the schema cache.** A commit of `update_schema` extends the
  range of the old schema (`shared_realm.cpp:724`), and the cache is cleared
  later (:552); a handle opened in between has the old columns. A handle that
  caches its schema late can make the next commit fail the assertion at
  `impl/realm_coordinator.cpp:397`.
- **Index sets.** A builder that starts a chunk with a range counts it as one
  index (`index_set.cpp:244`), and `count` from the middle of a chunk misses a
  range of the next one that reaches past the end (:300). `IndexSet` translates
  both; `CallsAreRight` asks neither of `count` nor of sets built from ranges.
- **Moves of lists of values.** `impl/results_notifier.cpp:138` searches moves
  by bisection; those of lists are in no order.
- **What observers are told.** With two moves the scan at
  `impl/transact_log_handler.cpp:194` can miss an index: for [4, 1, 2, 3]
  becoming [1, 3, 4, 2] it is the index 2.
- **Results in table order.** `impl/collection_change_builder.cpp:546` takes
  rows to move only over deleted ones, so swapped rows are told wrongly
  ([1, 2, 3] becoming [3, 2, 1]). At :673 the modified rows of a match are
  counted in a shifted interval, which makes some matches worse than need be;
  at :700 the old rows are compared with the end of the new ones, which does no
  harm.

## 7. Plan

1. Done: the database layer with its proofs, the form in both versions,
   start-up, the routes screen, and of the object store the notifications, the
   schema cache, the change sets, index sets and the deep change checker.
2. Done: the proofs of section 4. Left: `ChangesTrackRows`, with the lemmas of
   `ListChangesProofs` on counts and `merge`; and `calculate`, once it
   is a recursive function.
3. Composition: `StartUp`, `RoutesScreen` and `IssueFlow` share the main queue,
   the HUD and the navigation stack. A module that joins the routes screen to
   the form replaces `covered` by the real stack and answers whether
   `viewWillAppear` always refreshes what a saved form changed.
4. Migrations: the comparison of schemas and the changes that follow from it.

# hmily-admin: specifications, model checking and proofs

hmily-admin is the console of the hmily distributed-transaction framework. The
hmily runtime, a library inside the users' applications, writes global
transactions and their participants (branch transactions) to a repository; the
console lists them, edits the retry count of a participant that has used up its
retries, shows what to do by hand for one that cannot succeed, and removes
participants. The server is a small Spring Boot program; the browser's part is a
Vue application that is checked in as webpack bundles, with the libraries it runs
on. This directory holds TLA+ modules of both, TLC configurations for small
instances and TLAPS proofs for all instances.

Java paths below are relative to
`src/hmily-admin-service/src/main/java/org/dromara/hmily/admin/`, bundles to
`src/hmily-admin-service/src/main/resources/static/`.

## Inventory

| Component | State | Operations | What makes it hard | What makes it correct | Module |
|---|---|---|---|---|---|
| Transaction store (two tables) | rows: status, retry count | the statements the repositories send; the runtime's own updates | no transaction around the console's statements; the runtime writes at any time | a row only changes in ways users are told of (README.md:34-54) | HmilyStore, ParticipantLife |
| Repository controller (`controller/HmilyRepositoryController`) | none; servlet threads | listPage, batchRemove, updateRetry, compensationInfo | requests of several administrators interleave; the process may be killed | bad requests refused, every request answered | AdminServer |
| Relational repository (`service/repository/db`) | connection pool | one method per request, one to many statements each | a statement may fail between two others | an edit revives, a removal is final, compensation information is right | DbRepository |
| MongoDB repository (`service/repository/mongo`) | client | the same | modified counts, non-atomic removals, lookups by field name | the same | MongoRepository |
| Page queries (`helper/PageHelper`, `listByPage`) | none | page arithmetic, list, participants of each, count | several statements over changing rows | pages fit, and who turns them all has seen everything | ListPage |
| Boot, extension loader (`configuration`, `spi`) | the chosen repository | getJoin, init | wrong names, failing init | handlers only see an initialised repository | Startup |
| ZooKeeper repository (`service/repository/zookeeper`) | session, latch; the root node all admins share | init, connect | admins start at once; sessions are lost; an await without a limit | serves only under a root node, no start hangs | Startup |
| Login (`service/login`, `interceptor/AuthInterceptor`, 5.bundle.js) | one static flag | login, logout, check before a handler | one flag for all browsers; check, then run; answers lost or late | signed out stays out, but for a login under way | Session |
| List page (0.bundle.js, module 126) | shown table, selection, edited row, form | query, paging, edit, compensation, delete | answers arrive in any order, state read when the answer arrives | what is shown agrees with what was answered | Console |
| Chunk loader (webpack runtime, bundle.js 1-130 and 719-765) | installedChunks | requireEnsure, webpackJsonp, onScriptComplete | shared, failing, late and repeated scripts; a 120-second timer | nobody waits for a script nobody loads | ChunkLoader |
| Router (vue-router, bundle.js 16470-17300) | current route, pending navigation, the tab's history | push, popstate, lazy components, ensureURL | navigations overtake each other, fail, are retried; the user moves the URL | shows what was asked for last, URL follows | Navigation, Location |
| Route table (vue-router's matcher) | the records | flattening, resolving links, matching | relative links depend on the last segment of the address | every link shows the page it names | RouteTable |
| Change tracking (Vue's Dep, Watcher, scheduler) | subscriptions, dirty flags, queue | get, set, flush, create, teardown | dependencies that change with the data, watchers queued in a flush, components that go in it | no stale value, parents first, no note to the dead | Reactivity |
| List patching (Vue's updateChildren) | old and new children, DOM | the four ends, keyed search, add, remove | elements of former renderings still leaving | the parent shows the list, keys keep their elements | Patch |
| Transitions (Vue's transition, v-show) | callbacks of each element, classes | enter, leave, frames, timers, three modes | rendered again while a transition runs; late callbacks of cancelled ones | at rest the page holds just what is wanted | Transition |
| Kept pages (App, the manage page, keep-alive) | cache, hooks queued | render, activate, deactivate, destroy | hooks come from three places | exactly the page of the route is active | KeptPages |
| Promises (core-js, 0.bundle.js) | state, reactions, microtasks | resolve, reject, then | following other promises, second calls | settled once, followers agree, reactions run | Promises |
| HTTP client (vue-resource) | handlers, response | interceptors, transport, callbacks | a handler throws, a transport calls twice | told once, and only what was handled | HttpClient |
| Conversions (`helper/ConvertHelper`, hexadecimal form) | none | DTO to VO | null fields | nothing lost | - |
| Stub repositories (`oracle`, `sqlserver`, `postgresql`, `file`, `redis`) | none | return null | - | - | - |
| CORS filter | none | constant headers | - | - | - |
| hmily runtime | not in this repository | begins, tries, confirms, cancels, retries, gives up, finishes | - | - | external, in HmilyStore |

How they interact: the browser's router loads chunks and shows pages, which keep-alive
makes and keeps; a page changes tracked data, the flush renders it, and patching and
transitions bring it to the DOM; its clicks become `$http` calls whose promises tell it the
answer; the server's interceptor asks the login flag, the controller calls the
repository, and that shares its tables with the runtime.

## Modules

```
HmilyActionEnum ── ParticipantLife                  (abstract: the life of one row)
      │
 HmilyStore ── AdminServer ──┬── DbRepository ──── MCDbRepository
                             ├── MongoRepository ── MCMongoRepository
                             └── AdminServerProofs

 DbRepository, AdminServerProofs    ── DbRepositoryProofs
 MongoRepository, AdminServerProofs ── MongoRepositoryProofs

 Console  ──┬── ConsoleProofs          ListPage ──┬── ListPageProofs
            └── MCConsole                         └── MCListPage

 ChunkLoader ── Navigation ──┬── NavigationProofs     Location (abstract: a tab)
                             └── MCNavigation

 Patch, Transition ── Library ──┬── LibraryProofs
                                └── MCParts    (safety)
 Session, Startup, Reactivity, Promises, HttpClient, KeptPages,
 RouteTable                                          ── MCParts
 DbRepository, MongoRepository, Session, Startup, Reactivity, Promises,
 HttpClient, Transition                              ── MCProgress (liveness)

 MCParts, LibraryProofs ── PartsProofs
```

The server:

* **HmilyActionEnum** has the status codes of `enums/HmilyActionEnum.java`.
* **HmilyStore** has the two tables: `global` and `participant` map an id to its
  row, with the two extra codes `UNBORN` (no row yet) and `GONE` (row deleted).
  `AfterDelete`, `AfterSetRetry` and `AfterResetStatus` are the effects of the
  three statements that change rows. The `Runtime...` actions are the external
  runtime, as the console relies on it: it begins transactions, adds
  participants, decides once per transaction to confirm or to cancel, takes
  participants through that phase, counts retries, gives up at its limit
  (`DEATH`), and finishes rows by deleting them or marking them `DELETE`.
* **AdminServer** has the servlet threads. `call[w]` is the request thread `w`
  works on: the next statement (`pc`), the ids, the retry count and the answer.
  The `Request...` actions are the controller's methods up to the call of the
  repository, with their early returns. `Crash` is the kill of `bin/stop.sh` (or
  any other) followed by a restart: all calls are lost, the rows stay.
  `interrupted` is a history variable: the participants whose last edit to end
  was stopped between its statements.
* **DbRepository** has one action per SQL statement of
  `AbstractHmilyRepositoryService`: `DeleteRows`; `SetRetry` and `ResetStatus`
  for `updateHmilyParticipantRetry`; `FindParticipant` and `FindTransaction` for
  `getCompensationInfo`. `StatementFails` is a statement that throws, before or
  after it took effect.
* **MongoRepository** has the same for `MongoHmilyRepositoryService` over
  `MongodbTemplateService`: removals go document by document, an edit stops when
  the first update modified nothing, and the transaction is looked up by the
  field name the code uses.
* **ParticipantLife** is the abstract specification of a row: phases move
  forward, only a dead row is revived and only to `PRE_TRY`, an edited count is
  one the limits allow, the rows of one removal go at once and never return. Both
  repositories are shown to implement it under the refinement mapping
  `AdminServer!Life`, which hides the retry count of a dead row: that is the value
  an edit changes in its first statement, before the row is revived in its second.
* **ListPage** is `listByPage` and the pager of the list page: `FindRows` and
  `CountRows` are the two statements that decide which transactions a page has and
  what total it says; in between, and between pages, the runtime begins and ends
  transactions. `Skip`, `Limit` and `PageCount` are the arithmetic of `PageHelper`
  and `MongodbTemplateService`. `Correct` is Element UI's pager, which leaves a page
  beyond the last one, followed by the watcher that asks for the page again. The
  history variable `walk` follows a user who turns the pages from the first on.
* **Startup** is the start of any number of admins, each a process with its
  repository name. `GetJoin` finds the name among the classes the resources
  register (or the start fails: `sqlserver` and `postgresql` are in the source and not
  registered); `InitRepository` is `init` of the relational, MongoDB and stub
  repositories; `Connect`, `Await`, `Exists` and `Create` are `connect` of the ZooKeeper
  one, between which the session's watcher (`SyncConnected`) counts the latch down,
  sessions and answers are lost and other admins make the root node. A session that cannot
  be made ends the start, and so does a lost answer, after which the node may have been made.
* **Session** is signing in and out: `SubmitForm` and `SignOut` are the buttons,
  `GetList` the list page; `PreHandle` is the interceptor and `ListPage` the handler
  behind it, two steps of the serving thread; `Login` and `Logout` change the one static
  flag; `Receive` is the browser's callback, `Lose` the network. `served` numbers the
  logins and logouts in the order they were served. `quiet` is history: the sign-out that was
  acknowledged last, if no login form was submitted since it was clicked; `hush` is what it was
  when a call was sent.

The console:

* **Console** is the list page, with the component's own data (`table`, `selected`,
  `currentRow`, `form`, `dialog`, `paging`), one action per click and one per answer
  handler, and `conn[c]`, the request on each connection. The server is reduced to what
  the page sees of it. `Fold` and the ticks (`checked`) are Element UI's: a nested table
  that is replaced or folded forgets its ticks and says nothing about it. `late[c]` and
  `overtaken` are history: what a list under way had read, and the shown list has, of rows
  whose removal was answered meanwhile.
* **ChunkLoader** is webpack's: `installedChunks` has no entry, a promise, or 0;
  `live` counts the script elements with handlers, `orphans` those the timer gave up,
  whose chunk may still come.
* **Navigation** is vue-router's `History` with `HashHistory` over it: `navs[n]` is a
  navigation with the components it still waits for, `pending` the one the router goes
  for, `resolved` the records whose component arrived, `entries` and `at` the tab's
  session history. `Begin` is `confirmTransition` to the queue's first wait; `Arrive` and
  `Fail` are a chunk's arrival or failure with everything it completes: every
  navigation that waited for it goes on, is confirmed, abandoned or aborted. `Tick` is the
  `once` that lets a component be reported by its callback and its promise and counts
  it once.
* **Location** is the abstract tab: a page, a wish, and how often one was asked for. A
  navigation shows what was asked for last, or gives up.
* **RouteTable** has the console's own table and links; a path is split at its slashes.
* **Reactivity**: `vm.subs` says which watcher is told of which cell, `vm.dirty` which
  computed values must be asked afresh, `vm.queue` and `index` are the scheduler's. What a
  getter reads and what a callback writes are parameters; the instances make getters
  whose dependencies change with the data, watchers that write what others watch, and
  a child component that goes and comes back in the middle of a flush.
* **Library** puts the next two side by side, for the proofs that are about both.
* **Patch** is `updateChildren`: the loop's branches are actions, `dom` the elements of
  the parent, `leaving` those whose transition has not ended.
* **Transition** is `enter` and `leave` with the component and the v-show directive that
  call them: `run.cbs` are the callbacks made so far (each runs once, and may be
  cancelled before), `run.frames` and `run.ends` what the browser still owes, `run.el` the
  elements. `Show` is the directive, `Render...` are the outcomes of the component's
  render function in its modes.
* **KeptPages** is App, the manage page and keep-alive between two turns of the event
  loop: the flush renders from the outside in, and hooks are heard from the patch, from the
  queue after it and from keep-alive's own destruction.
* **Promises** is core-js's: `micro` is the microtask queue, `spent` the resolving
  functions that were used (`_d`), `wrappers` those made for a promise that follows
  another.
* **HttpClient** is vue-resource's `Client`: interceptors run last first, the handlers
  they return run over the response, the transport is an XMLHttpRequest or JSONP's script.

The **MC...** modules instantiate these for TLC. **MCParts** and **MCProgress** hold several
modules that share no variable; the variable `part` names the one a behaviour is about
and the others keep a fixed initial state, so that the states are the sum of the parts'
states and not their product. The **...Proofs** modules have the theorems.

Definitions marked *slip* are variants of the definition after them with a
plausible mistake. Nothing uses them but the sensitivity tests listed under
"mutants" in PROJECT.json, which show for each property that it would catch one.

## Runs

| Run | Instance | Shows |
|---|---|---|
| DbSafety | 2 participants, 2 threads, symmetric | types, `NoneStranded`, `CompensationMatchesDecision`, `RemoveIsFinal`, and that the statements implement ParticipantLife |
| MongoSafety | as DbSafety | the same with `NoneStrandedWithoutFaults`; the two properties that fail have runs of their own |
| MongoStranded | 1 participant, 1 thread | finding: an interrupted edit cannot be repeated |
| MongoCompensation | 1 participant, 1 thread | finding: "cancel" is answered although the transaction is being confirmed |
| ConsoleConnections | 1 transaction, 2 participants, 1 empty page, count 1, 2 connections | `OnlyALateListShowsRemoved`, `RemovesOnlyWhatWasTicked`, `ListedCountWasStoredForPatientUsers` whatever the order of the answers |
| ConsoleLateList | the same | finding: removed rows come back with a list that was answered late |
| ConsoleTicks | the same, counts 0 and 1, 1 connection | finding: rows without a tick are removed |
| PagesMysql | 4 transactions, page sizes 1 and 2, 1 lost request | `PageFits`, `NoneTwice`, `WalkSeesAll`, `NoEmptyPage` for MySQL |
| SignOutOvertaken | 1 browser, 3 calls | finding: a login under way opens the console again after a sign-out |
| Navigation | 3 pages of 4 chunks (two share the manage page's), 3 navigations, fair | `ImplementsLocation`, `UrlFollowsPage`, `ShownPagesAreLoaded`, `WaitsAreLoading`, `EveryNavigationEnds` |
| Parts | nine parts, see below | `OnlyALateLoginReopens`, `ReadyUnderRoot`, `NoStaleValue`, `FollowersAgree`, `SettledOnce`, `SuccessIsHandled`, `ShownAsRendered`, `KeysKeepElements`, `OnlyShownIsActive`, `HooksInOrder`, `LinksArrive` |
| Progress | eight parts, fair, see below | `EditRevives`, `EveryRequestAnswered`, `EveryStartEnds`, `EveryCallbackRuns` |

Deadlock is not checked: users may stop asking, and every bound is a bound on what
users, the network or the runtime begin.

*The repositories.* One transaction, a runtime limit of 1, `retryMax` 2, users who type
the counts 0, 2 and 3 (within both limits, above the runtime's, above both) and at
most one fault. One fault is enough: what a second could add is another interrupted
edit, and the first already leaves a row in that state with all requests still to come.
Two participants and two threads cover what the statements can do to each other:
a statement touches the rows of one request, and at most two requests can be
about the same row and differ in kind; a third thread only adds a further
request of one of the kinds. Symmetry is used for the safety runs only.

*The list page.* Two rows, so that an update or a removal can be about the wrong
one; a page without transactions, after which the table is null; and two
connections, since any order of answers that matters is an order of two.
`RemovedRowsStayHidden`, which is what the page tells its user, needs only two requests to fail:
the page serialises nothing, so a list that had read the rows may be answered after their
removal. `OnlyALateListShowsRemoved` says that this is the only way, for any order of the answers.
With one connection at a time both say the same. One transaction is enough for what
a list reads before and after an update; that its reads of several transactions are statements of
their own is covered by the proof. One count is enough beside the stored 0 and the empty field.
Four transactions on pages of one and two make pages that are full, incomplete and
empty, up to four pages in a walk, and transactions that begin or end while the walk is on
any of them. Offset paging over a changing table does lose and repeat rows, so
`NoneTwice` and `WalkSeesAll` say exactly when it may: rows are repeated only if
transactions began during the walk, and missed only if some ended. `NoneTwice` is
not asked of MongoDB, whose pages overlap (see below).

*Navigation.* Three navigations: one that waits, one that overtakes it, and one that comes
after either has ended; four chunks, one of them shared by two pages, so that one
arrival can complete navigations that differ. Entries of the tab's history are
bounded for the steps of the user only. A reload begins a new behaviour.

*Parts.* Two browsers and three calls (a login, a sign-out that overtakes it or does not, and a list
after both). Two admins, all repository names, two lost sessions or answers. Tracking: three data
cells, a page with a computed property and a watcher, and a child whose watchers make the page draw
it or not. Three promises, with handlers that return nothing, throw, or return the promise they are
called for or another. Three interceptors beside the transport's own, of every kind. Lists of up to
three children (two in the first rendering, `MaxFirst`) with equal and different keys and tags or
none, rendered twice after the first, with elements of both renderings still leaving. Three pages,
two instances of the manage page. The console's whole route table, with all its links and addresses
with and without slashes at either end. Transitions: two children, three changes of what is wanted,
so that a transition is cancelled, and its reverse is cancelled again, in every mode.

`ShownAsRendered` joins the property of Patch with `RestShowsWanted` and `OneOfAKey` of
Transition, `HooksInOrder` that of KeptPages with Transition's `ShownIsNotTaken`.

*Progress.* The same parts at the sizes their liveness needs: one participant and two
threads, two calls, two admins, two cells, two promises, two interceptors, two changes of what
a transition shows.

*Fairness.* It is stated for what the environment owes the program and for nothing users, the
runtime or faults do:

* servlet threads: the container runs its threads and a statement returns or throws
  (weak fairness of each thread's own steps);
* each call of a browser is served by a thread of its own, or lost;
* the main thread of an admin runs, and ZooKeeper is reached in the end. Without the latter
  `connect` waits for ever, since its await has no limit; this is what `EveryStartEnds`
  says the program depends on;
* of the chunk loader only its 120-second timer: no script has to come;
* microtasks run, so flushes and promise reactions do; the browser ends every request with
  one of its events;
* frames, and the events or timers of transitions, come. `whenTransitionEnds` sets a timer
  beside its listener, so no event has to come.

### Findings

* `MongoHmilyRepositoryService.updateHmilyParticipantRetry` skips the status reset
  when the document already has the count (modified count 0), so an edit
  interrupted by a crash stays without effect however often it is repeated.
* `MongoHmilyRepositoryService.getCompensationInfo` looks the transaction up by
  `transaction_id`, but the field is `trans_id`; every participant gets the cancel
  information.
* The list page removes rows that are not ticked any more: `selectedRowMap` keeps
  the rows of nested tables that were replaced or folded.
* A list that read rows before their removal and is answered after it puts them back into the
  table, although the user was told that they are deleted; they stay until the next list.
* The process's login flag is set by whichever right login is served: one that a sign-out overtook
  opens the console again after the user was told that he is signed out.

Things the models show on the way, without a run of their own:

* Page `k` of a MongoDB list may hold `k` times the page size (`limit(start * size)` in
  `MongodbTemplateService`), and repeats the rows of the pages after it: `PageFits` does not hold
  for MongoDB, and the run has MySQL.
* `FindParticipant` of DbRepository fails when the row is gone, because
  `queryForMap` throws: the test `map.isEmpty()` and the answer behind it are unreachable.
* The answer to an update puts the count typed by then into the row clicked by then,
  which is why `ListedCountWasStoredForPatientUsers` needs its premise `~ hasty`.
* A navigation to the route that is shown already is aborted, but leaves an older pending
  navigation in place, which still arrives; a navigation that fails corrects the URL even
  when it was superseded; a hash without a slash only has its URL corrected (`unheard`);
  when the first navigation fails, the page stays blank.
* The menu's links are relative. `LinksArrive` holds for every place the links lead to and
  every typed address without a trailing slash; after `/manage/` was typed they lead to
  `/manage/...` addresses no route matches.
* A page kept aside is not told of changes by the server: shown again, it is as it was left.
* Two children of a list with one key would make Vue's patch misplace elements; the check
  for duplicates is compiled out of the bundle. The console's tables set no `row-key`, so that their
  rows are keyed by index: what a row's elements hold stays with the place, not with the
  transaction, when the table is filled again.
* A response with status 200 and a body that is no JSON reaches the success callback with the
  body null, and the page's callback throws.
* In the mode `out-in` two elements may be in the page at once if the slot is emptied and
  filled again while the old element leaves: a child removed by an empty slot has no mode.
* `application-zookeeper.yml` configures `repository: redis`; the file, redis and zookeeper
  repositories answer null to every query, and so does the paging SQL for Oracle.

## Proofs

Each theorem holds for every value of the constants, under the named assumptions of the
module it is about. The runs check the same definitions on small instances.

`AdminServerProofs` has what both repositories share: the types of the store and of the
calls (`TypeInv`, which adds to `TypeOK` the number of ids an edit or a question is about
and which answers go with which statements), what each effect does to a row and whether it
strands one (`EffectsOnStranded`), what a step of one thread does to the others' calls
(`OthersRevive`), the invariant of removals (`Final`: a request only names rows that exist or
existed, and a row that existed is never created again), and that each effect
and each step of the runtime is one of ParticipantLife.

`DbRepositoryProofs`, for any transactions, participants and threads, all
limits and inputs (`TransOf` maps participants to transactions, limits are numbers):

* `TypeCorrect`: `Spec => []TypeOK`.
* `NobodyStranded`: `Spec => []NoneStranded`. The property is inductive once types are.
* `CompensationIsRight`: `Spec => []CompensationMatchesDecision`, by the invariant
  `Coordinated`: a global row in a second phase shows the decision.
* `RemovalIsFinal`: `Spec => []RemoveIsFinal`, by `Final`.
* `RowsLive`: `Spec => ImplementsParticipantLife`.

`MongoRepositoryProofs`, for the same parameters: `TypeCorrect`, `RemovalIsFinal` (documents
go one by one; `deleteRow` answers success only when none of the call's is stored, and nothing
brings one back), `DocumentsLive` (the refinement), and `NobodyStrandedWithoutFaults`: `Spec =>
[]NoneStrandedWithoutFaults`. The second update of an edit is skipped when the first modified
nothing; without faults a dead row then had its retries before, so by the property itself
another edit is about to revive it. The run MongoStranded shows that the premise is needed.

`ConsoleProofs`, for all sets of transactions, participants, pages, counts and connections:

* `ConsoleTypes`: `Spec => []TypeOK`, by `TypeInv`: an open dialog, and an update
  under way, have a row. The lemma `ConnSteps` says what any step does to the
  requests, and is used by all three theorems.
* `TickedRowsAreRemoved`: `Spec => []RemovesOnlyWhatWasTicked`, by `TickInv`: what a
  list has read belongs to its page (`RequestOK`), so rows are listed under
  transactions of the table, and each selected row is ticked or was.
* `RemovedStayHidden`: `Spec => []OnlyALateListShowsRemoved`, by `RemovedInv`: an answered removal has
  removed its rows (`RemovalServed`), so that no list reads them later, and a list under way that
  has a removed row is marked with it in `late` (`LateRows`).
* `PatientUsersSeeStoredCounts`: `Spec => []ListedCountWasStoredForPatientUsers`, by
  `CountInv`: what a list has read was stored, what an accepted update carries was
  stored, and while the user is patient an update carries what the page will write.

`ListPageProofs`, for any finite set of natural numbers as transactions, all page
sizes and both repositories:

* `ListPageTypes`: `Spec => []TypeOK`; with it, the pager never stands on a page
  below 1, since there are pages wherever there are transactions (`PageCountType`).
* `PagesFit`: `Repository = "mysql" => (Spec => []PageFits)`: rows have different ranks
  (`RankLess`), so at most `n` of them have one of `n` consecutive ranks (`RankFew`).
* `WalksSeeAll`: `Spec => []WalkSeesAll`, by `WalkInv`: what the walk has not seen has
  the rank of a later page, and once an answer carries a total, that total exceeds
  the pages turned so far, so that the last page is not reached (`PagesCover`). The
  early answer of MongoDB to an empty page needs that every rank below the number of
  rows is taken (`RanksFilled`).
* `NobodySeesTwice`: `Repository = "mysql" => (Spec => []NoneTwice)`, by `TwiceInv`: while no
  transaction begins ranks only shrink (`RankShrinks`), so what the walk has seen keeps a rank
  below that of the next page, and the rows of the answer under way are not among it.
* `NoRestOnEmptyPage`: `Spec => []NoEmptyPage` for both repositories, by `EmptyInv`: an empty
  window and a positive count mean a page beyond the last (`EmptyWindow`), from which the pager
  goes back, unless the two statements saw different tables or a request was lost (`excused`).

`NavigationProofs`, for any routes and chunks and any number of navigations
(`NavigationAssumption`: the root is a page, START is none, every page has a sequence of chunks
as its records):

* `TypesInvariant`: `Spec => []TypeOK`.
* `NoIdleWait`: `Spec => []WaitsAreLoading`, by `LoadersInv`: a chunk that is
  loading has one element with handlers, no chunk ever has two (`OneReporterPerLoad`), and
  one nobody asked for has none. Without it a late script or a retry could take the only
  reporter away.
* `UrlFollows`: `Spec => []UrlFollowsPage`: each way of moving the address bar begins a
  navigation, corrects it, or sets `unheard`, and each end of the pending navigation writes
  the URL of the page then shown.
* `ShownAreLoaded`: `Spec => []ShownPagesAreLoaded`, by `RecordsInv`: every record of a page an
  open navigation goes to is resolved or among those it waits for, the ones it shares
  with the page it began on included.
* `ShowsLastAsked`: `Spec => ImplementsLocation`, one lemma per action: a navigation begun is
  `Ask`, the end of the pending one `Arrive` or `GiveUp`, everything else stutters.

`PartsProofs`, for the parts in MCParts: any browsers, calls, admins, promises, interceptors,
pages, children and bounds. Its assumptions are those of MCParts: bounds are numbers
(`BoundsAssumption`), names of pages, children and promises are distinct from each other and from
the marks the models use (`PagesAssumption`, `NamesAssumption`), and a transition has some child
(`KeysAssumption`). Each part has lemmas about what its steps do, an inductive invariant, and a lemma
that a behaviour of MCParts is one of the part.

* `SessionTypes`, and `SignedOut`: `Spec => []OnlyALateLoginReopens`, with no premise about what is under
  way. The property alone is not inductive: it needs that calls are numbered as they are served
  (`ServiceNumbered`), that the flag is set only by a right login served after every sign-out
  (`SignedInByLogin`), that the sign-outs `quiet` and `hush` name were served and are younger
  than every login (`QuietOutlives`), and that a list asked for since which is admitted or has data
  comes with the login its sign-out overtook (`HushedAreLate`).
* `ReadinessNeedsRoot`: `Spec => []ReadyUnderRoot`, inductive once types are: the root node is
  never removed (`RootStays`), and the steps that make an admin serve, or refuse it because of the
  node, find or make it.
* `HandlersSeeSuccess`: `Spec => []SuccessIsHandled`, by `HttpInv`: `sendRequest` stays at the bottom of
  the stack until no interceptor is left (`SendIsFirst`), what is settled as "ok" was loaded or given
  by an interceptor (`OkIsLoaded`), and the handlers that ran followed by those to come are those asked
  for in reverse (`InReverse`, as long as none threw).
* `ShownPageIsActive`: `Spec => []OnlyShownIsActive`, by `KeptInv`: what is dirty is what differs
  (`DirtyIsBehind`), hooks are queued only for the page shown (`QueuedIsShown`), and the life of each page of
  each manage page is told by what is cached, shown and queued (`LifeIsShown`).
* `FollowersBecomeAlike`: `Spec => []FollowersAgree`, and `SettlesForGood`: `Spec => SettledOnce`. The
  invariant `PromisesInv` says who may still settle a promise, and that this is one alone: the program that holds
  an unused resolving function (`OwnersMaySettle`), one microtask that asks the promise it was resolved
  with (`FollowersMaySettle`), or one reaction (`ReactionsMaySettle`); a reaction that adopts is one of the promise
  to follow (`AdoptsFate`). `Numbered` says that the reactions that ran and those to come are numbered in the
  order attached.
* `HooksComeInOrder`: `Spec => HooksInOrder`. For KeptPages by `KeptInv`. For Transition by `MoveInv`: a leave that
  is not over is the one its element knows of, a cancelled callback was called (`Sound`), and no leave of
  the element of the last rendering is under way (`Away`). Each operation then needs one lemma: calling a
  callback, inserting and beginning a leave take nothing but an element that was leaving (`Gentle`),
  entering ends the element's own leave, and what leaves is never what was just rendered.
* `ChildrenKeepElements`: `Spec => []KeysKeepElements`, by `PatchInv`: the elements of the parent are in the
  order of what was matched and what waits (`Ordered`), and an old child that no longer waits was
  matched with the child of its key (`Keyed`).
* `PagesShowWhatIsWanted`: `Spec => []ShownAsRendered`. For Patch by `PatchInv`, since nothing waits when a
  rendering is over. For Transition by `MoveInv` and `RestInv`: every callback that has not run is asked
  for, waited for or held back, every element that is not the one of the last rendering leaves,
  and the one shown is the one wanted unless the page is to render again; when nothing is under
  way, only the element wanted is left (`AtRest`).

`LibraryProofs` has what the last three say of Patch and Transition by themselves, with facts about
sequences without repetition; `PartsProofs` the other parts and the theorems.

Only model-checked, and why:

* `NoStaleValue` of Reactivity: what a flush evaluates is a recursion over the watchers that
  depend on each other, so the property is an induction over data, which the installed provers cannot do.
* `LinksArrive`: it is about the console's own table and links, a finite question TLC answers completely.
* MCParts' `TypeOK`, which is the conjunction of all parts' types: those of Session, Startup and Patch
  are proved, as is what the invariants above say of the others; those of Reactivity and RouteTable
  are left to TLC.
* The runs that find a violation, and all liveness properties: these rest on fairness and `ENABLED`,
  which are out of the prover's reach.

## What is abstracted, and what is not modelled

* Ids are model values; names, times, invocations and messages are left out. An
  answer is what kind it is. A retry count is a number.
* Users ask about participants they have seen in a list (`KnownIds`), which may be
  gone by then.
* A statement is atomic in the database (a single-row or single-table statement with
  auto-commit). A MongoDB removal of several documents is not.
* Transactions are listed in the order of their ids: the queries have no `order by`,
  and both databases then read their primary index. The search conditions only choose
  what there is to list.
* The runtime is external: its actions are the least it must be able to do for the
  console to have its purpose.
* The login flag is read and written by threads without synchronisation; a read returns
  the last value written, though the field is not volatile: an answered call is
  followed by the next through the container's queues, which order the two.
* The extension loader's caches are left out: only the main thread calls it, once, so
  nothing is found in them and no two threads meet in them.
* The computed values of Reactivity are told apart by what was read; the DOM of Patch is a
  sequence of elements; a frame of Transition is the two nested ones of `nextFrame`.
* Transition has the styles the page would compute as a choice: a transition has a duration or
  none. `appear`, `css=false`, hooks that call done themselves, transition-group and
  keep-alive inside a transition are left out; the console's own pages use none of them.

Not modelled, and why:

* The stub repositories, the CORS filter, the process handling of the scripts, logging: no
  state. Conversions: pure functions of data the properties do not look at.
* Of Vue: the template compiler (the bundles hold compiled render functions), directives other than
  v-show, the DOM modules for attributes, classes and styles, server rendering, arrays as
  tracked data. Of vue-router: guards, redirects, scroll positions, HTML5 history. Of
  core-js: `Promise.all` and `race`, polyfills of other objects. Of vue-resource: URL
  templates, headers, its own promise polyfill. webpack's hot replacement cannot be
  reached in this build.
* Element UI (minified, on a few lines of bundle.js), the components of which are taken by
  their use in the pages; regenerator and style-loader; the copies of core-js in 1.bundle.js,
  2.bundle.js and 3.bundle.js, which repeat what 0.bundle.js has.

The bundles make up most of the repository's lines, and most of those are such library
code: the modules cover the parts of it that schedule, order, cache or retry.

## Plan

1. *(done)* the store, the servlet threads, the two real repositories, the abstract
   life of a row; proofs for the relational repository.
2. *(done)* `ListPage` with its proofs, `Console` with its proofs.
3. *(done)* `Startup` and `Session`, with proofs; the router with its chunk loader, and the proof
   that it implements a tab.
4. *(done)* what the pages run on: tracking, patching, transitions, kept pages, promises, the
   HTTP client, the route table.
5. *(done)* proofs for the document repository, the rest of ListPage and Console, and the safety of
   Session, Startup, HttpClient, KeptPages, Promises, Patch and Transition.
6. *(left)* proofs of the types of the remaining parts.
7. *(left)* the paging SQL of the other databases, conversions, arrays as tracked data,
   transition-group, a run of ListPage with MongoDB.

The suite keeps to a dozen runs, so that all of them are run on every change; a new part that
stands by itself joins MCParts and MCProgress.

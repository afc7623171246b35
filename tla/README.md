# TLA+ models of the PasarGuard panel

PasarGuard is a control panel for proxy nodes. A Python backend (FastAPI,
SQLAlchemy, APScheduler) keeps users, admins and nodes in a database, pushes
users to the nodes, collects traffic from them and enforces limits. A dashboard
(React, TypeScript) shows and edits all of it in the browsers of the admins.
These modules model the parts in which coroutines, jobs, requests, timers,
failing calls and shared state meet, and say what is checked and what is proved
about them.
Paths below are relative to `src/`.

## 1. The system

| Part | State | Operations | Where it is hard |
|---|---|---|---|
| User usage recording, `app/jobs/record_usages.py` | carry buffers in memory, three tables | `record_user_usages` every few seconds | reading a node zeroes its counters; three separate transactions; deadlocks, timeouts, crashes |
| Node usage recording, same file | node, system and chart tables | `record_node_usages` | the same, without carry buffers |
| Node bridge, `_vendor/node_bridge_py` | queue of updates, worker, health, failure count | `update_user(s)`, `sync_users`, `start`, `stop`, worker | worker against callers, retries, cancellation, three paths to the node |
| Node manager, `app/node/__init__.py` | registry of controllers, one lock per node | `update_node`, `remove_node`, `update_user(s)` | controllers are replaced while in use |
| Node operations, `app/operation/node.py`, `app/db/crud/node.py` | row of the node, `_CONNECTING_NODES` | create, modify, remove, reset, restart, connect | every await lets another handler change the row |
| Node checks, `app/jobs/node_checker.py` | none of their own | health check, traffic limit | act on what they read before their calls |
| User operations, `app/operation/user.py`, `app/db/crud/user.py`, `bulk.py` | row of the user | create, modify, toggle, reset, next plan, remove, cleanup | read, commit, read again, send: all with others in between |
| Review jobs, `app/jobs/review_users.py` and neighbours | none of their own | expire, limit, activate, reactivate, reset, delete | one step of several fails; stale selections |
| Sending users, `app/node/sync.py`, `app/node/user.py` | none | `sync_user(s)`, `remove_user(s)` | fire-and-forget tasks |
| Admin limits, `app/operation/admin_sync.py`, `app/jobs/review_admins.py` | status of the admin | limit, block, unblock | status is committed before the users are removed |
| NATS deployment, `app/nats`, `app/node/worker.py` | none | commands, RPCs, cache invalidation | reordering, loss |
| Core and host caches, `app/core/manager.py`, `hosts.py` | a copy per worker, one in a key-value store | update, remove, load | copies diverge |
| Notifications, `app/notification`, `app/jobs/send_notifications.py` | queue, reminders | enqueue, send, retry, flush | retries, shutdown |
| Device limits, address allocation | rows per user | register, allocate | count and then insert |
| Core editor, `dashboard/src/features/core-editor` | a draft store with baseline, snapshot and fingerprint, two debounced timers | edit, type JSON, save, discard, switch kind, navigate | a draft that lives twice; saves and refetches in flight while the admin goes on |
| Hosts page, `dashboard/src/features/hosts`, `pages/_dashboard.hosts.tsx` | the query's data, a copy of it | create, edit, toggle, delete, bulk, drag | a drag is shown before it is stored and is not fetched after it |
| Users table, `dashboard/src/features/users`, `utils/usersCache.ts` | cached pages and totals, the edit dialog | filter, sort, page, refresh, edit, reset, delete, bulk | answers patch a cache that fetches replace |
| Node logs, `dashboard/src/pages/_dashboard.nodes.logs.tsx` | stream, screen, buffer | select, pause, resume | late lines; handlers that see the last render |
| Session, `dashboard/src/pages/login.tsx`, `service/http.ts` | one token per browser, one cache per tab | login, check, logout | a late answer about an old token |
| Rest of the dashboard | forms | presentation, validation | one request at a time |
| Subscriptions, core parsers, routers, bot, migrations | none that matters here | formatting, validation, presentation | nothing concurrent |

How they interact: an admin's request or a job changes a row and calls
`sync_user`; that serialises the row and hands it to `NodeManager`, which queues
it on the controller of every node; the controller's worker sends it. The usage
job reads all healthy controllers and writes `used_traffic`; the review jobs
look at that column and at the dates and change statuses, which again go out
through `sync_user`. The health check and operators replace controllers, and a
new controller starts the node with a snapshot of all users. The dashboard talks
to the routers over HTTP; what it shows is a cache that it patches or fetches
again after each operation, while other admins and the jobs change the rows.

What makes each part correct, in short: traffic is billed once; what an admin
changed reaches the node and is not overtaken by something older; a replaced
controller stays out; a node that should be up comes up; a user past date or
limit loses access and a renewed one gets it back; a page shows what is stored
once its requests are answered, and takes nothing from the admin that he typed.

`PROJECT.json` lists the hazards with the source line at which each bites and
the properties that would notice it.

## 2. Modules

| Module | Models | Checked by | Proved in |
|---|---|---|---|
| `RecordUsages` | the user usage job with its database and nodes | `MCRecordUsages` | `RecordUsages_proof` |
| `NodeBridge` | one controller and its node | `MCNodeBridge` | `NodeBridge_proof` |
| `NodeConnect` | one node: row, controllers, connects, edits, checks | `MCNodeConnect` | `NodeConnect_proof` |
| `UserLifecycle` | one user: row, handlers, review jobs, what the nodes were told | `MCUserLifecycle` | `UserLifecycle_proof` |
| `UsageLedger` | abstract: what the usage job promises to an account | refined by `RecordUsages` | `RecordUsages_proof` |
| `CoreEditor` | the core editor: store, timers, query, saves, server | `MCCoreEditor` | `CoreEditor_proof` |
| `HostsList`, `UsersPage`, `NodeLogs`, `Session` | a page of the dashboard each, with the server behind it | `MCDashboard` | `HostsList_proof`, `UsersPage_proof`, `Dashboard_proof` (logs, session) |
| `Dashboard` | the four of them behind one browser: one is visited at a time | `MCDashboard` | `UsersPage_proof` |

The modules cut the system along its interfaces. `UserLifecycle` treats the
delivery of an update as one step; `NodeBridge` is that delivery. `NodeConnect`
treats a controller as its health and settings; `NodeBridge` is its inside.
`RecordUsages` treats a node as counters and the users' rows as totals.

### RecordUsages

One job instance runs at a time (`max_instances=1`), so the cycle has one `pc`.
`StartCycle` takes the healthy nodes, `CollectNode` and `NodeFails` are the
resetting reads with the coefficients applied, `LookupUser` is the lookup of
owners, `Fold` adds `_carried_user_usage` and `_carried_admin_usage`, `CommitUsers`, `CommitAdmins` and `CommitRows` are the
three writes through `safe_execute`, whose retries are `attempt`. `Deadlock` is
a retried failure, `RollBack` one that ran out of retries, `Ambiguous` a failure
or a timeout around a commit, `Crash` the end of the process: it empties the
buffers. `Park` is what `_write_rolled_back` guards. `due` and `dueChart` are
history: what was taken off the nodes. Coefficients are fractions of
`CoeffUnit`, and `int(value * coeff)` rounds down. `BatchSize` is the number of
chart rows per statement, 0 for all of them.

`UsageLedger` says what all of this is for, in three actions: traffic taken off
the nodes is on its way to an account (`Take`), what is on its way is billed as
a whole (`Bill`), and it may be lost (`Lose`); nothing comes back once it was
lost. `RecordUsages` implements it twice, `UserLedgerOf` and `AdminLedgerOf`:
`taken` is `due`, by user or summed by owner; `billed` the totals; `pending`
what is parked plus what the running cycle has in its hands at that `pc`
(`UserPending`, `AdminPending`). Parking, retries, folding in and the order of
the writes are stutters of the ledger.

### NodeBridge

A step lasts from one suspension of a coroutine to the next. `UpdateUsers` is
`update_user(s)`, the worker's steps are `Drain`, `SendUser`, `ChunkedSent` and
so on, with `GoToSleep`, `IdleTimeout` and `WorkerExits` for its waiting;
`Start...`, `Stop...`, `FullSync...` and `Bulk...` are the other coroutines and
`lock` is `_node_lock`. The configuration of a user is its version number.

### NodeConnect

`att` holds the connects under way, the guarded single one and a bulk one. Each
reads the row, registers a controller (`Register`), waits for the old one to
stop, starts the node and writes the status. `Modify`, `Remove`, `ResetUsage`
and `RestartNode` are the operator's; `Limit...` and `Check...` are the jobs.
Controllers are numbered, and a number is used again when nothing refers to it.

### UserLifecycle

Dates are none, future or past; usage is unlimited, under or over the limit:
that is all `is_expired`, `is_limited` and `become_online` look at. A handler
loads the row (`Begin`), commits the columns it changed (`Commit` with `Flush`),
keeps the status it read back and sends it (`Send`). The commit and the refresh
that follows it are one step; `Toggle` refreshes nothing and sends the status of
its own object. `Transition` writes the
status without a condition, as `update_users_status` does. `Fail` is an error
after the first commit. `Modified` is `modify_user` with its order of status,
date and limit. Several admins are one: `Overlap` interleaves it with the jobs.

### CoreEditor

The draft is `store.draft` (the profile, a value per section) and
`store.monaco` (the JSON text), with the store's `baseline`, `snap`
(`persistedSnapshot`) and `fp` (`serverHydratedConfigJson`); the store's
operations have their names from `core-editor-store.ts` and are operators on it.
A config is what its sections hold and the form it is written in, of which one
is the editor's own and one is not accepted. `timers` are the two debounced
functions of `use-core-draft-sync.ts`, armed and cancelled by `ArmedBy` as the
effects do; `SyncTimer` and `ApplyTimer` let them fire at any time after that.
`Mount` is what leaving a page (`reset`) and opening another does, `FetchArrives`
the hydration effect, `Save...` the two halves of `handleSave` around its await,
with the commit on the server and lost answers in between. `want` and `acked`
are history: what the admin put together, and what the server last gave or took.

### The pages of the dashboard

- `HostsList`: `data` is the query's data and `hosts` the page's copy, which
  `handleDragEnd` rewrites. `reqs` are the requests under way in the order they
  were sent; `Serve` is the API, which commits the rows of a drag one by one.
  `suspect` marks what no page can know: another admin's change, a lost answer.
- `UsersPage`: `page` is the cached page of the present query; an answer is put
  into it by `upsertInSingleUsersQuery` and `removeUsersFromSingleUsersQuery`.
  An edit is one call or two (`EditOps`): the status is turned by a call of its
  own after the one with the fields. `form` is the dialog with its closing timer.
- `NodeLogs`: `committed` is what the effects last ran for and `seenBuffer` what
  the handlers last saw: React renders a line from the stream later than it sets
  it. `oldSources` may still deliver a line.
- `Session`: one stored token for all `Tabs`, and each tab's cached account.

`Dashboard` instantiates the four. They share no state but the server, and of it
no rows, so one behaviour visits one page; the properties of each module are
stated there again under the names the run uses.

## 3. Runs

All runs finish in less than four minutes each with two workers, `dashboard` being
the longest.

| Run | Bounds | Shows |
|---|---|---|
| `usages_faults` | 2 users, one owned by an admin, 1 node, coefficients 1 and 2, 2 units of traffic, 4 faults of every kind | the job implements `UsageLedger` for users and for admins, so nothing is billed twice (`UsersBilledOnceOrLost`, `AdminsBilledOnceOrLost`); nothing is charted twice (`ChartNeverOvercounts`) and an admin is never ahead of its users (`AdminNeverAheadOfUsers`) |
| `usages_deadlocks` | 1 user, 2 nodes, coefficients 0.5 and 1, 3 units, 2 faults: deadlocks, a coefficient that cannot be read | nothing of a user is lost (`LossBecomesDelay`), limits are enforced at once (`AdminLimitEnforced`), and parked usage is written (`UsageEventuallyBilled`) |
| `bridge_queue` | 2 users, 2 versions, threshold 2, 3 failures, queue only | `WorkIffPending`, `PendingIsLatest`, `NoUpdateLost`, `NodeNeverGoesBack`, `HardResetAfterFailures`, `FailureEscalates` |
| `bridge_direct` | 2 users, 1 version, bulk and full syncs beside the queue | `StopSilences`, `InvalidIsFinal` |
| `connect_edits` | 2 edits, one with settings the bridge refuses, 3 controllers | `ReplacedStaysDown` under edits, removal, restart and health checks |
| `connect_jobs` | traffic limit and bulk connects, 2 controllers | `RegisteredIsValid` with the jobs (under edits the theorem of section 4 says it) |
| `connect_single` | single connects asked for by restarts and checks, 2 faults, 4 controllers | `NoRacingStarts`, `HealthyRuns`, `EventuallyConnected` |
| `users_serial` | every edit of status, date and limit, 2 operations, no overlap | `NodesAgree` |
| `users_review` | a renewal, toggle, cleanup or reset of all users, 1 fault, overlapping handlers | `OverdueIsDemoted`, `RenewedReturns`, `HoldStarts` |
| `users_stranded` | the jobs alone, 1 fault | violation of `OverdueLosesAccess` |
| `core_editor` | 2 cores, one of them written by hand or refused by the kit, 2 sections, 2 edits, 1 save, 2 moves, 1 change of another admin, 1 lost request | `EditsKept`, `CleanAgrees` |
| `dashboard` | 2 hosts with 2 operations and 1 event from outside; 1 user and those created, 1 row per page, 2 pages, 2 filters, 2 operations, faults or changes of others; 2 nodes, 4 lines, a screen of 2; 2 tabs, 2 admins, 2 tokens, 1 refetch | `HostsShowStored`, `DropLandsWhereShown`, `RowsFresh`, `FormKept`, `OnlySelectedNode`, `LogsComplete`, `SessionKept`, `ShowsItsAccount` |

Why the bounds are enough: each hazard needs few steps of few actors. Two units
of traffic make two windows, of which one can be parked while the other is
collected; four faults exhaust the retries of one write and strike again in the
next cycle. Two versions of a user are an old and a new one. Three controllers
are one registered, one stopping and one being created; with two, a connect
waits until a number is free, and the theorems cover the rest. One operation
beside all jobs is enough for every pair of them to interleave, and two edits
in a row for an edit to meet what another one left. On a page of the dashboard
two operations are one that is answered late and one that overtakes it, in every
order of sending, serving and answering, and a fetch may fall between any two of
these steps; one row per page makes the page full, so that an insertion cuts it
and a deletion empties it; a screen of two lines overflows at the third. In the
session two tokens are an old one and its successor, in the same tab or another.

Deadlock is checked in the runs of `RecordUsages`, whose job always starts
again. The other systems may stop: when the bounded edits are used up, or the
node or the user has been removed, nothing is left to do.

### Fairness

- `RecordUsages`: a running cycle goes on (weak fairness), because every call
  has a timeout, and the scheduler starts the job for ever, again and again
  with all nodes healthy (strong fairness of `StartCycle(Nodes)`): a node that
  is never healthy keeps its own counters and is no concern of the job.
- `NodeBridge`: a task that can run is run, and calls to the node have
  timeouts. Nothing is assumed of the answers, nor of the idle timer.
- `NodeConnect`: the same for every coroutine, and the scheduler runs both
  checks for ever. Faults are bounded, edits are not fair.
- The dashboard's modules assume no fairness: all their properties are safety
  properties, stated for the moments in which nothing is under way.
- `UserLifecycle`: the scheduler runs each review job for ever and a handler
  that has begun goes on. Admins, time and traffic are not fair, and no job is
  assumed to succeed: `Fail` competes with `Send`.

### Where the code disagrees with what it says

One run is expected to be violated; `PROJECT.json` has the quotation.

- `users_stranded`: the user whose transition fails after its commit keeps
  access, and no job selects it again.

The properties below hold in the runs above and fail when one constant is
changed; each is a limit of the code that the model makes visible.

| Change | Fails | Why |
|---|---|---|
| `RecordUsages`: `BatchSize = 1`, deadlocks, 2 users | `ChartNeverOvercounts` | one transaction per statement, but the whole set is parked again (record_usages.py:1028) |
| `NodeBridge`: `Callers = {"bulk"}`, 1 user, 2 versions | `NodeNeverGoesBack` | a bulk update leaves older entries in the queue (app/node/\_\_init\_\_.py:111) |
| `NodeConnect`: `Operations = {"bulk"}` | `NoRacingStarts` | only single connects look at `_CONNECTING_NODES` (operation/node.py:755) |
| `UserLifecycle`: `Overlap = TRUE`, `Operations = {"reset"}` | `NodesAgree` | what a handler read is sent after what a later one sent (sync.py:152) |

Two properties are stated in the modules and hold in no interesting instance,
so no run has them: `QueuedIsTakenUp` of `NodeBridge` (an update queued while
`start` is under way, or when the worker's idle timer fires, waits for the next
update) and `DisabledIsUntouched` of `UserLifecycle` (a user disabled between
selection and update is made active).

Further disagreements the models show without a run of their own:

- record_usages.py:963: a user write that is given up ends the cycle before the
  admin write, and the admin totals of that window are parked nowhere, against
  the comment at line 48 ("Loss becomes delay"). In `UsageLedger` it is `Lose`.
- operation/node.py:825: a connect asked for by an edit is skipped when another
  is under way, also one that read the row before the edit: the node stays
  connected with the old settings, against the comment at line 107.
- crud/node.py:553: a connect under way when the node is disabled writes
  connected over it.
- core-editor-page.tsx:252: a refetch that arrives while the draft has changes is
  not looked at again when they are discarded: `serverHydratedConfigJson` is
  meant "to pick up refetches when the draft is clean" (core-editor-store.ts:119).
- core-editor-page.tsx:342 and 376: `markClean` after the await of a save takes
  what was typed meanwhile for saved (`overtaken` in `EditsKept`, `CleanAgrees`);
  an edit in a form over JSON text that was not applied drops the text.
- hosts-list.tsx:753: a drag that fails half way shows the order from before it,
  although some hosts have been committed.
- hosts-list.tsx:83: the form of a host can be opened while a drag is under way
  and takes the place the host was dragged to. When the drag fails and the form
  is submitted, that place is stored; if the list fetched next equals the one the
  query had from before an earlier, successful drag, the effect does not run and
  the page goes on showing that drag's order. It takes three operations, more
  than the run's bound; looking for an inductive invariant of `HostsShowStored`
  led to it, and `suspect` now excepts it.
- usersCache.ts:252: an answer that arrives before a fetch that was served
  earlier is undone by it until the next fetch; an edit of a user that left the
  page counts it twice (`late`, `blurred` in `RowsFresh`).
- \_dashboard.nodes.logs.tsx:121: lines put by after the last render are dropped
  by resuming (`hasty` in `LogsComplete`).
- service/http.ts:19: a 401 leads to the login page without clearing the cache,
  and the next admin's login shows the former account (`kicked` in
  `ShowsItsAccount`).

## 4. Proofs

`tlapm` checks eight modules. The theorems hold for every value of the constants
that satisfies the named assumptions of the module they are about
(`ConstantsAssumption`; in `Dashboard` that the first hosts are finitely many with
an id of their own each, the size of the log buffer is a number, ids of hosts and
nodes are positive numbers (they are database ids, 0 is "none"), and there is an
admin and "no admin" is none of them): any sets of users, admins,
nodes, cores and tabs, any coefficients, thresholds and bounds. Sets of users are
finite where sums over them are taken.

A hypothesis of a theorem is named with it below. Each restricts which operations
or faults occur, is the instance the theorem's run checks, and is needed: the
property fails when it is dropped, for the reason given.

`RecordUsages_proof`

- `TypeCorrect`: `TypeOK` is inductive by itself.
- `NoDoubleBilling`: no user's total and parked amount together exceed what was
  taken off the nodes (`UserNeverOverbilled`, what the refinement below says of a
  single state). The property is not inductive, because a step that
  writes a window needs to know what the window holds. `UserLedger` adds the
  running cycle: written, parked and in flight together never exceed `due`. The
  proof has one step per action; a failure may only drop a term of the sum.
- `ChartCountsOnce`: `ChartNeverOvercounts` when `BatchSize = 0`. `ChartLedger`
  adds up, per node and user, what is on the chart, parked, in the window and in
  the batch, each at its own coefficients; `IdleIsEmpty` says that no window
  survives its cycle. With smaller batches the property fails.
- `LimitsAreEnforced`: `AdminLimitEnforced` is inductive where no enforcement
  fails and every failed write rolled back
  (`Faults \subseteq {"deadlock", "extra", "answer"}`): the admin write leads to
  the enforcement and nothing else leaves it. A write of unknown outcome ends the
  cycle between the two.
- `UsersLedgerImplemented`: the refinement `UsersBilledOnceOrLost`. With
  `TypeOK` it needs one more invariant, `UserBufferHandedOver`: the users' buffer
  is empty while the write it was folded into is under way, so that the write
  bills all that is on its way. One lemma per action of the ledger says what
  makes a step `Take`, `Bill` or `Lose`; collecting takes, the user write bills,
  and what ends a cycle loses or parks.
- `LossIsDelay`: `LossBecomesDelay`, assuming
  `Faults \subseteq {"deadlock", "extra", "enforce"}`: with a lost answer, an
  unknown outcome or a crash the traffic may be gone. A cycle must not end or
  fold while it holds usage it has forgotten, so `DelayInv` follows the usage
  through the cycle: a node still to be read has no window, a user with usage was
  reported, an existing one is looked up or will be, and after the user write
  nothing is left.

`RecordUsages_proof`, the admins

- Sums over a set of users come first. The fold that computes them is a recursive
  function chosen by `CHOOSE`; that one exists for every finite set, is unique and
  unfolds is proved by induction on the set, with the hypothesis written as a set
  of subsets (`SubsetInduction`). From there `TotalAdds`, `TotalTakes` and
  `TotalGrows` say what a step does to a sum.
- `AdminsStayBehind` (`AdminNeverAheadOfUsers`): `Behind` compares an admin with
  the sum over its users at every `pc`, with what is parked and what the cycle
  holds on either side; `AdminFlow` says which of the buffers are empty when.
- `AdminsLedgerImplemented`: the refinement `AdminsBilledOnceOrLost`. The admin's
  side of a window is known only after the lookup, so the ledger's `pending` is a
  sum over users before it and the admin's own amount after it; the lemmas on
  sums show that lookup and fold are stutters.

`NodeBridge_proof`

- `TypeCorrect`, `NoLostWakeup` (`WorkIffPending`), `HardResetIsDue`
  (`HardResetAfterFailures`) and `ShutdownIsFinal` (`InvalidIsFinal`) need no more
  than the types: each is inductive, and the lemmas say which steps touch the
  queue, the failure count or the health at all.
- `StoppedIsSilent` (`StopSilences`): a controller is invalid because a stop has
  begun, and that stop has waited for the worker before it calls the node
  (`Silenced`).
- `QueuedIsLatest`, `NothingLost` and `NodeMovesForward` (`PendingIsLatest`,
  `NoUpdateLost`, `NodeNeverGoesBack`), assuming `Callers = {}`: a bulk update or
  full sync writes to the node past the queue and leaves older entries in it. None of
  the three is inductive. `QueueInv` adds what the batch holds (`BatchInv`: what
  is neither unsent nor failed is on the node), how the versions in queue, batch, node and
  start are ordered (`VersionInv`), and where the latest one is at each step of a
  start (`Covered`).

`NodeConnect_proof`

- The inductive invariant is `TypeOK /\ ShutdownIsInvalid /\ RegisteredIsValid`:
  the registered controller is not being shut down, and one whose stop has begun
  is INVALID. `RegisteredIsValid` alone does not tell that a start or check of
  an old controller leaves the registered one alone.
- From it `TypeCorrect`, `RegistryIsValid` (`RegisteredIsValid`) and
  `ReplacedIsFinal` (the action property `ReplacedStaysDown`). Each action is
  reduced to what it does to the registry (registers, refuses, unregisters, sets
  a health, leaves alone), one lemma each.
- `StartsDoNotRace` (`NoRacingStarts`), assuming `"bulk" \notin Operations`: the
  restart of all nodes does not look at `_CONNECTING_NODES`.
- `HealthyIsRunning` (`HealthyRuns`), assuming `Operations \subseteq {"restart"}`:
  an edit, removal or limit stops the node while a connect of an older reading
  may be under way. `LeftAlone` says that at most one controller
  is being stopped, that it is the one the connect replaced, that the connect
  starts the controller it registered, and that the node runs that one until the
  first fault.

`UserLifecycle_proof`

- `TypeCorrect`: every handler writes back a row the columns allow, also from an
  object that is older than the row.
- `NodesAreTold` (`NodesAgree`), assuming handlers that do not overlap, none that
  fails after its commit, and neither the bulk cleanup nor the reset of all users
  (which tell the nodes nothing): `Told` says that a handler about to send has
  the row's answer and that, with none under way, the nodes have it.

`CoreEditor_proof`

- `TypeCorrect`, `EditsAreKept` (`EditsKept`) and `CleanIsTheServers`
  (`CleanAgrees`), without hypotheses, from one inductive invariant: what the
  editor holds is `want` whenever it is hydrated (`Kept`), snapshot and baseline
  are what the server last gave or took (`Clean`), a text waits to be applied only
  while it is not (`ApplyIsDue`), fetches and awaited saves are the page's own,
  and the server has given the page of a new core nothing.
- The attempt showed that the history variable `want` was wrong for a refetch
  that arrives while a draft equals its snapshot but not the server (the run's
  single change by another admin never made one); it is corrected in
  `FetchArrives`, and `EditsKept` no longer excepts a switch of the kind.

`Dashboard_proof`

- `LogsAreOfTheSelectedNode` (`OnlySelectedNode`): between a render and its
  effects the selection and the open stream differ, so `LogsInv` ties the stream
  and the lines to the node the effects ran for last, `committed[1]`, and covers
  the rendered buffer, which a resume shows. The constant of the buffer's size
  need only be a natural number.
- `PausingLosesNothing` (`LogsComplete`): `NothingMissing` says that screen and buffer
  together end in what the stream brought, and that nothing is put by while the
  page is not paused; lemmas say how taking the newest lines of a list goes
  together with appending to it.
- `GoodSessionsAreKept` (`SessionKept`): the invariant `DenialsAreTrue` says that
  a denied check was one of a revoked token, or of none; since revocations are
  for good it holds however late the answer is acted on. Then only three steps
  change the stored token.
- `TabsShowTheirAccount` (`ShowsItsAccount`): `SessionInv` says for each tab whose
  the answers under way and the cached account are.

`HostsList_proof`

- `HostsAreShown` (`HostsShowStored`): the inductive invariant is
  `HostsInv == HostsTyped /\ QuietInv /\ TrustInv`. `QuietInv` says what a fetch
  brings that began with nothing else under way: what is stored. `TrustInv` speaks
  of a page that no exception touched, in one of two states. `CalmInv`, with no
  drag under way: the screen, or the answer that is coming, is what is stored
  unless an operation has succeeded whose fetch has not begun. An answer that equals the
  query's data leaves the screen alone, so where screen and data differ it must be
  shown that no answer can equal the data again: some host of the data is `Gone`,
  its id with its priority is nowhere in the table, on the screen, in the form or
  in a modification on its way, and no step brings it back, since new hosts get
  new ids. `DragInv`, with a drag under way: it is alone, and the table has the
  new order for the rows the server has come to and the old one for the rest; so
  it ends as the screen has it, or, failed at the start, as the screen was before.
  The lemmas before that say what taking out, inserting, moving and renumbering do
  to a list (a drag gives the same hosts in another order), and that the query's
  answer has each stored host once.

- `DropsLand` (`DropLandsWhereShown`): lemmas on sorting come first, since the
  library has none. A finite set can be listed in a linear order (`SortExists`, by
  induction on its subsets, the greatest element last) and in one way only
  (`SortedOnce`, by the first place where two lists differ), so that the sorted list
  the model chooses is the one at hand. The invariant is `HostsTyped /\ OrderInv`:
  every list the page has, shows or may go back to is sorted by priority. A sorted
  list with as many priorities as hosts is shown as it is; a drag renumbers the
  hosts in their new order, and is therefore shown so too.

`UsersPage_proof`

- `TypingIsKept` (`FormKept`): the form changes with an answer only where the
  dialog's row is gone; the invariant, `PagingShaped`, is small, and the work is in
  following a form through every way an answer patches the page.
- `TableShowsStored` (`RowsFresh`): the page is patched by answers that come in any
  order, so what it shows is right only together with the answers still under way.
  `UsersInv` has six parts. `UsersTypes`; `RowsSorted`, for the page and for the one
  a fetch brings; `AnswersCurrent`: an answer that is not marked out of date holds a
  user as it is stored. `RowsCovered`: each row is a stored user that matches, or an
  answer is under way (or, for an operation in two calls, will be) that will put
  it right or take it away; of a page being fetched, only the answers to writes
  the fetch missed may be counted on. `Alone`: an operation that overlaps nothing is
  the only one and what it takes away is on the page. `TotalRight`: with no
  good answer under way the total is the number of users that match, and under an
  operation that overlaps nothing it is the number of those that matched before,
  which differ from those that match now by what the answer holds (`Before`).
  One lemma per action: sending (`AskKeeps`), the server (`RefusalKeeps`,
  `CreationKeeps`, `DeletionKeeps`, `ChangeKeeps`, `FirstHalfKeeps`), others
  (`OthersKeep`), losses, fetches, and the answers (`RefusedKeeps`,
  `BulkAnswerKeeps`, `AnswerKeeps`), after lemmas on what an answer makes of a
  page (`UpsertIs`, `RemovedIs`, `PageOfIs`) and of the total (`TotalAfter`).
  The assumptions are that the first users have different ids, none of them 0, that
  the table can be unfiltered, newest first and on its first page, and
  that the size of a page is a natural number.
- `PagesAreTyped` (`PagesTypeOK`): the shapes of the four pages follow from their
  inductive invariants (`HostsTyped`, `UsersInv`, `LogsWhole`, `SessionInv`).

Only model-checked: the six liveness properties, `OverdueIsDemoted`,
`RenewedReturns`, `HoldStarts`, `EventuallyConnected`, `FailureEscalates` and
`UsageEventuallyBilled`: the prover does not do fairness. Every safety property that
a passing run checks, invariant or action property, is also a theorem (under the
hypotheses named above).

## 5. Not modelled

Subscription rendering, core parsers, routers, the bot and the command line turn
data into other data and keep no state of their own. Migrations run offline.
Settings, roles, groups, templates and API keys are rows changed by one
statement.

Most lines of the dashboard are not modelled because there is no behaviour in
them that a model would add to: the API client in `service/api` is generated,
and the forms of inbounds, outbounds, hosts and users are JSX, field schemas,
defaults and translations, that is functions from a state to what is drawn. The
lines that keep state across requests, timers and effects are few beside them,
and the five modules above hold the parts where they interact. What remains of
that kind: the statistics and charts (one query each), the other resource pages
(groups, admins, nodes, templates: a list that is fetched again after each
operation, as in `HostsList`), bulk creation of users, the editors of OpenVPN,
sing-box and L2TP cores.

In the parts that are modelled, these are left out: log streams and statistics
calls of the bridge; permission checks and role limits; groups, proxy settings
and address allocation of a user; the wording and delivery of notifications;
several admins at once in `UserLifecycle`, and amounts of traffic there.

Hazards of the backend that no module reaches yet: `record_node_usages` has no
carry buffer (record_usages.py:1103); a bulk update that fails on one node is
only logged (app/node/\_\_init\_\_.py:155); the cleanup deletes users without
telling the nodes (crud/user.py:553); an admin is committed as limited before its
users are removed from the nodes (admin_sync.py:53); a worker starts from a cached
copy of the cores that may be old (core/manager.py:208); devices are counted and
then registered (operation/subscription.py:452); the remaining traffic added to a
next plan may make its limit zero or negative, which is no limit
(crud/user.py:1221); a reset overwrites traffic the usage job adds meanwhile
(crud/user.py:1135).

## 6. Plan

In this order, most important first:

1. `NodeUsages`: `record_node_usages` and the reset of node usage, on the same
   faults as `RecordUsages`: node totals, system totals and charts.
2. `AdminLimits`: limiting, disabling and enabling an admin, blocking and
   unblocking its users on the nodes, the reset of its usage, and the warning
   that is sent once per threshold.
3. `NodeCommands`: commands over NATS with reordering and loss, `node_rpc`, the
   command semaphore of the worker; an abstract specification "the node has the
   last update" and the local deployment shown to implement it.
4. `CoreCache`: workers, the key-value store and invalidation messages.
5. `NotificationQueue`: at-most-`recurrent` deliveries, final flush.
6. `DeviceLimit` and `AddressPool`: count and insert, allocation without
   duplicates.
7. A composition of `NodeConnect` and `NodeBridge` for bulk syncs that hold a
   controller which is being replaced; the bulk operations of `bulk.py` and
   changes of owner in `UserLifecycle`.
8. Proofs: with the modules above, their invariants; what is checked of the
   modules there are is proved, but for liveness.

# A TLA+ verification of pgaio

pgaio is an all-in-one PostgreSQL container: the server, PgBouncer and a Go
program (`src/backend`, called *the backend* below) that serves a dashboard and
an HTTP API, runs backups with WAL-G and looks after the rest of the container.
The dashboard is a single-page application in plain JavaScript
(`src/backend/web/static/js`, called *the front end*).  This directory models
the parts of both that keep state in TLA+, checks them with TLC and proves the
most important results with TLAPS.

Paths below are under `src/backend/` unless they start with `src/`; a bare
`.js` file is one of the front end.

## 1. The system

### 1.1 Components

The backend:

| Component | State | Operations | Modules |
|---|---|---|---|
| Job store (`service/job_store.go`, `handler/jobs.go`) | map of job records, list of ids (newest first), artifact files; one RWMutex; at most 200 jobs | `Start`, `Update`, `Complete`, `CompleteWithArtifact`, `Fail`, `Cancel`, `Get`, `List`; trim evicts and removes files | `JobStore`, `DataJobs` |
| WAL-G orchestration (`service/walg.go`, `handler/backup.go`) | `opMu`; the goroutines; the server, data directory and object store they act on | full and incremental backup, retention, restore, PITR, verification | `WalG`, `ExclusiveJobs` |
| PostgreSQL restart and configuration (`handler/config.go`) | none | `pg_ctl restart`, `ALTER SYSTEM` | the restart in `WalG` |
| pg_repack (`handler/repack.go`) | the pointer `running` (mutex), the process | run, cancel, status | `Repack` |
| Export, import and vacuum (`handler/database.go`, `handler/vacuum.go`) | dump and upload files | `pg_dump`, `pg_restore`, `psql`, truncation, `VACUUM` | `DataJobs` |
| Backup scheduler (`service/scheduler.go`) | context of the current loops, next-run times | `Start`, `Stop`, `Restart`, the loop, `Status` | `Scheduler`, `WeeklyRun` |
| Settings (`service/config_store.go`, `handler/settings.go`) | configuration in memory and in a JSON file | load, `Get`, `Update`, save; the handler restarts the scheduler | `Settings`, `Scheduler`, `Forms` |
| Connection pools (`service/pool_manager.go`, `main.go`) | at most 16 pools with last-use times; one RWMutex | get or create, sweep after 10 minutes, evict the oldest, close | `Pools` |
| Alerter (`service/alerter.go`, `handler/alerts.go`) | alerts there have been, when each was announced, history of 100 | check, fire, resolve | `Alerter` |
| Authentication (`service/auth.go`, `handler/auth.go`) | sessions with a sliding expiry of 15 minutes | login, logout, validate, middleware | `Login` |
| Configuration tuner (`service/tuner.go`, `handler/tuner.go`) | none; arithmetic over memory and processors | analyse, apply | the connection limits in `Tuner` |
| Saved plans (`service/plan_store.go`) | a bounded list | save, list, get | `Plans` |

The front end:

| Component | State | Operations | Modules |
|---|---|---|---|
| Calls, login, idle time (`app.js`) | the session id, the login dialog, the idle timer | `api`, `apiProtected`, `showLoginModal`, `IdleTracker` | `Login` |
| Confirmation dialog (`app.js`) | one element, the key handlers on the document | `showConfirm` | `Confirm` |
| Router, sockets (`app.js`, `logs.js`) | the page, the two sockets, the reconnection timer | `navigate`, `connectWebSocket`, `disconnectWebSocket`, `LogStream` | `Feed` |
| List pages (thirteen files) | what is chosen, what is shown, requests under way | load, choose, filter, act on a row | `Panels` |
| Dashboard (`dashboard.js`) | the last counters, the series | `updateDashboard`, `loadInitialData` | `Dashboard` |
| Job trackers (`backup.js`, `vacuum.js`, `database.js`) | the job followed, one interval | start, poll, stop | `Trackers` |
| Tuning wizard (`tuner.js`) | step, system, analysis, selection | detect, analyse, apply | `Tuner` |
| SQL editor (`sql.js`, `planner.js`) | the editor, the draft, the schema, the result | render, run, reload the schema | `Editor` |
| Plan dialogs (`queries.js`) | the dialog, the ticked plans | explain, save, compare | `Plans` |
| Settings forms (`alerts.js`, `profiles.js`, `backup.js`, `app.js`) | the configuration a form has loaded | load, save, select a profile | `Forms` |

Without a module of their own, for the reasons in section 5: the container's
entrypoints, PgBouncer administration, the monitor's collection, the log
handler, the lock tree, the SQL handlers, the object store, the catalogue
handlers, routing and wire types.  The pages of most of them are in `Panels`.

### 1.2 How they interact

* A handler that accepts long work calls `JobStore.Start`, answers with the job
  id, and starts a goroutine.  The goroutine reports only through the store.
  Nothing waits for it and nothing can stop it except `CancelRepack`; pages
  find out by asking again and again (`Trackers`).
* Backups and restores are the only goroutines that wait for one another, on
  `WALGService.opMu`.  Verifications, the restart button, exports, imports,
  vacuums and repacks take no lock and interleave with everything.
* The settings handler saves and then restarts the scheduler; the scheduler
  starts backups exactly as a click does.  Three forms of the front end each
  post the whole configuration.
* Nearly every handler borrows a pool from the pool manager and uses it after
  the manager's lock is given back.
* In the browser everything shares one thread and interleaves at its `await`s:
  answers, timers, socket callbacks and clicks come in any order, and an answer
  may find another page, or another rendering of its page, on the screen.
* A restore stops and starts the server with `pg_ctl`, whose postmaster the
  container's entrypoint supervises at the same time.

### 1.3 What is hard, and what makes each part correct

| Component | Hard | Correct when |
|---|---|---|
| Job store | eviction of jobs that still run, several finishers, clock read outside the lock, files owned by records | list and map agree, at most `maxJobs`; an offered file exists; the order of the list respects real time; a record says what became of its goroutine |
| WAL-G | some twenty early returns with a lock held and a job to finish; retention against the base of a delta or a queued restore; a restore that fails half way; restart and verification without the lock | exclusive work is exclusive; delta chains stay whole; the newest backup survives; the directory is in pieces only through a restore; every job ends |
| Repack | check and set of `running` in two critical sections; cancel against exit | one process (does not hold); the pointer is live; records are truthful; cancelled means cancelled |
| Export, import | partial files, truncation outside the transaction, exit status of `psql` | no file is lost track of; a failed transactional import changes nothing; success means loaded |
| Scheduler, settings | restart of loops, stale settings, calendar arithmetic, failed save | one set of loops; no run after being disabled; the next run is the next matching hour |
| Pools | use after the lock is dropped, eviction, `Close` that waits with the lock held | bounded; the cache is what is open; a request is refused only for a reason; requests end |
| Alerter | the cooldown against resolving and opening again | history and state agree; what was found is open and announced |
| Authentication, calls | sliding expiry; a dialog that replaces another; a login sent twice | a session in use lives, an unused one ends; a call settles, and is carried out once |
| Confirmation, lists | key handlers that outlive their dialog; a choice that changes under a dialog or a request | what is done was agreed to, on what was listed; the list is of what is chosen |
| Sockets | callbacks of a socket that was replaced | the dashboard is connected or tries to be; nothing streams elsewhere |
| Dashboard | samples out of order, empty ones, counters reset | the rates are growth, counted once |
| Trackers | an answer about another job stops the interval | a job that is over is shown as over |
| Tuner | late detections and analyses; arithmetic written twice | what is applied was agreed to; the preview is the analysis |
| Editor, plans | a page rendered twice; a dialog answered for another query; two loads of a list, answered in either order | one editor; the plan saved is that of the query shown; a ticked plan is on the page or there is a reason |
| Forms | three writers of one configuration; empty inputs; a stored save whose answer is still to come | a form saves its own section, as it was typed or, where nothing was, with the default or the stored profiles; the selector offers what is stored once the answer is there |

The complete list of hazards, each at its line and with the properties that
cover it, is `hazards` in `PROJECT.json`.

Some properties have an "unless".  The history variable in it covers the
situations in which the code does not keep the property; those situations are
listed at the end of section 3.  There the property claims nothing, so the
hazard that the variable is named after is excused and not caught, and the
property's worth lies in all the other orders of events.  Some of these variables
are moreover broader than the case they are needed for: `crossed` and
`renewed` (`Tuner`) hold also when the late answer was the same as the one in
time, `overlapped` and `astray` (`Editor`) also when the second rendering or
schema came in order after all, `crowded` and `moved` (`Plans`) also when the
dialog then shows its own plan, and a form is no longer `fresh` (`Forms`)
whatever it was that somebody saved.  `missed` (`Panels`) and `misled`
(`Trackers`) are set only by an answer that is really shown or really stops the
interval.  The `note` of a hazard says where this applies.

## 2. The modules

```
ExclusiveJobs           JobStore ---------------- JobStoreProofs
      ^                 ^   ^   ^                   |        |
      | refined by      |   |   |                   v        v
      +--------------- WalG |   +---- DataJobs  WalGProofs  DataJobsProofs
                        |   |            |
                     MCWalG Repack   MCDataJobs
                            |   \
                       MCRepack  RepackProofs

Settings   WeeklyRun       Confirm               Trackers  Editor
      ^     ^                 |                      |   Tuner
     Scheduler       Login  Panels  Dashboard        |   Plans
      |     |            \    |    /                 |   Forms
      |  MCScheduler      MCWebPages             MCWebWork
      |                                              |
  SchedulerProofs    PagesProofs (Login, Panels)  WorkProofs

Feed  Pools  Alerter
    \   |   /
   MCServices --- ServicesProofs
```

A module extends the modules that its lines lead up to; a module of proofs
extends the modules it proves about, and `WalGProofs`, `RepackProofs` and
`DataJobsProofs` also `JobStoreProofs`.  Operators whose comment begins "Variant for
checking the properties" are plausible bugs of the definition below them.  No
specification uses them; `mutants` in `PROJECT.json` says which property each
one breaks.

### 2.1 JobStore

The store's critical sections as operators on `jobs`, `order` and `files`.
`Start` is insertion *and* `trimLocked`, with the removal of evicted files;
`Finish` is the common `finish`, with its three quiet behaviours kept: an
unknown id is ignored, a terminal status is overwritten, and `Error` is never
cleared.  `StatusOf` is `Get` as the workers use it.  A field that never changes
after `Start` (type, target, metadata) belongs to the id and not to the record;
a message is abstracted to which kind of call wrote it last.

### 2.2 WalG

One goroutine per request; `pc` says where it is.  Each action is one external
command, or one group of file-system calls, with every store call made on the
way, including the early return that follows a failure.

| Action | Code |
|---|---|
| `RequestBackup`, `RequestRestore`, `RequestVerify` | the part of the handler before its answer; `LATEST` is resolved here for a verification |
| `Lock`, `Unlock` | `opMu.Lock` and the deferred `Unlock` |
| `ListBase` | the base of an incremental backup, looked up under the lock; none: the job is cancelled |
| `PushBegin`, `PushEnd` | `backup-push`, split so that a restart can come in between |
| `Retain` | `applyRetention`, whose failure is only logged, and `Complete` |
| `StopServer` ... `StartServer` | the five stages of a restore; every failure returns and leaves things as they are |
| `MakeScratch` ... `RemoveScratch` | a verification, its deferred `RemoveAll` and its report file |
| `RestartStop`, `RestartStart` | the goroutine of the restart button |
| `PostmasterExits` | external: a postmaster whose lock file is gone shuts down |

External, and marked so in `map` or in comments: what `backup-push`,
`delete retain FULL`, `backup-fetch`, `pg_ctl` do to the cluster.  The model
assumes of them only what the code relies on, and where an answer is uncertain
(`pg_ctl stop` when the directory is half gone) it allows both.

Abstractions, each with its reason:

* A backup is its place in time and its base.  `latestByTime` parses times and
  takes the greatest; backups are made under the lock, so times follow names.
* The guard against a blank data directory (`service/walg.go` 437) is left out:
  the constructor gives it a default, so it cannot be blank.
* A point-in-time restore differs only in the lines it appends to the
  configuration; it is the same action.
* `delete` that fails leaves the object store as it was.
* `Update` calls that only change the message are fused with the command that
  follows them.
* Commands end.  The code gives them no timeout, so this is an assumption about
  `wal-g` and `pg_ctl`; without it a hung command holds `opMu` for ever, and
  that is listed as a hazard no property covers.

### 2.3 ExclusiveJobs

What `WalG` promises, without locks, commands or a store: a request becomes a
job; an exclusive one waits until no other exclusive job is active; an active
job ends once with an outcome that never changes.  The refinement mapping is
`PhaseOf`, over the goroutine's outcome and `pc`.

### 2.4 Repack

The handler, the goroutine, the process and `CancelRepack`, one action for each
critical section, store call or process event.  Whether `CancelRepack` sees
`cmd.Process` while `CombinedOutput` is writing it is a data race: both outcomes
are allowed.  A handler that dereferences the pointer a second time, after
another goroutine has cleared it, ends in `panicked`.

### 2.5 DataJobs

Export, import and vacuum with the two readers of the store.  `Start` reads the
clock before it takes the lock, so it is two actions here, `Stamp` and `Insert`
(in the other modules nothing depends on the creation time and it is one).
`earlier` is a history variable: which jobs were in the store when another was
stamped.  `Listed` and `ListedBefore` are `List`: filter, cut at the limit in
the store's order, then sort by time.  `Load` says what each combination of
import options does on success and on failure.  A file belongs to a goroutine at
work, to a record that offers it, or to a job that was evicted while its goroutine
was at work: `cut`, a history variable, has exactly those jobs, so that the file
of a finished job has to go when its record does.

### 2.6 Settings

`ConfigStore` and `UpdateSettings`.  The configuration is in memory and in one
file.  `Decode`, `KeepToken` and `Update` are the handler: the token that stands
for a mask is looked up in one critical section and written back in another.
`Update` changes the memory first and then writes the file in place, so a failed
write leaves the new settings in effect and the file old or torn.  `Crash` is
the death of the process, at any time or in the middle of a write, and the
`NewConfigStore` that follows it.  Of the configuration the model keeps the
schedule, the token and whether a named profile is enabled; every other field is
stored and returned like the schedule.

### 2.7 WeeklyRun

`nextWeeklyRun` as an operator on instants (day, hour) in the zone GMT+7, and
`IsNextRun`, the reference: the first instant of the slot that lies ahead.
Minutes are left out: a run is due on the hour and must come strictly later, so
the answer is the same for all instants of an hour.

### 2.8 Scheduler

The composition of `Settings`, `WeeklyRun` and the loops.  `StartLoop` is
`Scheduler.Start`, one critical section; `Restart` is its call at the end of
`UpdateSettings`; `Reboot` is a crash followed by `NewScheduler`.  A loop's
select is three actions, `Exit`, `TriggerFull` and `TriggerIncremental`, so a
cancelled loop whose timer is ready may do either.  `runIncrementalBackup` reads
the settings before it takes the scheduler's lock and is two actions after its
trigger.  Time is cyclic, with timers as hours from now, so nothing bounds it.
`HourPasses` waits until every loop has done what it can, which is the
assumption that a loop, whose steps only start goroutines, is faster than an
hour.

### 2.9 Login

`api` and `apiProtected` as steps of a call, the one login dialog, the requests
of its button, `IdleTracker`, and behind them the sessions of `service/auth.go`
with their sliding expiry and the middleware that renews them.  Time is counted
in ticks of the session's life, and a history variable counts them since each
session was last used: a session is refused when it was unused for its whole life,
and let through only otherwise.  A dialog belongs to the call that opened it;
opening another removes its element and nothing else, so that the first call's
promise can stay pending for ever.

### 2.10 Confirm and Panels

`Confirm` is `showConfirm`: the element, the promise and the key handler, which
leaves the document only with the Enter or Escape it acts on.  `Panels` is how
thirteen pages ask for their list and act on it: for each, which choice goes
with the request (a database, a folder, a kind of job, a tab or nothing),
whether it looks its element up before or after the answer, whether it shows an
error or keeps what was there, whether it keeps the answer and shows it again,
what asks again (a poller, a timer after a kill, the answer to a deed), and
which of its buttons ask for confirmation.  One operator of the page's name
answers each of these questions, and a behaviour is about one page.

### 2.11 Feed

The dashboard's socket, the log viewer's and `navigate`, which opens and closes
both.  A socket of the browser goes from connecting to open, closing or broken
and fires its callbacks later; the callbacks use the variable, which may hold
another socket by then.  `scheduleReconnect` and its timer are an action each.

### 2.12 Dashboard

Counters that grow and are reset, samples of them that arrive by request and by
socket, and what `updateDashboard` makes of two: the total, the growth of each
database, and the points of the chart.  A rate is the growth it stands for; the
division by the seconds in between is left out.  A sample also carries the counts
that no reset takes back, which only the properties read.

### 2.13 Trackers

Starting a job, remembering its id, the first question, the interval of three
seconds and the answers, on the three pages that do this with differences: one
job or two, an interval that looks whether its page is there or does not, an
error that stops it or does not.  The server side is a job that runs and ends.
`misled` is set by an answer to an older question, or about another job, that is
shown or stops the interval, and forgotten when the interval asks again or is
set by the next job.

### 2.14 Tuner

The three steps of the wizard, which share an element, with detections and
analyses under way, the confirmation, the application and what follows it; and
the two computations of the connection limits, `calculateConnections` of the
backend and `previewConnections` of the page, with integer division, rounding
and the limits of each.

### 2.15 Editor

The rendering of the SQL page as a sequence of awaits that a second rendering can
overtake, the editors it makes, the draft that the planner leaves in the
session storage, the schema for the completion, and the queries with their
button.

### 2.16 Plans

The dialog that explains a query, whose answer goes to whichever dialog is there,
with the listeners on its button; the store of saved plans; the list, the ticks
and the comparison.  `PlanStore.Save` takes the clock and its number before the
lock and is two actions, `Stamp` and `Insert`, so plans may be put in in another
order than they were created; the store keeps those put in last, and `List`
sorts by creation.  `load` of the page is three: it asks (`loadPlans`), the
store is read (`List`), and the plans take effect when the slow queries are there
too (`plansLoaded`), or nothing does.  Every load of `Lister` may be under way at
once and nothing orders them, so an older list may come back over a newer one,
from which a plan was ticked: `asOf`, a history variable, is how many plans had
been put in when the list that the page has was made.

### 2.17 Forms

Three forms over one configuration.  The alerts and the profiles save what they
loaded with their own section put in; the schedule loads again when its button
is pressed and reads its inputs after that.  A load is asked for, answered by the
server (`Served`) and shown; a save is posted, stored (`Stored`) and answered
(`Saved`), and everything else may happen in between.  An input that is empty, a
number that is 0, or an input that is not there any more (`Or`) becomes its
default in the alerts and the schedule and the loaded value in the profiles; the
model has one such value, `Blank`, and one default for each section.
`ProfileSelector` keeps a copy, which is reset when the profiles' form has its
answer: between the two it offers what there was (`Unanswered`).

### 2.18 Pools

`GetPoolForProfile` is four actions, as its locks divide it: `Lookup` under the
read lock, `touchPool` for a pool that was found, `Miss` with its double check
and the choice of the pool that makes room, `Make`, which holds the lock while
it connects.  Closing a pool is two, because `pool.Close` refuses at once and
then waits.  `Acquire` and `Release` are the handler's queries; a handler may
borrow two pools, as the schema comparison does.  `sweepIdlePools`, `Close` and
`Exit` are the goroutine of the sweep and the end of `main`, which does not wait
for requests.  The time of the last use is an order and a set of those that are
due; `TimePasses` needs that whoever can take a step without a query, a ping or
a wait has taken it.

### 2.19 Alerter

`Tick` is the ticker and the choice of what exceeds its threshold, `fire` one
alert's critical section, `resolveMissing` the one at the end.  Minutes are
counted from the last announcement, so that the cooldown and its end are
states of the model.

## 3. The runs

| Run | Instance | Shows |
|---|---|---|
| `walg` | full, incremental, two restores; 2 jobs; retain 0, 1, 2; all faults; 92 198 states | exclusion, chains and the newest backup (`BackupsStand`), the directory, and `ExclusiveJobs` |
| `walg_beside` | full, incremental, restore, verification, one restart request; 2 jobs; retain 0, 1, 2; all faults; 824 022 states | what work without the lock can break and what it cannot (`BesideExplained`); jobs, files and scratch directories are accounted for; records are true; nothing is taken back |
| `walg_live` | incremental, restore, verification; 5 faults; 6 288 states | every job ends: the fair abstract specification |
| `walg_promise` | full, restore, no faults | *violated*: the server need not come back |
| `repack` | two runs, two cancels; 247 020 states | pointer and records stay truthful; the pointer clears |
| `repack_twice` | two runs | *violated*: two processes at once |
| `data_jobs` | two exports, a vacuum and a download, and an import with every option beside any one of them; 2 jobs; 159 783 states | list order, files, downloads, what a failed import leaves; every job ends |
| `scheduler` | two requests to save, three schedules, masked tokens, failed writes and crashes, two loops, a week of 4 hours; 910 325 states up to symmetry | memory and file in step; one live loop, for the settings in effect; announced is armed; a restart keeps the settings |
| `scheduler_live` | one request, two schedules; 32 146 states | cancelled loops end; backups go on |
| `web_pages` | `Login` with two calls, two submits, two sessions; `Panels` with thirteen pages, two choices, two dialogs, two requests, two visits; `Dashboard` with two databases and three times; 1 438 111 states together | calls settle, once; sessions expire when unused; lists and deeds; rates |
| `services` | `Feed` with two sockets of each kind; `Pools` with three requests, one of them for two pools, and room for one pool of one connection; `Alerter` with two alerts; 159 480 states together | sockets, pools and alerts, each explained; the dashboard keeps trying; requests end |
| `web_work` | `Trackers`, `Tuner`, `Editor`, `Plans`, `Forms`, each with two or three of everything; 695 560 states together up to symmetry | what each page shows, runs and saves |

**Several modules in one run.**  `MCWebPages`, `MCServices` and `MCWebWork` take
one of their modules at the start of a behaviour and leave the others' variables
alone; the modules share none.  Fairness of one module asks nothing of the
others' behaviours, because its fair actions are disabled in its initial state.

**Bounds.**  In the backend's job modules every request id is used once, so the
number of requests bounds the behaviours.
`MaxJobs` is 1 or 2 instead of 200, below the number of requests in most
runs, so that running jobs are evicted.  Two exclusive requests of different
kinds and one further one are enough for every pairwise race on `opMu` and for a
prune while a third request waits; `RetainCounts` of 0, 1 and 2 cover "keep all",
"keep only the newest" and "keep a chain that is not the newest".  `Faults`
names the commands that may fail without a cause in the model; it is everything
except in `walg_live`, which needs one for each kind of exit, and `walg_promise`,
where the point is that nothing fails.  `MayAsk` keeps an import, whose
options make its combinations many, to one other request; no fair action is cut
off by it.  In `Settings` and `Scheduler` a request
may be made again and again and time never ends, so behaviours are infinite and
only the states are few.  `Loop` bounds the loops that exist at once: two are
the live one and a cancelled one, and a `Start` that finds no place waits.  The
week of 2 days of 2 hours keeps what the loops can tell apart: a slot today,
later today, on another day; for weeks of every length `nextWeeklyRun` is proved.
The three schedules are one hourly, one from the deprecated field with a slot
that is none, and one disabled.  Symmetry is used in `scheduler`, for the interchangeable requests and loops, and
in `web_work`, for the jobs and the loads of the plans, runs whose properties are
invariants and action properties; elsewhere the requests differ in kind or a
temporal property is checked.

Names that are only names (of a login request, a session, a dialog) are given
out in a fixed order. In the front end, two requests under way are the least
with which an answer can be late, two choices the least with which it can be
wrong, and two visits the least with which it can find another rendering;
`MaxVisits`, `MaxAsks`, `MaxPolls`, `MaxLoads`, `MaxFrames` and their like are
these twos. A session lives one tick. `OneBoxOnVacuum` opens the second dialog
on every page but the largest; the dialog is the same for all. Saved plans are
three in a store of two of which the page lists one, so that both ends of the
list are passed, with two loads of the list. `OneAtATime` keeps the dialogs of
the plans apart from their list, with which they share only the requests to
save: plans are saved and listed from one dialog and one database, and compared
while neither goes on. `SavesLeft` ends the behaviours of the forms in which a
save is posted that the bound does not let be stored, and `SelectorApart` leaves
the selector out once the alerts are loaded or saved, of which it notices no
more than of the schedule. `OneLoading` and `AppliedFirst` keep two smaller
things apart: the page with two jobs is not opened again while it loads (the
other two are), and settings that were agreed to are applied before the next
question. The settings start empty, and the default of a number is the one value
that can be typed. `Typed` is negative, which is the one case in which the two
computations of the wizard part; that they agree on all others is proved.

One pool with one connection makes every second key an eviction and every second
query a wait; three requests, one with two keys, are the least with which a pool
that is waited for is held by one who waits for another.  The cooldown of three
minutes lets an alert be resolved and open again twice within it; `MaxHistory`
is 2 instead of 100, so that events are trimmed.

**Fairness.**  `WF(Work)`: a goroutine that can run is scheduled and its command
ends.  `SF(Lock)`: `sync.Mutex` hands itself to a waiter of more than a
millisecond, so a waiter for whom the lock is free again and again gets it.
`WF(RestartStart)`: `pg_ctl restart` goes on from stop to start.  No request has
to be made, and `PostmasterExits` is not fair.  In `Repack`, handlers and
goroutines run on and `pg_repack` ends, killed or not; in `DataJobs`, handlers
and goroutines run on.  In `Scheduler`, hours pass, loops run and a request that
has been saved restarts the scheduler; that backups go on moreover supposes that
the settings are left alone from some time on, because each save restarts the
ticker.  In `Feed`, timers fire and a socket that was closed or broken says so;
nothing obliges the server to accept.  In `Pools`, queries and pings end
(`WF(Make)`, `WF(Release)`, and the steps of closing), and `SF` for whoever waits
for `pm.mu` or for a connection: `sync.RWMutex` and `pgxpool` serve in the order
of arrival, and the model's free lock is one that can be taken.

**Deadlock** is checked in the runs of the job modules and the scheduler;
`Quiescent` is the state in which every request has been made and is over,
where the real program waits for the next.  In `web_pages`, `web_work` and
`services` it is not: calls, visits and requests are bounded, `Pools` ends with
the program, and a behaviour that has used them up stops.  That nobody waits for
ever there is what `RequestsEnd` and `KeepsTrying` are for.

### What the violated runs say

1. `walg_promise` (`service/walg.go` 474).  A restore first looks at the backup
   it names after it has stopped the server and emptied the directory.  When a
   backup that was queued in front of it prunes that name, the fetch fails, the
   goroutine returns, and nothing starts the server, although the answer was
   "PostgreSQL will restart".
2. `repack_twice` (`handler/repack.go` 128).  `running` is checked in one
   critical section and set in another, so two requests can both pass.

### Outcomes that no run singles out

The models have further outcomes that a reader of the code may not expect, and
that no line of the repository rules out.

* A second repack request that reads `running` again after the unlock may find
  it nil and panic (`panicked`; `handler/repack.go` 124).
* `Kill` succeeds on a process that has exited and was not waited for, so a
  `pg_repack` job can go from cancelled to succeeded (`CancelJob`, `Judge`;
  `handler/repack.go` 179).
* `psql -f` without `ON_ERROR_STOP` exits with 0 after SQL errors, so an import
  job can succeed without having loaded its file (`Load`;
  `handler/database.go` 257).
* The settings file is rewritten in place; after a crash in between it does not
  parse, and the next start replaces it by the defaults (`Crash`, `Load`;
  `service/config_store.go` 164).
* Every connection profile with a name is enabled, also by the save that
  disables it (`Normal`; `service/config_store.go` 240).
* The stored token is read in one critical section and written back in another;
  a new token saved in between is undone (`handler/settings.go` 45).
* A cancelled loop that has read the old interval announces it after its
  successor's announcement (`NoteIncremental`; `service/scheduler.go` 101).
* A pool is closed, and its users refused, when another key needs its place,
  when the sweep comes between finding and touching it, or at the shutdown, for
  which `main` waits for nothing; the oldest pool is closed also when the new one
  then cannot be opened (`Miss`, `Make`; `service/pool_manager.go` 73 and 200).
* An alert that comes back, or changes its level, within the cooldown has no
  event in the history and keeps the time of its end (`fire`;
  `service/alerter.go` 171).
* A call whose login dialog another call replaces never settles; one whose
  button is pressed twice can be carried out twice (`app.js` 58 and 84).
* A confirmation answered with the mouse leaves its key handler, which the next
  Enter runs (`app.js` 201); a row's button acts on the database chosen by the
  time of the answer (`extensions.js` 86).
* A late answer replaces the list of what is chosen now, on every page that does
  not look its element up first (`ShownExplained`; `s3.js` 37).
* An answer about the job followed before stops the interval of the present one
  (`backup.js` 322).
* Of two loads of the saved plans the one that was asked first may be answered
  last: the page goes back to the older list, and a plan ticked in between is
  ticked and not there (`plansLoaded`; `queries.js` 31).
* PgBouncer's settings are those of the latest analysis, not of the one in the
  confirmation (`tuner.js` 460).
* The SQL page that is rendered twice has two editors, and the draft of the
  planner goes to the one that is not seen (`sql.js` 72).
* A save of any form undoes what others saved since it was loaded
  (`alerts.js` 144); the schedule saves defaults when its page was left
  (`backup.js` 105).
* An emptied number, or a 0, of the alerts is saved as its default (`alerts.js`
  136), and an emptied input of a profile as what was loaded (`profiles.js` 82):
  neither can be cleared.
* Between the storing of new profiles and the answer the selector offers the old
  ones; if the answer is lost it goes on to (`profiles.js` 94).

## 4. The proofs

A theorem holds for every value of the constants that its assumptions allow,
where a run has one small instance.  The assumptions are the named `ASSUME`s of
the modules: that bounds are natural numbers, that a null (`NoJob`, `NoBox`,
`NoSid`, ...) is not one of the things it stands beside, and what is listed with
each part.  Sets of requests, calls, jobs, sockets and so on are otherwise
arbitrary, and infinite ones are allowed wherever nothing counts their members.

Few of the invariants are inductive.  Each component with a theorem defines, below
its properties, what they rest on, and a conjunction called `Inductive` (or
`PoolsInductive`, `LoginInductive`, ...).  It was first checked with TLC, then
proved: the initial states have it, every action keeps it (one lemma for each
action, `...Keeps` or `...Next`), and it implies the properties.  A temporal
theorem only combines the three.

### 4.1 Backups and restores (`WalGProofs`, `JobStoreProofs`)

`StoreAssumption` (`MaxJobs` is a positive natural) and `WalGAssumption` (one job
id for each request, each of a known kind, retention counts are naturals).

| Theorem | States |
|---|---|
| `TypeCorrect` | `Spec => []TypeOK` |
| `Exclusion` | `Spec => []MutualExclusion` |
| `StoreTrue` | `Spec => []StoreIsTrue`, from `StoreIndexed` (`IndexOK`) and `RecordsTrue` (`RecordIsTruth`) |
| `DirectorySafe` | `Spec => []DirExplained` |
| `BackupsSafe` | `Spec => []BackupsStand` |
| `BesideSafe` | `Spec => []BesideExplained` |
| `NothingReturns` | `Spec => NothingTakenBack`, an action property |
| `Refinement` | `Spec => AbstractSpec` |

`MutualExclusion` is not inductive: it does not know that only the holder of
`opMu` is between `Lock` and `Unlock`.  `Control` adds that (`LockInv`), that a
goroutine takes only the steps of its kind of request (`KindInv`) and that it has
an outcome exactly when it is returning or gone (`OutcomeInv`).  `ControlNext`
proves it action by action, from `HeldMoves` for the steps that move one holder.
`IndexOK` speaks of a cardinality, so it is proved through `IndexInv`, which says
instead that no id is in the list twice.  That needs `FreshInv`, that a request's
id is new when it calls `Start`; `JobStoreProofs` proves what `Start` and `Trim`
preserve.  `RecordIsTruth` follows from `Control`, `FreshInv` and `RecordMoves`:
a store call changes at most the record of the goroutine that makes it.
`DirExplained` needs `GaveUpStays` (an outcome is never taken back) and `DirNext`.

`BackupsStand` rests on `ChainInv`: a name is used once; a delta was pushed on
what was then the newest backup, so no full backup lies between it and its base
and retention counts the same full backups for both; and the holder of `opMu`
that is pushing a delta still has the newest backup in hand.  `BesideExplained`
rests on `ServerInv` (with no restart request the server is down as long as a
restore has the directory in hand) and `ReportInv` (who can have a scratch
directory or a report, and that only a verification that succeeded offers one).

For the refinement, `WorkMoves` shows that a step of a goroutine either leaves its
phase or ends it, `Phases` carries one changed phase through the mapping, and
`Simulation` collects the steps; `LockInv` is what makes `Lock` a `Begin`.

### 4.2 Repack, exports and imports (`RepackProofs`, `DataJobsProofs`)

| Theorem | States |
|---|---|
| `RepackTrue` | `Spec => []RepackExplained` |
| `LeavesWhatJobsSay` | `Spec => []WhatIsLeft` |
| `ListsByTime` | `Spec => []ListFollowsTime` |

`SettleInv` is what `RepackExplained` lacks: a goroutine settles its job on the
way to clearing the pointer, says how the process ended only then, and what makes
it fail the job is not taken back.  In `DataJobs`, `FileInv`, `ImportInv` and
`DownloadInv` say, for one request each, who can have a file and who must, what an
import has done so far, and what a download saw when it looked its job up (of a
file without a record, that its job was cut off at work, which is the only way
for `Start` to leave one: `JobStoreProofs` has what it removes);
`IndexInv` is the one of the store again, so that the job of a request that goes
on is found, or was evicted.  `TimeInv`: a job was stamped no earlier than what
was in the store then, and stands in front of it.

### 4.3 Schedule and settings (`SchedulerProofs`)

`WeekAssumption` (positive lengths, a default hour within the day),
`SettingsAssumption` and `SchedulerAssumption`.

| Theorem | States |
|---|---|
| `NextWeeklyRunCorrect` | for every instant, weekday and hour: `IsNextRun`, and at most a week ahead |
| `SettingsSaved` | `Spec => []MemoryIsSaved` |
| `OneLoop` | `Spec => []OneLiveLoop` |
| `LoopTyped` | `Spec => []SchedulerTypeOK` |
| `LoopTrue` | `Spec => []LoopExplained` |
| `RestartsKeep` | `Spec => RestartKeepsSettings`, an action property |

`NextWeeklyRunCorrect` holds for weeks of any length, which makes it an argument
about remainders: `Remainder` (any decomposition determines the remainder) rests
on `SmallMultiple` (no multiple of n but 0 lies between -n and n); `DaysAhead`
says that the computed number of days leads to the weekday and that no earlier
day does, `NextWeek` that the weekday comes again after a week and not before.
`MemoryIsSaved` needs `RequestsReady` (a handler past the mask has a storable
configuration) and `FileIsNormal` (loading the file changes nothing), without
which a restart would not give back what was saved; `RestartKeepsSettings` rests
on the same two.  `OneLiveLoop` needs only that the records of the loops have the
fields the code reads (`LoopsShape`); `StartLive` is its heart.
`LoopExplained` needs more: a place is free or its loop has an interval to count
(`PlacesInv`); of the loops of an hour one may have a timer that fired, and none
has one once the full backup of the hour was started (`FiredInv`); and the
announced run is the next slot from the moment the loop has announced it
(`AnnouncedInv`).  The calendar enters only through `NextWeeklyRunCorrect`.

### 4.4 Sockets, pools, alerts (`ServicesProofs`)

| Theorem | States |
|---|---|
| `PoolsTrue` | `PoolsSpec => [](PoolsTypeOK /\ PoolsExplained)` |
| `SocketsTrue` | `FeedSpec => [](FeedTypeOK /\ SocketsExplained)` |
| `AlertsTrue` | `AlerterSpec => [](AlerterTypeOK /\ AlertsExplained)` |
| `ServicesTyped` | `ServicesSpec => []ServicesTypeOK` |

`PoolsInductive` says what the holder of `pm.mu` may be doing: it has made room
when nothing is left to close, and alone closes a pool (`RoomInv`, `OpenInv`); a
pool is for one key and is made once (`KeysInv`, `MadeInv`); who makes one has the
lock and finds the key free (`MakerInv`); and a pool that a request has still to
ask, and that is idle or was swept, is one it had not touched or was held up with
(`AskedInv`).  That the cache stays within its limit is a fact about the list of
last uses: it has every key once (`WithoutIs`, `AppendIs`, `KeysCounted`).
`FeedInductive`: a socket in use has its handlers, and unless a socket was replaced
only the one that the page knows of has any.  `AlerterInductive`: an open alert
with the time of its end is one that came back in silence (`EndIsOver`), and
during a check that holds of what the check has fired so far (`FiredSoFar`).

### 4.5 Calls, lists and rates (`PagesProofs`)

| Theorem | States |
|---|---|
| `CallsTrue` | `LoginSpec => [](LoginTypeOK /\ CallsExplained)` |
| `LoginStepsHold` | `LoginSpec => LoginSteps`, an action property |
| `ListsTrue` | `PanelsSpec => [](PanelsTypeOK /\ ShownExplained)` |
| `DeedsTrue` | `PanelsSpec => []DeedsExplained` |
| `RatesTrue` | `DashboardSpec => [](DashboardTypeOK /\ RatesExplained)` |
| `WebTyped` | `WebSpec => []WebTypeOK` |

`LoginInductive`: unless its button was pressed twice a call is in one place at a
time, in its dialog, with the request made from it or in a request of its own, and
nowhere once it was served (`PlaceInv`); a call whose dialog nobody took away is
where it can be seen (`PendingInv`); a login request belongs to the dialog on the
screen or to none (`RequestInv`); and a session's age is what it has left, the
browser knowing only ids that the server gave out (`AgesInv`), from which a
session in use is not refused, and one that is not is.  `PanelsInductive`: of the requests under way one
at most is the newest, and while it is, it is for what is chosen and its answer
will be seen (`NewestInv`); once it is answered the list, and what is kept of it,
are of what is chosen (`ListInv`); only the page of the vacuum polls
(`LaterInv`); a dialog that is not excused was opened over the database that is
chosen (`RowInv`).

`DashboardInductive` orders the samples: of two under way the later one counts no
less, and what a sample leaves out, the counts before the last reset, is no less
either (`WayInv`).  A difference of two samples can therefore not exceed what was
counted in between, if the older one is what the page has as its last
(`Counted`, `LastInv`), and the chart has what was counted up to the last sample
that listed the databases (`ChartInv`).  The reset of the statistics cancels out:
the difference is too small after one, never too large.
The assumption is `DashboardAssumption`: finitely many databases, at least one
point in the chart, and an `Http` that is none of the sockets.

The rest is about sums.  `SumFunctionOnSet` folds over a finite set in an order
that `CHOOSE` fixes, so that it is a number at all, that any element may be taken
out first, that sums are monotone, and what they are of `Append` and `Tail`, are
facts to be proved by induction on the set.  The induction theorems of the library
take a predicate and cannot be instantiated; the lemmas argue instead by a least
counterexample: strict inclusion is well-founded on finite sets, so a set of
subsets for which the fact fails has a smallest member (`Smallest`), and the two
equations of the sum (`SumRec`, from `SumUnique` and `SumExists`) refute it.

### 4.6 Pages at work (`WorkProofs`)

| Theorem | States |
|---|---|
| `PreviewMirrorsAnalysis` | for every positive expectation and number of processors the wizard's preview is what the analysis answers |
| `PoolFits` | for every integer expected, in range or not: between 50 and 500 connections, three of them kept back, and a full PgBouncer pool with its reserve within the rest |
| `WizardTrue` | `TunerSpec => [](TunerTypeOK /\ WizardExplained)` |
| `AppliedAsAgreed` | `TunerSpec => AppliesAsAgreed`, an action property |
| `EditorTrue` | `EditorSpec => [](EditorTypeOK /\ EditorExplained)` |
| `PlansTrue` | `PlansSpec => [](PlansTypeOK /\ PlansExplained)` |
| `FormsTrue` | `FormsSpec => [](FormsTypeOK /\ FormsExplained)` |
| `SectionsKept` | `FormsSpec => SavesOwnSection`, an action property |
| `TrackersTrue` | `TrackersSpec => [](TrackersTypeOK /\ Watched)` |
| `WorkTyped` | `WorkSpec => []WorkTypeOK` |

* **Tuner.**  The connection limits are linear arithmetic with the definitions
  expanded; `PoolFits` hides how the number of connections came about behind its
  bounds (`MaxConnBounded`).  For the steps: while its system is being detected a
  rendering shows that, if nothing crossed it (`DetectInv`); nothing gets past
  step 1 before the system is known (`KnownInv`); the question is about the result
  there is, or a result was answered under it (`AskedInv`).
* **Editor.**  A rendering makes the editor of its page (`MadeInv`), and one that
  began when no other was under way is the only one (`RenderInv`); the schema that
  is cached or asked for is that of the database (`SchemaInv`); the query under way
  is the last (`RunsInv`).
* **Plans.**  Every plan has its place in the order in which they were put in, and
  those with a number but no place are the ones that wait for the lock (`StoreInv`).
  A list, of the page or of a load under way, is an interval of these places that
  ends with the last one there was when it was made (`ListInv`, for each load in
  `ListsInv`), whichever load comes last.  So a ticked plan is in the page's list,
  or lies behind its end, which is `asOf < place[id]`, or in front of its
  beginning, and then the whole list was put in later; and if the list has it and
  the page does not show it, the plans that the sort puts before it fill the page
  (`TicksFollow`).
* **Forms.**  What counts as fresh is what the server has, its own section excepted
  (`GetsFresh`, `LoadedFresh`, `PostsFresh`), and nothing is once something was
  stored; a schedule about to be saved is on the screen as it was, or is known to
  have changed (`PressedInv`); the profiles on their way to the selector
  are those of the server unless they are known to be older or the answer to a
  save of the profiles is still to come (`SelectorInv`).
* **Trackers.**  One request is the newest, and no later rendering has asked before
  it (`PollInv`); once the page has loaded, what is followed is shown or a request
  under way will show it (`ShownInv`); and without an interval all that is followed
  is over, is not shown as running, and the newest request will say so (`OverInv`).
  All three give way when a misdirected answer is shown or stops the interval, and
  hold again from the interval's next question on.

### 4.7 What stays with TLC

* Liveness under fairness, which is out of the prover's reach: `AbstractFairSpec`,
  `PointerClears`, `JobsEnd`, `SchedulerLives`, `KeepsTrying`, `RequestsEnd`.
* The two violated promises, `ServerReturns` and `OneRepackAtATime`, of which the
  runs show that they do not hold.


## 5. Not modelled, and the plan

* **The container** (`src/docker-entrypoint.sh`, `src/postgresql/`, `src/pgbouncer/`):
  shell scripts that start three processes and end when the first of them does.
  That a restore, which stops PostgreSQL, may so end the container is a hazard
  no property covers.  A crash of the backend during a job belongs here too: the
  job list is gone with the process, and only the data directory and the files
  remain.
* **PgBouncer administration, the monitor's collection, the log handler, the
  lock tree, the SQL handlers, the object store, the catalogue handlers,
  routing and wire types**: they keep no state between requests, or a list they
  only append to, and consist of calls to PostgreSQL, S3 or files.
* **Layout**: how lists, charts and dialogs look, formatting, icons, wording.
* **In the SQL editor** the list of past queries and the plain text area that
  stands in for an editor that cannot be loaded.
* **A command that never ends.**  The code gives `wal-g`, `pg_ctl`, `pg_repack`
  and SQL no timeout, so that they end is an assumption, written as fairness.

The suite stays at a dozen runs.  What the plan has left is a proof: the
refinement of `ExclusiveJobs` beside requests of the other job handlers.

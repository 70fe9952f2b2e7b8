# Formal models of OSP Logbook

OSP Logbook is the trip, fuel and maintenance register of a fire brigade: a Flask
application (`src/backend`, served by gunicorn workers with threads) over PostgreSQL, with
Redis in front of some reads, and JavaScript in the browser (`src/static`) that keeps offline
queues of quick trips and of forms. This directory holds TLA+ models of its parts, the TLC configurations that
check them on small instances, and TLAPS proofs of the properties that matter most for instances
of any size. `PROJECT.json` ties every definition to the lines it models, every property to a
run, to a bug that would break it (a *mutant*), and to the hazard it is about.

Contents: [Inventory](#inventory), [Modules](#modules), [Runs](#runs), [Findings](#findings),
[Proofs](#proofs), [What is not modelled](#what-is-not-modelled), [Plan](#plan).

To check everything here by hand:

    tlc -config Logbook_requests.cfg MCLogbook.tla    # and likewise each row of the table of runs
    tlapm LogbookProofs.tla                           # and likewise each module named ...Proofs

## Inventory

For each component: its state, its operations, whom it talks to, what is hard about it, and what
makes it correct.

| Component | State | Operations | Talks to | Hard | Correct when |
|---|---|---|---|---|---|
| **Write path of entries and vehicles** (`routes/{trips,fuel,maintenance,admin,api}.py`, `application/`, `infrastructure/repositories/`) | tables `trips`, `fuel`, `maintenance`, `vehicles`; the row a request has read | add, edit, soft delete, complete, create next, legacy purge; add, edit, delete a vehicle | database, cache invalidation, audit log | check and write are different statements at READ COMMITTED; two threads per worker, two workers; `ON DELETE CASCADE` | a row changes only by its author or an administrator; no row outlives its vehicle; soft-deleted rows are frozen; a refused request changes nothing |
| **Audit log** (`services/audit_service.py`) | table `audit_log` | `log`, in a transaction and on a connection of its own | connection pool | it runs after the commit and may fail alone | it never tells of a change that was not committed |
| **Cache** (`infrastructure/cache/redis_cache.py`, `services/cache_service.py`, `repositories/dashboard.py`) | Redis; `_in_memory` of each worker | `get`, `set`, `get_or_set`, `@cached`, `invalidate_prefix` | every reader of the dashboard and the APIs, every writer | a value loaded before a commit is stored after its invalidation; cached functions inside a cached function; Redis outages; several workers | no answer is older than the layers' TTLs allow; invalidated entries do not survive; memory stays bounded |
| **Quick trip and its offline queue** (`static/js/osp-quicktrip.js`, `static/sw.js`) | `localStorage` queue and its two older keys; undo buttons; trips on the server | confirm, post, queue, flush, undo, migrate, page load | `/api/trips`, the service worker, other tabs | every `await` lets other handlers run; answers get lost; pages are left at any moment; the service worker answers for the server | no confirmed trip is lost; what is reported saved is saved; every trip is saved in the end; duplicates have a cause |
| **Connection pool** (`db.py`, `audit_service.py`) | psycopg2 pool of a worker; `g.db` of each request | `get_db`, `reset_pool`, `close_db`, `AuditService.log` | PostgreSQL, all requests | `close_db` returns a connection twice; `reset_pool` closes what others use; the database may be away | no connection is shared or leaked; the pool suffices for all threads |
| **Accounts, sessions and CSRF** (`routes/auth.py`, `routes/admin.py`, `helpers.py`, `web/app_setup.py`) | table `users`; the signed cookie with a copy of the admin flag and of the start of the session | login, logout, change password, add and delete users, expiry | all routes | the copy outlives the account; an answer writes back the session its request came with, whatever the browser has by then; two administrators delete each other | who writes as an administrator is one; rights end with the session; there is always an administrator |
| **Service worker: static cache and sync queue** (`static/sw.js`, `static/app.js`) | Cache Storage, IndexedDB queue of forms, the sync registration | `submitForm`, sync event, `flushQueue`, cache update | `/api`, `csrf_protect` | stale tokens, expired sessions, a worker stopped between answer and deletion | a queued form is sent, once, or stays queued and is not forgotten; what is reported saved is saved, under the name of its page's login |
| **Equipment** (`routes/equipment.py`, `helpers.py`, `repositories/trips.py`, `templates/trips.html`) | tables `equipment`, `trip_equipment`; the list of equipment a form offers | add, rename, delete, preload; the equipment rows of a trip; `loadEquipment` | trips, vehicles and their cascades | preload reads names, then inserts; equipment goes between the form that names it and the trip; the answers of `loadEquipment` cross | a vehicle has a default name once; a trip has the equipment its form listed, all of it, and of its own vehicle; no row outlives what it refers to |
| **Application start and migrations** (`bootstrap.py`, `db.py`, `alembic/`) | schema version, the first administrator | `create_app`, `init_db`, `ensure_bootstrap_admin`, upgrade | database, gunicorn fork, requests of other instances | several processes start at once; a failed `init_db` is only logged | an instance comes up with an 'admin' who can log in |
| **Paging, periods and date filters** (`helpers.py`, `routes/report.py`, `repositories/trips.py`) | none of its own | `paginate`, `build_date_where`, `parse_positive_int`, the period of a report | lists, reports, printed logs; all writers | one page is several statements, a walk through a list several pages, and others write in between; boundaries of pages and of periods | a walk misses no row; a page past the end shows the last one; a period has every day of its months and no other |
| **Reports and dashboards** (`routes/report.py`, `routes/main.py`, `repositories/{report,dashboard}.py`) | none of their own | report, printed log, dashboard | database, cache | figures that come from different statements | the sums are those of the rows listed; what a period carries over is what the one before ended with |
| **Active trip card** (`static/app.js`, `osp-quicktrip.js`) | `localStorage` entry; the prefilled form and its locked vehicle | confirm, undo, prefill, complete, refuse | trip form, quick trips, other tabs | the card of one trip and the undo button, or the form, of another; a locked field that is changed and put back | the card goes away with its own trip only |
| Pages and styles, deployment | none | render, configure | | | |

`PROJECT.json` lists the hazards one by one, each at the line where it bites.

### How the components interact

A request thread takes a connection (`get_db`), reads and writes in one transaction, commits,
removes cache keys prefix by prefix, writes its audit entry over a second connection, answers, and
gives the connection back in `close_db`. The models cut this sequence where the hazards are:
`Logbook` keeps the statements and the commit and leaves out the pool and the cache; `Cache` keeps
commit and invalidations and reduces the database to a history of versions; `ConnPool` keeps who
holds which connection and reduces a request to "works, perhaps audits, ends". `QuickTrip` stands
on the other side of the wire and sees the server as rows that appear, refusals and redirects;
`SyncQueue` stands there too, with the session and the token of the browser, since forms wait for
longer than sessions last. `Accounts` has the sessions on both sides: rows of `users` in the
database, copies in cookies and in the requests under way. `Reading` takes the writers of `Logbook`
as rows that come, change and go between the statements of a reader. `TripForm` is composed with
its server: its forms arrive at `Equipment` as `Save`, and `ImplementsServer` proves that a browser
which follows `TripForm` never sends anything the server on its own is not ready for.

## Modules

| Module | What it is |
|---|---|
| `Ledger` | abstract: the life of a row, without requests |
| `Logbook` | the write path, statement by statement; implements `Ledger` |
| `LogbookProofs` | type correctness, integrity, authorship and the refinement, for any instance |
| `Freshness` | abstract: how old an answer may be, without any store |
| `Cache` | Redis, the memories of workers, readers and writers; implements `Freshness` |
| `CacheProofs` | type correctness, the bound of the memory, what invalidations reach and the refinement, for any instance |
| `QuickTrip` | confirmations, flushes, tabs, the service worker and the server |
| `QuickTripProofs` | type correctness, and that no trip is lost or saved twice as long as handlers do not overlap, for any instance |
| `ConnPool` | the connections of a worker and its threads |
| `ConnPoolProofs` | type correctness, exclusiveness, no leaks and room, for any instance |
| `Accounts` | users, cookies, the requests that use them and the start of instances |
| `AccountsProofs` | type correctness and all the properties of `Accounts`, for any instance |
| `SyncQueue` | the forms of a page, their queue, the sync event and the server |
| `SyncQueueProofs` | type correctness and all the properties of `SyncQueue`, for any instance |
| `Periods` | dates and the periods entries are selected by: months, quarters, filters |
| `Reading` | the pages that read: lists with filters and pages, reports, printed logs |
| `ReadingProofs` | what the periods select, for every date; all the properties of `Reading`, for any rows |
| `Equipment` | equipment, its use on trips and the cascades, with the routes that write them |
| `TripForm` | the trip form, its equipment picker and the active trip card, over `Equipment` |
| `TripFormProofs` | the references, trips and default names of `Equipment`, all that `TripForm` keeps, and the refinement |
| `MCLogbook`, `MCCache`, `MCQuickTrip`, `MCConnPool`, `MCAccounts`, `MCSyncQueue`, `MCReading`, `MCTripForm` | what TLC's instances add: symmetry and bounds |

In every module an operator named `Action_Slip`, under a comment "slip:", is a plausible mistake in
`Action`. No specification uses it; replacing `Action` by it must break the property it is listed
with in `PROJECT.json`.

### Ledger and Logbook

`Ledger` has four variables: `vehicles`, `entries` (one function over ids; the `kind` of a row says
which of the three tables it is in), and the ids that the identity columns have handed out. Rows are
recorded once for a vehicle that is there, revised while active, retired (soft deleted), erased
(purged, or taken by the cascade with their vehicle).

`Logbook` has the same four variables and, per thread `r`, `pc[r]`, the request `req[r]` with its
session, the `row[r]` its own SELECT returned, and how it ends (`outcome`, `hit`, `audited`). One
SELECT is one step. A writing statement and its commit are one step: a second writer of the same
row waits for the commit and then applies its own `WHERE` to the new row, which is what the step
does. The sequences are those of the code:

- edit: `CheckInRoute` (the route reads the row), `CheckOwned` (the use case reads it again),
  `CheckVehicle` (`get_active`), `SaveEdit` (UPDATE, row count, commit), `WriteAudit`, `Reply`;
- delete: `CheckOwned` inside the repository's transaction, `SoftDelete`;
- complete, create next: `CheckExists`, `SaveCompleted` / `SaveClone`, commit, and only then
  `CheckOwner`;
- purge: `CheckPurge`, which ignores `deleted_at`, then `Purge`;
- delete a vehicle: `CheckVehicleExists`, `CheckLinked`, `RemoveVehicle` with its cascade.

Each check refuses with the outcome the code answers; `Abort` is a statement that fails, and
`Commit` may lose its reply, so that a request is answered with an error though it is committed.
So may `WriteAudit` end: `get_pool` is called before the `try` of `AuditService.log`, and `putconn`
after it.
Field values of entries are reduced to what the properties tell apart: table, author, vehicle,
completed, deleted.

### Freshness and Cache

`Freshness` knows the time, the log of committed writes and the answers. A *version* is a number of
committed writes; version `n` was current since some moment iff the write that ended it is no
older. An answer for `k` must have been current at some time within the last `Bound[k]`.

`Cache` has Redis (`up`, `shared`), the `_in_memory` dictionary of each worker, and for each thread
its step and local variables. A read is `AskFor`, `GetRedis` or `GetMemory` (followed by `Touch`,
the `move_to_end`, or `Drop`, the removal of an expired entry), `Load`, `SetRedis` or `SetMemory`
(followed by `Settle`, the eviction), `Reply`. The loader of the snapshot first asks for `cards`,
one key that stands for the cached functions of the dashboard repository with the longest of their
TTLs. A write is `SaveEntry`, `MoveEntry`, `PurgeEntry` or `SaveVehicle`, then `Commit`, then one
`InvalidatePrefix` per prefix in the order of the handler. Redis fails and returns, workers are
restarted in the middle of anything. The memory of a worker is not ordered: `Settle` may evict any
entry, which the least recently used one is among; it is one step with the `move_to_end` before it
(`redis_cache.py:95-97`), of which only the `KeyError` is kept. Where `Outages` are allowed, the
reply to a `Commit` may be lost, and no invalidation follows.

Time is a clock that stops at `Horizon`. `Tick` is possible only while no thread has held what it
read for longer than `Slow`; a request which the program does not bound otherwise is bounded by the
worker timeout of gunicorn. `AgeBound` is TTL + 2·`Slow` for one layer and the sum of the TTLs +
3·`Slow` for the snapshot over its parts.

### QuickTrip

`stored` holds the three `localStorage` keys; `run[p]` is a handler that waits for a request, a
confirmation (under the name of its trip) or a flush. `Confirm` … `FlushEnds` are the code between
two awaits. `ServerSaves`, `ServerRefuses`, `ServerFailsLate` and `ServerRedirects` are what the server does
with a request. The third is an error that comes after the commit: its reply is lost
(`repositories/trips.py:90`), or `AuditService.log` raises (`audit_service.py:24`, `:42`), and
`api_add_trip` answers 500 for a trip that is there (`api.py:106`). `Returns` and `Throws` are what `fetch` makes of an answer, including the lost answer, the timeout of
15 s and the answer of the service worker. `PageLoad` ends what ran in the tab, migrates old queues
and flushes. `Troubles` is a set of sets: each behaviour has one of them
as its `troubles`, what may happen in it besides failing requests, so that one run shows which
property holds under which of them. `forgotten[t]` counts how often trip `t`
was saved and the queue did not learn of it: an answer that was lost or told of an error, a flush
cut short.

### ConnPool

The pool of a worker is `closed`, `idle`, `used` (by connection) and the `state` of every connection
object: open, broken (the server is gone, the client does not know) or closed. `GetConn` and
`PutConn` are psycopg2's, one step each since they hold the lock of the pool; they are external,
modelled after how the library behaves when `db.py` calls it. A thread goes through `get_db`
(`Begin`, `Ask`, `Get`, `Setup`, `ResetCloses`, `ResetCreates`, three attempts), `Use`, perhaps the
audit entry (`AuditAsk` … `AuditPut`), and `close_db` (`Teardown`, `PutFirst`, `PutAgain`). A pool
that has been replaced is closed for good, so all there is to know of it is `stale[t]`: thread `t`
still refers to it. `DbFails` and `DbReturns` come at any time.

### Accounts

The database has `accounts` (a row has a name, the admin flag, and whether anybody knows its
password: the one of `schema.sql` matches nothing) and the ids handed out; `cookie[b]` is what browser `b`
would send. A request copies the cookie when it comes (`StartLogin`, `Logout`, `Visit`, with
`csrf_protect` and `admin_required`), works statement by statement (`Identify`, `Promote`, `Enter`;
`AddUser`; `ChangePassword`; `FindTarget`, `CountAdmins`, `DeleteUser`), and its answer (`Reply`)
writes its copy back, cleared or new: `SESSION_REFRESH_EACH_REQUEST`. Answers cross, so that a
logout may be undone and a new session replaced by an older one. `Lost` is the answer that never
comes. An instance goes through `init_db` (`ReadAdmin`, `InsertAdmin` or `UpdateAdmin`) and
`ensure_bootstrap_admin` (`ReadBoot`, `InsertBoot` or `UpdateBoot`), also while other instances serve;
`InitFails` is logged and the start goes on, `StartFails` ends it.

Three variables are of the model and not of the code. `gone` and `entered` say when an account was deleted
and when somebody last logged in with it. `missed` holds the requests and starts that have read
accounts and were overtaken: since then another one deleted or promoted an account. It tells the races the code does
have from what must not happen without one.

Time ends at `Horizon`, and `Tick` waits for requests that have lasted for `Slow`.

### SyncQueue

`submitForm` is `Submit`, then online `PostAnswered` or `PostFails`, offline `AddToQueue`, `Register`
or `QueueingFails`; `told[e]` is the toast. `flushQueue` is `Fire`, `GetAll`, then per item `Fetch`
and `ItemStays`, `FetchFails` or `FetchAnswered` followed by `DeleteItem` or `DeleteFails`, at last
`FlushEnds`. `sync` is the registration of the browser: it may be pending, be handled, be pending
again while handled, and be given up by the browser after failures. The server looks at the age of
the session first (`RedirectsToLogin`), then at the token (`FailsCsrf`), and then saves,
refuses, or saves and answers 500 for what failed after the commit (`FailsLate`, as in `QuickTrip`). `LoadPage` leaves a form under way, and offline takes a page, with its token, from the cache.
`WorkerStops` ends the flush at any await; requests already sent reach the server nevertheless
(`Abandon`). `unsure[e]` counts the times the browser cannot know, or is told wrongly, whether a row of `e` was saved.
The page is that of one tab.

### Periods and Reading

`Periods` has the arithmetic of `datetime.date` the program uses (external: leap years, the day
before and after) and, on top, what it computes itself: `MonthPeriod`, `QuarterPeriod`,
`ThisMonth`, `LastMonth`, and from the text of a request `ReportPeriod` and `PrintPeriod`, which
treat a month 13, a quarter 5 or a year 0 each in their own way. `Failed` is the uncaught
`ValueError`.

`Reading` is one reader; readers change nothing, so that more of them add nothing. `OpenList` is
a list with its filter and any page number; `ReadPage` is the statement with the window and the
total, and when it returns no row `CountRows` and `ReadPageAgain` follow, as in `paginate`;
`FollowNext` is the link of the page shown. `OpenReport`, `ReadEntries`, `ReadTotal`, `ReadSummary`
and `OpenPrint`, `ReadVehicle`, `ReadLog`, `ReadCarry` are the statements of the report and of
the printed log. Each sees what is committed when it runs; between any two of them others
`Record`, `Remove`, `Revise` rows or `RemoveVehicle`, and the day ends (`Midnight`). `Watch`
notes in `calm` what happened to the rows the request selects: nothing, rows that came, or rows
that changed or went; the properties say what holds in each case. `walk` keeps the rows of the
first page's query and those seen since.

The outer SELECT of `paginate` has no ORDER BY of its own (`helpers.py:183-187`); `Window` takes the
order to be that of the query inside, which PostgreSQL keeps here and SQL does not promise. Page numbers
too large for an OFFSET are left out. The list of trips stands for the three lists. Trips have no edit; `Revise` is that of fuel and
maintenance entries, for whose lists the same functions are called.

### Equipment and TripForm

`Equipment` is the server: `vehicles`, the rows of `equipment` with the ids handed out (`issued`),
`trips`, `used` (the rows of `trip_equipment`), and `sent`, which is not in the code: what the form
said that became a trip. `AddItem`, `RenameItem`, `RemoveItem` are the routes; `PreloadReads` and
`PreloadInserts` the two statements of preload; `ScrapCounts` and `Scrap` those of the deletion of
a vehicle, with its cascades; `Save` is `TripRepository.add`, all rows or none. `excuses[v]`
counts what may give `v` a default name twice: a name typed by hand, a preload that read before
another one inserted.

`TripForm` is the browser on top. A page shows the dashboard or the form. `LoadEquipment` is
`loadEquipment` up to its `fetch`; the vehicles asked about are in `asked` until an `Answer`, in
any order, replaces the list and clears the rows. `ChangeVehicle` is the select with its two
listeners, of which the second puts a locked vehicle back (`Settled`). `Confirm`, `Undo`,
`UndoExpires` are the quick trip as far as the card goes; `OpenForm` prefills the form from the card
and locks the vehicle; a page may be opened for a vehicle that is gone, whose equipment it asks for
all the same (`trips.html:273`). `Submit` sends the whole form, `SubmitOffline` queues what `FormData` leaves
of it (`Payload`); `ServerSaves`, `ServerRefuses`, `Saved`, `NotSaved` end it, and `FlushSaves`,
`FlushDrops` end a queued one, of which the first may leave it in the queue (an answer lost, or 500
after the commit). The picker is modelled as it is written. In the program at this commit nobody
sees it: `#equipmentSection` has a class `hidden` that nothing removes (`trips.html:118`,
`main.css:1398`), and the policy of `app_setup.py:132-145` keeps browsers from running the inline
`onchange`. The model therefore allows more than the program; without rows to pick, forms name no
equipment at all. Two kinds of trouble are named: `Mixed`, which makes a form offer the
equipment of another vehicle, and `Crossed`, which makes the card of one trip go with another;
a behaviour has some of them as its `troubles`.

## Runs

| Run | Instance | Shows |
|---|---|---|
| `logbook_requests` | 2 threads, 2 users with or without the admin flag, 2 vehicles, 2 ids; behaviours about maintenance entries, about entries whose vehicle is deleted, or about trips and fuel entries of vehicles that come and go | `TypeOK`, `CheckedAuthor`, `SingleDeletion`, `AuditTellsTruth`, `ReferentialIntegrity`, `OwnersOnly`, `ImplementsLedger` |
| `logbook_forbidden` | the same, add, complete and next only | violates `ForbiddenChangesNothing` |
| `cache_dashboard` | 1 worker with 2 threads, `Slow` = 1, a memory of one entry, one write, time up to 7 | `TypeOK`, `InvalidationComplete`, `MemoryBounded`, `ImplementsFreshness` for the snapshot over its parts |
| `cache_outages` | 2 workers, Redis failing and returning, restarts, lists and readings | `ImplementsFreshness` |
| `quick` | 2 trips, 2 tabs, at most 3 failures, fair; either lost answers and pages left during a flush, or every trouble but overlapping handlers | `TypeOK`, `KeptUntilSaved` and `EventuallySaved` of the first kind, `SavedOnce` of both |
| `quick_overlap` | 2 trips, 1 tab, handlers that overlap | violates `KeptUntilSaved` |
| `conn_two` | 2 threads, `minconn` 1, `maxconn` 4, 6 connection objects | `TypeOK`, `Exclusive`, `NothingLeaks`, `RoomForEveryone` |
| `accounts` | 2 threads, 1 browser, 1 instance, 3 ids, 2 names, `Lifetime` 0, `Slow` 1, time up to 2 | `TypeOK`, `FlagIsTrue`, `RightsEnd`, `LastAdmin`, `AfterStart` |
| `sync_queue` | 2 forms, 2 users, 2 logins, 2 items, at most 2 failures | `TypeOK`, `TruthTold`, `NeverStranded`, `SavedOnce`, `UnderOwnName` |
| `sync_synced` | 1 form, 1 login, no failure at all | violates `SyncedIsSaved` |
| `reading` | 4 rows in lists and 3 in reports, pages of 2, 2 vehicles, the end of a leap February; behaviours about lists or about reports and printed logs | `NothingSkipped`, `PageFilled`, `PeriodShown`, `FiguresAgree`, `BalanceCarriesOver` |
| `trip_form` | 2 vehicles, 3 pieces of equipment, 2 names, 2 trips; behaviours about 2 administrators, or about forms of 2 tabs with lists or cards that cross | `Consistent`, `UniqueDefaults`, `WholeTrips`, `OwnEquipment`, `CardKept` |

### Bounds, and why they are enough

- *Logbook.* The hazards are races of a check with one other write; two threads that serve request
  after request have all of them, and a row, its clone and a recycled slot need two ids. `Tables`
  and `InUse` say, for each kind of behaviour (`mix`), which operations arrive; between them all do.
  Where no author is compared, one user stands for all; of two requests about maintenance entries
  one at most is an administrator's, who meets fewer checks than the author;
  and a request that is done without a change is answered before anything else happens. The
  runs start from a database without entries, which requests then fill; the proofs start from any
  database the program can have left behind. Ids are never reused, so a run ends when they are spent
  and requests only fail: this is the bound on its length.
- *Cache.* `Horizon` bounds time; it is longer than two TTLs and two delays, so that entries expire
  and are rebuilt from parts that are old themselves. One commit suffices for a stale value, since
  staleness is measured from the first write that is missing. TTLs are small numbers in the
  ratios that matter (parts that outlive the snapshot and the reverse); the theorem has no bound.
- *QuickTrip.* `MaxFailures` bounds failing requests and flushes cut short. Two trips are needed
  for one to be lost while the other is flushed, two tabs for one to be left while the other flushes.
- *Reading.* Pages have two rows. A list of three has a second page, and the fourth row may be added
  between the two, in front of the rows of the second page or on it, or while a page past the end
  is read; a report has three rows, those of the second vehicle alike. The days are the last two of a leap February and the first of March, so that
  months, their ends and midnight all matter; texts of periods are a month, a month that is none,
  a quarter and one that fails. A behaviour about lists has rows of one vehicle without
  readings. Rows come in the order of their ids, with any date; the theorems let them come in
  any order. Nothing is followed once a selected row was changed or removed: no property says
  anything from then on.
- *TripForm.* A behaviour about administrators has two of them and no browser; one about forms a single
  thread that deletes. Two vehicles and three pieces of equipment give a list of two and another
  vehicle's; two answers may cross. With `Mixed` troubles the stock stays as it is, with `Crossed`
  ones there is one card and a second tab on the dashboard. A page opened for a vehicle that is gone
  needs both a stock that changes and a `Mixed` trouble, so that it is in the proofs only. `MaxLoads` ends a behaviour, so that this
  run does not ask for deadlocks. `TripFormProofs` has none of these bounds.
- *ConnPool.* Connection objects are the one bound. Two threads refer to four at most, and with a
  new pool's own there are six: an unused object was found to be there in every state, so the bound
  excludes no step.
- *Accounts.* Two requests of one browser have their answers cross, and one of them sees what the
  other, or the instance that starts, does between its statements. Three ids: the first 'admin', one that is added and
  the one that replaces a deleted account. With `Lifetime` 0 and `Slow` 1 a session expires
  within the time of the run while a request that came before is still there. The run has one
  instance, which is overtaken by requests; that instances overtake each other, and browsers too,
  is in the theorems, which have no bound.
- *SyncQueue.* Two forms, so that one is queued while the other is flushed; two logins, so that a token
  is of another login, of the same user or not; two failures, so that a form is queued twice or
  fails once in the queue and once on the way. What the bounds cut off is more of the same.

Symmetry is used where all properties of the run are safety properties of interchangeable values, and not
in `quick`, nor in `reading`, whose ids are numbers. Only `trip_form` disables the deadlock check, since
its counters end; elsewhere an instance can always start again, a connection can always come or go, and
`Cache` goes on with requests at its horizon.

### Fairness

Only `QuickTrip` has a liveness property. `LiveSpec` assumes weak fairness of: the answers of the
server and what a waiting handler does next (the event loop runs what is ready, and every request
ends within the 15 s of its `AbortController`); the expiry of an undo button (a timer); and page
loads (the user opens the dashboard again: nothing retries a queue on a page that is never visited,
so without this there is nothing to show). There is no fairness of confirmations or undo, and
requests cease to fail because failures are bounded. With "overlap" among the
troubles the property does not hold, and with one of `Lossy` it says nothing.

## Findings

Three runs end in a counterexample on purpose: each states what a comment or a message of the
repository says, and shows that the code does otherwise.

1. `complete` and `create_next` commit before they compare the author
   (`application/maintenance.py:335`, `:376`): a request answered with 403 has changed the row, or
   left a clone.
2. A trip queued while `flushQueue` awaits a request is overwritten when the flush ends
   (`osp-quicktrip.js:335`).
3. A queued form is deleted and reported synchronised, and nothing was saved (`sw.js:120`): the
   server answers an expired session with a redirect to the login page before it looks at the token,
   and `fetch` follows it to a page with status 200.

The models show more that is not a run of its own:

- the dashboard is not refreshed "immediately" by a write (`repositories/trips.py:91`): the snapshot
  is invalidated, but rebuilt from functions that are cached under keys no prefix matches. What
  does hold is `ImplementsFreshness`: never older than both TTLs together;
- a quick trip is reported saved that is not, when the POST fails and the service worker answers it
  with the cached start page (`sw.js:30`), or the session has expired; `KeptUntilSaved` shows that
  without these two answers what a page takes for saved is saved;
- a trip or a form is answered with 500 although it was saved, when something fails after the commit
  (`api.py:106`); the queues keep it and post it again, and there are two rows. `SavedOnce` says that
  it takes this, a lost answer, or a flush cut short;
- a queued form whose token is of another login is deleted with status 403 (`sw.js:126`), while the
  message asks to log in again "to continue the synchronisation": `TruthTold` holds, with
  this answer as the end of the wait;
- `close_db` returns its connection twice (`db.py:99`), which its tests do not expect; another thread
  may have been given it in between and loses it. `Exclusive` still holds: the connection is
  closed, never shared;
- when the database is still away while `reset_pool` creates the new pool, the closed pool stays and
  every later `get_db` of the worker fails with `PoolError`;
- an entry recorded between `has_linked_rows` and the DELETE of its vehicle is deleted by the cascade;
- two administrators who delete each other at the same time leave none (`admin.py:211`): `LastAdmin`
  says that it takes such a race;
- an answer that is late undoes a logout (`config.py:15`); `RightsEnd` bounds for how long;
- the list of equipment on a form may be that of another vehicle, in three ways: an answer of
  `loadEquipment` that comes late (`trips.html:422`); a change of the locked vehicle, whose listener
  asks before the other one puts the vehicle back; and a page opened for a vehicle (`?vehicle_id=`),
  to which `form.reset` returns while the list of the vehicle chosen since stays. The server
  saves what the form names, and `OwnEquipment` says that there is no fourth way;
- a second answer for the same vehicle clears the rows picked since the first;
- a form queued offline keeps one row of equipment of several (`app.js:144`): `WholeTrips` asks it
  for no more than a part;
- undoing an earlier quick trip, or completing one in another tab, puts away the card of a
  newer one (`app.js:576`); `CardKept` says that nothing else does. Completing an active trip posts
  a second row beside that of the quick trip;
- when the vehicle of a card has been deleted, the form it prefills has an empty and locked select;
- two preloads of one vehicle at once insert every default name twice (`equipment.py:254`);
- `/raport` with a month 13 or a year out of range ends in an uncaught `ValueError`, and so does a
  printed quarter of such a year; `_resolve_period` says that it falls back to the current month
  and for a quarter that is none falls back to the current quarter;
- a list opened past its last page shows the total of one statement and the rows of the next, so
  that the link "next" may be missing or lead to an empty page; `NothingSkipped` therefore speaks of
  walks from the first page.

## Proofs

All proofs are checked by `tlapm` with no step left out. They hold for every value of the constants that
satisfies the ASSUMEs `NoneAssumption`, `CacheAssumption`, `QuickTripAssumption`,
`ConnPoolAssumption`, `AccountsAssumption`, `SyncQueueAssumption`, `UnreadAssumption`,
`ReadingAssumption`, `EquipmentAssumption` and `TripFormAssumption`: `None` and its like differ from the values
they stand in for; TTLs and the size of a page are positive;
threads, connections, rows and equipment are finite sets; `minconn` is positive and at most `maxconn`;
threads are no instances; the bounds of a model are naturals; pages are read after
the year 1 and no later than `LastDay`; and the readings of a trip do not run backwards, which is a
constraint of the table (`chk_trips_odo_range`, `schema.sql:39`). Without the last, a trip could have
a negative distance, and the latest trip of a vehicle need not have its highest reading.

Between them the theorems state every invariant and every action property of the passing runs.

**LogbookProofs.** The inductive invariant is `TypeOK /\ ReferentialIntegrity /\ CheckedAuthor`.
`CheckedAuthor` says that an author compared some steps ago is still the author of the row about to be
written. It is not inductive alone: a row that is purged and replaced by a new row under the same id
would break it, and that ids are not handed out twice is `ReferentialIntegrity`. There is a
lemma for every group of actions: `BeginInv` and `ArriveInv` for requests that come in, `RefuseInv`
and `CheckInv` for checks, `CommitInv` for writes. From the invariant follow `TypeCorrect`,
`Integrity`, `CheckedStaysAuthorised`; the action property `OnlyOwnersChange` (at the write, the
author is authorised by `CheckedAuthor`); and `Refinement`: every write is a step of `Ledger`,
everything else a stutter.

For `AuditTruth` and `OneDeletion` the invariant is strengthened by `Progressing`, which ties the step
a request is at to what it has left behind: nobody has `hit` before the write, whoever told of a
change has made it, and the row a request deleted is `Gone`. `Gone` is stable (`GoneStays`: nothing
revives a row and its id is not handed out again), so that of two deletions the second finds
nothing, whatever comes in between.

**CacheProofs.** The invariant follows a version from the SELECT that read it: whoever holds a
version for key `k` since time `s` holds one that was current since `s - Hold(k)`, where `Hold` is 0
but for the snapshot, whose parts may have come from an entry as old as `CardsTtl + Slow`; an entry
that expires at `e` has a version current since `e - Ttl(k) - Slow - Hold(k)`. The bound of the
answer is the sum along the way. The proof never uses an invalidation, so that it also holds when
all of them are lost: freshness rests on TTLs alone, which is what makes outages and crashes
harmless. `Since` survives a commit because the log only grows at its end, at the present time.

`MemoryStaysBounded` has an invariant of its own. `Room` leaves out the entries that the threads
which still have to evict have just set: what remains is at most `MaxSize`. A thread adds at most one entry
and leaves only when the memory is small enough, so that what is cached exceeds `MaxSize` by no more than
one for each thread still evicting.

`NothingOlderStays` needs that invalidations do arrive: its hypothesis is `~Outages` (Redis keeps its
state, and no worker restarts), as in the run. With outages `InvalidationComplete` is false, and
what is left is `Refinement`. `Sweep` adds `Swept`: while Redis is up, a thread outside its
invalidations has none left to do; if it is down, it never was up and holds nothing.

**QuickTripProofs.** `Base` holds with any number of handlers at work: types; what a handler at work knows
(`AtWork`: its tab, its trip, which is in no queue while it is being confirmed); that the three keys of
`localStorage` have trips of their own (`QueuesApart`); and that finitely many handlers are at work. As long as
handlers do not overlap, `OneByOne` adds that there is one (`Alone`), and two more.
`PaidFor(t)` counts the chance of another row with the rows: a trip that is yet to be confirmed, waits, or
is held by a flush that has not seen it saved makes one more row, and `rows[t]` plus that one is at most
one more than what was forgotten. A retry uses up the chance; a lost answer, an error after the
commit (`LateFailurePays`) or a page left during a flush gives it back and is counted; so
`TripsSavedOnce`. `KeptAll` says that what a page takes for saved is saved (`TakenForSaved`), and that
every other trip is in a queue or on its way (`Keeps`); so `TripsKept`.
Both have the hypothesis that "overlap" is not among the `troubles`, and it cannot be spared: with it
`quick_overlap` refutes `KeptUntilSaved`, and TLC finds `SavedOnce` violated as well. `TypeCorrect` has no such hypothesis.


**ConnPoolProofs.** `Exclusive` and `NothingLeaks` need `Shape`: idle and used connections are
different, a closed pool counts nothing, a thread creates a pool only while the old one is closed, a
thread that refers to a replaced pool has in hand nothing the new one counts, idle connections are
not closed, and a connection found closed at `conn.autocommit = False` was closed by a reset and
is counted no more. Three lemmas do the work: `Given` for `getconn`, `Returned` for `putconn`
(either of a connection in hand, or the second call of `close_db`, which can only close), `SameHands` for
all the rest. `NeverExhausted` counts: what is used is in some hand; the thread that asks has at
most its `g.db`, so that the others and it have at most 2·|Threads| − 1 connections, fewer than
`maxconn`. In production that is two threads and `maxconn` 5.

**AccountsProofs.** The invariant `IInv` adds to the types: ids of rows, of sessions and of what a
start has read were handed out (`Issued`); every session, in a cookie or a request, is `Good`, which
is `Backed` (its flag is that of its account, or the account went no earlier than one request before the
login) and no younger than the last login; a request is `Timely` (it lasts no longer than `Slow`,
its session was not too old when it came, and what it has read before a promotion or a login was
true when it began); a request about to delete that was not overtaken has another
administrator to leave (`Counts`); and a start past `init_db` that was not overtaken has a usable
'admin' (`Starts`). The induction separates what a step does from whom it leaves alone: `ByStep`
says of every step that accounts keep their names, that flags and passwords are only gained, that
who goes is stamped with the present, and that who is not among the missed was not disturbed;
`GoodStays`, `ThreadStays` and `StartStays` follow from `ByStep` alone, so that only the thread or
instance that takes the step (`ServeSelf`, `ServeSessions`, `StartSelf`) needs a case for every action. `RightsEnded` is
the sum: a write comes at most `Slow` after the request, the request at most `Lifetime` after its
session started, and the session no later than the last login.

**SyncQueueProofs.** `Requests` says who waits for what: the form under way for one request, the worker
for one, and of the requests nobody waits for none has been answered. `Items`: what
the worker is about is in the queue until it deletes it, and ids of items are not used again, so that
`DeleteItem` removes the item that was posted. `Told` and `TruthTold` go together: a toast is true when it is
shown (`Told` says that of the step before) and stays true, because an item leaves the queue only after an answer
that ended it. `NeverStranded` is inductive with these: a form enters the queue before its event
is registered, and whatever ends a flush early leaves the event pending or the flush reported as failed.
`PaidFor(e)` is the sum for `SavedOnce`: the rows of `e`, its submission if that may still make a row,
its items not yet seen to be saved and the requests nobody waits for, are together at most one more than
`unsure[e]`. Each step moves a unit from one place to another, or is a loss and counted; so is `FailsLate`, whose
row is there while the item, or the form, may still make another.
`OwnNames` is the action property: the server saves only what bears the token of its session, and the
user of a session is the one its token was issued to (`OwnSession`).

**ReadingProofs.** The first part is about periods alone: `MonthExact`, `QuarterExact`, `LastMonthExact` and
`ThisMonthExact` say which dates a period covers, for every year that is one; all rest on
`FirstDayBefore` (the day before the first of a month is the last of the one before, December and
leap years included) and on `Between`. The second is about `Reading`: `Served` (the request is of
the kind its step belongs to), `PeriodAsked` (its period is the one it asked for, although the day may
have ended since) and `RowsShown` (while `calm` is "still", what is shown is among the selected rows, and
all of them in a report). The last needs `StillSelects`: rows that are the same to `Watch` are
selected alike, of a printed log also those earlier than its period. `PeriodRight` follows with
`MonthExact`.

The third part is about pages. `Rank` numbers the selected rows; that ranks fill 0 to n − 1, each once, is shown by an
injection in both directions, so that a page has the rows whose rank is in its window and is
empty only past the end. `Walked` says that a page found is the one asked for (`Found`, `OnPage`), that there is nothing to
miss before the first query (`FirstQuery`), and that each of its rows is still selected, and seen already or on a page
yet to come (`Ahead`): rows that come in between push rows back, never forward. `WalkComplete` and `PagesFilled` follow.

The fourth is about sums, which the module computes with folds. That the recursive function under a fold
exists and is unique is shown by taking a smallest set for which a claim fails; strict inclusion of finite sets
has such smallest sets, so that no induction theorem is needed that takes an operator as a parameter. `SumStep` takes one
row out of a sum, and from it come `SumRemoves`, `SumSplits`, `SumGrows`, `SumOfParts` (rows by
vehicle) and `CountIsSum`. `Figured` then follows the three statements of a report: the rows read first
(`Listed`), the sums of a later statement, which are over no fewer rows (`Whole`, `Added`),
and the reading carried over (`Carried`). `FiguresTrue`: while nothing came in between, sums are those of the
rows listed. `BalanceHolds`: in a log without gaps distances telescope (`SumsMeet`), and the latest row has the
highest reading (`EndsRise`), which is where readings must not run backwards.

**TripFormProofs.** Of the server alone, `ServerInv` is `ServerTypeOK /\ References`; `excuses` is a natural
at the start because a vehicle has no more default names than pieces with one (`NamesAreFewer`).
`DefaultsUnique` rests on `Few`: a vehicle has at most one more piece of a default name than it has excuses,
and a preload that nobody overtook has, for each name it did not find, no more pieces than excuses, so that what it inserts
is still within the bound; `DefaultsStayUnique` is the same with the pages around the server.
`TripsWhole` adds to it that what a form listed had an id by then, so that a new piece of equipment
is on no older form. Of the pages: `Bindings` says that without `Crossed` troubles one tab is open, and
that a form opened for a card holds its trip and its vehicle (`Bound`) until it is sent, which
gives `CardStays`; `Forms` says that a form on its way, or queued, is as the page was when it
left (`Faithful`), which gives `ImplementsServer`: every step of `TripForm` is a step of `ServerSpec` or
leaves the server alone. `WholeForms` is `TripsWhole` through that refinement. `Fitting` says that without
`Mixed` troubles the list offered, the rows picked and the form sent are of the vehicle chosen,
which gives `OwnStays`; it is proved for a database that starts that way.

**Only model-checked.** `EventuallySaved` of `QuickTrip`: it is a liveness property under
fairness, which is beyond the prover. The refuted properties are counterexamples and have nothing
to prove.

## What is not modelled

- *Contents of fields*: dates, kilometres, litres, notes, and their validation, but for the outcome
  "invalid" of a request.
- In `Logbook`, the equipment rows of a trip (they are in `Equipment`) and sessions as state (a request comes with the user and the
  flag it has, any of them; what they may be is the subject of `Accounts`); rate limits.
- *Migrations* beyond their failure, and a database without schema.
- *Isolation above READ COMMITTED* and deadlocks between transactions: a request has at most one
  writing statement, so that none waits for another in a circle.
- *`invalidate_tags`* and the cached functions of the report repository, which no route calls;
  `TripRepository.delete`, which no route calls.
- *The order of the quick-trip queue* and its toasts beyond the undo button.
- *Reads that show one statement*: the pages of equipment, users and the audit log, exports; the sums
  of fuel and maintenance in the report, which are read as those of trips are, from other tables.
- *Quantities, minutes and categories of equipment*; the timer of the card and the drafts of other
  fields of the form.
- `GenerateReportUseCase` and `ReportRepository`, which no route reaches.
- *Layout, markup and deployment scripts.*

Components without a module are in the plan below.

## Plan

In the order of what matters most to the users of the program; done so far: 1–8.

1. `Ledger`, `Logbook`, `LogbookProofs`: who may change what, under concurrency.
2. `Freshness`, `Cache`, `CacheProofs`: how stale pages can be.
3. `QuickTrip`, `QuickTripProofs`: no trip is lost on the way.
4. `ConnPool`, `ConnPoolProofs`: the resource everything above stands on.
5. `Accounts`, `AccountsProofs`: whose rights a request has, and that somebody can log in.
6. `SyncQueue`, `SyncQueueProofs`: forms that wait for longer than their session.
7. `Periods`, `Reading`, `ReadingProofs`: what pages show while others write.
8. `Equipment`, `TripForm`, `TripFormProofs`: the equipment of a trip, and the active trip.
9. An abstract specification for both queues of the browser, a mailbox that delivers what was told
   to wait, and `SyncQueue` shown to implement it.
10. `Migrations`: instances that start together over an old schema.

Proofs to come: that `SyncQueue` implements the abstract queue of item 9, and likewise `QuickTrip` as
far as its handlers do not overlap.

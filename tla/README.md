# TaskFlow: TLA+ specifications, model checks and proofs

TaskFlow is a multi-tenant task manager: a FastAPI service over SQLite
(`app/`), a browser page (`app/static/`), one YAML file per customer
(`tenants/`), and four layers of tests with a CI pipeline. This directory
specifies the parts whose correctness depends on what happens *between*
statements: requests that overlap, tokens that expire or are revoked in
mid-request, servers that restart.

## 1. Inventory

| Component | State | Operations | Hard because |
|---|---|---|---|
| Domain rules `app/rules.py` | none | status machine, title and description checks, list filter | boundaries; callers apply them to a row read earlier |
| Identity `app/main.py:141-308`, `app/auth.py` | `users`, `revoked_tokens`, the clock | resolve tenant, authenticate, login, logout, create test user | five checks in sequence, each on a separate read; tokens expire and are revoked meanwhile |
| Task endpoints `app/main.py:316-465` | `tasks` | create, list, get, patch, delete, bulk delete | check at the read, act at the write, nothing locked |
| Database access `app/db.py` | SQLite file, connection pool | session per request, WAL, busy timeout | one writer at a time, a bounded pool, timestamps stamped before the lock |
| Tenant registry `app/tenants.py` | two cached maps | load, validate, resolve | reload that fails half way; files edited meanwhile |
| Schemas `app/schemas.py` | none | validate bodies | limits stated twice, on different lengths |
| Start-up `app/main.py:60-71, 513-536` | schema, demo users | create tables, load tenants, seed | several processes on one database |
| Task page `static/tasks.js` | the rendered list, the filter | refresh, mutate | answers out of order, stale buttons |
| Browser session `static/app.js`, `login.js` | `localStorage` | login, logout, boot | tabs share one token |
| Journey harness `suites/journey/conftest.py` | a server process, a port | start, poll, stop | the port may be taken, the process may die |
| Pipeline `.github/workflows/ci.yml` | job results | run jobs, gate | skipped is not failed |

Components meet in four places: every handler runs behind `current_user` and
`current_tenant` (calls within one request); requests meet in the database
(shared state, no locks held between statements); the browser meets the service
through requests whose answers may be overtaken; processes meet in one database
file. `PROJECT.json` lists every component with its status, and every hazard with
its line and the properties that watch it.

What makes each component correct:

* **Identity** - whoever is let in is the user the token names, at the address of
  that user's customer; one username leads to one account; a logout that is answered 204
  is final, durable, and touches one token only.
* **Tasks** - a row changes only by its owner and only in the fields asked for; a
  refusal leaves no trace; a deleted task never returns; the stored status follows
  the status machine.
* **Whole service** - rows are read and written only at the address of their tenant.
* **Registry** - an address leads to one customer or to none; a reload succeeds as a
  whole or changes nothing.
* **Database access** - connections come back however a request ends; requests end; a
  load that fits the pool is never refused.
* **Start-up** - a process that serves has all tables and demo users; a start alone fails
  for a tenant file only, whatever tables and users an earlier crash has left out.
* **Task page** - the rows are one answer of the service; failures are shown; a stale
  button does nothing illegal.
* **Browser session** - a page with a dead session is left; a logout answered 204 or 401
  has killed the token.
* **Tests** - a journey reaches its last expectation; the test session ends and leaves
  neither a server nor an open client.

## 2. Modules

| Module | Models | Extends / instantiates |
|---|---|---|
| `Rules` | `app/rules.py` | |
| `Sessions` | identity: `current_tenant` ... `me`, `create_test_user`, seeding | |
| `TaskLifecycle` | abstract: what becomes of a task | |
| `Tasks` | the task handlers | `Rules`; implements `TaskLifecycle` |
| `TaskFlow` | the service | instantiates `Sessions` and `Tasks`; implements both |
| `TenantRegistry` | `app/tenants.py` and the test kit's loader, on one directory | |
| `ConnectionPool` | `get_db` of `app/db.py`, worker threads, the write lock | |
| `Startup` | `lifespan`, `init_db`, `seed_demo_users` in several processes | |
| `TaskListView` | `static/tasks.js`, with the service behind it | `Rules` |
| `Journeys` | `suites/journey/test_journeys.py`, `pages.py` on that page | `TaskListView` |
| `BrowserSession` | `static/app.js`, `login.js`, the session part of `tasks.js` | |
| `JourneySession` | `suites/journey/conftest.py`, `transport_for` of `testkit/fixtures.py` | |
| `SessionsProofs`, `TasksProofs`, `TenantRegistryProofs`, `ConnectionPoolProofs`, `StartupProofs`, `TaskListViewProofs`, `BrowserSessionProofs` | theorems | the module named, `TLAPS` |
| `TaskFlowProofs` | theorems about the composition | `TaskFlow`; instantiates `SessionsProofs` and `TasksProofs` |
| `MCSessions`, `MCTasks`, `MCTaskFlow`, `MCTaskListView`, `MCJourneys` | constants for TLC | the module named |
| `MCBoot` | constants for TLC | `TenantRegistry`, `Startup` |
| `MCProgress` | constants for TLC | `ConnectionPool`, `BrowserSession`; instantiates `JourneySession`, `Sessions` |

`MCBoot` and `MCProgress` put parts that share no state into one instance, because one
question is asked of all of them. A variable `part` says which of them runs in a behaviour; the others rest, in a state in which no fairness condition asks for a step.

### How the code maps to steps

FastAPI runs these handlers in a thread pool, so any two requests interleave
between statements. The SQLite driver opens a transaction only before a write;
each `SELECT` therefore sees the latest commit and is **a step of its own**, while
one `INSERT`, `UPDATE` or `DELETE` with its `COMMIT` is **one atomic step** (the
write lock serialises writers). Local computation belongs to the read before it.

* `current_user` is `DecodeToken` (headers and clock), `CheckRevoked` (SELECT on
  `revoked_tokens`, then the claim against the host), `LoadUser` (SELECT on `users`,
  then the row against the host).
* `logout` is `CurrentJti` (the second decode), `LookupRevoked`, `InsertRevoked`,
  `AnswerLogout`. A duplicate key is an `IntegrityError`, which no handler catches:
  a 500.
* A statement that needs a connection the pool does not hand out in time, or the write
  lock past `busy_timeout` (`db.py:71`), raises, which no handler catches either: a 500
  with nothing written by that statement. `Sessions` and `Tasks` let every such statement
  end so (`timed_out`, kept apart from `server_error`, the other 500s), for they do not count connections;
  `ConnectionPool` does, and says when it can happen. `BrowserSession` gets a `failed`
  answer from it, and `Startup` has `LockTimeout` while another process runs. After a
  refresh that timed out the row is stored.
* `login` and `create_test_user` make one statement each and are single steps.
* `update_task` is `LoadForUpdate` (SELECT, ownership, title, move), `CommitUpdate`
  (an `UPDATE` of the columns whose value changed; none if nothing did) and
  `Refresh`. An `UPDATE` that matches no row is a `StaleDataError`, a 500; a `DELETE`
  that matches no row is only a warning.
* `ConnectionPool` looks at the same handlers for what they hold: `current_user` and
  the handler are two jobs for the worker threads, the session keeps its connection
  between them, a commit gives it back and the refresh after it asks for one again.
* `TenantRegistry` reads one file per step, for the directory may be edited meanwhile;
  its two globals are assigned in adjacent stores and are one step.
* The tenant a file names is `Str` of the id YAML has read: the service converts it, the
  test kit keeps it, so the kit's map has the raw ids for its keys. (Ids that are one key
  of a dict and differ as text, as `1` and `true`, are left out.)
* `Startup` makes each `CREATE TABLE` and each `CREATE INDEX` a step (SQLite commits it by
  itself), the load of the tenants one that may end the start, each lookup
  of a demo user a step, and their insertion one transaction. `left` holds the places in
  the list of tables, or of tenants, that a process has yet to come to; it takes the first
  of them. A crash may come anywhere.
* A browser runs one handler of a page until it awaits: a click or key press with its
  request is a step, the service's answer is a step, its arrival with the code that
  follows the `await` is a step. Navigation ends the handlers of a page. Requests are
  served, and answers arrive, in any order. A form or button stays enabled while an answer
  is awaited, so `BrowserSession` lets a page await several (`Clicks`).
* `JourneySession` polls as the code does: first the process, then the port.
* `Restart` loses requests in flight, keeps the tables and seeds demo accounts.
* Definitions introduced by "Fault:" are faulty variants of the definition that
  follows them. No specification uses them; they document what each property
  rules out, and each property is known to fail under one of them.

Abstractions: password checking is an input (right or wrong); a title is a value
with its normal form given by a function; the order of a list, the length of a text and
the time stamps of a row are left out; a token that does not verify is one value.

## 3. Runs

| Run | Question | Bounds |
|---|---|---|
| `sessions` | safety of identity under races, expiry and restarts | 2 requests, 2 customers with a shared username, 3 accounts, 2 tokens |
| `sessions_retry` | finding: a retried logout answers 500 | as `sessions` |
| `sessions_decode` | finding: the second decode may raise | as `sessions` |
| `tasks` | ownership, edits, refusals, deletes, lifecycle | 2 requests, 3 accounts of 2 customers, 2 tasks |
| `tasks_serial` | the status machine, one request at a time, every PATCH body | 1 request, 2 tasks |
| `tasks_race` | finding: two PATCH requests skip a status | as `tasks` |
| `taskflow` | end-to-end isolation and logout | 2 requests, 2 customers, 2 tokens, 1 task |
| `taskflow_refines` | the composition implements its parts | 2 requests, 1 token, 1 task |
| `boot` | registry: routing, reload, valid start, agreement with the test kit; database: complete when serving, a start alone fails for a tenant file only | 2 tenant files, 3 spellings of 2 host names, ids as number and text, good and bad contents; 3 processes, 3 tables, 4 indexes, 2 tenants |
| `task_list` | what the page shows and does | 2 overlapping handlers, 1 task, another client |
| `progress` | requests end and give back connections; an answered logout kills its token; pages without a session are left; a logout takes effect or times out; the test session ends clean | 4 requests, 2 workers, 2 connections; 2 tabs, 2 tokens, 2 clicks awaited; 2 customers, 3 polls; 2 callers with 1 token |
| `journeys` | finding: a journey may wait in vain | 5 journeys, 3 handlers, 2 tasks |

Two requests suffice for the races here, since each is between one reader-then-
writer and one writer; slots are reused, so any number of requests follow each
other. Two tokens allow two devices of one user and users of two customers.
`Called` names the endpoints behind `current_user` that clients call: all three
(`/me`, `/tasks...`, logout), except that `taskflow` leaves out `/me`, which reads
nothing the run asks about. The proofs do not depend on these bounds.

In `boot` each of two racing processes can be first at one of two tenants while a third
starts half way, and the two files can collide in host name, in id, or lack an address. In
`task_list` an answer can be overtaken, one action fail while another succeeds, and a row go
stale. In `boot`, too, the good file of the second tenant writes its id as a number. In `progress` both workers can wait for a connection while both connections are held
by requests that wait for a worker, and two requests meet at the write lock; a second tab can sign in again while the first still
waits, and one tab can click twice; and the server can start, die or lose its port
between any two polls. In `journeys` a test never has more than three requests under way.

**Fairness.** `Sessions!FairSpec` assumes a server that stays up (`Running`: no
`Restart`) and weak fairness of the steps of each request: a thread of the pool
runs a handler until it returns. Clients are under no obligation.

`ConnectionPool!FairSpec` assumes strong fairness of handing a free worker to a
waiting job (anyio's limiter queues them in order, though a worker can be taken again
before a job's turn) and weak fairness of the steps of a job that has one, among
them both time-outs. `Journeys` assumes weak fairness of the test, of the service's answers and of the branding
request: Playwright repeats an expectation until it holds or times out. Nothing is assumed of the
order in which requests are served or answered. `BrowserSession` assumes that a call is answered or fails and that the
handler waiting for it runs, and nothing of users. `JourneySession` assumes that the fixtures
go on, except while tests run: polls, deadline and kill are theirs, the server owes nothing.
`Tasks`, `TaskFlow`, `TenantRegistry`, `Startup` and `TaskListView` are checked for safety only.

### Findings

1. **A retried logout can answer 500** (`sessions_retry`). `logout` looks the token
   up and inserts it if absent; two at once both find it absent. `test_auth.py:119`
   and `main.py:296` say a retry is harmless. `LostRacesEndTheToken` shows what does
   hold: a logout that loses a race leaves its token dead. One that times out need not.
2. **The second decode is not safe** (`sessions_decode`). `main.py:248` calls it
   "safe to decode without error handling"; the token can expire between the two
   decodes.
3. **Concurrent updates skip a status** (`tasks_race`). A PATCH is validated against
   the status it read and written unconditionally, so a stored task can go from
   `todo` to `done` or back, which `rules.py:32-41` and `test_rules.py:109-110` forbid.
   `tasks_serial` shows that overlap is the only cause.
4. **An overtaken answer is shown** (`journeys`). `refresh` shows whichever list arrives
   last (`tasks.js:54-58`). The page asks for one as it starts, and `wait_until_loaded`
   (`pages.py:105-108`) does not wait for it: answered after the list that has two new tasks,
   it empties the page, and `test_journeys.py:115`, which expects two rows, waits in vain.
   The same happens to a search that is overtaken, contrary to `pages.py:193`
   ("filters the list as you type"). `LastAnswerIsTheList` shows what does hold: the answer
   to what was asked last is right.

Seen while reading, at the limits of what the properties promise, and not run:

* A logout that is lost, or times out in the service, forgets a token that stays valid
  (`tasks.js:93`), contrary to `pages.py:203-206`. `LogoutKillsItsToken` is about a 204 or
  a 401.
* A file `42.yaml` with `id: 42` is the tenant `'42'` of the service (`app/tenants.py:100`)
  and the tenant `42` of the test kit (`testkit/tenants.py:94-95`): `--tenant 42` finds no
  such tenant, contrary to `app/tenants.py:19-21`. `KitFindsTheTenants` is about the tenants
  found and their host names, not the form of their ids.
* A start that is killed, or waits in vain for the lock, between a `CREATE TABLE` and its
  `CREATE INDEX` leaves the table without the index for good, since `create_all` looks for
  tables only (`models.py:58-59, 80-81`). `ServingIsComplete` and `LoneStartSucceeds` are
  about tables and demo users.
* `TASKFLOW_BASE_URL` moves the factories and not the browser (`conftest.py:219`), contrary
  to `conftest.py:203-205`; and the port may be taken between choice and bind
  (`conftest.py:52`), a race that `conftest.py:48-50` calls avoided: the readiness poll may
  then take a stranger for the server.
* `updated_at` is stamped before the wait for the write lock (`models.py:90`), so overlapping
  edits can store it out of order.

## 4. Proofs

`SessionsProofs` proves, for every set of requests, tenants, users and tokens, from
`SessionsAssumption` alone (demo accounts are one per tenant; the sentinels are not
values):

* `Typing`: `Spec => []TypeOK`. Not inductive alone: a restart seeds accounts and
  must find them all present (`DemoAccountsStand`), and `LoadUser` reads the claims of
  a token that must exist (`TokenInHand`). `Typed` is the three together.
* `TokensAgree`: tokens and accounts agree on the tenant. `TablesGrow` shows that no
  step changes an account or a token once there, so only `Login` matters.
* `Invariance`: `Spec => []IInv`. `StepsAreEarned` records what each step of the code
  has established (the claim's tenant is the host's at `load_user`; the token is in
  the table at `committed`), and `LateStopsShort` that a late request never gets past
  the look into `revoked_tokens`. From `IInv` follow `OwnAddress`, `LogoutFinality`,
  `LogoutDurability`, `LostRaces` and the action property `OneDevice`.
* `NamesAreUnique`: one account per username of a customer. Seeding looks before it adds,
  and the unique constraint refuses what a concurrent `create_test_user` would add twice.

`TasksProofs` proves, for every set of requests, accounts, tasks, titles and bodies,
from `TasksAssumption` and `RulesAssumption` (an account is its id and tenant;
normalising a title twice is normalising it once; the sentinels are not values):

* `TableStep`: a step leaves the table alone, or adds one row of the caller's, or
  edits the row in hand, or deletes rows of the caller's. `TableKeeps` follows: ids
  are never given out again, deleted rows stay deleted, holders never change. This is
  what makes the ownership check at the SELECT still true at the COMMIT.
* `Invariance`: `Spec => []IInv`. `RowInHand` (the row a session holds is its caller's
  or gone) carries ownership over the gap between read and write; `StagesAreEarned`
  says that nothing is written or shown before its step; `PendingIsAsked` ties what
  will be written to the body; `LiveIsUsed` keeps fresh ids apart from rows.
  `Sound(q)` is the part of `IInv` about one request: the step of one request keeps the
  others sound by `TableKeeps` alone (`LocalStep`).
* `Typing`, `Belonging`, `OwnRows`, `CleanRefusals`, `OtherErrorsMeanGone` follow from
  `IInv`; the action properties `OwnersOnly`, `PartialUpdate` and `AskedDeletes`
  from `TableStep`; and `Implements`, that the handlers implement `TaskLifecycle`
  (adding, editing and deleting map to its steps, all else to a stutter).

`TenantRegistryProofs`, from `RegistryAssumption` (lower-casing twice is lower-casing
once; the sentinels are not values; nothing of `Str`), for every number of files and whatever they say:
`IInv` says that the two maps agree with each other (`Agree`) and with the files read
(`Holds`), in the cache and in the draft of a pass, and that the test kit's copy has one
entry for each file read, under its raw id, unless a file is under another's name (`KitHolds`). `AgreeExtends` is the heart: an entry under a host
name nobody has keeps the maps one-to-one. From it follow `Routing`, `KitAgrees`, and the action
properties `AllOrNothing` and `BootsValid`.

`ConnectionPoolProofs`, from `PoolAssumption` (finitely many requests, at least one worker
and one connection): whoever holds a connection is in a stage where the code has it
(`HoldersRun`), so none is held by a request that ended (`ComesBack`), and who is refused
is one more than all those that hold one (`NoRefusal`).

`SerialStatusMachine`, in `TasksProofs`, is the theorem behind the third finding: if
`Requests` has at most one member, `Spec => FollowsStatusMachine`. `CheckedMoveStaysOpen`
(the move checked at the SELECT is still legal at the COMMIT) is inductive only then, since
no step comes between the two (`CommitEnds`); `tasks_race` shows it lost with two requests.
The hypothesis is not a wish about the code: it is the condition under which
`rules.py:32-41` can be kept by a check that holds no lock.

`TaskFlowProofs`, from the assumptions of both parts (`TaskFlowAssumption`):

* `RefinesSessions` and `RefinesTasks`: every step of the service is a step of each part,
  or leaves it alone. The second needs the invariant of the first: the account with which a
  handler begins is one `current_user` may return (`LoadedUser`).
* Hence the theorems about the parts hold of the service (`SessionsHold`, `TasksHold`).
  Since `INSTANCE` makes copies, `SameSessions` and `SameTasks` state that the part of the
  service and the part of its proof module are the same.
* `Invariance` adds what ties them: a handler acts for the user its request was
  authenticated as (`HandlersActForUsers`), and the tenant of a row is that of its owner
  (`TasksTraceToTenant`). Neither is an invariant of one part: `Tasks` knows no users,
  `Sessions` no rows. From it follow `TracesToTenant`, `StaysInTenant`, `LogoutStopsTasks`,
  the action property `OwnAddressWrites`, and `CallersAtHome`: the tenant of the address,
  whose features `bulk_delete_done` looks at, is the caller's, whose features `Tasks` looks at.

`StartupProofs`, for every number of processes, tables and tenants: `CompleteWhenServing`
by `NothingIsForgotten` (what is not on a process's list any more is in the database, or
will be by its commit; tables and users are only ever added, so this survives every race
and crash), and `LoneStart` by `NothingIsStale` (what a process that runs alone has seen
is still so), from `SchemaAssumption`: no table of `models.py` is declared twice, which
SQLAlchemy refuses, and no index has two tables, since its name contains the table's.

`TaskListViewProofs`, from `TaskListViewAssumption` and `RulesAssumption`, for any number of
handlers and tasks: `NewestIsRight` says that the list asked for last asks for what the
controls say, and that its answer, on its way or shown, is what the service has unless
something happened that it may have missed (`Settled` excludes it); `OnlyKnownTasks` that
nothing shown or acted on is a task that was never created. From them `LastAnswer` and the
action properties `StaleAdvances`, which is a case distinction over the status machine, and
`FailuresShow`.

`BrowserSessionProofs`, for any number of tabs, and of logins and logouts awaited: a logout carries the token that was stored
when the user clicked (`LogoutCarriesIt`), tokens are never issued twice, and a token that
died stays dead (`StaysRight`); hence `LogoutKills`.

Model-checked only: liveness under fairness (`LogoutTakesEffect`, `EveryRequestEnds`,
`DeadPagesAreLeft`, `SessionsEndClean`), which is out of this prover's reach.
`JourneySession` has no property but the last, and `Journeys` none that holds.

## 5. Plan

The planned modules are written, and every safety property that a run checks is stated by a
theorem. What is worth proving next: the safety halves of the liveness properties, for
instance that the test session never leaves a client open once its fixtures are down, or
that a page in `DeadPagesAreLeft` always has a step to take; that a skipped status
is the only way in which `Tasks` departs from a service that handles one request at a
time; and shorter proofs, where several lemmas differ only in the action they are about.

## 6. Not modelled

* Password hashing: a library computation.
* The time stamps of `app/models.py`, and the length limits of `app/schemas.py`: no property
  of the modules reads them, and each would multiply the states of `Tasks`.
* The factories and the two transports of the test kit, `tooling/check_budget.py`: sequential
  code; what it calls is in `Sessions` and `Tasks`.
* The pipeline: a job graph that GitHub executes.
* The shape of refusals, wording of messages, branding, static pages, contract documents,
  response models, locators: formatting.
* SQLite's files and recovery (a commit is atomic), the order of a list, the user name a tab
  displays while another tab's token is stored.
* A retry of POST /tasks after a 500 that came from the refresh: nothing says what it should do.
* The unit, contract and component tests: the source of intended behaviour.

## 7. Running

`tlc -config MCSessions.cfg MCSessions.tla` checks a model; `tlapm
SessionsProofs.tla`, and likewise for each `...Proofs` module, checks the proofs. `PROJECT.json` names every run with its
configuration and properties.

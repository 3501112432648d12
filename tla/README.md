# Stock Historial in TLA+

A verification development for *Stock Historial*, a FastAPI service that keeps
an append-only ledger of stock movements in PostgreSQL and answers questions
about the current and the historical stock of each product. It holds TLA+
modules of the parts where order, failure and concurrency matter, TLC
configurations that check them on small instances, and theorems that TLAPS
proves for every value of the constants.

Paths below are relative to the repository; `SPEC-nn.md` are its design
documents. Names in `this type` are those of the code or of a module.

## 1. The system

One uvicorn process serves HTTP from one asyncio event loop. It talks to
PostgreSQL through one asyncpg pool (`infrastructure/db/connection.py`: two to
ten connections by default, `statement_timeout` five seconds, no timeout on
`acquire`). APScheduler runs in the same loop and refreshes the materialized
view `mv_stock_historical` every five minutes. Nothing is shared with other
processes but the database; the command-line tools (`db/migrate.py`,
`db/seed.py`) are processes of their own, each with a pool of its own.

The code is hexagonal: routers (adapters) call use cases (application), which
call domain rules and repository ports, which the infrastructure implements.

### Components

| component | source (under `src/`) | state it keeps | operations | talks to |
|---|---|---|---|---|
| Movement recording | `application/use_cases/record_movement.py`, `infrastructure/repositories/movement_repository.py`, `infrastructure/db/uow.py`, `adapters/api/dependencies.py` | rows of `movements`, the connections it has checked out | POST /v1/movements | pool, stock queries, domain rules |
| Domain rules of stock | `domain/rules/stock_validation.py`, `domain/value_objects/movement_type.py` | none | signed delta, "not negative" check | called by recording |
| Stock queries | `infrastructure/repositories/stock_query_repository.py`, `use_cases/query_*.py`, `routers/stock.py` | none | current stock (view, else sum), sum under lock, stock at a date | pool, view |
| Materialized view and refresh | `infrastructure/db/refresh.py`, `migrations/008_*.sql` | rows of `mv_stock_historical` | REFRESH ... CONCURRENTLY | pool |
| Scheduler and retries | `infrastructure/scheduler/scheduler.py`, `core/retry.py` | the job, its attempt | tick, retry, give up, start, shut down | refresh |
| Pool and life cycle | `infrastructure/db/connection.py`, `main.py`, `routers/health.py` | the pool singleton | start, acquire, release, close, health | everything |
| Migrations and seed | `infrastructure/db/migrate.py`, `infrastructure/db/seed.py`, `migrations/` | rows of `schema_migrations` | run scripts in order, run the seed script | database |
| Error answers | `adapters/api/middleware/error_handler.py` | none | exception to status | all routers |
| Movement queries | `routers/movements.py`, `movement_repository.py`, `mappers.py` | none | GET by id, by product, by date range, pages | pool |
| Boundary validation | `application/dtos/`, `domain/entities/`, `domain/rules/movement_consistency.py` | none | what a body must satisfy, three times over | recording |
| Catalog | `use_cases/create_product.py`, `create_category.py`, `list_*.py`, their repositories and routers | rows of `products`, `categories` | create, get, list with total | pool |
| Immutability | `domain/rules/immutability.py`, `migrations/005_*.sql` | none | trigger that refuses UPDATE and DELETE | database |
| Configuration, logging, headers | `core/config.py`, `infrastructure/logging/`, `middleware/` | none | - | - |
| Schema and indexes | `migrations/001` to `006` | - | constraints | database |
| Deployment, tests, agent material | `Dockerfile`, `Makefile`, `tests/`, `docs/`, `skills/`, ... | - | - | - |

`PROJECT.json` repeats the list with the modules and the status of each.

### What is hard about it

* **Two connections per request.** `PostgresUnitOfWork` checks out a connection
  and begins a transaction on it, but the repositories were built with the pool
  and no connection (`dependencies.py`). Every statement of theirs, including
  `SELECT ... FOR UPDATE`, borrows *another* connection and commits by itself.
  What looks like one transaction is a sequence of independent statements
  inside an empty one. This decides three questions at once: who may interleave
  between the stock check and the INSERT, what is left behind by an error, and
  who waits for whom when the pool is at its limit.
* **Errors inside the unit of work.** BEGIN, a statement, COMMIT and ROLLBACK may
  each fail; the reply of the INSERT may be lost after it took effect; the
  connection has to go back in all cases.
* **A cache that is minutes old.** The fail-fast check reads the materialized
  view; the second check reads the table. A refresh reads a snapshot and
  installs it later, may fail, be cancelled, or lose its reply, and is retried
  for some errors and not for others.
* **Time stamps that are not commit times.** `created_at` is read before the unit
  of work; rows become visible in another order.
* **Tools that die half-way**, run twice, or run at once on two machines.

### What makes each component correct

* Recording: the stock of a product is not taken below zero; the answer agrees
  with the table; connections come back; every request is answered.
* Stock queries: the sum in SQL and the delta in Python agree; the stock at a
  date that has settled is final; the current stock lags by what a refresh
  explains and no more.
* Refresh and scheduler: the view only moves forward, through states the table
  had; transient errors are retried as often as configured; every movement gets
  to the view.
* Migrations: a script takes effect once, in its order, and success means all.
* Life cycle: nobody uses the pool outside its life; production does not serve
  without a database; shutting down ends.
* Boundary: the rules behind the DTO refuse nothing it let through, an error
  leaves no row, and what was recorded can be read back.
* Catalog: SKUs and names are unique, and 201 means one's own row; a walk over
  the pages misses no row, although it may see one twice.

The `hazards` of `PROJECT.json` list the lines where each can go wrong and the
property that would notice; two have none, and say why.

## 2. The modules

```
  StockRules ----------+-----------------+
   (pure)              |                 |
                 RecordMovement     StockLedger        (abstract)
                  |  |  |    \__implements__/
                  |  |  +-- steps are those of a request in Lifespan
                  |     +-- RecordMovementProofs       (TLAPS)
                  |     +-- MCRecordMovement           (TLC)
                  |
             MovementHistory
                  +-- MCMovementHistory                (TLC, with MCRecordMovement)
                  +-- MovementHistoryProofs            (TLAPS)

  RefreshScheduler --implements--> AsyncView           (abstract)
     +-- StockReads --implements--> RefreshScheduler
            +-- RefreshSchedulerProofs                 (TLAPS, both)

  Lifespan
     +-- LifespanProofs                                (TLAPS)

  StockRules
     +-- MovementBoundary
            +-- MCMovementBoundary                     (TLC)
            +-- MovementBoundaryProofs                 (TLAPS)

  Migrations
     +-- MigrationsProofs                              (TLAPS)

  PagedListing ----------- PagedListingProofs          (TLAPS)
     +-- Catalog --implements--> PagedListing
            +-- CatalogProofs                          (TLAPS)
            +-- MCCatalog                              (TLC)
```

### StockRules

The pure rules: `Reduces` (movement types whose stock is checked), `StockDelta`
(`calculate_stock_delta`), `SqlContribution` (the CASE written in the
repository's queries and in the view) and `Insufficient` (when
`validate_stock_not_negative` raises).

### RecordMovement

Concurrent POST requests, the pool, the table and the view. asyncio gives up
control at each `await`, so each `await` of `RecordMovementUseCase.execute` is
one action:

| action | code |
|---|---|
| `Arrive` | the router hands the validated body over |
| `GetProduct` | `product_repo.get_by_id`; an unknown product is answered 400 |
| `FailFastView`, `FailFastMiss`, `FailFastDirect` | `get_current_stock`: the view's row, or its absence and a second statement; then the first validation |
| `Acquire`, `Begin` | `PostgresUnitOfWork.__aenter__` |
| `LockProduct`, `ReadStock` | `get_current_stock_with_lock`, two statements, and the second validation |
| `CreateMovement` | `movement_repo.create` |
| `Commit`, `Rollback` | `__aexit__` without and with an exception, and the release in its `finally` |
| `StatementFails`, `InsertReplyLost`, `AcquireFails`, `BeginFails`, `CommitFails` | what raises, and what it leaves behind |
| `RefreshStart`, `RefreshInstall`, `RefreshFails` | one REFRESH of the scheduler |

`holder` says who has each connection *checked out*: units of work and the
refresh. A statement of a repository borrows a connection and gives it back
within one action, so its guard is that some connection is idle
(`CanRunStatement`). A connection that is busy with somebody's statement for an
instant delays others and refuses nobody, since `acquire` waits. The pool is a
finite set (`ConnsAssumption`: `db_pool_max_size` is a number). `stock` is the
sum over the committed rows; `recorded` says which requests have one; `mv` and
`snapshot` are the view and what a running refresh will make of it. `mv` and
`snapshot` are partial functions because a view without rows for a product is
a case of its own. `outSince` and `raced` are history variables: they record
what was taken since a request read the stock, and no guard reads them.

The variables that a statement does not touch stay: an action that refuses
(400, 409) is the same action as the one that accepts, with the code's branch
inside. `BeginFails` has two outcomes because asyncpg puts a *lost* connection
back by itself, while one that is alive and was never released stays out
(`"leaked"`); `__aexit__` does not run when `__aenter__` raised.

`Life` is the module's view of itself as a part of `Lifespan`: a process that
serves, whose requests are all of the kind "post". `LifeStage` takes the stages of
`execute` to those of `Lifespan`.

### StockLedger

The abstract promise: each request is recorded in one step, and then the stock
covers it at that moment, or refused, and then the stock is as before. No pool,
no transaction, no view.

### MovementHistory

Extends `RecordMovement` with `created_at`. `Stamp` is part of the step that
builds the entity (before the unit of work). The clock moves by itself (`Tick`), so
several entities may carry one time; it is *assumed* not to be set back, which would
open a settled past again and leave rows with times ahead of the present.
`StockAtDate` is the query of
`get_stock_at_date`; `lastMovementAt` is the `last_movement_at` column. `StockOver`
and `Newest` are what SUM and MAX give over some rows of a product. The module
adds two notions. A time is *settled* when no movement that carries it, or an
earlier one, can still be inserted. A stock and a time are a *cut* (`IsCut`) when
one set of recorded movements has that sum and that newest `created_at`: it is
what a row of the view is, and all that `last_movement_at` tells of it.

### RefreshScheduler and AsyncView

One or more `Instances` of the job: waiting for a connection, executing,
sleeping before a retry. `Tick` is the interval trigger with `max_instances=1`;
`Raise` is the decorator and the job's handler together: an error that
`_RETRYABLE_EXCEPTIONS` lists, with attempts left, sleeps; anything else ends the
job. `Execute` takes the snapshot and `Succeed` installs it; a lost connection may
have installed it or not. How long a statement or a sleep lasts is left out, that
it ends is fairness. `AsyncView` is the promise: the view lags and never goes
back or ahead.

The scheduler may be `enabled=False`; then no action of it happens, which
`Spec` allows (without fairness) and `FairSpec` does not (the liveness property is
about a scheduler that runs).

### StockReads

Extends `RefreshScheduler` with a client of `GET /v1/stock/{id}/current`. Its
request is two actions, `QueryView` and, where the view or the row is missing,
`QueryDirect`, because a refresh, a new movement or the product itself may come in
between. The movements are those of one product, which may be asked about before
it exists (`CreateProduct`); whether the view *lists* the product is state of its own
(`listed`, `listedIn`), since a row of zero movements and no row are answered by
different statements. `floor` is a history variable: the oldest state of the
table that an answer given from now on may still be.

### Lifespan

The process from `init_pool` to `Pool.close`. `InitPool` has the two environments
(production dies, development goes on without a pool for good), `StartScheduler`
is the rest of the lifespan's start, `Signal` the drain that uvicorn does before
it lets the lifespan go on, and `Cleanup` the `finally` up to its first suspension.
That suspension matters: `shutdown(wait=True)` of APScheduler's asyncio scheduler
only leaves a callback to the event loop, so the pool is `closing` while the
scheduler is still `stopping`, and `SchedulerStops` then *cancels* a running refresh
instead of waiting for it. `PoolCloses` waits for every connection.

Requests are of three kinds: the health check, which answers `degraded` instead of
an error; a statement; and a unit of work, which needs a second connection
(`RunStatements`) and ends without it (`Finish`), or leaks its first (`BeginFails`).
`Tick` to `JobWakes` are the refresh as far as it holds a connection or sleeps.

That this is enough of a request is a property of `RecordMovement`
(`StepsAreLifespanSteps`). It is why `RunStatements` and `Finish` are two actions: a
unit of work whose INSERT is done commits although all connections are taken
meanwhile, and one whose BEGIN fails waits for nobody.

### MovementBoundary

One request at a time through the layers that a movement passes: `DtoAccepts`
(Pydantic), `EntityError` (`Quantity`, then `Movement.__post_init__`), `ColumnTakes`
(`INTEGER CHECK`, text that PostgreSQL can store) and, on the way out, `MapperError`.
Each has its own copy of what it needs, as in the code: `DtoRequires` and
`EntityRequires` are two definitions because they are two functions. `Refusal` has
the order in which `create_movement` finds out: the first validation believes the
view (`ViewedStock`), which may be older than the rows or lack the product, then the
entity is built, and the second validation takes the sum; `Create` answers what the mapper
says *after* the row is there; `Seed` is the INSERT of `007_seed_data.sql`, which
passes none of these layers, and `Refresh` brings the view up to date. `GetMovement` and `ListMovements` read rows back, and one
row that cannot be mapped fails its page. Integers keep their widths as the
constants `MaxInteger` and `MaxBigint`.

### Migrations

Any number of `Runners` of `migrate.py` on one database, each started several
times, and `seed.py`. The SELECT of applied versions happens once per run
(`GetAppliedVersions`); the loop skips, applies in a transaction together with
the row of `schema_migrations`, or applies without transaction and records
nothing. `Fail` and `DieAfterCommit` are a crash before and after the commit. What
a script does to the schema is abstracted to whether it took effect.

### PagedListing

Both paginated lists, `GET /v1/products` and `GET /v1/movements`: `ListRows` is
the statement with LIMIT and OFFSET, `CountRows` the second one with the total,
each on a connection and a snapshot of its own. A row is its place in the order
(`Keys`): the id of a product, or `created_at` backwards for a movement. A key is
fixed before its row becomes visible, so `Insert` may put a row anywhere. The
client (`StartWalk`, `NextPage`, `EndWalk`) believes the total. `atStart` and
`shown` are history variables.

What a walk promises is one-sided. Rows are only ever pushed back, so none is
missed; a row may be shown on two pages, and one that comes later may be missed.
Movements of equal `created_at`, such as those of the seed script, are in no
order that the query fixes, and PostgreSQL may cut the pages differently each
time; the module assumes that keys are distinct.

### Catalog

Extends `PagedListing` with the requests that insert the rows. `Arrive`,
`GetCategory` and the INSERT are the awaits of `CreateProductUseCase.execute`
and `CreateCategoryUseCase.execute`; the INSERT is two actions, because its id is
drawn when it starts (`StartInsert`) and its row visible when it ends (`Create`),
and others end in between. `Refuse` is a violated UNIQUE or foreign key,
`StatementFails` and `ReplyLost` are errors without and with effect. A body is its
table, its unique value and, for a product, its category: the other fields decide
nothing after the DTO.

## 3. What is checked

`tlc -config X.cfg M` checks one row of each table. Every property has a
mutant: a plausible bug in one of the definitions that TLC must find under the
run's own configuration (`mutants` in `PROJECT.json`). The mutated forms stand in
the modules just before the definition they replace, marked "Mutant".

### Runs that pass

| run | properties | what it shows |
|---|---|---|
| MovementRaces (`MCMovementHistory`) | `HistoryTypeOK`, `NegativeOnlyIfRaced`, `OneConnectionPerUnitOfWork`, `OverdraftBoundedByPool`, `PresentIsCurrentStock`, `ViewRowIsOneCut`, `SettledPastIsFinal` | the *only* way below zero is an INSERT on an overtaken read; how far below is bounded by the pool; connections are accounted for through every error; what "stock at a date" and a row of the view promise although rows appear out of order |
| MovementPoolOfTwo | `PoolOfTwoNeverOverdraws`, `ImplementsLedger`, `StepsAreLifespanSteps` | with two connections the program implements the atomic ledger; three requests that compete for them, up to the deadlock, do what `Lifespan` says of requests |
| MovementAnswered | `TypeOK`, `AnswerMatchesLedger`, `StockMatchesDomainRule`, `OnlyRefreshDelays`, `EveryRequestAnswered` | all movement types, two products and an unknown one: 201 means recorded, 400 and 409 mean not; SQL and Python agree on signs; with more connections than requests nobody waits forever, in spite of a leak and endless refreshes |
| RefreshRetries (`StockReads`) | `SchedulerTypeOK`, `GivesUpOnlyWhenExhausted`, `AnswersKeepUp`, `ReadsGoBackOnce`, `ImplementsAsyncView`, `EveryMovementReachesView` | retries, lost replies and skipped ticks never show in the view, a job that failed leaves the next interval able to run, and what a client is told of the current stock keeps up with the view and goes back once at most |
| LifespanStops (`Lifespan`) | `LifespanTypeOK`, `RequestsHaveOpenPool`, `NoRefreshOutlivesPool`, `ProductionHasDatabase`, `ShutdownIsNotStuck`, `ShutdownEnds` | a request in flight has an open pool; no refresh is left when the pool has closed, whatever it was doing; production never serves without a database; while it shuts down somebody can take the next step, and it ends, unless a connection leaked or units of work hold the whole pool |
| BoundaryReadable (`MCMovementBoundary`) | `BoundaryTypeOK`, `DtoDecides`, `RefusalLeavesNoRow`, `UnreadableOnlyFromSeed` | the copies of the rules agree, an error leaves no row although the row is mapped after its commit, and only rows of the seed script cannot be read back |
| MigrationsSafe | `MigrationsTypeOK`, `TrackedOnce`, `ScriptsRunInOrder`, `DoneMeansApplied` | two runners that fail or die anywhere: once, in order, complete |
| CatalogPages | `CatalogTypeOK`, `CreatedOnce`, `CategoryIsStillThere`, `WalkMissesNothing`, `TotalCoversPage` | clashing creations, one of them in a category that appears meanwhile: one row per SKU and name, 201 only for one's own; a walk over the pages at the same time misses nothing that was there at its start |

### Runs that fail, and why

Each checks one sentence of the repository that the code does not live up to;
`findings` quotes the sentence.

| run | property | behaviour TLC finds |
|---|---|---|
| MovementOverdraft | `StockNeverNegative` | two OUT movements read the same stock, since the FOR UPDATE lock ends with its statement, and both insert |
| MovementNotAtomic | `FailedRequestLeavesNoRow` | 500 for a movement that is recorded for good |
| MovementPoolExhausted | `UnitOfWorkEnds` | as many units of work as connections, each waiting for a second one |
| MigrationsSeed | `SeedRowsOnce` | `make migrate` and then `make seed` insert the seed movements twice |

Smaller disagreements are visible in single actions and have no run:

* `BeginFails`: when `transaction.start()` raises on a live connection, nothing
  releases it, although `uow.py:48` says the connection always goes back.
* `FailFastView`: a stale row answers 409 for a movement that the stock covers,
  although `008_create_mv_stock_historical.sql:12-13` says a stale view is not
  believed.
* `Begin`: IN and ADJUSTMENT movements open a unit of work too, and so take part
  in the wait for connections; `SPEC-40.md:578` says they do not.
* `ApplyWithoutTransaction`: a non-transactional script is recorded nowhere and
  runs again on each start, although `migrate.py:4-5` and `SPEC-11.md:30` say that
  applied scripts are skipped. No script of `migrations/` carries the mark yet.
* `Refuse`: a duplicate SKU or category name is answered 500, which cannot be told
  from a database error; `SPEC-71.md:249` and `SPEC-71.md:251` say 409 with a code
  of its own.
* `Retryable`: a refresh that `statement_timeout` cancels ends the job at its
  first attempt (`QueryCanceledError` is not listed), although
  `scheduler.py:65-66` says that timeouts are tolerated.
* `Stamp` and `RefreshStep`: a movement that is stamped before another one and
  inserted after the refresh leaves `MAX(created_at)` as it was, so
  `last_movement_at` does not tell a stale row, for which
  `008_create_mv_stock_historical.sql:9-10` has it. Nothing reads it so far.
* `SchedulerStops`: a refresh that runs when the process stops is cancelled, not
  waited for, although `scheduler.py:147` calls it graceful and asks for `wait=True`.
* `BeginFails` with `PoolCloses`: a leaked connection keeps `Pool.close` waiting for ever,
  so the pool does not close on shutdown as `SPEC-10.md:21` says. `ShutdownEnds`
  names it as an exception.
* `InitPool`: in development a process that was started before its database stays
  without a pool until it is restarted; `SPEC-10.md:39` has the fallback for a
  database that "may not be ready during early startup".
* `ListMovements`: a TRANSFER row of the seed script (keys `from` and `to`,
  `007_seed_data.sql:150-160`) fails the whole page with 400 VALIDATION_ERROR, while
  the stock counts it; `error_handler.py:175-177` says that only errors of the
  input are answered so.
* `DtoRequires`: `movement_consistency.py:3-4` calls itself the only source of truth
  for the metadata rule; the DTO has a copy.
* `ColumnTakes`: a quantity beyond `INTEGER` passes every validation and is answered
  500.
* `StockAtDate`: a product that does not exist has the stock 0 and the answer 200;
  `SPEC-71.md:258-259` say 404 PRODUCT_NOT_FOUND.
* `QueryView` after `QueryDirect`: two successive answers may go back, when the
  product's first row in the view comes from a snapshot older than the first answer.

### Bounds, and why they are enough

* `Requests`: two or three. An overdraft needs two; a third makes an overtaken
  request that is overtaken again, and a bystander that delivers in between.
* `Conns`: two where the pool serializes, three where it does not. Three is the
  smallest pool on which two units of work can be open and a statement can run.
* `MaxFaults` is one: an error is followed by whatever else may happen, which
  covers each error path; two faults in one request are excluded by the code (a
  request ends at its first error, except a failing ROLLBACK, which `Rollback`
  covers as an outcome of its own).
* `OpeningStock` of one or two units and quantities of one to three: less, the
  same and more than the stock.
* `MaxClock` is one: movements of the same time and of different times, and a past
  to ask about.
* `MaxRetries` is three as in the code, `MaxErrors` five: the whole budget of
  one job is used up and the next one fails as well. One product and one request
  at a time suffice for `StockReads`: answers of different products are
  independent, and requests do not see one another.
* `Lifespan` has three requests and two connections: units of work and a refresh
  compete for both, and somebody is left to wait; every phase of one party meets
  every phase of the others.
* `MovementBoundary`: `MaxInteger` is two and quantities are zero to three, `MaxBigint`
  eight and ids from minus ten to nine: both sides of each bound. Bodies are all combinations
  of type, quantity and sets of keys that matter to a rule. The seed is one TRANSFER
  row, and one more in an empty table; it may run again. `MaxRows` is three: pages
  that hold recorded rows only, seed rows only, and both.
* `Scripts` is four with one non-transactional script before the last;
  `MaxRuns` is two per runner: each restart after each failure point.

* The catalog has three requests (two that clash and one that makes the category,
  or that inserts between two pages), two products before them, limits of one and
  two: walks of up to five pages, with inserts before, between and after. Ids
  reach five, which is all that three requests can draw.

The theorems of section 5 do not depend on any of these.

`SYMMETRY` permutes connections or requests, in safety runs only; no definition
tells two of them apart. The liveness runs are checked without. `CHECK_DEADLOCK FALSE` stands where behaviours end: requests are a
finite set that finishes, and the tools stop when `MaxRuns` is used up. The
scheduler, catalog and boundary runs keep the deadlock check. A request that waits forever is looked
for by `EveryRequestAnswered` and `UnitOfWorkEnds`, not by the deadlock check.

## 4. Fairness

* `RecordMovement`: strong fairness of each request's `Step`. Waiters of an
  asyncpg pool stand in an `asyncio.Queue`, which serves them in order, so one
  that is offered a connection again and again gets one; weak fairness would not
  say that, because a refresh may take the connection in between. Statements end
  within `statement_timeout`. `Arrive` is not fair (clients need not come), errors
  and the start of a refresh are not fair (nothing obliges them). A refresh that
  runs ends: weak fairness of `RefreshInstall`; a failure instead is possible.
* `RefreshScheduler`: weak fairness of `StartScheduler` (the lifespan calls it),
  of the interval trigger, and of each instance's progress. Errors are bounded,
  which is what "in the end" means for a database that recovers; no fairness
  is asked of them.
* `Lifespan`: weak fairness of the lifespan's own steps and of `JobEnds` (the event
  loop runs what is ready, a statement ends within `statement_timeout`, a cancelled
  one too); strong fairness of each request's step, for the reason given above.
  Not of `Signal`, of clients, of faults, or of the interval trigger.
* `StockReads`: that of `RefreshScheduler`; clients owe nothing.
* `MovementBoundary`: none; one request at a time, and only what it is told matters.
* `Migrations`: none. Nobody promises that a tool is started again.
* `Catalog`: none; its properties are about what is told and shown, not when.

## 5. What is proved

Assumptions are those the modules name: products are among the product ids,
orders are well-typed bodies, opening stock is not negative, bounds are natural
numbers, the three strings that stand for other holders are not requests, and
the pool of `RecordMovement` is finite. Sets of requests, connections, runners and
instances are arbitrary otherwise. Three theorems have a hypothesis of their own:
`OverdraftIsBounded` speaks of the largest movement, so there are finitely many
orders and at least one; `OnlyRefreshDelaysRequests` counts requests, so they are
finite; `PoolOfTwoImplementsLedger` is about a pool of two.

| module | theorem | argument |
|---|---|---|
| RecordMovementProofs | `TypeCorrect` | `TypeInv` = `TypeOK` and `ProductIsKnown`: past the product check a request names a product that has a stock, without which `stock[...]` has no type |
| | `OverdraftNeedsRace` | `RaceInv` adds `ValidatedIsCovered`: the stock *plus what was taken since it was read* covers each validated movement. Only the INSERT moves the stock, and it moves the two sides together |
| | `AnswersAreTrue` | `AnswerInv` ties the answer to the stage: undecided before the end, and recorded only between INSERT and COMMIT |
| | `ConnectionsAreAccounted` | `HolderInv`: `OneConnectionPerUnitOfWork` is inductive with the types |
| | `PoolOfTwoSerializes` | `PoolInv` adds `ValidatedIsSafe`; lemma `StatementExcludesOthers`: if a statement can run on two connections, no other unit of work is open |
| | `PoolOfTwoImplementsLedger` | `RefinementInv` = `PoolInv` and `AnswerInv`; the INSERT maps to `Record`, deciding an error to `Refuse`, the rest stutters |
| | `StockIsSumOfMovements` | `LedgerInv` = `AnswerInv`, finitely many rows, and the sum: a request's row is inserted once, so each INSERT adds one new summand |
| | `OverdraftIsBounded` | `WorstCaseBounded`: the stock, less *all* that validated requests may still take, stays above the bound; see below |
| | `OnlyRefreshDelaysRequests` | `LeakedBehindFinished`: no more connections have leaked than requests have ended. The held ones inject into the requests that have not, so the two are no more than the requests, and if there are more connections one is idle or refreshing |
| | `RequestsFollowLifespan` | from `TypeInv`: one lemma for each way a request moves in `Lifespan` (`OutsideStepInLife`, `InsideStepInLife`, `AcquireInLife`, `EndInLife`, `BeginFailsInLife`) |
| RefreshSchedulerProofs | `RefreshTypeCorrect`, `RetriesAreUsed`, `RefreshImplementsAsyncView` | `IInv`: one active instance (`OneActive`), whose snapshot is ahead of the view (`SnapshotAhead`), and sleep only if an attempt follows (`SleepsBeforeRetry`) |
| | `AnswersStayClose`, `AnswersFallBackOnce` | `ReadsInv` adds `RowStays` (a row in the view is in every snapshot that may replace it), `AnswerBehind` and `FloorHolds` (wherever the open request gets its answer, it is not below its floor). `ReadsRunTheScheduler` carries the theorems above over to `StockReads` |
| MovementHistoryProofs | `HistoryTypeCorrect`, `SettledPastStays` | `HistoryInv` adds `StampedInside` (an entity inside or before its unit of work carries a time) and `RecordedLate` (a recorded one is past its INSERT): no step gives a time at or before a settled one to a movement that is still to come. `SameRowsSameStock` leaves the sum abstract: the rows do not change, so neither does what is added up |
| | `PresentIsCurrent` | `CountedInv` = `HistoryInv` and `LedgerInv`: no time lies ahead of the clock, so the filter on the date keeps every row |
| | `ViewRowsAreCuts` | `CutInv` adds that the rows of a running refresh are cuts (`SnapshotRowIsOneCut`). A cut stays one (`CutStays`), because a recorded movement keeps its body and its time |
| | `HistoryRunsMovements` | step by step; carries the theorems about `RecordMovement` over to the module that the run MovementRaces checks |
| LifespanProofs | `LifespanTypeCorrect`, `PoolOpenUnderRequests`, `SchedulerEndsBeforePool`, `NoSilentStartup`, `ShutdownGoesOn` | `IInv` adds `PhaseFixesPool` (the phase of the lifespan determines the pool), `SchedulerNeedsPool`, `JobNeedsScheduler` (what is left of a refresh without a scheduler is being cancelled), `RequestsHold` and `RefreshHolds` (a connection is with exactly those who work) |
| MovementBoundaryProofs | `BoundaryTypeCorrect`, `InnerRulesAgree`, `RecordedCanBeRead`, `ErrorsAddNoRow` | lemma `CopiesAgree`: the two copies of the metadata rule are the same function; the invariant `RecordedReadable` says that recorded rows satisfy the entity's rule, so the mapper takes them |
| MigrationsProofs | `MigrationsTypeCorrect`, `TransactionalScriptsRunOnce`, `ScriptsAreOrdered`, `SuccessIsComplete` | `IInv` adds `LoopBehind`: all scripts behind a running loop took effect, which is what lets a runner with old knowledge go on |
| PagedListingProofs | `ListingTypeCorrect`, `WalksAreComplete`, `TotalsCoverPages` | `WalkInv` adds `NothingSkipped` (a row that is still to be shown stands at the offset or behind) and `TotalLeadsOn` (while such a row exists the total is beyond the page). Lemma `PositionBounds`: an insert never lowers the position of a row, and a position is below the size of the table. `TotalsCoverPages`: the rows before the offset are at least `offset` many (`RowsBeforeOffset`, by the row of the least position behind it), so offset and page fit the table (`PageFits`), which has only grown when the total is counted |
| CatalogProofs | `CatalogTypeCorrect`, `UniqueValuesCreatedOnce`, `LookedUpCategoryStays`, `CatalogImplementsListing` | `CatalogInv` adds `IdsAreOwn`: an id that was drawn is nobody else's and no row's until its INSERT ends, without which "has a row" could mean another's. Lemma `CreationInserts` maps each step to one of `PagedListing` |

`OverdraftNeedsRace` is the positive half of the run MovementOverdraft: of all the
causes one may suspect (stale view, refresh, errors, leaks, requests that give
up), only the race between the second read and the INSERT matters, so holding
one lock across these two statements would be a complete repair.
`PoolOfTwoSerializes` explains why a test on a minimal pool never sees the bug.

**Sums.** `SumFunctionOnSet` is a fold of the community modules, that is, a function
on subsets that takes out one *chosen* element after another. Its laws are proved
at the head of `RecordMovementProofs`: the function exists for a finite set
(`SumTableExists`), the order does not matter (`SumTableRemove`), a new element adds
its value (`SumWith`), a sum is at most so many times a bound (`SumAtMost`). Each is
an induction over the size of a set, and the prover does not take an induction
theorem with a predicate; `SubsetInduction` does it with a *set* instead: a set of
subsets that contains each subset all of whose predecessors it contains, contains
them all, for otherwise a least one would be missing (`LeastNatural`).

**The bound of the overdraft.** Let `Slack` be (connections - 2) times the largest
movement. That the stock is at least `-Slack` is not inductive: several requests
may have validated on the same stock. `WorstCaseBounded` subtracts what *all* of
them may take: the stock less the sum over `Pending` is at least `-Slack`. An INSERT
moves an amount from the sum to the stock. A read that validates makes one more
request pending, on a stock that covers it; the others are at most as many as there
are connections besides its own and the one that the read itself borrows
(`UnitsHoldConnections`, `StatementNeedsSpare`), which is where the "less two" comes
from.

**Waiting.** `OnlyRefreshDelaysRequests` and `ShutdownGoesOn` are the safety cores of
`EveryRequestAnswered` and `ShutdownEnds`: in every state that is not yet final
some step of somebody who is bound to move is possible. What they leave to the
liveness runs is that these steps lead somewhere, under the fairness of section 4.

### Only model-checked

* Liveness (`EveryRequestAnswered`, `EveryMovementReachesView`, `ShutdownEnds`) and the
  refuted liveness property: out of reach of the prover. Every invariant and every
  action property of the runs that pass is a theorem.
* All violations, by their nature.

## 6. What is not modelled

* Wording, logging, response bodies and headers: no property is about them.
* The schema beyond the constraints the program relies on (foreign keys, UNIQUE
  columns, primary key of `schema_migrations`), which are guards.
* Immutability: a trigger refuses UPDATE and DELETE and no code issues any; the
  models have no action that takes a row away.
* GET endpoints of the catalog other than the list with a total have no actions,
  as they change no state and run one statement. `GET /v1/categories` has pages
  without a total.
* The middlewares (logging, headers) and the settings: stateless. What the settings
  decide - sizes, retries, the environment, `SCHEDULER_ENABLED` - are constants and
  variables of the modules.
* PostgreSQL and asyncpg are modelled from how the code uses them: committed reads
  at statement level, an atomic statement, FOR UPDATE until the end of its
  transaction, a pool without timeout.
* Several server processes. They share only the database; with one pool each,
  they are further requests that do not compete for connections.
* Errors while the process shuts down by force (a second signal, SIGKILL): nothing of
  the lifespan runs then; what is left in the database is what `RecordMovement` and
  `Migrations` say of a lost connection.

## 7. Plan

The modules, in the order in which they build on one another; all exist:

1. `RecordMovement`, `StockLedger` - the core.
2. `MovementHistory` - time.
3. `RefreshScheduler`, `AsyncView`, `StockReads` - the refresh, its retries, its readers.
4. `Migrations` - the tools.
5. `PagedListing`, `Catalog` - products, categories and pages.
6. `MovementBoundary` - the layers of validation and the rows that pass none.
7. `Lifespan` - start and end of pool and scheduler.

Worth having later: the process of `Lifespan` and the requests of `RecordMovement` as
one module, in which the drain meets the requests statement by statement
(`RequestsFollowLifespan` says that nothing new would happen to the pool there), and
a bound on how often a non-transactional script runs.

--------------------------- MODULE RecordMovement ---------------------------
(***************************************************************************)
(* Concurrent POST /v1/movements requests of one server process, over the  *)
(* asyncpg pool, the movements table and the materialized view.            *)
(*                                                                         *)
(* Every await of RecordMovementUseCase.execute is a point where the event *)
(* loop may run another request, so every await is an action.  The         *)
(* repositories are built with the pool and no connection                  *)
(* (dependencies.py), so each statement they run borrows an idle           *)
(* connection for the length of that statement and commits by itself; the  *)
(* connection that the unit of work holds runs BEGIN and COMMIT only.      *)
(***************************************************************************)
EXTENDS StockRules, FiniteSetsExt

CONSTANTS
    ProductIds,   \* product ids a request may name
    Products,     \* those that have a row in the products table
    Requests,     \* POST requests in flight
    Orders,       \* request bodies that passed CreateMovementInput
    Conns,        \* connections of the pool (db_pool_max_size of them)
    OpeningStock, \* stock left by the movements recorded before Init
    MaxFaults     \* bound: database errors per behaviour

ASSUME ProductsAssumption == Products \subseteq ProductIds

ASSUME OrdersAssumption ==
    Orders \subseteq [product  : ProductIds,
                      type     : MovementTypes,
                      quantity : Nat \ {0}]

ASSUME OpeningStockAssumption == OpeningStock \in [Products -> Nat]

ASSUME MaxFaultsAssumption == MaxFaults \in Nat

ASSUME RequestsAssumption ==
    {"idle", "leaked", "refresh"} \cap Requests = {}

ASSUME ConnsAssumption == IsFiniteSet(Conns)

VARIABLES
    order,     \* the body of each request
    pc,        \* where each request is in execute
    answer,    \* HTTP status decided for each request, 0 before
    holder,    \* who has each pool connection checked out
    stock,     \* SUM over the committed movements of each product
    recorded,  \* requests whose row is in movements
    mv,        \* rows of mv_stock_historical: product -> current_stock
    snapshot,  \* rows a running REFRESH will install, <<>> when none runs
    faults,    \* database errors so far
    outSince,  \* history: units taken from a request's product since it
               \* read the stock inside the unit of work
    raced      \* history: products that lost stock to a movement whose
               \* stock read another movement had overtaken

pool     == <<holder>>
tables   == <<stock, recorded>>
view     == <<mv, snapshot>>
history  == <<outSince, raced>>
requests == <<order, pc, answer>>
vars     == <<order, pc, answer, holder, stock, recorded, mv, snapshot,
              faults, outSince, raced>>

InUnitOfWork == {"begin", "lock", "read_stock", "insert", "commit", "rollback"}
Stages == {"new", "get_product", "fail_fast", "fail_fast_direct", "enter_uow",
           "done"} \cup InUnitOfWork
Answers == {0, 201, 400, 409, 500}

ProductOf(r) == order[r].product
ReducesStock(r) == Reduces(order[r].type)
Contribution(r) == SqlContribution(order[r].type, order[r].quantity)
MovementsOf(p) == {r \in recorded : ProductOf(r) = p}
WouldOverdraw(r, current) ==
    Insufficient(order[r].type, order[r].quantity, current)

Idle == {c \in Conns : holder[c] = "idle"}

\* A repository call borrows a connection for one statement and gives it
\* back: no connection changes hands, but one must be idle.
CanRunStatement == Idle # {}

Init ==
    /\ order \in [Requests -> Orders]
    /\ pc = [r \in Requests |-> "new"]
    /\ answer = [r \in Requests |-> 0]
    /\ holder = [c \in Conns |-> "idle"]
    /\ stock = OpeningStock
    /\ recorded = {}
    /\ mv \in {<<>>, OpeningStock}
    /\ snapshot = <<>>
    /\ faults = 0
    /\ outSince = [r \in Requests |-> 0]
    /\ raced = {}

Goto(r, stage) == pc' = [pc EXCEPT ![r] = stage]
Answer(r, status) == answer' = [answer EXCEPT ![r] = status]
Release(r) ==
    holder' = [c \in Conns |-> IF holder[c] = r THEN "idle" ELSE holder[c]]

(***************************************************************************)
(* Before the unit of work.                                                *)
(***************************************************************************)

\* The router hands the body to the use case.
Arrive(r) ==
    /\ pc[r] = "new"
    /\ Goto(r, "get_product")
    /\ UNCHANGED <<order, answer, pool, tables, view, faults, history>>

\* Mutant: an unknown product is answered like GET /products/{id} does.
GetProductAnswers404(r) ==
    /\ pc[r] = "get_product"
    /\ CanRunStatement
    /\ IF ProductOf(r) \notin Products
       THEN Answer(r, 404) /\ Goto(r, "done")
       ELSE /\ Goto(r, IF ReducesStock(r) THEN "fail_fast" ELSE "enter_uow")
            /\ UNCHANGED answer
    /\ UNCHANGED <<order, pool, tables, view, faults, history>>

\* product_repo.get_by_id; ProductNotFoundError is answered 400.
GetProduct(r) ==
    /\ pc[r] = "get_product"
    /\ CanRunStatement
    /\ IF ProductOf(r) \notin Products
       THEN Answer(r, 400) /\ Goto(r, "done")
       ELSE /\ Goto(r, IF ReducesStock(r) THEN "fail_fast" ELSE "enter_uow")
            /\ UNCHANGED answer
    /\ UNCHANGED <<order, pool, tables, view, faults, history>>

\* Both fail-fast reads end in validate_stock_not_negative on what they read.
FailFastOn(r, current) ==
    /\ IF WouldOverdraw(r, current)
       THEN Answer(r, 409) /\ Goto(r, "done")
       ELSE Goto(r, "enter_uow") /\ UNCHANGED answer
    /\ UNCHANGED <<order, pool, tables, view, faults, history>>

\* get_current_stock: the row of the view is believed whatever its age.
FailFastView(r) ==
    /\ pc[r] = "fail_fast"
    /\ CanRunStatement
    /\ ProductOf(r) \in DOMAIN mv
    /\ FailFastOn(r, mv[ProductOf(r)])

\* get_current_stock: no row for the product, a second statement is needed.
FailFastMiss(r) ==
    /\ pc[r] = "fail_fast"
    /\ CanRunStatement
    /\ ProductOf(r) \notin DOMAIN mv
    /\ Goto(r, "fail_fast_direct")
    /\ UNCHANGED <<order, answer, pool, tables, view, faults, history>>

FailFastDirect(r) ==
    /\ pc[r] = "fail_fast_direct"
    /\ CanRunStatement
    /\ FailFastOn(r, stock[ProductOf(r)])

(***************************************************************************)
(* The unit of work.                                                       *)
(***************************************************************************)

\* PostgresUnitOfWork.__aenter__: pool.acquire has no timeout.
Acquire(r) ==
    /\ pc[r] = "enter_uow"
    /\ \E c \in Idle : holder' = [holder EXCEPT ![c] = r]
    /\ Goto(r, "begin")
    /\ UNCHANGED <<order, answer, tables, view, faults, history>>

\* __aenter__: transaction.start.
Begin(r) ==
    /\ pc[r] = "begin"
    /\ Goto(r, IF ReducesStock(r) THEN "lock" ELSE "insert")
    /\ UNCHANGED <<order, answer, pool, tables, view, faults, history>>

\* SELECT ... FOR UPDATE on a borrowed connection: the row lock ends with the
\* statement, so no later action depends on it.
LockProduct(r) ==
    /\ pc[r] = "lock"
    /\ CanRunStatement
    /\ Goto(r, "read_stock")
    /\ UNCHANGED <<order, answer, pool, tables, view, faults, history>>

\* Mutant: the second validation reads the view, as get_current_stock does.
ReadStockFromView(r) ==
    /\ pc[r] = "read_stock"
    /\ CanRunStatement
    /\ LET current == IF ProductOf(r) \in DOMAIN mv THEN mv[ProductOf(r)]
                                                   ELSE stock[ProductOf(r)]
       IN  IF WouldOverdraw(r, current)
           THEN Answer(r, 409) /\ Goto(r, "rollback")
           ELSE Goto(r, "insert") /\ UNCHANGED answer
    /\ outSince' = [outSince EXCEPT ![r] = 0]
    /\ UNCHANGED <<order, pool, tables, view, faults, raced>>

\* _get_stock_direct and the second validate_stock_not_negative.
ReadStock(r) ==
    /\ pc[r] = "read_stock"
    /\ CanRunStatement
    /\ outSince' = [outSince EXCEPT ![r] = 0]
    /\ IF WouldOverdraw(r, stock[ProductOf(r)])
       THEN Answer(r, 409) /\ Goto(r, "rollback")
       ELSE Goto(r, "insert") /\ UNCHANGED answer
    /\ UNCHANGED <<order, pool, tables, view, faults, raced>>

\* Has passed the second validation and not inserted yet.
Validated(r) == pc[r] = "insert" /\ ReducesStock(r)

\* The INSERT commits by itself, and every request that still relies on an
\* older read of the same product is overtaken.
InsertRow(r) ==
    /\ recorded' = recorded \cup {r}
    /\ stock' = [stock EXCEPT ![ProductOf(r)] = @ + Contribution(r)]
    /\ outSince' = [s \in Requests |->
           IF ReducesStock(r) /\ Validated(s) /\ ProductOf(s) = ProductOf(r)
           THEN outSince[s] + order[r].quantity
           ELSE outSince[s]]
    /\ raced' = IF ReducesStock(r) /\ outSince[r] > 0
                THEN raced \cup {ProductOf(r)}
                ELSE raced

\* movement_repo.create
CreateMovement(r) ==
    /\ pc[r] = "insert"
    /\ CanRunStatement
    /\ InsertRow(r)
    /\ Goto(r, "commit")
    /\ UNCHANGED <<order, answer, pool, view, faults>>

\* __aexit__ without exception: COMMIT of a transaction that ran nothing,
\* then release in the finally clause; the router answers 201.
Commit(r) ==
    /\ pc[r] = "commit"
    /\ Release(r)
    /\ Answer(r, 201)
    /\ Goto(r, "done")
    /\ UNCHANGED <<order, tables, view, faults, history>>

\* Mutant: only the commit path releases the connection.
RollbackKeepsConnection(r) ==
    /\ pc[r] = "rollback"
    /\ Goto(r, "done")
    /\ UNCHANGED <<order, answer, pool, tables, view, faults, history>>

\* __aexit__ with an exception: ROLLBACK, whether it fails or not, then
\* release; the exception that was active is the one answered.
Rollback(r) ==
    /\ pc[r] = "rollback"
    /\ Release(r)
    /\ Goto(r, "done")
    /\ UNCHANGED <<order, answer, tables, view, faults, history>>

(***************************************************************************)
(* Database errors: statement_timeout, a lost connection, a refused COMMIT.*)
(* All of them are answered 500 by the catch-all handlers.                 *)
(***************************************************************************)
Fault ==
    /\ faults < MaxFaults
    /\ faults' = faults + 1

\* Mutant: an error of the INSERT is swallowed and the request goes on.
StatementFailureSwallowed(r) ==
    /\ pc[r] \in {"get_product", "fail_fast", "fail_fast_direct",
                  "lock", "read_stock", "insert"}
    /\ CanRunStatement
    /\ Fault
    /\ IF pc[r] = "insert"
       THEN Goto(r, "commit") /\ UNCHANGED answer
       ELSE /\ Answer(r, 500)
            /\ Goto(r, IF pc[r] \in InUnitOfWork THEN "rollback" ELSE "done")
    /\ UNCHANGED <<order, pool, tables, view, history>>

\* A statement of a repository raises and had no effect.
StatementFails(r) ==
    /\ pc[r] \in {"get_product", "fail_fast", "fail_fast_direct",
                  "lock", "read_stock", "insert"}
    /\ CanRunStatement
    /\ Fault
    /\ Answer(r, 500)
    /\ Goto(r, IF pc[r] \in InUnitOfWork THEN "rollback" ELSE "done")
    /\ UNCHANGED <<order, pool, tables, view, history>>

\* Mutant: the INSERT is retried when its reply is lost.
InsertReplyLostRetried(r) ==
    /\ pc[r] = "insert"
    /\ CanRunStatement
    /\ Fault
    /\ InsertRow(r)
    /\ UNCHANGED <<order, pc, answer, pool, view>>

\* The connection that ran the INSERT is lost after the row was committed.
InsertReplyLost(r) ==
    /\ pc[r] = "insert"
    /\ CanRunStatement
    /\ Fault
    /\ InsertRow(r)
    /\ Answer(r, 500)
    /\ Goto(r, "rollback")
    /\ UNCHANGED <<order, pool, view>>

\* pool.acquire raises: PostgreSQL refuses the connection that the pool opens
\* for a free place, and the place stays free.
AcquireFails(r) ==
    /\ pc[r] = "enter_uow"
    /\ CanRunStatement
    /\ Fault
    /\ Answer(r, 500)
    /\ Goto(r, "done")
    /\ UNCHANGED <<order, pool, tables, view, history>>

\* Mutant: __aenter__ asks the pool again when BEGIN fails, and keeps the
\* connection it has.
BeginFailsRetried(r) ==
    /\ pc[r] = "begin"
    /\ Fault
    /\ \E fate \in {"idle", "leaked"} :
         holder' = [c \in Conns |-> IF holder[c] = r THEN fate ELSE holder[c]]
    /\ Goto(r, "enter_uow")
    /\ UNCHANGED <<order, answer, tables, view, history>>

\* transaction.start raises: __aexit__ is never called.  A connection that was
\* lost goes back to the pool by itself; one that is alive stays checked out.
BeginFails(r) ==
    /\ pc[r] = "begin"
    /\ Fault
    /\ \E fate \in {"idle", "leaked"} :
         holder' = [c \in Conns |-> IF holder[c] = r THEN fate ELSE holder[c]]
    /\ Answer(r, 500)
    /\ Goto(r, "done")
    /\ UNCHANGED <<order, tables, view, history>>

\* COMMIT raises: re-raised after the release.
CommitFails(r) ==
    /\ pc[r] = "commit"
    /\ Fault
    /\ Release(r)
    /\ Answer(r, 500)
    /\ Goto(r, "done")
    /\ UNCHANGED <<order, tables, view, history>>

(***************************************************************************)
(* The scheduler's REFRESH MATERIALIZED VIEW CONCURRENTLY, one at a time.  *)
(* It computes the view from the rows committed when it starts and         *)
(* installs it when it ends.                                               *)
(***************************************************************************)
RefreshRunning == \E c \in Conns : holder[c] = "refresh"

\* Mutant: the refresh never gives its connection back.
EndRefreshKeepsConnection ==
    /\ snapshot' = <<>>
    /\ UNCHANGED <<holder, requests, tables, history>>

EndRefresh ==
    /\ holder' = [c \in Conns |-> IF holder[c] = "refresh" THEN "idle"
                                                           ELSE holder[c]]
    /\ snapshot' = <<>>
    /\ UNCHANGED <<requests, tables, history>>

RefreshStart ==
    /\ ~RefreshRunning
    /\ \E c \in Idle : holder' = [holder EXCEPT ![c] = "refresh"]
    /\ snapshot' = stock
    /\ UNCHANGED <<requests, tables, mv, faults, history>>

RefreshInstall ==
    /\ RefreshRunning
    /\ mv' = snapshot
    /\ EndRefresh
    /\ UNCHANGED faults

RefreshFails ==
    /\ RefreshRunning
    /\ Fault
    /\ EndRefresh
    /\ UNCHANGED mv

-----------------------------------------------------------------------------
\* What the event loop and the database do for a request when nothing fails.
Step(r) ==
    \/ GetProduct(r) \/ FailFastView(r) \/ FailFastMiss(r) \/ FailFastDirect(r)
    \/ Acquire(r) \/ Begin(r) \/ LockProduct(r) \/ ReadStock(r)
    \/ CreateMovement(r) \/ Commit(r) \/ Rollback(r)

Error(r) ==
    \/ StatementFails(r) \/ InsertReplyLost(r)
    \/ AcquireFails(r) \/ BeginFails(r) \/ CommitFails(r)

Next ==
    \/ \E r \in Requests : Arrive(r) \/ Step(r) \/ Error(r)
    \/ RefreshStart \/ RefreshInstall \/ RefreshFails

Spec == Init /\ [][Next]_vars

\* Tasks waiting for a connection are woken in order (asyncio.Queue), so one
\* that is offered a connection again and again is served in the end; a
\* statement ends within statement_timeout.
Fairness ==
    /\ \A r \in Requests : SF_vars(Step(r))
    /\ WF_vars(RefreshInstall)

FairSpec == Spec /\ Fairness

-----------------------------------------------------------------------------
(***************************************************************************)
(* Properties.                                                             *)
(***************************************************************************)

\* Type invariant.
TypeOK ==
    /\ order \in [Requests -> Orders]
    /\ pc \in [Requests -> Stages]
    /\ answer \in [Requests -> Answers]
    /\ holder \in [Conns -> Requests \cup {"idle", "leaked", "refresh"}]
    /\ stock \in [Products -> Int]
    /\ recorded \subseteq Requests
    /\ DOMAIN mv \subseteq Products
    /\ \A p \in DOMAIN mv : mv[p] \in Int
    /\ DOMAIN snapshot \subseteq Products
    /\ \A p \in DOMAIN snapshot : snapshot[p] \in Int
    /\ faults \in 0 .. MaxFaults
    /\ outSince \in [Requests -> Nat]
    /\ raced \subseteq Products

\* The stock of a product goes below zero only when a movement was inserted
\* on a stock read that another movement had overtaken: the second
\* validation is right about everything but the other requests that stand
\* between their own read and their own INSERT.  A stale view, a concurrent
\* refresh, an error or a request that gives up never does it.
NegativeOnlyIfRaced == \A p \in Products : stock[p] >= 0 \/ p \in raced

\* What the client is told agrees with the movements table: 201 means the
\* row is there, 400 and 409 mean it is not, and a request that has no answer
\* yet has a row only while it is about to commit its unit of work.
AnswerMatchesLedger ==
    \A r \in Requests :
        /\ answer[r] = 201 => r \in recorded
        /\ answer[r] \in {400, 409} => r \notin recorded
        /\ answer[r] = 0 /\ r \in recorded => pc[r] = "commit"

\* The stock that the SQL queries sum is the one the domain reckons with: the
\* opening stock moved by calculate_stock_delta of every recorded movement.
StockMatchesDomainRule ==
    LET delta == [r \in Requests |-> StockDelta(order[r].type, order[r].quantity)]
    IN  \A p \in Products :
            stock[p] = OpeningStock[p] + SumFunctionOnSet(delta, MovementsOf(p))

\* At most Cardinality(Conns) - 1 requests can have validated and not
\* inserted, because an INSERT needs a connection besides the ones they hold;
\* all but one of them may be wrong.  So the overdraft of a product is never
\* worse than this many times the largest movement.
LargestMovement == Max({o.quantity : o \in Orders})
UnprotectedUnitsOfWork ==
    IF Cardinality(Conns) > 2 THEN Cardinality(Conns) - 2 ELSE 0

OverdraftBoundedByPool ==
    \A p \in Products : stock[p] >= -(UnprotectedUnitsOfWork * LargestMovement)

HeldBy(r) == {c \in Conns : holder[c] = r}

\* A request has exactly one connection checked out while it is inside
\* "async with uow" and none outside, and a refresh has at most one.
OneConnectionPerUnitOfWork ==
    /\ \A r \in Requests :
          IF pc[r] \in InUnitOfWork THEN \E c \in Conns : HeldBy(r) = {c}
                                   ELSE HeldBy(r) = {}
    /\ \A c, d \in Conns :
          holder[c] = "refresh" /\ holder[d] = "refresh" => c = d

\* A pool of at most two connections serializes the units of work by
\* accident: nobody reads or inserts while two of them are open, so the
\* stock that a request validated still covers its movement when it inserts.
PoolOfTwo == \A a, b, c \in Conns : a = b \/ b = c \/ a = c

PoolOfTwoNeverOverdraws ==
    PoolOfTwo => \A p \in Products : stock[p] >= 0

\* With a pool of two the program implements the atomic ledger: a request is
\* recorded when its row is, and refused when an error is decided for it.
Ledger == INSTANCE StockLedger WITH
    outcome <- [r \in Requests |->
                   IF r \in recorded THEN "recorded"
                   ELSE IF answer[r] # 0 THEN "refused" ELSE "pending"]

ImplementsLedger == Ledger!Spec

\* What the process makes of a request: Lifespan, while it serves.
LifeStage(r) ==
    CASE pc[r] = "new" -> "arrived"
      [] pc[r] \in {"begin", "lock", "read_stock", "insert"} -> "working"
      [] pc[r] \in {"commit", "rollback"} -> "ending"
      [] pc[r] = "done" -> "answered"
      [] OTHER -> "waiting"
LifeAnswer(r) ==
    IF pc[r] # "done" THEN "none" ELSE IF answer[r] = 201 THEN "ok" ELSE "error"

Life == INSTANCE Lifespan WITH
    settings <- [environment |-> "production", scheduler_enabled |-> TRUE],
    phase <- "serving",
    pool <- "open",
    scheduler <- "running",
    job <- IF RefreshRunning THEN "working" ELSE "idle",
    kind <- [r \in Requests |-> "post"],
    stage <- [r \in Requests |-> LifeStage(r)],
    answer <- [r \in Requests |-> LifeAnswer(r)]

\* Lifespan leaves out nothing that a POST request does with the pool: every
\* step of it, each error included, is one of Lifespan or changes nothing
\* there.  A refresh starts in two of its steps, the tick and the connection.
StepsAreLifespanSteps == [][Life!Next \/ RefreshStart]_(Life!vars)

\* With more connections than requests nobody waits for another request: a
\* statement finds an idle connection unless a refresh has the last one.  In
\* particular a connection that leaked is never missed, because the request
\* that lost it needs none any more.  What EveryRequestAnswered rests on.
OnlyRefreshDelays ==
    Cardinality(Conns) > Cardinality(Requests) => CanRunStatement \/ RefreshRunning

\* Every request the server took is answered.  Holds with more connections
\* than requests, whatever the refresh does: a connection that leaks was held
\* by a request that needs none any more.  Does not hold with fewer: see
\* UnitOfWorkEnds.
EveryRequestAnswered ==
    \A r \in Requests : pc[r] = "get_product" ~> pc[r] = "done"

(***************************************************************************)
(* What the repository says of the code, and the code does not do.         *)
(***************************************************************************)

\* record_movement.py:115-119 and SPEC-40.md:175: the lock serializes the
\* movements of a product, so the stock is never negative.
StockNeverNegative == \A p \in Products : stock[p] >= 0

\* SPEC-40.md:20 and :30: checking the stock and creating the movement are a
\* single transaction, so a request that ends in an error leaves no row.
FailedRequestLeavesNoRow ==
    \A r \in Requests : answer[r] = 500 /\ pc[r] = "done" => r \notin recorded

\* uow.py:48: the connection always goes back to the pool.
UnitOfWorkEnds ==
    \A r \in Requests : pc[r] = "begin" ~> HeldBy(r) = {}
=============================================================================

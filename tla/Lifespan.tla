------------------------------ MODULE Lifespan ------------------------------
(***************************************************************************)
(* The life of the process: the lifespan of main.py opens the pool and     *)
(* starts the scheduler, requests and refreshes use the pool, and on a     *)
(* signal both are taken down again, with refreshes still running.         *)
(*                                                                         *)
(* What a request does with its connections is in RecordMovement, and why  *)
(* a refresh sleeps in RefreshScheduler; here they hold and wait.          *)
(***************************************************************************)
EXTENDS Integers

CONSTANTS
    Requests,  \* requests in flight
    Conns      \* connections of the pool

ASSUME LifespanAssumption ==
    {"idle", "refresh", "leaked"} \cap Requests = {}

VARIABLES
    settings,   \* of the process: environment and scheduler_enabled
    phase,      \* of the process: see LifePhases
    pool,       \* "none" and "closed" is _pool = None
    scheduler,  \* "stopping" from shutdown() until the event loop runs it
    job,        \* phase of the refresh: see JobPhases
    kind,       \* what each request asks for: see Kinds
    stage,      \* of each request: see LifeStages
    answer,     \* of each request, "none" before
    holder      \* who has checked out each connection

service == <<settings, phase>>
requests == <<kind, stage, answer>>
vars == <<service, pool, scheduler, job, requests, holder>>

LifePhases == {"starting", "connected", "serving", "draining", "closing",
               "stopped", "failed"}
JobPhases == {"idle", "waiting", "working", "sleeping", "cancelled"}
LifeStages == {"new", "arrived", "waiting", "working", "ending", "answered"}

\* A "post" opens a unit of work; the others run one statement at a time.
\* "ending" is a unit of work that has run its statements.
Kinds == {"health", "read", "post"}
Answers == {"none", "ok", "degraded", "unavailable", "error"}
Holders == {"idle", "refresh", "leaked"} \cup Requests

Idle(c) == holder[c] = "idle"
InFlight == {r \in Requests : stage[r] \notin {"new", "answered"}}
Leaked == \E c \in Conns : holder[c] = "leaked"

Init ==
    /\ settings \in [environment : {"production", "development"},
                     scheduler_enabled : BOOLEAN]
    /\ phase = "starting"
    /\ pool = "none"
    /\ scheduler = "none"
    /\ job = "idle"
    /\ kind \in [Requests -> Kinds]
    /\ stage = [r \in Requests |-> "new"]
    /\ answer = [r \in Requests |-> "none"]
    /\ holder = [c \in Conns |-> "idle"]

-----------------------------------------------------------------------------
\* The lifespan.

\* Mutant: the fallback of development in every environment.
InitPoolAlwaysFallsBack ==
    /\ phase = "starting"
    /\ phase' = "connected"
    /\ pool' \in {"open", "none"}
    /\ UNCHANGED <<settings, scheduler, job, requests, holder>>

\* init_pool: without a database the process does not start in production, and
\* starts without a pool, for good, in development.
InitPool ==
    /\ phase = "starting"
    /\ \/ pool' = "open" /\ phase' = "connected"
       \/ /\ pool' = "none"
          /\ phase' = IF settings.environment = "production" THEN "failed"
                                                             ELSE "connected"
    /\ UNCHANGED <<settings, scheduler, job, requests, holder>>

StartScheduler ==
    /\ phase = "connected"
    /\ phase' = "serving"
    /\ scheduler' = IF pool = "open" /\ settings.scheduler_enabled
                    THEN "running" ELSE "none"
    /\ UNCHANGED <<settings, pool, job, requests, holder>>

\* SIGTERM: uvicorn accepts no more requests and waits for those in flight.
Signal ==
    /\ phase = "serving"
    /\ phase' = "draining"
    /\ UNCHANGED <<settings, pool, scheduler, job, requests, holder>>

ToClosing == phase' = "closing" /\ pool' = IF pool = "open" THEN "closing" ELSE pool

\* Mutant: the signal goes to the lifespan before requests have ended.
CleanupAtOnce ==
    /\ phase = "draining"
    /\ ToClosing
    /\ scheduler' = IF scheduler = "running" THEN "stopping" ELSE scheduler
    /\ UNCHANGED <<settings, job, requests, holder>>

\* Mutant: the pool is closed and the scheduler forgotten.
CleanupPoolOnly ==
    /\ phase = "draining"
    /\ InFlight = {}
    /\ ToClosing
    /\ UNCHANGED <<settings, scheduler, job, requests, holder>>

\* The finally of the lifespan up to its first suspension: shutdown_scheduler
\* leaves the shutdown to the event loop, and Pool.close refuses new users.
Cleanup ==
    /\ phase = "draining"
    /\ InFlight = {}
    /\ ToClosing
    /\ scheduler' = IF scheduler = "running" THEN "stopping" ELSE scheduler
    /\ UNCHANGED <<settings, job, requests, holder>>

\* The event loop runs the shutdown.  In spite of wait=True a job is not waited
\* for but cancelled; one that runs a statement has to cancel it first.
SchedulerStops ==
    /\ scheduler = "stopping"
    /\ scheduler' = "none"
    /\ job' = IF job = "working" THEN "cancelled" ELSE "idle"
    /\ UNCHANGED <<service, pool, requests, holder>>

\* Pool.close returns when every connection has come back.  It needs several
\* turns of the event loop, and the scheduler's shutdown stands before them.
PoolCloses ==
    /\ phase = "closing"
    /\ scheduler # "stopping"
    /\ \A c \in Conns : Idle(c)
    /\ phase' = "stopped"
    /\ pool' = IF pool = "closing" THEN "closed" ELSE pool
    /\ UNCHANGED <<settings, scheduler, job, requests, holder>>

-----------------------------------------------------------------------------
\* Requests.

Goto(r, next) == stage' = [stage EXCEPT ![r] = next]
Reply(r, what) == answer' = [answer EXCEPT ![r] = what] /\ Goto(r, "answered")
CheckOut(c, who) == Idle(c) /\ holder' = [holder EXCEPT ![c] = who]
ReleaseTo(who, next) ==
    holder' = [c \in Conns |-> IF holder[c] = who THEN next ELSE holder[c]]

Arrive(r) ==
    /\ phase = "serving"
    /\ stage[r] = "new"
    /\ Goto(r, "arrived")
    /\ UNCHANGED <<service, pool, scheduler, job, kind, answer, holder>>

\* What an endpoint answers when it cannot have a connection, or a statement
\* raises: the health check reports, the others end in an error handler.
Failed(r) == IF kind[r] = "health" THEN "degraded" ELSE "error"

\* get_db_pool answers 503 when there is no pool, and the health check says so.
GetPool(r) ==
    /\ stage[r] = "arrived"
    /\ IF pool \in {"none", "closed"}
       THEN Reply(r, IF kind[r] = "health" THEN "degraded" ELSE "unavailable")
       ELSE Goto(r, "waiting") /\ UNCHANGED answer
    /\ UNCHANGED <<service, pool, scheduler, job, kind, holder>>

\* pool.acquire, by the endpoint or within pool.execute, without a timeout.
Acquire(r) ==
    /\ stage[r] = "waiting"
    /\ pool = "open"
    /\ \E c \in Conns : CheckOut(c, r)
    /\ Goto(r, "working")
    /\ UNCHANGED <<service, pool, scheduler, job, kind, answer>>

\* PostgreSQL refuses a connection, or the pool is closing; a "post" may also be
\* refused by a statement that it runs before its unit of work.
AcquireFails(r) ==
    /\ stage[r] = "waiting"
    /\ Reply(r, Failed(r))
    /\ UNCHANGED <<service, pool, scheduler, job, kind, holder>>

\* The statements of a unit of work run one by one on a second connection, up
\* to the last or to the first one that raises.
RunStatements(r) ==
    /\ stage[r] = "working"
    /\ kind[r] = "post"
    /\ \E c \in Conns : Idle(c)
    /\ Goto(r, "ending")
    /\ UNCHANGED <<service, pool, scheduler, job, kind, answer, holder>>

\* What is left to do needs the connection that the request holds, no other.
LastOnOwn(r) == stage[r] = IF kind[r] = "post" THEN "ending" ELSE "working"

\* Mutant: the connection goes back on success only.
FinishKeepsOnError(r) ==
    /\ LastOnOwn(r)
    /\ \/ Reply(r, "ok") /\ ReleaseTo(r, "idle")
       \/ Reply(r, Failed(r)) /\ UNCHANGED holder
    /\ UNCHANGED <<service, pool, scheduler, job, kind>>

\* The statement, COMMIT or ROLLBACK ends or raises, and the connection goes
\* back.
Finish(r) ==
    /\ LastOnOwn(r)
    /\ Reply(r, "ok") \/ Reply(r, Failed(r))
    /\ ReleaseTo(r, "idle")
    /\ UNCHANGED <<service, pool, scheduler, job, kind>>

\* BEGIN raises: a connection that was lost is replaced, and one that stays
\* alive is released by nobody.
BeginFails(r) ==
    /\ stage[r] = "working"
    /\ kind[r] = "post"
    /\ Reply(r, "error")
    /\ \E fate \in {"idle", "leaked"} : ReleaseTo(r, fate)
    /\ UNCHANGED <<service, pool, scheduler, job, kind>>

RequestStep(r) == GetPool(r) \/ Acquire(r) \/ RunStatements(r) \/ Finish(r)
RequestFault(r) == AcquireFails(r) \/ BeginFails(r)

-----------------------------------------------------------------------------
\* The refresh, one instance at a time.

\* While "stopping" a run may still be submitted; its task is cancelled before
\* it begins.
Tick ==
    /\ scheduler = "running"
    /\ job = "idle"
    /\ job' = "waiting"
    /\ UNCHANGED <<service, pool, scheduler, requests, holder>>

JobAcquires ==
    /\ job = "waiting"
    /\ pool = "open"
    /\ \E c \in Conns : CheckOut(c, "refresh")
    /\ job' = "working"
    /\ UNCHANGED <<service, pool, scheduler, requests>>

\* No connection to be had: the pool is closing, or PostgreSQL refuses.
JobRefused ==
    /\ job = "waiting"
    /\ job' = "idle"
    /\ UNCHANGED <<service, pool, scheduler, requests, holder>>

\* Mutant: CancelledError gets past the release.
JobEndsUnlessCancelled ==
    /\ \/ job = "working" /\ job' \in {"idle", "sleeping"}
                          /\ ReleaseTo("refresh", "idle")
       \/ job = "cancelled" /\ job' = "idle" /\ UNCHANGED holder
    /\ UNCHANGED <<service, pool, scheduler, requests>>

\* The REFRESH ends, is retried after a pause, or has been cancelled; pool.execute
\* gives the connection back in each case.
JobEnds ==
    /\ \/ job = "working" /\ job' \in {"idle", "sleeping"}
       \/ job = "cancelled" /\ job' = "idle"
    /\ ReleaseTo("refresh", "idle")
    /\ UNCHANGED <<service, pool, scheduler, requests>>

JobWakes ==
    /\ job = "sleeping"
    /\ job' = "waiting"
    /\ UNCHANGED <<service, pool, scheduler, requests, holder>>

-----------------------------------------------------------------------------
Lifecycle ==
    InitPool \/ StartScheduler \/ Cleanup \/ SchedulerStops \/ PoolCloses
Refresh == Tick \/ JobAcquires \/ JobRefused \/ JobEnds \/ JobWakes

Next ==
    \/ Lifecycle \/ Signal \/ Refresh
    \/ \E r \in Requests : Arrive(r) \/ RequestStep(r) \/ RequestFault(r)

Spec == Init /\ [][Next]_vars

\* The event loop runs what is ready, statements end, and the waiters of the
\* pool are served in order.  Nothing obliges a client, a signal, an error or
\* the interval trigger.
Fairness ==
    /\ WF_vars(Lifecycle)
    /\ WF_vars(JobEnds)
    /\ \A r \in Requests : SF_vars(RequestStep(r))

FairSpec == Spec /\ Fairness

-----------------------------------------------------------------------------
\* Type invariant; a connection is checked out by exactly those who use one.
LifespanTypeOK ==
    /\ settings \in [environment : {"production", "development"},
                     scheduler_enabled : BOOLEAN]
    /\ phase \in LifePhases
    /\ pool \in {"none", "open", "closing", "closed"}
    /\ scheduler \in {"none", "running", "stopping"}
    /\ job \in JobPhases
    /\ kind \in [Requests -> Kinds]
    /\ stage \in [Requests -> LifeStages]
    /\ answer \in [Requests -> Answers]
    /\ holder \in [Conns -> Holders]
    /\ \A r \in Requests :
          stage[r] \in {"working", "ending"} <=> \E c \in Conns : holder[c] = r
    /\ job \in {"working", "cancelled"} <=> \E c \in Conns : holder[c] = "refresh"

\* While a request is in flight the lifespan takes nothing down: one that has
\* been given the pool finds it open until its answer.
RequestsHaveOpenPool ==
    \A r \in InFlight :
        /\ phase \in {"serving", "draining"}
        /\ stage[r] # "arrived" => pool = "open"

\* main.py:72, SPEC-50.md:250: the scheduler goes down before the pool.  No
\* refresh, not even one that sleeps before a retry, is there when the pool
\* has closed, and none holds a connection of a pool that is gone.
NoRefreshOutlivesPool ==
    pool \in {"none", "closed"} => /\ job = "idle"
                                   /\ \A c \in Conns : Idle(c)

\* SPEC-10.md:27: in production there is no startup without a database, so no
\* request is ever told that there is none.
ProductionHasDatabase ==
    settings.environment = "production" =>
        /\ phase \in {"connected", "serving", "draining"} => pool = "open"
        /\ \A r \in Requests : answer[r] # "unavailable"

\* Every connection is with a unit of work that waits for a second one.
Exhausted ==
    \A c \in Conns :
        \/ holder[c] = "leaked"
        \/ \E r \in Requests : /\ holder[c] = r
                              /\ kind[r] = "post" /\ stage[r] = "working"

\* The next step of a request depends on nobody else.
CanGoOn(r) ==
    \/ stage[r] \in {"arrived", "ending"}
    \/ stage[r] = "working" /\ kind[r] # "post"
    \/ /\ stage[r] \in {"waiting", "working"}
       /\ pool = "open" /\ \E c \in Conns : Idle(c)

\* connection.py:112: Pool.close has no timeout, and neither has the drain.
\* While the process goes down somebody can always take the next step: a
\* request in flight, a refresh that has a connection, the lifespan itself.
\* The two exceptions are a pool that units of work have taken whole, in the
\* drain, and a connection that has leaked, at the close.
ShutdownIsNotStuck ==
    LET refreshing == job \in {"working", "cancelled"}
    IN  /\ phase = "draining" /\ ~Exhausted =>
              InFlight = {} \/ refreshing \/ \E r \in Requests : CanGoOn(r)
        /\ phase = "closing" /\ ~Leaked =>
              \/ scheduler = "stopping" \/ refreshing
              \/ \A c \in Conns : Idle(c)

\* main.py:38-39: what was opened is closed at the end.  Shutting down ends,
\* whatever refreshes and requests were doing, unless a connection has leaked
\* or the units of work have taken the whole pool: Pool.close and uvicorn wait
\* without a limit.
ShutdownEnds == phase = "draining" ~> (phase = "stopped" \/ Leaked \/ Exhausted)
=============================================================================

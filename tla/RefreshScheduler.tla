-------------------------- MODULE RefreshScheduler --------------------------
(***************************************************************************)
(* The APScheduler job that refreshes mv_stock_historical: interval ticks  *)
(* with max_instances=1, retry_with_backoff around the refresh, and the    *)
(* handler in the job that logs whatever is left.  How long a statement or *)
(* a sleep lasts is abstracted; that it ends is in Fairness.               *)
(***************************************************************************)
EXTENDS Integers

CONSTANTS
    Instances,     \* runs of the job that may exist at once
    MaxRetries,    \* max_retries of the decorator
    MaxMovements,  \* bound: rows inserted per behaviour
    MaxErrors      \* bound: refreshes that fail per behaviour

ASSUME SchedulerAssumption ==
    /\ MaxRetries \in Nat
    /\ MaxMovements \in Nat
    /\ MaxErrors \in Nat

VARIABLES
    running,    \* the scheduler has been started
    phase,      \* of each instance: see Phases
    attempt,    \* attempt of each instance, from 0: range(max_retries + 1)
    lastError,  \* how the last attempt of the instance failed, "none" if not
    snapshot,   \* rows the statement of the instance reads
    movements,  \* rows of the movements table
    viewExists, \* migration 008 has been applied
    view,       \* movements that the view accounts for
    errors      \* refreshes that failed so far

job == <<phase, attempt, lastError, snapshot>>
database == <<movements, viewExists, view>>
vars == <<running, job, database, errors>>

\* "waiting" is for an idle connection, which pool.execute borrows.
Phases == {"idle", "waiting", "executing", "sleeping"}

\* _RETRYABLE_EXCEPTIONS
Retryable == {"ConcurrencyConflictError", "SerializationError",
              "DeadlockDetectedError"}

\* What refresh_stock_view raises before and while the statement runs.
AcquireErrors == {"ConnectionError"}
StatementErrors == {"SerializationError", "DeadlockDetectedError",
                    "QueryCanceledError", "ConnectionError"}

Active == {j \in Instances : phase[j] # "idle"}

Init ==
    /\ running = FALSE
    /\ phase = [j \in Instances |-> "idle"]
    /\ attempt = [j \in Instances |-> 0]
    /\ lastError = [j \in Instances |-> "none"]
    /\ snapshot = [j \in Instances |-> 0]
    /\ movements = 0
    /\ viewExists \in BOOLEAN
    /\ view = 0
    /\ errors = 0

StartScheduler ==
    /\ ~running
    /\ running' = TRUE
    /\ UNCHANGED <<job, database, errors>>

Goto(j, next) == phase' = [phase EXCEPT ![j] = next]
Try(j, nth) == Goto(j, "waiting") /\ attempt' = [attempt EXCEPT ![j] = nth]
Outcome(j, error) == lastError' = [lastError EXCEPT ![j] = error]

\* Mutant: max_instances is not limited.
TickOverlaps(j) ==
    /\ running
    /\ phase[j] = "idle"
    /\ Try(j, 0)
    /\ Outcome(j, "none")
    /\ UNCHANGED <<running, snapshot, database, errors>>

\* The interval trigger fires.  With an instance still active the run is
\* skipped, which changes nothing.
Tick(j) ==
    /\ running
    /\ Active = {}
    /\ Try(j, 0)
    /\ Outcome(j, "none")
    /\ UNCHANGED <<running, snapshot, database, errors>>

\* The statement gets a connection and takes its snapshot.
Execute(j) ==
    /\ phase[j] = "waiting"
    /\ viewExists
    /\ Goto(j, "executing")
    /\ snapshot' = [snapshot EXCEPT ![j] = movements]
    /\ UNCHANGED <<running, attempt, lastError, database, errors>>

\* UndefinedTableError is a warning, and the attempt counts as a success.
SkipMissingView(j) ==
    /\ phase[j] = "waiting"
    /\ ~viewExists
    /\ Goto(j, "idle")
    /\ Outcome(j, "none")
    /\ UNCHANGED <<running, attempt, snapshot, database, errors>>

\* Mutant: the refresh runs in a transaction that nobody commits.
SucceedUncommitted(j) ==
    /\ phase[j] = "executing"
    /\ Goto(j, "idle")
    /\ Outcome(j, "none")
    /\ UNCHANGED <<running, attempt, snapshot, database, errors>>

Succeed(j) ==
    /\ phase[j] = "executing"
    /\ view' = snapshot[j]
    /\ Goto(j, "idle")
    /\ Outcome(j, "none")
    /\ UNCHANGED <<running, attempt, snapshot, movements, viewExists, errors>>

\* Mutants: one retry too many, and one too few.
RetriesLeftOneMore(j) == attempt[j] <= MaxRetries
RetriesLeftOneLess(j) == attempt[j] + 1 < MaxRetries

RetriesLeft(j) == attempt[j] < MaxRetries

\* The refresh raises: slept on and retried if the decorator lists the error
\* and attempts are left, else logged by the job, which ends.
Raise(j, error) ==
    /\ errors < MaxErrors
    /\ errors' = errors + 1
    /\ Outcome(j, error)
    /\ Goto(j, IF error \in Retryable /\ RetriesLeft(j) THEN "sleeping"
                                                        ELSE "idle")
    /\ UNCHANGED <<running, attempt, snapshot, movements, viewExists>>

AcquireFails(j) ==
    /\ phase[j] = "waiting"
    /\ \E error \in AcquireErrors : Raise(j, error)
    /\ UNCHANGED view

\* A connection may be lost before or after the statement has committed.
StatementFails(j) ==
    /\ phase[j] = "executing"
    /\ \E error \in StatementErrors :
         /\ Raise(j, error)
         /\ view' \in IF error = "ConnectionError" THEN {view, snapshot[j]}
                                                   ELSE {view}

\* asyncio.sleep ends and the next attempt starts.
Wake(j) ==
    /\ phase[j] = "sleeping"
    /\ Try(j, attempt[j] + 1)
    /\ UNCHANGED <<running, lastError, snapshot, database, errors>>

\* A movement is recorded.
Insert ==
    /\ movements < MaxMovements
    /\ movements' = movements + 1
    /\ UNCHANGED <<running, job, viewExists, view, errors>>

\* Migration 008 creates the view and fills it.
CreateView ==
    /\ ~viewExists
    /\ viewExists' = TRUE
    /\ view' = movements
    /\ UNCHANGED <<running, job, movements, errors>>

Progress(j) == Execute(j) \/ SkipMissingView(j) \/ Succeed(j) \/ Wake(j)
Failure(j) == AcquireFails(j) \/ StatementFails(j)

Next ==
    \/ StartScheduler \/ Insert \/ CreateView
    \/ \E j \in Instances : Tick(j) \/ Progress(j) \/ Failure(j)

Spec == Init /\ [][Next]_vars

\* The lifespan starts the scheduler, the interval trigger keeps firing, a
\* waiting statement gets a connection, a statement and a sleep end.  Nothing
\* obliges an error to happen.
Fairness ==
    /\ WF_vars(StartScheduler)
    /\ WF_vars(\E j \in Instances : Tick(j))
    /\ \A j \in Instances : WF_vars(Progress(j))

FairSpec == Spec /\ Fairness

-----------------------------------------------------------------------------
\* Type invariant; the view never counts a movement that is not there.
SchedulerTypeOK ==
    /\ running \in BOOLEAN
    /\ phase \in [Instances -> Phases]
    /\ attempt \in [Instances -> 0 .. MaxRetries]
    /\ lastError \in [Instances -> AcquireErrors \cup StatementErrors \cup {"none"}]
    /\ snapshot \in [Instances -> 0 .. movements]
    /\ movements \in 0 .. MaxMovements
    /\ viewExists \in BOOLEAN
    /\ view \in 0 .. movements
    /\ errors \in 0 .. MaxErrors

\* Retries, failures, lost replies and skipped runs never show in the view: it
\* goes forward through states that the movements table had.
Promise == INSTANCE AsyncView
ImplementsAsyncView == Promise!Spec

\* A job that ends on a transient error has used all its attempts.
GivesUpOnlyWhenExhausted ==
    \A j \in Instances :
        phase[j] = "idle" /\ lastError[j] \in Retryable
            => attempt[j] = MaxRetries

\* SPEC-50.md:292: a refresh that fails is tried again on the next cycle, so
\* every movement reaches the view in the end, whatever failed before.
EveryMovementReachesView ==
    \A n \in 1 .. MaxMovements :
        viewExists /\ movements >= n ~> view >= n
=============================================================================

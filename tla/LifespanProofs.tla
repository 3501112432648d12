--------------------------- MODULE LifespanProofs ---------------------------
(***************************************************************************)
(* Who uses the pool when, for any set of requests and connections.        *)
(***************************************************************************)
EXTENDS Lifespan, TLAPS

Types ==
    /\ settings \in [environment : {"production", "development"},
                     scheduler_enabled : BOOLEAN]
    /\ phase \in LifePhases
    /\ pool \in {"none", "open", "closing", "closed"}
    /\ scheduler \in {"none", "running", "stopping"}
    /\ job \in JobPhases
    /\ kind \in [Requests -> Kinds]
    /\ stage \in [Requests -> LifeStages]
    /\ answer \in [Requests -> Answers]
    /\ holder \in [Conns -> Holders]

\* The part of the type invariant about connections.
RequestsHold ==
    \A r \in Requests :
        stage[r] \in {"working", "ending"} <=> \E c \in Conns : holder[c] = r
RefreshHolds ==
    job \in {"working", "cancelled"} <=> \E c \in Conns : holder[c] = "refresh"

\* The phase of the process fixes what there is.
PhaseFixesPool ==
    /\ phase \in {"starting", "failed"} => pool = "none"
    /\ phase \in {"connected", "serving", "draining"} => pool \in {"none", "open"}
    /\ phase = "closing" => pool \in {"none", "closing"}
    /\ phase = "stopped" => pool \in {"none", "closed"}

SchedulerNeedsPool ==
    /\ scheduler = "running" => phase \in {"serving", "draining"} /\ pool = "open"
    /\ scheduler = "stopping" => phase = "closing" /\ pool = "closing"

\* Only what is being cancelled is left of a refresh whose scheduler is gone.
JobNeedsScheduler ==
    /\ job \in {"waiting", "sleeping", "working"} =>
          scheduler \in {"running", "stopping"}
    /\ job = "cancelled" => scheduler = "none" /\ phase = "closing"

IInv ==
    /\ Types /\ RequestsHold /\ RefreshHolds
    /\ PhaseFixesPool /\ SchedulerNeedsPool /\ JobNeedsScheduler
    /\ RequestsHaveOpenPool /\ NoRefreshOutlivesPool /\ ProductionHasDatabase

LEMMA TypesAndHolders ==
    LifespanTypeOK <=> Types /\ RequestsHold /\ RefreshHolds
  BY DEF LifespanTypeOK, Types, RequestsHold, RefreshHolds

-----------------------------------------------------------------------------
\* What the two ways to change holder do to it.
LEMMA CheckOutHolds ==
    ASSUME Types, NEW c \in Conns, NEW who \in Holders \ {"idle"}, CheckOut(c, who)
    PROVE  /\ holder' \in [Conns -> Holders]
           /\ \E d \in Conns : holder'[d] = who
           /\ \A w \in Holders \ {"idle", who} :
                 (\E d \in Conns : holder'[d] = w) <=> (\E d \in Conns : holder[d] = w)
  <1>1. /\ holder \in [Conns -> Holders] /\ holder[c] = "idle"
        /\ holder' = [holder EXCEPT ![c] = who]
    BY DEF Types, CheckOut, Idle
  <1>2. holder'[c] = who /\ \A d \in Conns \ {c} : holder'[d] = holder[d]
    BY <1>1
  <1> QED
    BY <1>1, <1>2

LEMMA ReleaseHolds ==
    ASSUME Types, NEW who \in Holders, NEW next \in {"idle", "leaked"},
           who \notin {"idle", "leaked"}, ReleaseTo(who, next)
    PROVE  /\ holder' \in [Conns -> Holders]
           /\ ~ \E d \in Conns : holder'[d] = who
           /\ \A w \in Holders \ {"idle", "leaked", who} :
                 (\E d \in Conns : holder'[d] = w) <=> (\E d \in Conns : holder[d] = w)
           /\ \A d \in Conns : holder[d] = "idle" => holder'[d] = "idle"
  <1>1. /\ holder \in [Conns -> Holders] /\ next \in Holders
        /\ holder' = [d \in Conns |-> IF holder[d] = who THEN next ELSE holder[d]]
    BY DEF Types, ReleaseTo, Holders
  <1> QED
    BY <1>1

\* The invariant holds when the process starts.
LEMMA InitEstablishes == Init => IInv
  <1> SUFFICES ASSUME Init PROVE IInv
    OBVIOUS
  <1>1. Types
    BY DEF Init, Types, LifePhases, JobPhases, LifeStages, Answers, Holders
  <1>2. RequestsHold /\ RefreshHolds
    BY LifespanAssumption DEF Init, RequestsHold, RefreshHolds
  <1>3. PhaseFixesPool /\ SchedulerNeedsPool /\ JobNeedsScheduler
    BY DEF Init, PhaseFixesPool, SchedulerNeedsPool, JobNeedsScheduler
  <1>4. RequestsHaveOpenPool /\ NoRefreshOutlivesPool /\ ProductionHasDatabase
    BY DEF Init, RequestsHaveOpenPool, InFlight, NoRefreshOutlivesPool,
           ProductionHasDatabase, Idle
  <1> QED
    BY <1>1, <1>2, <1>3, <1>4 DEF IInv

\* The lifespan and the signal leave requests and connections alone.
LEMMA LifecyclePreserves == IInv /\ (Lifecycle \/ Signal) => IInv'
  <1> SUFFICES ASSUME IInv, Lifecycle \/ Signal PROVE IInv'
    OBVIOUS
  <1> USE DEF IInv, service, requests
  <1>1. CASE InitPool
    <2>1. Types' /\ RequestsHold' /\ RefreshHolds'
      BY <1>1 DEF InitPool, Types, RequestsHold, RefreshHolds, LifePhases
    <2>2. PhaseFixesPool' /\ SchedulerNeedsPool' /\ JobNeedsScheduler'
      BY <1>1 DEF InitPool, Types, PhaseFixesPool, SchedulerNeedsPool,
                  JobNeedsScheduler
    <2>3. RequestsHaveOpenPool' /\ NoRefreshOutlivesPool' /\ ProductionHasDatabase'
      BY <1>1 DEF InitPool, RequestsHaveOpenPool, InFlight, Idle, PhaseFixesPool,
                  NoRefreshOutlivesPool, ProductionHasDatabase
    <2> QED
      BY <2>1, <2>2, <2>3
  <1>2. CASE StartScheduler
    <2>1. Types' /\ RequestsHold' /\ RefreshHolds'
      BY <1>2 DEF StartScheduler, Types, RequestsHold, RefreshHolds, LifePhases
    <2>2. PhaseFixesPool' /\ SchedulerNeedsPool' /\ JobNeedsScheduler'
      BY <1>2 DEF StartScheduler, Types, PhaseFixesPool, SchedulerNeedsPool,
                  JobNeedsScheduler
    <2>3. RequestsHaveOpenPool' /\ NoRefreshOutlivesPool' /\ ProductionHasDatabase'
      BY <1>2 DEF StartScheduler, RequestsHaveOpenPool, InFlight, Idle,
                  NoRefreshOutlivesPool, ProductionHasDatabase
    <2> QED
      BY <2>1, <2>2, <2>3
  <1>3. CASE Signal
    <2>1. Types' /\ RequestsHold' /\ RefreshHolds'
      BY <1>3 DEF Signal, Types, RequestsHold, RefreshHolds, LifePhases
    <2>2. PhaseFixesPool' /\ SchedulerNeedsPool' /\ JobNeedsScheduler'
      BY <1>3 DEF Signal, PhaseFixesPool, SchedulerNeedsPool, JobNeedsScheduler
    <2>3. RequestsHaveOpenPool' /\ NoRefreshOutlivesPool' /\ ProductionHasDatabase'
      BY <1>3 DEF Signal, RequestsHaveOpenPool, InFlight, Idle,
                  NoRefreshOutlivesPool, ProductionHasDatabase
    <2> QED
      BY <2>1, <2>2, <2>3
  <1>4. CASE Cleanup
    <2>1. Types' /\ RequestsHold' /\ RefreshHolds'
      BY <1>4 DEF Cleanup, ToClosing, Types, RequestsHold, RefreshHolds, LifePhases
    <2>2. PhaseFixesPool' /\ SchedulerNeedsPool' /\ JobNeedsScheduler'
      BY <1>4 DEF Cleanup, ToClosing, Types, PhaseFixesPool, SchedulerNeedsPool,
                  JobNeedsScheduler
    <2>3. RequestsHaveOpenPool' /\ NoRefreshOutlivesPool' /\ ProductionHasDatabase'
      BY <1>4 DEF Cleanup, ToClosing, RequestsHaveOpenPool, InFlight, Idle,
                  PhaseFixesPool, NoRefreshOutlivesPool, ProductionHasDatabase
    <2> QED
      BY <2>1, <2>2, <2>3
  <1>5. CASE SchedulerStops
    <2>1. Types' /\ RequestsHold' /\ RefreshHolds'
      BY <1>5 DEF SchedulerStops, Types, RequestsHold, RefreshHolds, JobPhases,
                  JobNeedsScheduler
    <2>2. PhaseFixesPool' /\ SchedulerNeedsPool' /\ JobNeedsScheduler'
      BY <1>5 DEF SchedulerStops, PhaseFixesPool, SchedulerNeedsPool,
                  JobNeedsScheduler
    <2>3. RequestsHaveOpenPool' /\ NoRefreshOutlivesPool' /\ ProductionHasDatabase'
      BY <1>5 DEF SchedulerStops, RequestsHaveOpenPool, InFlight, Idle,
                  NoRefreshOutlivesPool, ProductionHasDatabase, SchedulerNeedsPool
    <2> QED
      BY <2>1, <2>2, <2>3
  <1>6. CASE PoolCloses
    <2>1. scheduler = "none"
      BY <1>6 DEF PoolCloses, Types, SchedulerNeedsPool
    <2>2. job = "idle"
      BY <1>6, <2>1 DEF PoolCloses, Types, JobPhases, JobNeedsScheduler,
                        RefreshHolds, Idle
    <2>3. Types' /\ RequestsHold' /\ RefreshHolds'
      BY <1>6 DEF PoolCloses, Types, RequestsHold, RefreshHolds, LifePhases
    <2>4. PhaseFixesPool' /\ SchedulerNeedsPool' /\ JobNeedsScheduler'
      BY <1>6, <2>1, <2>2 DEF PoolCloses, PhaseFixesPool, SchedulerNeedsPool,
                              JobNeedsScheduler
    <2>5. RequestsHaveOpenPool' /\ NoRefreshOutlivesPool' /\ ProductionHasDatabase'
      BY <1>6, <2>2 DEF PoolCloses, RequestsHaveOpenPool, InFlight, Idle,
                        NoRefreshOutlivesPool, ProductionHasDatabase
    <2> QED
      BY <2>3, <2>4, <2>5
  <1> QED
    BY <1>1, <1>2, <1>3, <1>4, <1>5, <1>6 DEF Lifecycle

\* A request's step leaves the process, the pool and the refresh alone.
LEMMA RequestPreserves ==
    ASSUME IInv, NEW r \in Requests, Arrive(r) \/ RequestStep(r) \/ RequestFault(r)
    PROVE  IInv'
  <1> USE DEF IInv, service
  <1>1. UNCHANGED <<settings, phase, pool, scheduler, job, kind>>
    BY DEF RequestStep, RequestFault, Arrive, GetPool, Acquire, AcquireFails,
           RunStatements, Finish, BeginFails
  <1>2. PhaseFixesPool' /\ SchedulerNeedsPool' /\ JobNeedsScheduler'
    BY <1>1 DEF PhaseFixesPool, SchedulerNeedsPool, JobNeedsScheduler
  <1>3. r \in Holders \ {"idle", "leaked", "refresh"} /\ "refresh" \in Holders
    BY LifespanAssumption DEF Holders
  <1>4. CASE Arrive(r) \/ GetPool(r) \/ AcquireFails(r)
    <2>1. /\ holder' = holder
          /\ \E next \in {"arrived", "waiting", "answered"} :
                stage' = [stage EXCEPT ![r] = next]
          /\ stage[r] \notin {"working", "ending"}
      BY <1>4 DEF Arrive, GetPool, AcquireFails, Goto, Reply
    <2>2. answer' \in [Requests -> Answers]
      BY <1>4 DEF Arrive, GetPool, AcquireFails, Reply, Failed, Answers, Types
    <2>3. Types' /\ RequestsHold' /\ RefreshHolds'
      <3>1. PICK next \in {"arrived", "waiting", "answered"} :
                stage' = [stage EXCEPT ![r] = next]
        BY <2>1
      <3>2. stage' \in [Requests -> LifeStages]
        BY <3>1 DEF Types, LifeStages
      <3>3. \A s \in Requests : stage'[s] \in {"working", "ending"}
                                  <=> stage[s] \in {"working", "ending"}
        BY <2>1, <3>1 DEF Types
      <3>4. Types'
        BY <1>1, <2>1, <2>2, <3>2 DEF Types
      <3>5. RequestsHold'
        BY <2>1, <3>3 DEF RequestsHold
      <3>6. RefreshHolds'
        BY <1>1, <2>1 DEF RefreshHolds
      <3> QED
        BY <3>4, <3>5, <3>6
    <2>4. RequestsHaveOpenPool'
      <3>1. CASE Arrive(r)
        BY <1>1, <3>1 DEF Arrive, Goto, Types, RequestsHaveOpenPool, InFlight
      <3>2. CASE GetPool(r)
        BY <1>1, <3>2 DEF GetPool, Goto, Reply, Types, RequestsHaveOpenPool,
                          InFlight, PhaseFixesPool
      <3>3. CASE AcquireFails(r)
        BY <1>1, <3>3 DEF AcquireFails, Goto, Reply, Types, RequestsHaveOpenPool,
                          InFlight
      <3> QED
        BY <1>4, <3>1, <3>2, <3>3
    <2>5. NoRefreshOutlivesPool'
      BY <1>1, <2>1 DEF NoRefreshOutlivesPool, Idle
    <2>6. ProductionHasDatabase'
      <3>1. CASE Arrive(r)
        BY <1>1, <3>1 DEF Arrive, ProductionHasDatabase
      <3>2. CASE GetPool(r)
        BY <1>1, <3>2 DEF GetPool, Reply, Types, ProductionHasDatabase,
                          RequestsHaveOpenPool, InFlight
      <3>3. CASE AcquireFails(r)
        BY <1>1, <3>3 DEF AcquireFails, Reply, Failed, Types, ProductionHasDatabase
      <3> QED
        BY <1>4, <3>1, <3>2, <3>3
    <2> QED
      BY <1>2, <2>3, <2>4, <2>5, <2>6
  <1>5. CASE Acquire(r)
    <2>1. PICK c \in Conns : CheckOut(c, r)
      BY <1>5 DEF Acquire
    <2>2. /\ stage' = [stage EXCEPT ![r] = "working"] /\ stage[r] = "waiting"
          /\ answer' = answer /\ pool = "open"
      BY <1>5 DEF Acquire, Goto
    <2>3. /\ holder' \in [Conns -> Holders]
          /\ \E d \in Conns : holder'[d] = r
          /\ \A w \in Holders \ {"idle", r} :
                (\E d \in Conns : holder'[d] = w)
                    <=> (\E d \in Conns : holder[d] = w)
      BY <1>3, <2>1, CheckOutHolds
    <2>4. Types'
      BY <1>1, <2>2, <2>3 DEF Types, LifeStages
    <2>5. RequestsHold' /\ RefreshHolds'
      BY <1>1, <1>3, <2>2, <2>3, LifespanAssumption
         DEF Types, RequestsHold, RefreshHolds, Holders
    <2>6. RequestsHaveOpenPool' /\ NoRefreshOutlivesPool' /\ ProductionHasDatabase'
      BY <1>1, <2>2 DEF Types, RequestsHaveOpenPool, InFlight, ProductionHasDatabase,
                        NoRefreshOutlivesPool
    <2> QED
      BY <1>2, <2>4, <2>5, <2>6
  <1>6. CASE RunStatements(r)
    <2>1. /\ stage[r] = "working" /\ stage' = [stage EXCEPT ![r] = "ending"]
          /\ answer' = answer /\ holder' = holder
      BY <1>6 DEF RunStatements, Goto
    <2>2. Types'
      BY <1>1, <2>1 DEF Types, LifeStages
    <2>3. RequestsHold' /\ RefreshHolds'
      BY <1>1, <2>1 DEF Types, RequestsHold, RefreshHolds
    <2>4. RequestsHaveOpenPool' /\ NoRefreshOutlivesPool' /\ ProductionHasDatabase'
      BY <1>1, <2>1 DEF Types, RequestsHaveOpenPool, InFlight, Idle,
                        ProductionHasDatabase, NoRefreshOutlivesPool
    <2> QED
      BY <1>2, <2>2, <2>3, <2>4
  <1>7. CASE Finish(r) \/ BeginFails(r)
    <2>1. /\ stage[r] \in {"working", "ending"}
          /\ stage' = [stage EXCEPT ![r] = "answered"]
          /\ \E what \in {"ok", "degraded", "error"} :
                answer' = [answer EXCEPT ![r] = what]
          /\ \E next \in {"idle", "leaked"} : ReleaseTo(r, next)
      BY <1>7 DEF Finish, LastOnOwn, BeginFails, Reply, Goto, Failed
    <2>2. /\ holder' \in [Conns -> Holders]
          /\ ~ \E d \in Conns : holder'[d] = r
          /\ \A w \in Holders \ {"idle", "leaked", r} :
                (\E d \in Conns : holder'[d] = w)
                    <=> (\E d \in Conns : holder[d] = w)
      BY <1>3, <2>1, ReleaseHolds
    <2>3. Types'
      BY <1>1, <2>1, <2>2 DEF Types, LifeStages, Answers
    <2>4. RequestsHold' /\ RefreshHolds'
      BY <1>1, <1>3, <2>1, <2>2, LifespanAssumption
         DEF Types, RequestsHold, RefreshHolds, Holders
    <2>5. pool = "open"
      BY <2>1 DEF RequestsHaveOpenPool, InFlight
    <2>6. RequestsHaveOpenPool' /\ NoRefreshOutlivesPool' /\ ProductionHasDatabase'
      BY <1>1, <2>1, <2>5 DEF Types, RequestsHaveOpenPool, InFlight,
                              ProductionHasDatabase, NoRefreshOutlivesPool
    <2> QED
      BY <1>2, <2>3, <2>4, <2>6
  <1> QED
    BY <1>4, <1>5, <1>6, <1>7 DEF RequestStep, RequestFault

\* A step of the refresh leaves the process and the requests alone.
LEMMA RefreshPreserves == IInv /\ Refresh => IInv'
  <1> SUFFICES ASSUME IInv, Refresh PROVE IInv'
    OBVIOUS
  <1> USE DEF IInv, service, requests
  <1>1. UNCHANGED <<settings, phase, pool, scheduler, kind, stage, answer>>
    BY DEF Refresh, Tick, JobAcquires, JobRefused, JobEnds, JobWakes
  <1>2. PhaseFixesPool' /\ SchedulerNeedsPool' /\ RequestsHaveOpenPool'
    BY <1>1 DEF PhaseFixesPool, SchedulerNeedsPool, RequestsHaveOpenPool, InFlight
  <1>3. ProductionHasDatabase'
    BY <1>1 DEF ProductionHasDatabase
  <1>4. /\ "refresh" \in Holders \ {"idle", "leaked"}
        /\ \A r \in Requests : r \in Holders \ {"idle", "leaked", "refresh"}
    BY LifespanAssumption DEF Holders
  <1>5. job # "idle" => pool \in {"open", "closing"}
    BY DEF Types, JobPhases, JobNeedsScheduler, SchedulerNeedsPool,
           NoRefreshOutlivesPool
  <1>6. CASE Tick \/ JobRefused \/ JobWakes
    <2>1. /\ holder' = holder
          /\ job \notin {"working", "cancelled"}
          /\ job' \in {"idle", "waiting"}
          /\ job' # "idle" => scheduler \in {"running", "stopping"}
      BY <1>6 DEF Tick, JobRefused, JobWakes, JobNeedsScheduler
    <2>2. Types' /\ RequestsHold' /\ RefreshHolds'
      BY <1>1, <2>1 DEF Types, RequestsHold, RefreshHolds, JobPhases
    <2>3. JobNeedsScheduler'
      BY <1>1, <2>1 DEF JobNeedsScheduler
    <2>4. NoRefreshOutlivesPool'
      BY <1>1, <2>1 DEF NoRefreshOutlivesPool, Idle, SchedulerNeedsPool
    <2> QED
      BY <1>2, <1>3, <2>2, <2>3, <2>4
  <1>7. CASE JobAcquires
    <2>1. PICK c \in Conns : CheckOut(c, "refresh")
      BY <1>7 DEF JobAcquires
    <2>2. job = "waiting" /\ job' = "working" /\ pool = "open"
      BY <1>7 DEF JobAcquires
    <2>3. /\ holder' \in [Conns -> Holders]
          /\ \E d \in Conns : holder'[d] = "refresh"
          /\ \A w \in Holders \ {"idle", "refresh"} :
                (\E d \in Conns : holder'[d] = w)
                    <=> (\E d \in Conns : holder[d] = w)
      BY <1>4, <2>1, CheckOutHolds
    <2>4. Types' /\ RequestsHold' /\ RefreshHolds'
      BY <1>1, <1>4, <2>2, <2>3 DEF Types, RequestsHold, RefreshHolds, JobPhases
    <2>5. JobNeedsScheduler' /\ NoRefreshOutlivesPool'
      BY <1>1, <2>2 DEF JobNeedsScheduler, NoRefreshOutlivesPool
    <2> QED
      BY <1>2, <1>3, <2>4, <2>5
  <1>8. CASE JobEnds
    <2>1. /\ job \in {"working", "cancelled"} /\ job' \in {"idle", "sleeping"}
          /\ job = "cancelled" => job' = "idle"
          /\ ReleaseTo("refresh", "idle")
      BY <1>8 DEF JobEnds
    <2>2. /\ holder' \in [Conns -> Holders]
          /\ ~ \E d \in Conns : holder'[d] = "refresh"
          /\ \A w \in Holders \ {"idle", "leaked", "refresh"} :
                (\E d \in Conns : holder'[d] = w)
                    <=> (\E d \in Conns : holder[d] = w)
      BY <1>4, <2>1, ReleaseHolds
    <2>3. Types' /\ RequestsHold' /\ RefreshHolds'
      BY <1>1, <1>4, <2>1, <2>2 DEF Types, RequestsHold, RefreshHolds, JobPhases
    <2>4. JobNeedsScheduler' /\ NoRefreshOutlivesPool'
      BY <1>1, <1>5, <2>1 DEF JobNeedsScheduler, NoRefreshOutlivesPool
    <2> QED
      BY <1>2, <1>3, <2>3, <2>4
  <1> QED
    BY <1>6, <1>7, <1>8 DEF Refresh

LEMMA StepPreserves == IInv /\ [Next]_vars => IInv'
  <1> SUFFICES ASSUME IInv, [Next]_vars PROVE IInv'
    OBVIOUS
  <1>1. CASE Lifecycle \/ Signal
    BY <1>1, LifecyclePreserves
  <1>2. CASE Refresh
    BY <1>2, RefreshPreserves
  <1>3. ASSUME NEW r \in Requests, Arrive(r) \/ RequestStep(r) \/ RequestFault(r)
        PROVE  IInv'
    BY <1>3, RequestPreserves
  <1>4. CASE UNCHANGED vars
    BY <1>4 DEF vars, service, requests, IInv, Types, RequestsHold, RefreshHolds,
                PhaseFixesPool, SchedulerNeedsPool, JobNeedsScheduler,
                RequestsHaveOpenPool, InFlight, NoRefreshOutlivesPool, Idle,
                ProductionHasDatabase
  <1> QED
    BY <1>1, <1>2, <1>3, <1>4 DEF Next

LEMMA Invariance == Spec => []IInv
  BY InitEstablishes, StepPreserves, PTL DEF Spec

-----------------------------------------------------------------------------
\* Variables keep their types, and a connection is out with exactly those who
\* use one, through every error and the shutdown.
THEOREM LifespanTypeCorrect == Spec => []LifespanTypeOK
  <1>1. IInv => LifespanTypeOK
    BY TypesAndHolders DEF IInv
  <1> QED
    BY <1>1, Invariance, PTL

\* The lifespan takes nothing down under a request.
THEOREM PoolOpenUnderRequests == Spec => []RequestsHaveOpenPool
  <1>1. IInv => RequestsHaveOpenPool
    BY DEF IInv
  <1> QED
    BY <1>1, Invariance, PTL

\* The scheduler and its refresh are gone when the pool has closed.
THEOREM SchedulerEndsBeforePool == Spec => []NoRefreshOutlivesPool
  <1>1. IInv => NoRefreshOutlivesPool
    BY DEF IInv
  <1> QED
    BY <1>1, Invariance, PTL

\* A process in production that serves has a pool, and never answers 503.
THEOREM NoSilentStartup == Spec => []ProductionHasDatabase
  <1>1. IInv => ProductionHasDatabase
    BY DEF IInv
  <1> QED
    BY <1>1, Invariance, PTL

\* While the process goes down somebody can take the next step, but for the
\* two exceptions that the property names.
THEOREM ShutdownGoesOn == Spec => []ShutdownIsNotStuck
  <1> DEFINE Refreshing == job \in {"working", "cancelled"}
  <1>1. ASSUME IInv, phase = "draining", ~Exhausted, InFlight # {}, ~Refreshing
        PROVE  \E r \in Requests : CanGoOn(r)
    <2>1. PICK c \in Conns :
             /\ holder[c] # "leaked"
             /\ \A r \in Requests :
                   holder[c] = r => ~(kind[r] = "post" /\ stage[r] = "working")
      BY <1>1 DEF Exhausted
    <2>2. CASE holder[c] = "idle"
      <3>1. PICK r \in InFlight : TRUE
        BY <1>1
      <3>2. r \in Requests
            /\ stage[r] \in {"arrived", "waiting", "working", "ending"}
        BY <1>1 DEF InFlight, IInv, Types, LifeStages
      <3>3. stage[r] # "arrived" => pool = "open"
        BY <1>1 DEF IInv, RequestsHaveOpenPool
      <3> QED
        BY <2>2, <3>2, <3>3 DEF CanGoOn, Idle
    <2>3. CASE holder[c] # "idle"
      <3>1. holder[c] # "refresh"
        BY <1>1 DEF IInv, RefreshHolds
      <3>2. PICK r \in Requests : holder[c] = r
        BY <1>1, <2>1, <2>3, <3>1 DEF IInv, Types, Holders
      <3>3. stage[r] \in {"working", "ending"}
        BY <1>1, <3>2 DEF IInv, RequestsHold
      <3>4. ~(kind[r] = "post" /\ stage[r] = "working")
        BY <2>1, <3>2
      <3>5. CanGoOn(r)
        BY <3>3, <3>4 DEF CanGoOn
      <3> QED
        BY <3>5
    <2> QED
      BY <2>2, <2>3
  <1>2. ASSUME IInv, phase = "closing", ~Leaked, ~Refreshing, NEW c \in Conns
        PROVE  Idle(c)
    <2>1. holder[c] \notin Requests
      BY <1>2 DEF IInv, RequestsHold, RequestsHaveOpenPool, InFlight
    <2> QED
      BY <1>2, <2>1 DEF IInv, Types, Holders, RefreshHolds, Leaked, Idle
  <1>3. IInv => ShutdownIsNotStuck
    BY <1>1, <1>2 DEF ShutdownIsNotStuck
  <1> QED
    BY <1>3, Invariance, PTL
=============================================================================

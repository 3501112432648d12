----------------------- MODULE RefreshSchedulerProofs -----------------------
(***************************************************************************)
(* What the refresh job promises for any number of retries, rows and       *)
(* errors, and for any set of instances, and what it makes of the answers  *)
(* of GET /v1/stock/{product_id}/current.                                  *)
(***************************************************************************)
EXTENDS StockReads, TLAPS

\* max_instances=1: at most one run of the job is not idle.
OneActive ==
    \A i, j \in Instances : phase[i] # "idle" /\ phase[j] # "idle" => i = j

\* A statement that runs reads a newer state than the view shows.
SnapshotAhead ==
    \A j \in Instances : phase[j] = "executing" => viewExists /\ view <= snapshot[j]

\* The decorator sleeps only when another attempt follows.
SleepsBeforeRetry ==
    \A j \in Instances : phase[j] = "sleeping" => attempt[j] < MaxRetries

IInv == SchedulerTypeOK /\ OneActive /\ SnapshotAhead /\ SleepsBeforeRetry
               /\ GivesUpOnlyWhenExhausted

\* What a job does with an error, whatever step it interrupts.
LEMMA RaiseIsCorrect ==
    ASSUME IInv, NEW j \in Instances, NEW error \in StatementErrors,
           phase[j] # "idle", Raise(j, error)
    PROVE  /\ phase' \in [Instances -> Phases]
           /\ lastError' \in [Instances -> AcquireErrors \cup StatementErrors
                                               \cup {"none"}]
           /\ errors' \in 0 .. MaxErrors
           /\ OneActive'
           /\ SleepsBeforeRetry'
           /\ GivesUpOnlyWhenExhausted'
           /\ \A i \in Instances : phase'[i] = "executing" =>
                  i # j /\ phase[i] = "executing"
  <1> DEFINE next == IF error \in Retryable /\ RetriesLeft(j) THEN "sleeping"
                                                              ELSE "idle"
  <1>1. /\ phase' = [phase EXCEPT ![j] = next]
        /\ lastError' = [lastError EXCEPT ![j] = error]
        /\ errors' = errors + 1 /\ errors < MaxErrors
        /\ attempt' = attempt
    BY DEF Raise, Goto, Outcome
  <1>2. next \in {"sleeping", "idle"} /\ next # "executing" /\ next \in Phases
    BY DEF Phases
  <1>3. /\ phase \in [Instances -> Phases]
        /\ attempt \in [Instances -> 0 .. MaxRetries]
        /\ lastError \in [Instances -> AcquireErrors \cup StatementErrors
                                            \cup {"none"}]
        /\ errors \in 0 .. MaxErrors /\ MaxErrors \in Nat /\ MaxRetries \in Nat
    BY SchedulerAssumption DEF IInv, SchedulerTypeOK
  <1>4. /\ phase' \in [Instances -> Phases]
        /\ lastError' \in [Instances -> AcquireErrors \cup StatementErrors
                                             \cup {"none"}]
        /\ errors' \in 0 .. MaxErrors
    <2> HIDE DEF next
    <2> QED
      BY <1>1, <1>2, <1>3
  <1>5. OneActive'
    <2> HIDE DEF next
    <2> QED
      BY <1>1, <1>2, <1>3 DEF IInv, OneActive
  <1>6. SleepsBeforeRetry'
    BY <1>1, <1>3 DEF IInv, SleepsBeforeRetry, RetriesLeft
  <1>7. GivesUpOnlyWhenExhausted'
    BY <1>1, <1>3 DEF IInv, GivesUpOnlyWhenExhausted, RetriesLeft
  <1>8. \A i \in Instances : phase'[i] = "executing" =>
            i # j /\ phase[i] = "executing"
    <2> HIDE DEF next
    <2> QED
      BY <1>1, <1>2, <1>3
  <1> QED
    BY <1>4, <1>5, <1>6, <1>7, <1>8

\* The invariant holds when the process starts.
LEMMA InitEstablishes == Init => IInv
  <1> SUFFICES ASSUME Init PROVE IInv
    OBVIOUS
  <1>1. SchedulerTypeOK
    <2>1. 0 \in 0 .. MaxRetries /\ 0 \in 0 .. MaxMovements /\ 0 \in 0 .. MaxErrors
      BY SchedulerAssumption
    <2>2. /\ movements \in 0 .. MaxMovements /\ view \in 0 .. movements
          /\ 0 \in 0 .. movements
          /\ errors \in 0 .. MaxErrors
      BY <2>1 DEF Init
    <2>3. phase \in [Instances -> Phases]
      BY DEF Init, Phases
    <2>4. /\ attempt \in [Instances -> 0 .. MaxRetries]
          /\ snapshot \in [Instances -> 0 .. movements]
          /\ lastError \in [Instances -> AcquireErrors \cup StatementErrors
                                              \cup {"none"}]
      BY <2>1, <2>2 DEF Init
    <2> QED
      BY <2>2, <2>3, <2>4 DEF Init, SchedulerTypeOK
  <1>2. OneActive /\ SnapshotAhead /\ SleepsBeforeRetry
    BY DEF Init, OneActive, SnapshotAhead, SleepsBeforeRetry
  <1>3. GivesUpOnlyWhenExhausted
    BY DEF Init, GivesUpOnlyWhenExhausted, Retryable
  <1> QED
    BY <1>1, <1>2, <1>3 DEF IInv

\* Every step keeps the invariant.
LEMMA StepPreserves == IInv /\ [Next]_vars => IInv'
  <1> SUFFICES ASSUME IInv, [Next]_vars PROVE IInv'
    OBVIOUS
  <1> USE SchedulerAssumption
      DEF IInv, OneActive, SnapshotAhead, SleepsBeforeRetry,
          GivesUpOnlyWhenExhausted, job, database
  <1>1. CASE StartScheduler
    BY <1>1 DEF StartScheduler, SchedulerTypeOK
  <1>2. CASE Insert
    BY <1>2 DEF Insert, SchedulerTypeOK
  <1>3. CASE CreateView
    BY <1>3 DEF CreateView, SchedulerTypeOK
  <1>4. ASSUME NEW j \in Instances, Tick(j) PROVE IInv'
    <2>1. SchedulerTypeOK'
      BY <1>4 DEF Tick, Try, Goto, Outcome, SchedulerTypeOK, Phases
    <2>2. OneActive' /\ SnapshotAhead' /\ SleepsBeforeRetry'
      BY <1>4 DEF Tick, Try, Goto, Active, SchedulerTypeOK
    <2>3. GivesUpOnlyWhenExhausted'
      BY <1>4 DEF Tick, Try, Goto, Outcome, SchedulerTypeOK, Retryable
    <2> QED
      BY <2>1, <2>2, <2>3
  <1>5. ASSUME NEW j \in Instances, Execute(j) PROVE IInv'
    <2>1. SchedulerTypeOK'
      BY <1>5 DEF Execute, Goto, SchedulerTypeOK, Phases
    <2>2. OneActive' /\ SnapshotAhead' /\ SleepsBeforeRetry'
      BY <1>5 DEF Execute, Goto, SchedulerTypeOK
    <2>3. GivesUpOnlyWhenExhausted'
      BY <1>5 DEF Execute, Goto, SchedulerTypeOK
    <2> QED
      BY <2>1, <2>2, <2>3
  <1>6. ASSUME NEW j \in Instances, SkipMissingView(j) PROVE IInv'
    <2>1. SchedulerTypeOK'
      BY <1>6 DEF SkipMissingView, Goto, Outcome, SchedulerTypeOK, Phases
    <2>2. OneActive' /\ SnapshotAhead' /\ SleepsBeforeRetry'
      BY <1>6 DEF SkipMissingView, Goto, SchedulerTypeOK
    <2>3. GivesUpOnlyWhenExhausted'
      BY <1>6 DEF SkipMissingView, Goto, Outcome, SchedulerTypeOK, Retryable
    <2> QED
      BY <2>1, <2>2, <2>3
  <1>7. ASSUME NEW j \in Instances, Succeed(j) PROVE IInv'
    <2>1. SchedulerTypeOK'
      BY <1>7 DEF Succeed, Goto, Outcome, SchedulerTypeOK, Phases
    <2>2. OneActive' /\ SnapshotAhead' /\ SleepsBeforeRetry'
      BY <1>7 DEF Succeed, Goto, SchedulerTypeOK
    <2>3. GivesUpOnlyWhenExhausted'
      BY <1>7 DEF Succeed, Goto, Outcome, SchedulerTypeOK, Retryable
    <2> QED
      BY <2>1, <2>2, <2>3
  <1>8. ASSUME NEW j \in Instances, Wake(j) PROVE IInv'
    <2>1. SchedulerTypeOK'
      BY <1>8 DEF Wake, Try, Goto, SchedulerTypeOK, Phases
    <2>2. OneActive' /\ SnapshotAhead' /\ SleepsBeforeRetry'
      BY <1>8 DEF Wake, Try, Goto, SchedulerTypeOK
    <2>3. GivesUpOnlyWhenExhausted'
      BY <1>8 DEF Wake, Try, Goto, SchedulerTypeOK
    <2> QED
      BY <2>1, <2>2, <2>3
  <1>9. ASSUME NEW j \in Instances, AcquireFails(j) PROVE IInv'
    <2>1. PICK error \in AcquireErrors : Raise(j, error)
      BY <1>9 DEF AcquireFails
    <2>2. error \in StatementErrors
      BY DEF AcquireErrors, StatementErrors
    <2>3. /\ phase[j] # "idle"
          /\ UNCHANGED <<running, attempt, snapshot, movements, viewExists, view>>
      BY <1>9, <2>1 DEF AcquireFails, Raise
    <2>4. SchedulerTypeOK' /\ SnapshotAhead'
      BY <2>1, <2>2, <2>3, RaiseIsCorrect DEF SchedulerTypeOK
    <2> QED
      BY <2>1, <2>2, <2>3, <2>4, RaiseIsCorrect
  <1>10. ASSUME NEW j \in Instances, StatementFails(j) PROVE IInv'
    <2>1. PICK error \in StatementErrors :
              Raise(j, error) /\ view' \in {view, snapshot[j]}
      BY <1>10 DEF StatementFails
    <2>2. /\ phase[j] = "executing"
          /\ UNCHANGED <<running, attempt, snapshot, movements, viewExists>>
      BY <1>10, <2>1 DEF StatementFails, Raise
    <2>3. /\ SchedulerTypeOK'
          /\ \A i \in Instances : phase'[i] # "executing"
      BY <2>1, <2>2, RaiseIsCorrect DEF SchedulerTypeOK
    <2> QED
      BY <2>1, <2>2, <2>3, RaiseIsCorrect
  <1>11. CASE UNCHANGED vars
    BY <1>11 DEF vars, SchedulerTypeOK
  <1> QED
    BY <1>1, <1>2, <1>3, <1>4, <1>5, <1>6, <1>7, <1>8, <1>9, <1>10, <1>11
    DEF Next, Progress, Failure

LEMMA Invariant == Spec => []IInv
  BY InitEstablishes, StepPreserves, PTL DEF Spec

\* Each variable keeps its type, and the view never counts a movement that is
\* not in the table.
THEOREM RefreshTypeCorrect == Spec => []SchedulerTypeOK
  BY Invariant, PTL DEF IInv

\* retry.py: a job that ends on a transient error has used every attempt.
THEOREM RetriesAreUsed == Spec => []GivesUpOnlyWhenExhausted
  BY Invariant, PTL DEF IInv

-----------------------------------------------------------------------------
(***************************************************************************)
(* Refinement: the view lags behind the movements and never goes back.     *)
(***************************************************************************)
LEMMA InitRefines == Init => Promise!Init
  BY DEF Init, Promise!Init

LEMMA StepRefines ==
    IInv /\ [Next]_vars => [Promise!Insert \/ Promise!CatchUp]_Promise!vars
  <1> SUFFICES ASSUME IInv, [Next]_vars
               PROVE  [Promise!Insert \/ Promise!CatchUp]_Promise!vars
    OBVIOUS
  <1> USE DEF Promise!Insert, Promise!CatchUp, Promise!vars, database
  <1>1. movements \in Nat /\ view \in 0 .. movements
    BY SchedulerAssumption DEF IInv, SchedulerTypeOK
  <1>2. CASE Insert
    BY <1>2 DEF Insert
  <1>3. CASE CreateView
    BY <1>1, <1>3 DEF CreateView
  <1>4. ASSUME NEW j \in Instances, Succeed(j) \/ StatementFails(j)
        PROVE  Promise!CatchUp
    <2>1. view \in Int /\ snapshot[j] \in view .. movements
      BY <1>1, <1>4
      DEF IInv, SchedulerTypeOK, SnapshotAhead, Succeed, StatementFails
    <2>2. view' \in {view, snapshot[j]} /\ UNCHANGED movements
      BY <1>4 DEF Succeed, StatementFails, Raise
    <2> QED
      BY <1>1, <2>1, <2>2
  <1>5. ASSUME NEW j \in Instances,
               \/ Tick(j) \/ Execute(j) \/ SkipMissingView(j) \/ Wake(j)
               \/ AcquireFails(j)
        PROVE  UNCHANGED Promise!vars
    BY <1>5 DEF Tick, Execute, SkipMissingView, Wake, AcquireFails, Raise
  <1>6. CASE StartScheduler \/ UNCHANGED vars
    BY <1>6 DEF StartScheduler, vars
  <1> QED
    BY <1>2, <1>3, <1>4, <1>5, <1>6 DEF Next, Progress, Failure

\* scheduler.py and refresh.py: whatever fails or is retried, the view goes
\* forward through states that the movements table had.
THEOREM RefreshImplementsAsyncView == Spec => ImplementsAsyncView
  BY Invariant, InitRefines, StepRefines, PTL
  DEF Spec, ImplementsAsyncView, Promise!Spec

-----------------------------------------------------------------------------
(***************************************************************************)
(* Reads of the stock while the view is refreshed.                         *)
(***************************************************************************)
ReadsTypes ==
    /\ created \in BOOLEAN /\ listed \in BOOLEAN
    /\ listedIn \in [Instances -> BOOLEAN]
    /\ query \in {"none", "view", "direct"}
    /\ source \in {"none", "view", "table"}
    /\ stock \in Nat /\ floor \in Nat

\* A row that the view shows is in every snapshot that may replace it.
RowStays ==
    /\ listed => viewExists /\ created
    /\ \A j \in Instances :
          /\ listedIn[j] => created
          /\ phase[j] = "executing" /\ listed => listedIn[j]

\* An answer is behind the table, and behind the view it came from.
AnswerBehind ==
    /\ stock <= movements
    /\ source = "none" => stock = 0
    /\ source = "view" => InView /\ stock <= view
    /\ query = "direct" => source # "view"

\* Wherever the open request gets its answer, it is not below its floor.
FloorHolds ==
    /\ query = "none" => floor <= stock
    /\ query # "none" =>
          /\ floor <= movements
          /\ IF InView THEN floor <= view
             ELSE \A j \in Instances :
                     phase[j] = "executing" => floor <= snapshot[j]

ReadsInv == IInv /\ ReadsTypes /\ RowStays /\ AnswerBehind /\ FloorHolds

LEMMA ReadsInitHolds == ReadsInit => ReadsInv
  <1> SUFFICES ASSUME ReadsInit PROVE ReadsInv
    OBVIOUS
  <1>1. IInv
    BY InitEstablishes DEF ReadsInit
  <1>2. ReadsTypes
    BY DEF ReadsInit, ReadsTypes
  <1>3. RowStays /\ AnswerBehind /\ FloorHolds
    BY DEF ReadsInit, Init, RowStays, AnswerBehind, FloorHolds
  <1> QED
    BY <1>1, <1>2, <1>3 DEF ReadsInv

LEMMA ReadsStepIsStep == [ReadsNext]_readsVars => [Next]_vars
  BY DEF ReadsNext, readsVars, CreateProduct, DatabaseStep, InsertMovement,
         FillView, ReadSnapshot, InstallSnapshot, LoseStatement, Ask, QueryView,
         QueryDirect, QueryFails, Next, Progress, Failure

LEMMA Bounds ==
    ASSUME IInv
    PROVE  /\ movements \in Nat /\ view \in Nat /\ view <= movements
           /\ \A j \in Instances : snapshot[j] \in Nat /\ snapshot[j] <= movements
           /\ viewExists \in BOOLEAN /\ phase \in [Instances -> Phases]
  BY SchedulerAssumption DEF IInv, SchedulerTypeOK

\* Table and view only go forward.
LEMMA Forward ==
    ASSUME IInv, [Next]_vars
    PROVE  movements <= movements' /\ view <= view'
  <1>1. [Promise!Insert \/ Promise!CatchUp]_Promise!vars
    BY StepRefines
  <1>2. movements' \in Nat /\ view' \in Nat
    <2>1. IInv'
      BY StepPreserves
    <2> QED
      BY <2>1, SchedulerAssumption DEF IInv, SchedulerTypeOK
  <1> QED
    BY <1>1, <1>2, Bounds DEF Promise!Insert, Promise!CatchUp, Promise!vars

\* What a step of the database does to the row and to running statements.
RowMoved ==
    /\ UNCHANGED <<created, request>>
    /\ listed' \in BOOLEAN /\ listedIn' \in [Instances -> BOOLEAN]
    /\ RowStays'
    /\ InView => InView'
    /\ \/ InView' = InView
       \/ view' = movements
       \/ \E j \in Instances : phase[j] = "executing" /\ view' = snapshot[j]
    /\ \A j \in Instances :
          phase'[j] = "executing" =>
              \/ phase[j] = "executing" /\ snapshot'[j] = snapshot[j]
              \/ snapshot'[j] = movements

LEMMA RowMoves ==
    ASSUME ReadsInv, DatabaseStep
    PROVE  RowMoved
  <1>1. /\ IInv /\ ReadsTypes /\ RowStays
        /\ phase \in [Instances -> Phases]
        /\ snapshot \in [Instances -> 0 .. movements]
        /\ viewExists \in BOOLEAN
        /\ UNCHANGED <<created, request>>
    BY DEF ReadsInv, IInv, SchedulerTypeOK, DatabaseStep, InsertMovement, FillView,
           ReadSnapshot, InstallSnapshot, LoseStatement, catalog
  <1> USE DEF RowMoved, RowStays, ReadsTypes, InView
  <1>2. CASE InsertMovement
    BY <1>1, <1>2 DEF InsertMovement, Insert, catalog, job
  <1>3. CASE FillView
    BY <1>1, <1>3 DEF FillView, CreateView, job, IInv, SnapshotAhead
  <1>4. ASSUME NEW j \in Instances, ReadSnapshot(j) PROVE RowMoved
    BY <1>1, <1>4 DEF ReadSnapshot, Execute, Goto, database
  <1>5. ASSUME NEW j \in Instances, InstallSnapshot(j) PROVE RowMoved
    BY <1>1, <1>5 DEF InstallSnapshot, Succeed, Goto, IInv, OneActive, SnapshotAhead
  <1>6. ASSUME NEW j \in Instances, LoseStatement(j) PROVE RowMoved
    <2>1. PICK error \in StatementErrors : Raise(j, error)
      BY <1>6 DEF LoseStatement, StatementFails
    <2>2. /\ phase[j] = "executing" /\ UNCHANGED <<snapshot, viewExists>>
          /\ \A i \in Instances : phase'[i] # "executing"
      BY <1>1, <1>6, <2>1, RaiseIsCorrect
      DEF LoseStatement, StatementFails, Raise, IInv, OneActive
    <2> QED
      BY <1>1, <1>6, <2>2 DEF LoseStatement, IInv, SnapshotAhead
  <1>7. ASSUME UNCHANGED catalog,
               \/ StartScheduler
               \/ \E j \in Instances :
                     Tick(j) \/ SkipMissingView(j) \/ Wake(j) \/ AcquireFails(j)
        PROVE  RowMoved
    <2>1. /\ UNCHANGED <<snapshot, viewExists, view>>
          /\ \A i \in Instances : phase'[i] = "executing" => phase[i] = "executing"
      BY <1>1, <1>7
      DEF StartScheduler, Tick, SkipMissingView, Wake, AcquireFails, Raise, Try,
          Goto, job, database
    <2> QED
      BY <1>1, <1>7, <2>1 DEF catalog
  <1> QED
    BY <1>2, <1>3, <1>4, <1>5, <1>6, <1>7 DEF DatabaseStep

\* At most one statement runs, so the oldest snapshot exists.
LEMMA ReliableBelow ==
    ASSUME IInv, viewExists \in BOOLEAN, listed \in BOOLEAN
    PROVE  /\ Reliable \in Nat /\ Reliable <= movements
           /\ IF InView THEN Reliable = view
              ELSE \A j \in Instances :
                      phase[j] = "executing" => Reliable <= snapshot[j]
  <1> DEFINE S == {movements} \cup
                  {snapshot[j] : j \in {i \in Instances : phase[i] = "executing"}}
  <1>1. \A x \in S : x \in Nat
    BY Bounds
  <1>2. \E x \in S : \A y \in S : x <= y
    <2>1. CASE \E k \in Instances : phase[k] = "executing"
      <3>1. PICK k \in Instances : phase[k] = "executing"
        BY <2>1
      <3>2. \A y \in S : y = movements \/ y = snapshot[k]
        BY <3>1 DEF IInv, OneActive
      <3>3. snapshot[k] \in S /\ snapshot[k] <= movements /\ snapshot[k] \in Nat
        BY <3>1, Bounds
      <3> QED
        BY <3>2, <3>3
    <2>2. CASE ~(\E k \in Instances : phase[k] = "executing")
      <3>1. S = {movements}
        BY <2>2
      <3> QED
        BY <3>1, Bounds
    <2> QED
      BY <2>1, <2>2
  <1>3. Min(S) \in S /\ \A y \in S : Min(S) <= y
    <2> HIDE DEF S
    <2> QED
      BY <1>2 DEF Min
  <1>4. Reliable = IF InView THEN view ELSE Min(S)
    BY DEF Reliable
  <1>5. /\ movements \in S
        /\ \A j \in Instances : phase[j] = "executing" => snapshot[j] \in S
    OBVIOUS
  <1> HIDE DEF S
  <1> QED
    BY <1>1, <1>3, <1>4, <1>5, Bounds

\* Answers and floor under a step of the database.
LEMMA DatabaseKeeps ==
    ASSUME ReadsInv, DatabaseStep, [Next]_vars
    PROVE  ReadsTypes' /\ RowStays' /\ AnswerBehind' /\ FloorHolds'
  <1>1. /\ RowMoved /\ IInv
        /\ movements <= movements' /\ view <= view'
    BY RowMoves, Forward DEF ReadsInv
  <1>2. IInv'
    BY <1>1, StepPreserves
  <1>3. /\ movements \in Nat /\ view \in Nat /\ view <= movements
        /\ movements' \in Nat /\ view' \in Nat
        /\ \A j \in Instances : snapshot[j] \in Nat
        /\ stock \in Nat /\ floor \in Nat
    BY <1>1, <1>2, Bounds, SchedulerAssumption DEF ReadsInv, ReadsTypes, IInv, SchedulerTypeOK
  <1>4. ReadsTypes' /\ RowStays'
    BY <1>1 DEF RowMoved, ReadsInv, ReadsTypes, request
  <1>5. AnswerBehind'
    BY <1>1, <1>3 DEF RowMoved, ReadsInv, AnswerBehind, request
  <1>6. FloorHolds'
    <2>1. UNCHANGED <<query, stock, floor>>
      BY <1>1 DEF RowMoved, request
    <2>2. ASSUME query # "none"
          PROVE  /\ floor <= movements'
                 /\ IF InView' THEN floor <= view'
                    ELSE \A j \in Instances :
                            phase'[j] = "executing" => floor <= snapshot'[j]
      <3>1. CASE InView
        BY <1>1, <1>3, <2>2, <3>1 DEF RowMoved, ReadsInv, FloorHolds
      <3>2. CASE ~InView
        BY <1>1, <1>3, <2>2, <3>2 DEF RowMoved, ReadsInv, FloorHolds
      <3> QED
        BY <3>1, <3>2
    <2> QED
      BY <2>1, <2>2 DEF ReadsInv, FloorHolds
  <1> QED
    BY <1>4, <1>5, <1>6

\* The steps of the request, which leave the database alone.
LEMMA RequestKeeps ==
    ASSUME ReadsInv, UNCHANGED <<vars, catalog>>,
           Ask \/ QueryView \/ QueryDirect \/ QueryFails
    PROVE  ReadsTypes' /\ RowStays' /\ AnswerBehind' /\ FloorHolds'
  <1>1. /\ UNCHANGED <<movements, view, viewExists, phase, snapshot>>
        /\ UNCHANGED <<created, listed, listedIn>>
        /\ InView' = InView
    BY DEF vars, job, database, catalog, InView
  <1>2. /\ movements \in Nat /\ view \in Nat /\ view <= movements
        /\ viewExists \in BOOLEAN /\ ReadsTypes /\ IInv
    BY Bounds DEF ReadsInv
  <1>3. RowStays'
    BY <1>1 DEF ReadsInv, RowStays
  <1>4. CASE Ask
    <2>1. Reliable \in Nat /\ Reliable <= movements
      BY <1>2, ReliableBelow DEF ReadsTypes
    <2>2. FloorHolds'
      BY <1>1, <1>2, <1>4, ReliableBelow DEF Ask, FloorHolds, ReadsTypes
    <2>3. ReadsTypes' /\ AnswerBehind'
      BY <1>1, <1>2, <1>4, <2>1 DEF Ask, ReadsInv, ReadsTypes, AnswerBehind
    <2> QED
      BY <1>3, <2>2, <2>3
  <1>5. CASE QueryView
    BY <1>1, <1>2, <1>3, <1>5
    DEF QueryView, AnswerWith, ReadsInv, ReadsTypes, AnswerBehind, FloorHolds
  <1>6. CASE QueryDirect
    BY <1>1, <1>2, <1>3, <1>6
    DEF QueryDirect, AnswerWith, ReadsInv, ReadsTypes, AnswerBehind, FloorHolds
  <1>7. CASE QueryFails
    BY <1>1, <1>2, <1>3, <1>7
    DEF QueryFails, ReadsInv, ReadsTypes, AnswerBehind, FloorHolds
  <1> QED
    BY <1>4, <1>5, <1>6, <1>7

LEMMA ReadsPreserved == ReadsInv /\ [ReadsNext]_readsVars => ReadsInv'
  <1> SUFFICES ASSUME ReadsInv, [ReadsNext]_readsVars PROVE ReadsInv'
    OBVIOUS
  <1>1. [Next]_vars
    BY ReadsStepIsStep
  <1>2. IInv'
    BY <1>1, StepPreserves DEF ReadsInv
  <1>3. CASE DatabaseStep
    BY <1>1, <1>2, <1>3, DatabaseKeeps DEF ReadsInv
  <1>4. CASE Ask \/ QueryView \/ QueryDirect \/ QueryFails
    <2>1. UNCHANGED <<vars, catalog>>
      BY <1>4 DEF Ask, QueryView, QueryDirect, QueryFails, catalog
    <2> QED
      BY <1>2, <1>4, <2>1, RequestKeeps DEF ReadsInv
  <1>5. CASE CreateProduct \/ UNCHANGED readsVars
    <2>1. /\ UNCHANGED <<vars, listed, listedIn, query, stock, source, floor>>
          /\ created' \in BOOLEAN /\ (created => created')
      BY <1>5 DEF CreateProduct, readsVars, catalog, request, ReadsInv, ReadsTypes
    <2>2. UNCHANGED <<movements, view, viewExists, phase, snapshot>>
      BY <2>1 DEF vars, job, database
    <2> QED
      BY <1>2, <2>1, <2>2
      DEF ReadsInv, ReadsTypes, RowStays, AnswerBehind, FloorHolds, InView
  <1> QED
    BY <1>3, <1>4, <1>5 DEF ReadsNext

\* query_current_stock.py: an answer misses at most what was recorded since
\* the start of the refresh whose result was in the view, or was to be, when
\* the request came.
THEOREM AnswersStayClose == ReadsSpec => []AnswersKeepUp
  <1>1. ReadsInv => AnswersKeepUp
    BY DEF ReadsInv, AnswerBehind, FloorHolds, AnswersKeepUp
  <1> QED
    BY <1>1, ReadsInitHolds, ReadsPreserved, PTL DEF ReadsSpec

\* stock_query_repository.py:98-100: answers fall back once at most, when the
\* product appears in the view after it was answered from the table.
THEOREM AnswersFallBackOnce == ReadsSpec => ReadsGoBackOnce
  <1> DEFINE Once == /\ stock' < stock => source = "table" /\ source' = "view"
                     /\ source = "view" => source' = "view"
  <1>1. ReadsInv /\ [ReadsNext]_readsVars => [Once]_readsVars
    <2> SUFFICES ASSUME ReadsInv, ReadsNext PROVE Once
      OBVIOUS
    <2>1. /\ stock \in Nat /\ movements \in Nat /\ view \in Nat
          /\ source \in {"none", "view", "table"} /\ AnswerBehind
      BY Bounds DEF ReadsInv, ReadsTypes
    <2>2. CASE QueryView
      BY <2>1, <2>2 DEF QueryView, AnswerWith, AnswerBehind
    <2>3. CASE QueryDirect
      BY <2>1, <2>3 DEF QueryDirect, AnswerWith, AnswerBehind
    <2>4. CASE CreateProduct \/ DatabaseStep \/ Ask \/ QueryFails
      BY <2>1, <2>4 DEF CreateProduct, DatabaseStep, Ask, QueryFails, request
    <2> QED
      BY <2>2, <2>3, <2>4 DEF ReadsNext
  <1> QED
    BY <1>1, ReadsInitHolds, ReadsPreserved, PTL DEF ReadsSpec, ReadsGoBackOnce

\* Requests only look on: with them the job behaves as it does alone, so all
\* the above about the view holds here too.
THEOREM ReadsRunTheScheduler == ReadsSpec => Spec
  <1>1. ReadsInit => Init
    BY DEF ReadsInit
  <1> QED
    BY <1>1, ReadsStepIsStep, PTL DEF ReadsSpec, Spec
=============================================================================

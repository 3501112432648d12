----------------------- MODULE MovementHistoryProofs -----------------------
(***************************************************************************)
(* When the past is final, for any products, requests, orders, pool, number*)
(* of faults and clock.                                                    *)
(***************************************************************************)
EXTENDS MovementHistory, RecordMovementProofs

\* A request whose entity has been built and whose unit of work is open or
\* about to open.
Inside(r) == pc[r] \in InUnitOfWork \cup {"enter_uow"}

\* Who is inside carries a time, and who has a row has been inside.
StampedInside ==
    \A r \in Requests : Inside(r) => createdAt[r] # Never

RecordedLate ==
    \A r \in recorded : pc[r] \in {"commit", "rollback", "done"}

HistoryInv == TypeInv /\ HistoryTypeOK /\ StampedInside /\ RecordedLate

-----------------------------------------------------------------------------
\* What a request's step does to the rows and to where requests are.
LEMMA RequestMoves ==
    ASSUME TypeInv, NEW r \in Requests, Arrive(r) \/ Step(r) \/ Error(r)
    PROVE  /\ UNCHANGED <<order, mv, snapshot>>
           /\ \A s \in Requests \ {r} : pc'[s] = pc[s]
           /\ pc'[r] \in InUnitOfWork => Inside(r)
           /\ pc'[r] = "enter_uow" => pc[r] \in {"get_product", "fail_fast",
                                                 "fail_fast_direct"}
           /\ \/ recorded' = recorded
              \/ /\ pc[r] = "insert" /\ pc'[r] \in {"commit", "rollback"}
                 /\ recorded' = recorded \cup {r}
           /\ pc[r] \in {"commit", "rollback"} => pc'[r] = "done"
           /\ pc[r] # "done"
  <1> USE DEF TypeInv, TypeOK, Inside, InUnitOfWork, Goto, tables, view
  <1>1. CASE Arrive(r)
    BY <1>1 DEF Arrive
  <1>2. CASE GetProduct(r)
    BY <1>2 DEF GetProduct
  <1>3. CASE FailFastView(r) \/ FailFastMiss(r) \/ FailFastDirect(r)
    BY <1>3 DEF FailFastView, FailFastMiss, FailFastDirect, FailFastOn
  <1>4. CASE Acquire(r)
    BY <1>4 DEF Acquire
  <1>5. CASE Begin(r) \/ LockProduct(r)
    BY <1>5 DEF Begin, LockProduct
  <1>6. CASE ReadStock(r)
    BY <1>6 DEF ReadStock
  <1>7. CASE CreateMovement(r)
    BY <1>7 DEF CreateMovement, InsertRow
  <1>8. CASE Commit(r) \/ Rollback(r)
    BY <1>8 DEF Commit, Rollback
  <1>9. CASE StatementFails(r) \/ AcquireFails(r)
    BY <1>9 DEF StatementFails, AcquireFails
  <1>10. CASE InsertReplyLost(r)
    BY <1>10 DEF InsertReplyLost, InsertRow
  <1>11. CASE BeginFails(r) \/ CommitFails(r)
    BY <1>11 DEF BeginFails, CommitFails
  <1> QED
    BY <1>1, <1>2, <1>3, <1>4, <1>5, <1>6, <1>7, <1>8, <1>9, <1>10, <1>11
    DEF Step, Error

\* Times are put on in the step that builds the entity, and nowhere else.
LEMMA StampMoves ==
    ASSUME HistoryInv, NEW r \in Requests, RequestStep(r)
    PROVE  /\ \A s \in Requests \ {r} : createdAt'[s] = createdAt[s]
           /\ createdAt' \in [Requests -> Int]
           /\ clock' = clock
           /\ \/ Builds(r) /\ createdAt'[r] = clock
              \/ ~Builds(r) /\ createdAt' = createdAt
  BY DEF HistoryInv, HistoryTypeOK, RequestStep, Stamp, Builds, Never

LEMMA HistoryStepIsStep == HistoryNext => Next \/ UNCHANGED vars
  BY DEF HistoryNext, Tick, RefreshStep, RequestStep, Next

LEMMA HistoryInitHolds == HistoryInit => HistoryInv
  <1> SUFFICES ASSUME HistoryInit PROVE HistoryInv
    OBVIOUS
  <1>1. TypeInv
    BY InitType DEF HistoryInit
  <1>2. HistoryTypeOK
    <2>1. createdAt \in [Requests -> Never .. clock] /\ clock \in Nat
      BY DEF HistoryInit, Never
    <2>2. DOMAIN lastMovementAt = DOMAIN mv /\ DOMAIN lastInSnapshot = DOMAIN snapshot
      BY DEF HistoryInit, Init
    <2> QED
      BY <1>1, <2>1, <2>2 DEF HistoryTypeOK, TypeInv
  <1>3. StampedInside /\ RecordedLate
    BY DEF HistoryInit, Init, StampedInside, RecordedLate, Inside, InUnitOfWork
  <1> QED
    BY <1>1, <1>2, <1>3 DEF HistoryInv

LEMMA HistoryPreserved == HistoryInv /\ [HistoryNext]_historyVars => HistoryInv'
  <1> SUFFICES ASSUME HistoryInv, [HistoryNext]_historyVars PROVE HistoryInv'
    OBVIOUS
  <1>t. TypeInv'
    BY HistoryStepIsStep, TypeStep DEF HistoryInv, historyVars
  <1>i. /\ clock \in Nat /\ createdAt \in [Requests -> Never .. clock]
        /\ DOMAIN lastMovementAt = DOMAIN mv
        /\ DOMAIN lastInSnapshot = DOMAIN snapshot
    BY DEF HistoryInv, HistoryTypeOK
  <1>1. CASE Tick
    BY <1>1, <1>t, <1>i DEF Tick, HistoryInv, HistoryTypeOK, TypeInv, vars, Never,
       StampedInside, RecordedLate, Inside
  <1>2. CASE RefreshStep
    <2>1. UNCHANGED <<pc, recorded, clock, createdAt>>
      BY <1>2 DEF RefreshStep, RefreshStart, RefreshInstall, RefreshFails,
                  EndRefresh, requests, tables
    <2>2. /\ DOMAIN lastMovementAt' = DOMAIN mv'
          /\ DOMAIN lastInSnapshot' = DOMAIN snapshot'
      BY <1>2, <1>i DEF RefreshStep, RefreshStart, RefreshInstall, RefreshFails,
                        EndRefresh, HistoryInv, TypeInv, TypeOK
    <2> QED
      BY <1>t, <1>i, <2>1, <2>2 DEF HistoryInv, HistoryTypeOK, TypeInv,
         StampedInside, RecordedLate, Inside
  <1>3. ASSUME NEW r \in Requests, RequestStep(r) PROVE HistoryInv'
    <2>1. Arrive(r) \/ Step(r) \/ Error(r)
      BY <1>3 DEF RequestStep
    <2>2. UNCHANGED <<mv, snapshot, lastMovementAt, lastInSnapshot>>
      BY <1>3, <2>1, RequestMoves DEF HistoryInv, RequestStep
    <2>3. createdAt' \in [Requests -> Never .. clock'] /\ clock' \in Nat
      BY <1>3, <1>i DEF RequestStep, Stamp, Never
    <2>4. HistoryTypeOK'
      BY <1>t, <1>i, <2>2, <2>3 DEF HistoryTypeOK, TypeInv
    <2>5. StampedInside'
      <3> SUFFICES ASSUME NEW s \in Requests, Inside(s)' PROVE createdAt'[s] # Never
        BY DEF StampedInside
      <3>1. CASE s # r
        BY <1>3, <2>1, <3>1, RequestMoves, StampMoves
        DEF HistoryInv, StampedInside, Inside
      <3>2. CASE s = r /\ Builds(r)
        BY <1>3, <1>i, <3>2, StampMoves DEF Never
      <3>3. CASE s = r /\ ~Builds(r)
        <4>1. Inside(r)
          BY <2>1, <3>3, RequestMoves DEF HistoryInv, Builds, Inside
        <4> QED
          BY <1>3, <3>3, <4>1, StampMoves DEF HistoryInv, StampedInside
      <3> QED
        BY <3>1, <3>2, <3>3
    <2>6. RecordedLate'
      BY <2>1, RequestMoves DEF HistoryInv, RecordedLate, TypeInv, TypeOK
    <2> QED
      BY <1>t, <2>4, <2>5, <2>6 DEF HistoryInv
  <1>4. CASE UNCHANGED historyVars
    BY <1>4, <1>t, <1>i DEF historyVars, times, vars, HistoryInv, HistoryTypeOK,
       TypeInv, StampedInside, RecordedLate, Inside
  <1> QED
    BY <1>1, <1>2, <1>3, <1>4 DEF HistoryNext

-----------------------------------------------------------------------------
\* The movements stamped at or before t, and their bodies, are what they were:
\* the stock at t is.
LEMMA SameRowsSameStock ==
    ASSUME order' = order, NEW p, NEW t,
           {r \in MovementsOf(p) : createdAt[r] <= t}'
               = {r \in MovementsOf(p) : createdAt[r] <= t}
    PROVE  StockAtDate(p, t)' = StockAtDate(p, t)
  BY DEF StockAtDate, StockOver, Contribution

\* The step of one request leaves a settled past as it is.
LEMMA SettledStays ==
    ASSUME HistoryInv, NEW r \in Requests, RequestStep(r),
           NEW t \in 0 .. clock - 1, Settled(t)
    PROVE  /\ Settled(t)'
           /\ \A p \in Products : StockAtDate(p, t)' = StockAtDate(p, t)
  <1>1. Arrive(r) \/ Step(r) \/ Error(r)
    BY DEF RequestStep
  <1>2. /\ createdAt \in [Requests -> Int] /\ clock \in Nat /\ t \in Nat /\ t < clock
        /\ recorded \subseteq Requests /\ recorded' \subseteq Requests
    <2>1. TypeInv'
      BY HistoryStepIsStep, TypeStep DEF HistoryInv, HistoryNext
    <2> QED
      BY <2>1 DEF HistoryInv, HistoryTypeOK, TypeInv, TypeOK, Never
  <1>3. ASSUME r \notin recorded, Inside(r) PROVE createdAt[r] > t
    BY <1>2, <1>3 DEF HistoryInv, StampedInside, Settled, OpenSince, Inside
  <1>4. createdAt'[r] = createdAt[r] \/ (Builds(r) /\ createdAt'[r] > t)
    BY <1>2, StampMoves
  <1>5. Settled(t)'
    <2> SUFFICES ASSUME NEW s \in Requests, OpenSince(t, s)' PROVE FALSE
      BY DEF Settled
    <2>1. CASE s # r
      <3>1. pc'[s] = pc[s] /\ createdAt'[s] = createdAt[s] /\ s \notin recorded
        BY <1>1, <2>1, RequestMoves, StampMoves DEF HistoryInv, OpenSince
      <3> QED
        BY <3>1 DEF Settled, OpenSince
    <2>2. CASE s = r
      <3>1. createdAt'[r] <= t /\ r \notin recorded
        BY <1>1, <2>2, RequestMoves DEF HistoryInv, OpenSince
      <3>2. ~Builds(r) /\ createdAt'[r] = createdAt[r]
        BY <1>2, <3>1, StampMoves
      <3>3. Inside(r)
        BY <1>1, <2>2, <3>2, RequestMoves DEF HistoryInv, OpenSince, Builds, Inside
      <3> QED
        BY <1>2, <1>3, <3>1, <3>2, <3>3
    <2> QED
      BY <2>1, <2>2
  <1>6. ASSUME NEW p \in Products PROVE StockAtDate(p, t)' = StockAtDate(p, t)
    <2>1. order' = order
      BY <1>1, RequestMoves DEF HistoryInv
    <2>2. ASSUME NEW s \in Requests
          PROVE  s \in recorded' /\ createdAt'[s] <= t
                     <=> s \in recorded /\ createdAt[s] <= t
      <3>1. CASE s # r
        BY <1>1, <3>1, RequestMoves, StampMoves DEF HistoryInv
      <3>2. CASE s = r /\ r \in recorded
        <4>1. ~Builds(r)
          BY <1>1, <3>2, RequestMoves
          DEF HistoryInv, RecordedLate, Builds
        <4> QED
          BY <1>1, <3>2, <4>1, RequestMoves, StampMoves DEF HistoryInv
      <3>3. CASE s = r /\ r \notin recorded
        <4>1. r \in recorded' => pc[r] = "insert"
          BY <1>1, <3>3, RequestMoves DEF HistoryInv
        <4>2. r \in recorded' => createdAt[r] > t
          BY <1>3, <3>3, <4>1 DEF Inside, InUnitOfWork
        <4>3. createdAt'[r] \in Int
          BY <1>2, StampMoves
        <4>4. ~(r \in recorded' /\ createdAt'[r] <= t)
          BY <1>2, <1>4, <4>2, <4>3
        <4> QED
          BY <3>3, <4>4
      <3> QED
        BY <3>1, <3>2, <3>3
    <2>3. {s \in MovementsOf(p) : createdAt[s] <= t}'
              = {s \in MovementsOf(p) : createdAt[s] <= t}
      BY <1>2, <2>1, <2>2 DEF MovementsOf, ProductOf
    <2> QED
      BY <2>1, <2>3, SameRowsSameStock
  <1> QED
    BY <1>5, <1>6

-----------------------------------------------------------------------------
\* Every time an entity carries has passed, and the view has a last movement
\* for each of its rows.
THEOREM HistoryTypeCorrect == HistorySpec => []HistoryTypeOK
  <1>1. HistoryInv => HistoryTypeOK
    BY DEF HistoryInv
  <1> QED
    BY <1>1, HistoryInitHolds, HistoryPreserved, PTL DEF HistorySpec

\* The stock at a date is final once every movement stamped by then has ended.
THEOREM SettledPastStays == HistorySpec => SettledPastIsFinal
  <1> DEFINE Final == \A t \in 0 .. clock - 1 :
                 Settled(t) =>
                     /\ Settled(t)'
                     /\ \A p \in Products : StockAtDate(p, t)' = StockAtDate(p, t)
  <1>1. ASSUME HistoryInv, HistoryNext PROVE Final
    <2>1. CASE UNCHANGED <<order, pc, recorded, createdAt>>
      <3> SUFFICES ASSUME NEW t \in 0 .. clock - 1, Settled(t)
                   PROVE  /\ Settled(t)'
                          /\ \A p \in Products : StockAtDate(p, t)' = StockAtDate(p, t)
        OBVIOUS
      <3>1. Settled(t)'
        BY <2>1 DEF Settled, OpenSince
      <3>2. ASSUME NEW p \in Products PROVE StockAtDate(p, t)' = StockAtDate(p, t)
        <4>1. {r \in MovementsOf(p) : createdAt[r] <= t}'
                  = {r \in MovementsOf(p) : createdAt[r] <= t}
          BY <2>1 DEF MovementsOf, ProductOf
        <4> QED
          BY <2>1, <4>1, SameRowsSameStock
      <3> QED
        BY <3>1, <3>2
    <2>2. CASE Tick
      BY <2>1, <2>2 DEF Tick, vars
    <2>3. CASE RefreshStep
      BY <2>1, <2>3 DEF RefreshStep, RefreshStart, RefreshInstall, RefreshFails,
                        EndRefresh, requests, tables
    <2>4. ASSUME NEW r \in Requests, RequestStep(r) PROVE Final
      BY <1>1, <2>4, SettledStays
    <2> QED
      BY <1>1, <2>2, <2>3, <2>4 DEF HistoryNext
  <1>2. HistoryInv /\ [HistoryNext]_historyVars => [Final]_historyVars
    BY <1>1
  <1> HIDE DEF Final
  <1>3. HistorySpec => [][Final]_historyVars
    BY <1>2, HistoryInitHolds, HistoryPreserved, PTL DEF HistorySpec
  <1> QED
    BY <1>3 DEF Final, SettledPastIsFinal

-----------------------------------------------------------------------------
(***************************************************************************)
(* What the sums over the movements say of each other: the stock of a      *)
(* product, its stock at the present date and a row of the view.           *)
(***************************************************************************)

\* Every step of the program with times is one of the program without, so
\* what holds of RecordMovement holds here.
THEOREM HistoryRunsMovements == HistorySpec => Spec
  <1>1. HistoryInit => Init
    BY DEF HistoryInit
  <1>2. [HistoryNext]_historyVars => [Next]_vars
    BY HistoryStepIsStep DEF historyVars
  <1> QED
    BY <1>1, <1>2, PTL DEF HistorySpec, Spec

CountedInv == HistoryInv /\ LedgerInv

LEMMA CountedInit == HistoryInit => CountedInv
  BY HistoryInitHolds, InitLedger DEF CountedInv, HistoryInit

LEMMA CountedStep == CountedInv /\ [HistoryNext]_historyVars => CountedInv'
  <1>1. [HistoryNext]_historyVars => [Next]_vars
    BY HistoryStepIsStep DEF historyVars
  <1> QED
    BY <1>1, HistoryPreserved, LedgerStep DEF CountedInv

\* What SQL adds per row is what the domain rule says of it.
LEMMA StockIsStockOver ==
    ASSUME CountedInv, NEW p \in Products
    PROVE  stock[p] = StockOver(p, MovementsOf(p))
  <1>1. Deltas = [r \in Requests |-> Contribution(r)]
    BY DeltaIsContribution
    DEF Deltas, Contribution, CountedInv, HistoryInv, TypeInv, TypeOK
  <1>2. stock[p] = OpeningStock[p] + SumFunctionOnSet(Deltas, MovementsOf(p))
    BY DEF CountedInv, LedgerInv, StockMatchesDomainRule, Deltas
  <1> QED
    BY <1>1, <1>2 DEF StockOver

\* No row carries a time that has not come, so the stock at the present date
\* is the stock.
THEOREM PresentIsCurrent == HistorySpec => []PresentIsCurrentStock
  <1>1. ASSUME CountedInv, NEW p \in Products PROVE StockAtDate(p, clock) = stock[p]
    <2>1. ASSUME NEW r \in MovementsOf(p) PROVE createdAt[r] <= clock
      BY <1>1
      DEF CountedInv, HistoryInv, HistoryTypeOK, TypeOK, MovementsOf, Never
    <2>2. {r \in MovementsOf(p) : createdAt[r] <= clock} = MovementsOf(p)
      BY <2>1
    <2> QED
      BY <1>1, <2>2, StockIsStockOver DEF StockAtDate
  <1>2. CountedInv => PresentIsCurrentStock
    BY <1>1 DEF PresentIsCurrentStock
  <1> QED
    BY CountedInit, CountedStep, <1>2, PTL DEF HistorySpec

-----------------------------------------------------------------------------
\* The rows of a running refresh are cuts as well; a cut stays one, because a
\* recorded movement keeps its product, its quantity and its time.
SnapshotRowIsOneCut ==
    \A p \in DOMAIN snapshot : IsCut(p, snapshot[p], lastInSnapshot[p])

CutInv == CountedInv /\ ViewRowIsOneCut /\ SnapshotRowIsOneCut

LEMMA RowsStay ==
    ASSUME HistoryInv, [HistoryNext]_historyVars
    PROVE  /\ order' = order /\ recorded \subseteq recorded'
           /\ \A r \in recorded : createdAt'[r] = createdAt[r]
  <1>1. CASE UNCHANGED <<order, recorded, createdAt>>
    BY <1>1
  <1>2. CASE Tick \/ RefreshStep \/ UNCHANGED historyVars
    BY <1>1, <1>2
    DEF Tick, RefreshStep, RefreshStart, RefreshInstall, RefreshFails,
        EndRefresh, requests, tables, vars, times, historyVars
  <1>3. ASSUME NEW r \in Requests, RequestStep(r)
        PROVE  /\ order' = order /\ recorded \subseteq recorded'
               /\ \A s \in recorded : createdAt'[s] = createdAt[s]
    <2>1. Arrive(r) \/ Step(r) \/ Error(r)
      BY <1>3 DEF RequestStep
    <2>2. order' = order /\ recorded \subseteq recorded'
      BY <2>1, RequestMoves DEF HistoryInv
    <2>3. r \in recorded => ~Builds(r)
      BY <2>1, RequestMoves DEF HistoryInv, RecordedLate, Builds
    <2>4. \A s \in recorded : createdAt'[s] = createdAt[s]
      BY <1>3, <2>3, StampMoves DEF HistoryInv, TypeInv, TypeOK
    <2> QED
      BY <2>2, <2>4
  <1> QED
    BY <1>2, <1>3 DEF HistoryNext

LEMMA CutStays ==
    ASSUME HistoryInv, [HistoryNext]_historyVars, NEW p, NEW current, NEW mark,
           IsCut(p, current, mark)
    PROVE  IsCut(p, current, mark)'
  <1>1. PICK rows \in SUBSET MovementsOf(p) :
            current = StockOver(p, rows) /\ mark = Newest(rows)
    BY DEF IsCut
  <1>2. rows \in SUBSET MovementsOf(p)'
    BY RowsStay DEF MovementsOf, ProductOf
  <1>3. StockOver(p, rows)' = StockOver(p, rows)
    BY RowsStay DEF StockOver, Contribution
  <1>4. Newest(rows)' = Newest(rows)
    <2>1. {createdAt[r] : r \in rows}' = {createdAt[r] : r \in rows}
      BY RowsStay DEF MovementsOf
    <2> QED
      BY <2>1 DEF Newest
  <1> QED
    BY <1>1, <1>2, <1>3, <1>4 DEF IsCut

LEMMA CutInit == HistoryInit => CutInv
  <1> SUFFICES ASSUME HistoryInit PROVE ViewRowIsOneCut /\ SnapshotRowIsOneCut
    BY CountedInit DEF CutInv
  <1>1. ASSUME NEW p \in DOMAIN mv PROVE IsCut(p, mv[p], lastMovementAt[p])
    <2>1. mv = OpeningStock /\ p \in Products /\ lastMovementAt[p] = Never
      BY OpeningStockAssumption DEF HistoryInit, Init
    <2>2. StockOver(p, {}) = mv[p]
      BY <2>1, SumOfNone, OpeningStockAssumption DEF StockOver
    <2>3. Newest({}) = Never
      BY DEF Newest, Max, Never
    <2> QED
      BY <2>1, <2>2, <2>3 DEF IsCut
  <1>2. DOMAIN snapshot = {}
    BY DEF HistoryInit, Init
  <1> QED
    BY <1>1, <1>2 DEF ViewRowIsOneCut, SnapshotRowIsOneCut

LEMMA CutStep == CutInv /\ [HistoryNext]_historyVars => CutInv'
  <1> SUFFICES ASSUME CutInv, [HistoryNext]_historyVars
               PROVE  ViewRowIsOneCut' /\ SnapshotRowIsOneCut'
    BY CountedStep DEF CutInv
  <1>h. HistoryInv
    BY DEF CutInv, CountedInv
  <1> USE DEF requests, tables
  <1>1. ASSUME UNCHANGED <<mv, lastMovementAt>> PROVE ViewRowIsOneCut'
    <2> SUFFICES ASSUME NEW p \in DOMAIN mv PROVE IsCut(p, mv[p], lastMovementAt[p])'
      BY <1>1 DEF ViewRowIsOneCut
    <2>1. PICK current, mark : current = mv[p] /\ mark = lastMovementAt[p]
      OBVIOUS
    <2>2. IsCut(p, current, mark)
      BY <2>1 DEF CutInv, ViewRowIsOneCut
    <2>3. IsCut(p, current, mark)'
      BY <1>h, <2>2, CutStays
    <2> QED
      BY <1>1, <2>1, <2>3
  <1>2. ASSUME UNCHANGED <<snapshot, lastInSnapshot>> PROVE SnapshotRowIsOneCut'
    <2> SUFFICES ASSUME NEW p \in DOMAIN snapshot
                 PROVE  IsCut(p, snapshot[p], lastInSnapshot[p])'
      BY <1>2 DEF SnapshotRowIsOneCut
    <2>1. PICK current, mark : current = snapshot[p] /\ mark = lastInSnapshot[p]
      OBVIOUS
    <2>2. IsCut(p, current, mark)
      BY <2>1 DEF CutInv, SnapshotRowIsOneCut
    <2>3. IsCut(p, current, mark)'
      BY <1>h, <2>2, CutStays
    <2> QED
      BY <1>2, <2>1, <2>3
  <1>3. CASE RefreshStep /\ RefreshStart
    <2>1. UNCHANGED <<mv, lastMovementAt>>
      BY <1>3 DEF RefreshStep, RefreshStart, RefreshInstall, RefreshRunning
    <2>2. /\ snapshot' = stock
          /\ lastInSnapshot' = [p \in Products |-> LastMovement(p)]
      BY <1>3 DEF RefreshStep, RefreshStart, RefreshInstall, RefreshFails,
                  RefreshRunning
    <2>3. ASSUME NEW p \in Products
          PROVE  IsCut(p, snapshot'[p], lastInSnapshot'[p])
      BY <2>2, StockIsStockOver DEF IsCut, LastMovement, CutInv
    <2>4. SnapshotRowIsOneCut'
      <3> SUFFICES ASSUME NEW p \in Products
                   PROVE  IsCut(p, snapshot[p], lastInSnapshot[p])'
        BY <1>h, <2>2 DEF SnapshotRowIsOneCut, HistoryInv, TypeInv, TypeOK
      <3>1. PICK current, mark : current = snapshot'[p] /\ mark = lastInSnapshot'[p]
        OBVIOUS
      <3>2. IsCut(p, current, mark)'
        BY <1>h, <2>3, <3>1, CutStays
      <3> QED
        BY <3>1, <3>2
    <2> QED
      BY <1>1, <2>1, <2>4
  <1>4. CASE RefreshStep /\ (RefreshInstall \/ RefreshFails)
    <2>1. snapshot' = <<>>
      BY <1>4 DEF RefreshInstall, RefreshFails, EndRefresh
    <2>2. SnapshotRowIsOneCut'
      BY <2>1 DEF SnapshotRowIsOneCut
    <2>3. \/ UNCHANGED <<mv, lastMovementAt>>
          \/ mv' = snapshot /\ lastMovementAt' = lastInSnapshot
      BY <1>4 DEF RefreshStep, RefreshStart, RefreshInstall, RefreshFails,
                  RefreshRunning
    <2>4. CASE mv' = snapshot /\ lastMovementAt' = lastInSnapshot
      <3> SUFFICES ASSUME NEW p \in DOMAIN snapshot
                   PROVE  IsCut(p, mv[p], lastMovementAt[p])'
        BY <2>2, <2>4 DEF ViewRowIsOneCut
      <3>1. PICK current, mark : current = snapshot[p] /\ mark = lastInSnapshot[p]
        OBVIOUS
      <3>2. IsCut(p, current, mark)
        BY <3>1 DEF CutInv, SnapshotRowIsOneCut
      <3>3. IsCut(p, current, mark)'
        BY <1>h, <3>2, CutStays
      <3> QED
        BY <2>4, <3>1, <3>3
    <2> QED
      BY <1>1, <2>2, <2>3, <2>4
  <1>5. CASE Tick \/ UNCHANGED historyVars \/ \E r \in Requests : RequestStep(r)
    <2>1. UNCHANGED <<mv, snapshot, lastMovementAt, lastInSnapshot>>
      BY <1>h, <1>5, RequestMoves
      DEF HistoryInv, Tick, RequestStep, vars, historyVars, times
    <2> QED
      BY <1>1, <1>2, <2>1
  <1> QED
    BY <1>3, <1>4, <1>5 DEF HistoryNext, RefreshStep

\* The stock and the last movement of a view row are those of one set of
\* movements, all of them in the table.
THEOREM ViewRowsAreCuts == HistorySpec => []ViewRowIsOneCut
  <1>1. CutInv => ViewRowIsOneCut
    BY DEF CutInv
  <1> QED
    BY CutInit, CutStep, <1>1, PTL DEF HistorySpec
=============================================================================

--------------------------- MODULE MovementHistory ---------------------------
(***************************************************************************)
(* RecordMovement with the time each movement carries.  created_at is read *)
(* from the clock when the entity is built, before the unit of work; the   *)
(* row becomes visible at its INSERT, any time later.  Stock "at a date"   *)
(* and the view's last_movement_at are both computed from created_at.      *)
(*                                                                         *)
(* The clock runs by itself: it may give several entities one time, and it *)
(* is assumed not to be set back.                                          *)
(***************************************************************************)
EXTENDS RecordMovement

CONSTANT MaxClock  \* bound: how far the clock moves

ASSUME MaxClockAssumption == MaxClock \in Nat

VARIABLES
    clock,           \* what datetime.now(tz=UTC) reads
    createdAt,       \* created_at of each request's entity
    lastMovementAt,  \* last_movement_at of each row of the view
    lastInSnapshot   \* what a running refresh will put there

times == <<clock, createdAt, lastMovementAt, lastInSnapshot>>
historyVars == <<vars, times>>

\* No movement has this time: MAX over no row is NULL.
Never == -1

\* What SUM and MAX(created_at) give over a set of rows of one product.
StockOver(p, rows) ==
    OpeningStock[p] + SumFunctionOnSet([r \in Requests |-> Contribution(r)], rows)
Newest(rows) == Max({createdAt[r] : r \in rows} \cup {Never})

LastMovement(p) == Newest(MovementsOf(p))

\* get_stock_at_date: the movements of the product with created_at <= date.
StockAtDate(p, date) ==
    StockOver(p, {r \in MovementsOf(p) : createdAt[r] <= date})

HistoryInit ==
    /\ Init
    /\ clock = 0
    /\ createdAt = [r \in Requests |-> Never]
    /\ lastMovementAt = [p \in DOMAIN mv |-> Never]
    /\ lastInSnapshot = <<>>

Tick ==
    /\ clock < MaxClock
    /\ clock' = clock + 1
    /\ UNCHANGED <<vars, createdAt, lastMovementAt, lastInSnapshot>>

Builds(r) == pc[r] # "enter_uow" /\ pc'[r] = "enter_uow"

\* Mutant: the router stamps the body when it arrives.
StampAtArrival(r) ==
    /\ createdAt' = IF pc[r] = "new" THEN [createdAt EXCEPT ![r] = clock]
                                     ELSE createdAt
    /\ UNCHANGED clock

\* Mutant: the entity carries a local time that is ahead of UTC.
StampAhead(r) ==
    /\ createdAt' = IF Builds(r) THEN [createdAt EXCEPT ![r] = clock + 1]
                                 ELSE createdAt
    /\ UNCHANGED clock

\* The entity is built in the step that passes the fail-fast check.
Stamp(r) ==
    /\ createdAt' = IF Builds(r) THEN [createdAt EXCEPT ![r] = clock]
                                 ELSE createdAt
    /\ UNCHANGED clock

RequestStep(r) ==
    /\ Arrive(r) \/ Step(r) \/ Error(r)
    /\ Stamp(r)
    /\ UNCHANGED <<lastMovementAt, lastInSnapshot>>

\* Mutant: last_movement_at is read when the view is installed.
RefreshStepMarksAtInstall ==
    /\ \/ RefreshStart   /\ lastInSnapshot' = [p \in Products |-> LastMovement(p)]
                         /\ UNCHANGED lastMovementAt
       \/ RefreshInstall /\ lastMovementAt' = [p \in Products |-> LastMovement(p)]
                         /\ lastInSnapshot' = <<>>
       \/ RefreshFails   /\ lastInSnapshot' = <<>>
                         /\ UNCHANGED lastMovementAt
    /\ UNCHANGED <<clock, createdAt>>

RefreshStep ==
    /\ \/ RefreshStart   /\ lastInSnapshot' = [p \in Products |-> LastMovement(p)]
                         /\ UNCHANGED lastMovementAt
       \/ RefreshInstall /\ lastMovementAt' = lastInSnapshot
                         /\ lastInSnapshot' = <<>>
       \/ RefreshFails   /\ lastInSnapshot' = <<>>
                         /\ UNCHANGED lastMovementAt
    /\ UNCHANGED <<clock, createdAt>>

HistoryNext == Tick \/ RefreshStep \/ \E r \in Requests : RequestStep(r)

HistorySpec == HistoryInit /\ [][HistoryNext]_historyVars

-----------------------------------------------------------------------------
\* Type invariant; no entity carries a time that is still to come.
HistoryTypeOK ==
    /\ TypeOK
    /\ clock \in Nat
    /\ createdAt \in [Requests -> Never .. clock]
    /\ DOMAIN lastMovementAt = DOMAIN mv
    /\ DOMAIN lastInSnapshot = DOMAIN snapshot

\* A movement that carries a time at or before t and may still be inserted.
OpenSince(t, r) ==
    /\ createdAt[r] # Never
    /\ createdAt[r] <= t
    /\ r \notin recorded
    /\ pc[r] \in InUnitOfWork \cup {"enter_uow"}

\* The answer to "stock at t" is final once t has passed and every movement that
\* was stamped by then has ended, and nothing opens it again.  Until then the same
\* question may be answered differently later, because rows become visible in
\* another order than that of their created_at.
Settled(t) == \A r \in Requests : ~OpenSince(t, r)

SettledPastIsFinal ==
    [][\A t \in 0 .. clock - 1 :
          Settled(t) =>
              /\ Settled(t)'
              /\ \A p \in Products : StockAtDate(p, t)' = StockAtDate(p, t)]_historyVars

\* GET /stock/{id}/at-date with the present date is the current stock: no row
\* carries a time that has not come.
PresentIsCurrentStock ==
    \A p \in Products : StockAtDate(p, clock) = stock[p]

\* Some movements that are in the table add up to this stock, and the newest
\* of them carries this time.
IsCut(p, current, mark) ==
    \E rows \in SUBSET MovementsOf(p) :
        current = StockOver(p, rows) /\ mark = Newest(rows)

\* The two columns of a view row tell of the same movements, whatever is
\* inserted while REFRESH runs and in whatever order.  last_movement_at
\* promises no more than that: a movement with an earlier created_at may be
\* missing from the row, and the refresh that brings it leaves the mark.
ViewRowIsOneCut == \A p \in DOMAIN mv : IsCut(p, mv[p], lastMovementAt[p])
=============================================================================

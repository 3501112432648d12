----------------------------- MODULE StockLedger -----------------------------
(***************************************************************************)
(* What recording a movement promises, with no pool, no transaction and no *)
(* view: each request is, in one step, either recorded, and then the stock *)
(* covers it at that moment, or refused, and then the stock is untouched.  *)
(***************************************************************************)
EXTENDS StockRules

CONSTANTS ProductIds, Products, Requests, Orders, OpeningStock

VARIABLES order, stock, outcome

vars == <<order, stock, outcome>>

Init ==
    /\ order \in [Requests -> Orders]
    /\ stock = OpeningStock
    /\ outcome = [r \in Requests |-> "pending"]

Record(r) ==
    /\ outcome[r] = "pending"
    /\ order[r].product \in Products
    /\ Reduces(order[r].type)
         => ~Insufficient(order[r].type, order[r].quantity,
                          stock[order[r].product])
    /\ stock' = [stock EXCEPT ![order[r].product] =
                     @ + StockDelta(order[r].type, order[r].quantity)]
    /\ outcome' = [outcome EXCEPT ![r] = "recorded"]
    /\ UNCHANGED order

Refuse(r) ==
    /\ outcome[r] = "pending"
    /\ outcome' = [outcome EXCEPT ![r] = "refused"]
    /\ UNCHANGED <<order, stock>>

Next == \E r \in Requests : Record(r) \/ Refuse(r)

Spec == Init /\ [][Next]_vars
=============================================================================

-------------------------- MODULE MCRecordMovement --------------------------
(***************************************************************************)
(* RecordMovement on small instances.                                      *)
(***************************************************************************)
EXTENDS RecordMovement, TLC

CONSTANTS p1, p2, missing, r1, r2, r3, c1, c2, c3, c4

Order(product, type, quantity) ==
    [product |-> product, type |-> type, quantity |-> quantity]

\* One product with two units: two takers of it can overdraw, and a delivery
\* can come in between.
OneProduct == {p1}
TwoUnits == [p \in OneProduct |-> 2]
TakesAndDelivery == {Order(p1, "OUT", 2), Order(p1, "OUT", 1), Order(p1, "IN", 1)}
TakesOnly == {Order(p1, "OUT", 2)}

Deliveries == {Order(p1, "IN", 1)}

\* Every type of movement, a second product and one that does not exist.
TwoProducts == {p1, p2}
NamedProducts == {p1, p2, missing}
OneUnitOfFirst == [p \in TwoProducts |-> IF p = p1 THEN 1 ELSE 0]
AllKinds ==
    {Order(p1, type, 1) : type \in MovementTypes}
        \cup {Order(p2, "TRANSFER", 1), Order(missing, "IN", 1)}

Interchangeable == Permutations({c1, c2, c3, c4} \cap Conns)
                       \cup Permutations(Requests)
=============================================================================

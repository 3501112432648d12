----------------------------- MODULE StockRules -----------------------------
(***************************************************************************)
(* The pure rules of the domain layer, src/domain/rules and                *)
(* src/domain/value_objects: which movement types take stock out, the      *)
(* signed delta of a movement, and the check that answers 409.             *)
(***************************************************************************)
EXTENDS Integers

MovementTypes == {"IN", "OUT", "ADJUSTMENT", "TRANSFER"}

\* The movement types whose stock is checked, twice, by the use case.
Reduces(type) == type \in {"OUT", "TRANSFER"}

\* calculate_stock_delta
StockDelta(type, quantity) ==
    IF type \in {"IN", "ADJUSTMENT"} THEN quantity ELSE -quantity

\* Mutant: the CASE of the query forgets a movement type.
SqlContributionNoTransfer(type, quantity) ==
    CASE type = "IN"         -> quantity
      [] type = "OUT"        -> -quantity
      [] type = "ADJUSTMENT" -> quantity
      [] OTHER               -> 0

\* What a row adds to the stock in SQL: the CASE of the repository's queries
\* and of the view, which the domain's StockDelta has to agree with.
SqlContribution(type, quantity) ==
    CASE type = "IN"         -> quantity
      [] type = "OUT"        -> -quantity
      [] type = "ADJUSTMENT" -> quantity
      [] type = "TRANSFER"   -> -quantity
      [] OTHER               -> 0

\* The condition under which validate_stock_not_negative raises
\* InsufficientStockError.
Insufficient(type, quantity, current) ==
    current + StockDelta(type, quantity) < 0
=============================================================================

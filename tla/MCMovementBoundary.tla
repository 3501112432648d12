------------------------- MODULE MCMovementBoundary -------------------------
(***************************************************************************)
(* MovementBoundary with integers of a width of two and a seed of one row  *)
(* that the API would not take.                                            *)
(***************************************************************************)
EXTENDS MovementBoundary

OneProduct == {1}
Unknown == 2
TooWide == 9  \* beyond both widths
TooLow == -10 \* below the least BIGINT

Row(type, quantity, keys) ==
    [product |-> 1, type |-> type, quantity |-> quantity, keys |-> keys]

SeedTransfer == <<Row("TRANSFER", 1, {"from", "to"})>>
SeedDelivery == Row("IN", 1, {})

KeySets == {{}, {"origin"}, {"origin", "destination"}, {"reason"}}

\* Every combination of type, quantity around both bounds and metadata, and
\* the products and forms that are refused.
Combinations ==
    [product : OneProduct, type : MovementTypes \cup {"unknown"},
     quantity : {0, 1, 2, 3}, keys : KeySets, form : {"good"}]
Outliers ==
    [product : {0, 1, Unknown, TooWide}, type : {"IN"}, quantity : {1},
     keys : {{}}, form : {"good", "malformed", "unstorable"}]
ManyBodies == Combinations \cup Outliers

IdsAndPages ==
    [id : {TooLow, 0, 1, 2, 3, TooWide}]
        \cup [product : {TooLow, 1, Unknown, TooWide}, limit : {0, 1, 2}, offset : {-1, 0, 1, TooWide}]
=============================================================================

------------------------------ MODULE MCCatalog ------------------------------
(***************************************************************************)
(* Catalog on small instances.                                             *)
(***************************************************************************)
EXTENDS Catalog, TLC

CONSTANTS r1, r2, r3

\* One category exists, and a request may make the second; two SKUs, one of
\* them asked for in both categories.
NewCategory == [table |-> "categories", unique |-> "tools"]
NewProduct(sku, category) ==
    [table |-> "products", unique |-> sku, category |-> category]
CreateBodies ==
    {NewCategory, NewProduct("A", 1), NewProduct("A", 2), NewProduct("B", 2)}

DrawnBefore == [categories |-> 1, products |-> 2]

Interchangeable == Permutations(Requests)
=============================================================================

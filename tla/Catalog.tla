------------------------------- MODULE Catalog -------------------------------
(***************************************************************************)
(* Concurrent POST /v1/categories and POST /v1/products, and a client that *)
(* walks the pages of GET /v1/products (PagedListing, whose keys are here  *)
(* product ids).  The use cases look before they insert, in statements of  *)
(* their own; uniqueness and the foreign key are left to PostgreSQL.       *)
(***************************************************************************)
EXTENDS PagedListing

CONSTANTS
    Requests,           \* POST requests in flight
    Bodies,             \* bodies that passed the DTOs
    InitialCategories,  \* ids of categories that are there before Init
    InitialDrawn,       \* last id drawn before Init, of each table
    MaxFaults           \* bound: database errors per behaviour

ASSUME CatalogAssumption ==
    /\ InitialDrawn \in [{"categories", "products"} -> Nat]
    /\ InitialCategories \subseteq 1 .. InitialDrawn["categories"]
    /\ InitialRows \subseteq 1 .. InitialDrawn["products"]
    /\ MaxFaults \in Nat
    \* "unique" is the name of a category or the SKU of a product; "category"
    \* is the category_id of a product.
    /\ \A b \in Bodies :
          \/ b \in [table : {"categories"}, unique : {b.unique}]
          \/ b \in [table : {"products"}, unique : {b.unique},
                    category : Nat \ {0}]

VARIABLES
    body,        \* of each request
    pc,          \* of each request: see CatalogStages
    answer,      \* HTTP status decided for each request, 0 before
    idOf,        \* id that the identity column drew for the row, 0 before
    categories,  \* ids of the committed categories
    drawn,       \* last id drawn from the identity column of each table
    faults       \* database errors so far

creation == <<body, pc, answer, idOf, categories, drawn, faults>>
vars == <<listVars, creation>>

CatalogStages == {"new", "get_category", "insert", "inserting", "done"}
Tables == {"categories", "products"}

IsProduct(r) == body[r].table = "products"

TableOf(r) == IF IsProduct(r) THEN rows ELSE categories
Recorded(r) == idOf[r] # 0 /\ idOf[r] \in TableOf(r)

\* Two bodies that a UNIQUE constraint does not let in together.
Clash(r, s) ==
    /\ r # s
    /\ body[r].table = body[s].table
    /\ body[r].unique = body[s].unique

Duplicate(r) == \E s \in Requests : Clash(r, s) /\ Recorded(s)

Init ==
    /\ ListInit
    /\ body \in [Requests -> Bodies]
    /\ pc = [r \in Requests |-> "new"]
    /\ answer = [r \in Requests |-> 0]
    /\ idOf = [r \in Requests |-> 0]
    /\ categories = InitialCategories
    /\ drawn = InitialDrawn
    /\ faults = 0

Goto(r, next) == pc' = [pc EXCEPT ![r] = next]
Answer(r, status) == answer' = [answer EXCEPT ![r] = status] /\ Goto(r, "done")

\* The router hands the body to the use case of its table.
Arrive(r) ==
    /\ pc[r] = "new"
    /\ Goto(r, IF IsProduct(r) THEN "get_category" ELSE "insert")
    /\ UNCHANGED <<listVars, body, answer, idOf, categories, drawn, faults>>

\* Mutant: the category is looked up and the result is not used.
GetCategoryUnchecked(r) ==
    /\ pc[r] = "get_category"
    /\ Goto(r, "insert")
    /\ UNCHANGED <<listVars, body, answer, idOf, categories, drawn, faults>>

\* category_repo.get_by_id; CategoryNotFoundError is answered 400.
GetCategory(r) ==
    /\ pc[r] = "get_category"
    /\ IF body[r].category \in categories
       THEN Goto(r, "insert") /\ UNCHANGED answer
       ELSE Answer(r, 400)
    /\ UNCHANGED <<listVars, body, idOf, categories, drawn, faults>>

\* Mutant: the id is what the column will draw next, not drawn.
StartInsertPeeks(r) ==
    /\ pc[r] = "insert"
    /\ idOf' = [idOf EXCEPT ![r] = drawn[body[r].table] + 1]
    /\ Goto(r, "inserting")
    /\ UNCHANGED <<listVars, body, answer, categories, drawn, faults>>

\* The INSERT starts and draws its id, which is spent whatever comes of it.
StartInsert(r) ==
    /\ pc[r] = "insert"
    /\ drawn' = [drawn EXCEPT ![body[r].table] = @ + 1]
    /\ idOf' = [idOf EXCEPT ![r] = drawn[body[r].table] + 1]
    /\ Goto(r, "inserting")
    /\ UNCHANGED <<listVars, body, answer, categories, faults>>

\* The row becomes visible.
Record(r) ==
    IF IsProduct(r) THEN Insert(idOf[r]) /\ UNCHANGED categories
                    ELSE /\ categories' = categories \cup {idOf[r]}
                         /\ UNCHANGED listVars

ForeignKeyHolds(r) == IsProduct(r) => body[r].category \in categories

\* Mutant: INSERT ... ON CONFLICT DO UPDATE, which returns the row in place.
CreateUpserts(r) ==
    /\ pc[r] = "inserting"
    /\ ForeignKeyHolds(r)
    /\ IF Duplicate(r) THEN UNCHANGED <<listVars, categories>> ELSE Record(r)
    /\ Answer(r, 201)
    /\ UNCHANGED <<body, idOf, drawn, faults>>

\* The INSERT ends.  Another one with the same unique value that is under way
\* makes it wait; whichever commits first wins.
Create(r) ==
    /\ pc[r] = "inserting"
    /\ ~Duplicate(r)
    /\ ForeignKeyHolds(r)
    /\ Record(r)
    /\ Answer(r, 201)
    /\ UNCHANGED <<body, idOf, drawn, faults>>

\* UniqueViolationError or ForeignKeyViolationError: no handler of their own,
\* so the one of asyncpg.PostgresError answers 500.
Refuse(r) ==
    /\ pc[r] = "inserting"
    /\ Duplicate(r) \/ ~ForeignKeyHolds(r)
    /\ Answer(r, 500)
    /\ UNCHANGED <<listVars, body, idOf, categories, drawn, faults>>

Fault == faults < MaxFaults /\ faults' = faults + 1

\* A statement raises and had no effect.
StatementFails(r) ==
    /\ pc[r] \in {"get_category", "inserting"}
    /\ Fault
    /\ Answer(r, 500)
    /\ UNCHANGED <<listVars, body, idOf, categories, drawn>>

\* The connection is lost after the row was committed.
ReplyLost(r) ==
    /\ pc[r] = "inserting"
    /\ ~Duplicate(r) /\ ForeignKeyHolds(r)
    /\ Fault
    /\ Record(r)
    /\ Answer(r, 500)
    /\ UNCHANGED <<body, idOf, drawn>>

CreationStep(r) ==
    \/ Arrive(r) \/ GetCategory(r) \/ StartInsert(r) \/ Create(r) \/ Refuse(r)
    \/ StatementFails(r) \/ ReplyLost(r)

Next ==
    \/ \E r \in Requests : CreationStep(r)
    \/ WalkNext /\ UNCHANGED creation

Spec == Init /\ [][Next]_vars

-----------------------------------------------------------------------------
\* Type invariant; no row has an id that its identity column has not drawn.
CatalogTypeOK ==
    /\ ListTypeOK
    /\ body \in [Requests -> Bodies]
    /\ pc \in [Requests -> CatalogStages]
    /\ answer \in [Requests -> {0, 201, 400, 500}]
    /\ drawn \in [Tables -> Nat]
    /\ idOf \in [Requests -> Nat]
    /\ \A r \in Requests : idOf[r] \in 0 .. drawn[body[r].table]
    /\ categories \subseteq 1 .. drawn["categories"]
    /\ rows \subseteq 1 .. drawn["products"]
    /\ faults \in 0 .. MaxFaults

\* Of the requests for one SKU, or one category name, at most one is told 201
\* and at most one has a row, and it is the same one unless its reply was
\* lost: nobody is told 201 for a row that is another's.
CreatedOnce ==
    \A r \in Requests :
        /\ answer[r] = 201 => Recorded(r)
        /\ Recorded(r) => \A s \in Requests : Clash(r, s) => ~Recorded(s)
        /\ answer[r] = 400 => ~Recorded(r)

\* The category that a product's request looked up is still there when its
\* INSERT runs, statements later: the foreign key refuses nobody, and 500
\* without a database error means a duplicate.
CategoryIsStillThere ==
    \A r \in Requests : pc[r] \in {"insert", "inserting"} => ForeignKeyHolds(r)
=============================================================================

-------------------------- MODULE MovementBoundary --------------------------
(***************************************************************************)
(* The layers a movement passes on its way into the table and out again:   *)
(* DTO, entity, column, mapper.  Each checks what it needs by rules of its *)
(* own, written down again, and the seed script passes none but the table. *)
(*                                                                         *)
(* One request at a time; how requests race is in RecordMovement, and how  *)
(* the total of a list is counted in PagedListing.                         *)
(***************************************************************************)
EXTENDS StockRules, FiniteSets, FiniteSetsExt, SequencesExt

CONSTANTS
    Bodies,     \* bodies that clients send: see BodyShape
    Products,   \* ids of the rows of products
    SeedRows,   \* movements that 007_seed_data.sql inserts
    FirstSeed,  \* the one it only inserts into an empty table
    MaxInteger, \* largest value of an INTEGER column
    MaxBigint,  \* largest value of a BIGINT column
    Questions,  \* parameters of GET requests: see QuestionShape
    MaxRows     \* bound: rows of movements

MetadataKeys == {"origin", "destination", "reason", "from", "to"}

\* "malformed" stands for what the DTO refuses by the form of a field (a value of
\* another JSON type, a field it does not know, a reference of more than 255
\* characters), and "unstorable" for text that it takes and PostgreSQL does
\* not: a NUL in a string, or NaN in the metadata.
BodyShape ==
    [product : Int, type : MovementTypes \cup {"unknown"}, quantity : Int,
     keys : SUBSET MetadataKeys, form : {"good", "malformed", "unstorable"}]

RowShape ==
    [product : Products, type : MovementTypes, quantity : 1 .. MaxInteger,
     keys : SUBSET MetadataKeys]

\* A GET by id, or a page of a product.
QuestionShape ==
    [id : Int] \cup [product : Int, limit : Int, offset : Int]

ASSUME BoundaryAssumption ==
    /\ Bodies \subseteq BodyShape
    /\ MaxInteger \in Nat \ {0} /\ MaxBigint \in Nat
    /\ Products \subseteq 1 .. MaxBigint
    /\ SeedRows \in Seq(RowShape) /\ FirstSeed \in RowShape
    /\ Questions \subseteq QuestionShape
    /\ MaxRows \in Nat

VARIABLES
    rows,      \* the movements table, a row at the place of its id
    mv,        \* rows of mv_stock_historical: product -> current_stock
    recorded,  \* history: ids of the rows that a POST inserted
    answer     \* to the last request, and the ids it was about

vars == <<rows, mv, recorded, answer>>

Init ==
    /\ rows = <<>>
    /\ \E shown \in SUBSET Products : mv = [p \in shown |-> 0]
    /\ recorded = {}
    /\ answer = [request |-> "none", error |-> "none", ids |-> {}]

-----------------------------------------------------------------------------
\* Mutant: the DTO asks for the origin of a transfer only.
DtoRequiresOrigin(type) ==
    CASE type = "TRANSFER"   -> {"origin"}
      [] type = "ADJUSTMENT" -> {"reason"}
      [] OTHER               -> {}

\* Metadata that CreateMovementInput asks for, by a copy of the entity's rule.
DtoRequires(type) ==
    CASE type = "TRANSFER"   -> {"origin", "destination"}
      [] type = "ADJUSTMENT" -> {"reason"}
      [] OTHER               -> {}

\* CreateMovementInput.  The quantity has a lower bound and no upper one.
DtoAccepts(body) ==
    /\ body.form # "malformed"
    /\ body.product > 0
    /\ body.quantity > 0
    /\ body.type \in MovementTypes
    /\ DtoRequires(body.type) \subseteq body.keys

\* Metadata that validate_movement_type_consistency asks for.
EntityRequires(type) ==
    CASE type = "TRANSFER"   -> {"origin", "destination"}
      [] type = "ADJUSTMENT" -> {"reason"}
      [] OTHER               -> {}

\* The invariant of the value object Quantity.
QuantityHolds(quantity) == quantity > 0

\* What building the entity raises: Quantity first, then Movement.
EntityError(type, quantity, keys) ==
    IF ~QuantityHolds(quantity) THEN "InvalidQuantity"
    ELSE IF ~(EntityRequires(type) \subseteq keys) THEN "ValueError"
    ELSE "none"

\* Mutant: the column takes what the DTO takes.
ColumnTakesAnyQuantity(body) == body.form # "unstorable" /\ body.quantity > 0

\* quantity INTEGER CHECK (quantity > 0), and text that PostgreSQL can store.
ColumnTakes(body) ==
    body.form # "unstorable" /\ body.quantity \in 1 .. MaxInteger

\* Mutant: only a dict is taken for metadata, and asyncpg gives JSONB as text.
MetadataOfDict(row) == {}

\* json.dumps, JSONB, and json.loads of the text that asyncpg gives back: a
\* key survives, whatever its value.
Metadata(row) == row.keys

\* What map_movement_row raises.
MapperError(row) == EntityError(row.type, row.quantity, Metadata(row))

\* The answers of the error handlers and of FastAPI itself; 200 stands for 201
\* as well.  A ValueError is answered 400 because the entity is on its
\* traceback, whoever built the entity.
StatusOf ==
    [none |-> 200, ValueError |-> 400, ProductNotFound |-> 400, NotFound |-> 404,
     InsufficientStock |-> 409, RequestValidation |-> 422,
     InvalidQuantity |-> 422, DataError |-> 500]

-----------------------------------------------------------------------------
RowsOf(product) == {id \in DOMAIN rows : rows[id].product = product}

Stock(product) ==
    LET Contribution(id) == SqlContribution(rows[id].type, rows[id].quantity)
    IN  MapThenSumSet(Contribution, RowsOf(product))

\* What the fail-fast check believes: the row of the view, however old, or the
\* sum for a product that it does not show.
ViewedStock(product) == IF product \in DOMAIN mv THEN mv[product] ELSE Stock(product)

Overdraws(body, current) ==
    Reduces(body.type) /\ Insufficient(body.type, body.quantity, current)

\* asyncpg itself refuses a number that is out of the range of its parameter.
FitsBigint(number) == number \in -MaxBigint - 1 .. MaxBigint

Answer(request, error, ids) ==
    answer' = [request |-> request, error |-> error, ids |-> ids]

\* What create_movement raises before the INSERT has taken effect, in the order
\* in which it finds out: the entity is built between the two validations of
\* the stock.
Refusal(body) ==
    LET entity == EntityError(body.type, body.quantity, body.keys)
    IN  IF ~DtoAccepts(body) THEN "RequestValidation"
        ELSE IF ~FitsBigint(body.product) THEN "DataError"
        ELSE IF body.product \notin Products THEN "ProductNotFound"
        ELSE IF Overdraws(body, ViewedStock(body.product)) THEN "InsufficientStock"
        ELSE IF entity # "none" THEN entity
        ELSE IF Overdraws(body, Stock(body.product)) THEN "InsufficientStock"
        ELSE IF ~ColumnTakes(body) THEN "DataError"
        ELSE "none"

Refuse(body) ==
    /\ Refusal(body) # "none"
    /\ Answer("post", Refusal(body), {})
    /\ UNCHANGED <<rows, mv, recorded>>

\* The INSERT commits by itself, and only then is the row it returns mapped.
\* Ids that failed INSERTs have drawn are left out.
Create(body) ==
    LET id  == Len(rows) + 1
        row == [product |-> body.product, type |-> body.type,
                quantity |-> body.quantity, keys |-> body.keys]
    IN  /\ Refusal(body) = "none"
        /\ id <= MaxRows
        /\ rows' = Append(rows, row)
        /\ recorded' = recorded \cup {id}
        /\ Answer("post", MapperError(row), {id})
        /\ UNCHANGED mv

\* 007_seed_data.sql, which migrate.py runs and seed.py may run again: the guard
\* of its end belongs to one of the SELECTs.
Seed ==
    LET batch == IF rows = <<>> THEN Append(SeedRows, FirstSeed) ELSE SeedRows
    IN  /\ Len(rows) + Len(batch) <= MaxRows
        /\ rows' = rows \o batch
        /\ Answer("seed", "none", {})
        /\ UNCHANGED <<mv, recorded>>

\* The scheduler refreshes the view, at any time.
Refresh ==
    /\ mv' = [p \in Products |-> Stock(p)]
    /\ UNCHANGED <<rows, recorded, answer>>

\* GET /v1/movements/{movement_id}
GetMovement(question) ==
    LET id == question.id
    IN  /\ "id" \in DOMAIN question
        /\ \/ /\ ~FitsBigint(id)
              /\ Answer("get", "DataError", {})
           \/ /\ FitsBigint(id) /\ id \notin DOMAIN rows
              /\ Answer("get", "NotFound", {})
           \/ /\ id \in DOMAIN rows
              /\ Answer("get", MapperError(rows[id]), {id})
        /\ UNCHANGED <<rows, mv, recorded>>

\* How many of n rows LIMIT and OFFSET leave.
PageSize(n, limit, offset) ==
    IF offset >= n THEN 0 ELSE IF n - offset < limit THEN n - offset ELSE limit

\* GET /v1/movements: one row that cannot be mapped fails the page.  Rows are
\* ordered by created_at, which does not follow their ids and is the same for
\* all of a seed, so a page of the right size may hold any of them.
ListMovements(question) ==
    LET own   == RowsOf(question.product)
        size  == PageSize(Cardinality(own), question.limit, question.offset)
        valid == question.limit \in 1 .. 1000 /\ question.offset >= 0
        fits  == FitsBigint(question.product) /\ FitsBigint(question.offset)
    IN  /\ "product" \in DOMAIN question
        /\ \/ /\ ~valid
              /\ Answer("list", "RequestValidation", {})
           \/ /\ valid /\ ~fits
              /\ Answer("list", "DataError", {})
           \/ /\ valid /\ fits
              /\ \E page \in kSubset(size, own) :
                    \/ /\ \A id \in page : MapperError(rows[id]) = "none"
                       /\ Answer("list", "none", page)
                    \/ \E id \in page :
                          /\ MapperError(rows[id]) # "none"
                          /\ Answer("list", MapperError(rows[id]), page)
        /\ UNCHANGED <<rows, mv, recorded>>

Next ==
    \/ Seed \/ Refresh
    \/ \E body \in Bodies : Refuse(body) \/ Create(body)
    \/ \E question \in Questions : GetMovement(question) \/ ListMovements(question)

Spec == Init /\ [][Next]_vars

-----------------------------------------------------------------------------
\* Type invariant.
BoundaryTypeOK ==
    /\ rows \in Seq(RowShape) /\ Len(rows) <= MaxRows
    /\ DOMAIN mv \subseteq Products
    /\ recorded \subseteq DOMAIN rows
    /\ answer.request \in {"none", "post", "seed", "get", "list"}
    /\ answer.error \in DOMAIN StatusOf
    /\ answer.ids \subseteq DOMAIN rows

\* The rules that stand behind the DTO never refuse what it let through:
\* movement_consistency.py:3-4 calls itself the only source of truth, and the
\* DTO has a copy.  Where they differ, a request would be refused after its
\* product and stock had been read, and with another answer.
DtoDecides ==
    answer.request = "post" => answer.error \notin {"InvalidQuantity", "ValueError"}

\* A client that is told an error, be it of a rule or of the width of a column,
\* has added nothing to the table: although the row is mapped, by rules that
\* refuse some rows, after it was committed, and a quantity has no upper bound
\* before the column.
RefusalLeavesNoRow ==
    [][answer'.request = "post" /\ answer'.error # "none" => rows' = rows]_vars

\* What POST recorded can be read back.  An answer 400 to a GET, which no
\* parameter explains, means that a row of the seed script is on the page; the
\* other rows of that page are withheld with it.
UnreadableOnlyFromSeed ==
    answer.request \in {"get", "list"} /\ StatusOf[answer.error] = 400 =>
        ~(answer.ids \subseteq recorded)
=============================================================================

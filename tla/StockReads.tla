----------------------------- MODULE StockReads -----------------------------
(***************************************************************************)
(* GET /v1/stock/{product_id}/current while the view is refreshed.  The    *)
(* answer is the view's row of the product or, when it has none, the sum   *)
(* of a second statement; the movements counted are those of one product,  *)
(* which a request may name before it exists.                              *)
(***************************************************************************)
EXTENDS RefreshScheduler, FiniteSetsExt

VARIABLES
    created,   \* the product is in products
    listed,    \* the view has a row of the product
    listedIn,  \* so has the snapshot of each instance
    query,     \* the statement the request runs next, "none" between requests
    stock,     \* the last answer: how many movements it accounts for
    source,    \* where it came from
    floor      \* history: what the request could count on when it came

catalog == <<created, listed, listedIn>>
request == <<query, stock, source, floor>>
readsVars == <<vars, catalog, request>>

ReadsInit ==
    /\ Init
    /\ created = FALSE
    /\ listed = FALSE
    /\ listedIn = [j \in Instances |-> FALSE]
    /\ query = "none"
    /\ stock = 0
    /\ source = "none"
    /\ floor = 0

-----------------------------------------------------------------------------
\* The database, with the product's row next to its movements.

CreateProduct ==
    /\ ~created
    /\ created' = TRUE
    /\ UNCHANGED <<vars, listed, listedIn, request>>

\* The foreign key: no movement before its product.
InsertMovement == Insert /\ created /\ UNCHANGED catalog

\* The view's LEFT JOIN has a row for every product of its snapshot.
FillView == CreateView /\ listed' = created /\ UNCHANGED <<created, listedIn>>

ReadSnapshot(j) ==
    /\ Execute(j)
    /\ listedIn' = [listedIn EXCEPT ![j] = created]
    /\ UNCHANGED <<created, listed>>

InstallSnapshot(j) ==
    /\ Succeed(j)
    /\ listed' = listedIn[j]
    /\ UNCHANGED <<created, listedIn>>

\* A lost connection leaves all of the snapshot in the view, or nothing.
LoseStatement(j) ==
    /\ StatementFails(j)
    /\ \/ view' = view /\ UNCHANGED listed
       \/ /\ lastError'[j] = "ConnectionError"
          /\ view' = snapshot[j] /\ listed' = listedIn[j]
    /\ UNCHANGED <<created, listedIn>>

DatabaseStep ==
    /\ \/ InsertMovement \/ FillView
       \/ \E j \in Instances :
             ReadSnapshot(j) \/ InstallSnapshot(j) \/ LoseStatement(j)
       \/ /\ \/ StartScheduler
             \/ \E j \in Instances :
                   Tick(j) \/ SkipMissingView(j) \/ Wake(j) \/ AcquireFails(j)
          /\ UNCHANGED catalog
    /\ UNCHANGED request

-----------------------------------------------------------------------------
\* The request.

InView == viewExists /\ listed

\* What a request may not fall behind: the view if it lists the product, else
\* the oldest snapshot that could still list it.
Reliable ==
    IF InView THEN view
    ELSE Min({movements} \cup
             {snapshot[j] : j \in {i \in Instances : phase[i] = "executing"}})

Ask ==
    /\ query = "none"
    /\ query' = "view"
    /\ floor' = Reliable
    /\ UNCHANGED <<vars, catalog, stock, source>>

AnswerWith(count, from) ==
    /\ query' = "none"
    /\ stock' = count
    /\ source' = from
    /\ UNCHANGED floor

\* Mutant: a product without a row is taken to have no movements.
QueryViewMissingIsZero ==
    /\ query = "view"
    /\ AnswerWith(IF InView THEN view ELSE 0, "view")
    /\ UNCHANGED <<vars, catalog>>

\* The view, or UndefinedTableError, or no row.
QueryView ==
    /\ query = "view"
    /\ IF InView THEN AnswerWith(view, "view")
                 ELSE query' = "direct" /\ UNCHANGED <<stock, source, floor>>
    /\ UNCHANGED <<vars, catalog>>

QueryDirect ==
    /\ query = "direct"
    /\ AnswerWith(movements, "table")
    /\ UNCHANGED <<vars, catalog>>

\* Any other error of either statement: the request is answered 500.
QueryFails ==
    /\ query # "none"
    /\ query' = "none"
    /\ floor' = 0
    /\ UNCHANGED <<vars, catalog, stock, source>>

ReadsNext ==
    CreateProduct \/ DatabaseStep \/ Ask \/ QueryView \/ QueryDirect \/ QueryFails

ReadsSpec == ReadsInit /\ [][ReadsNext]_readsVars

\* Nothing more is asked of clients than in RefreshScheduler.
ReadsFairSpec == ReadsSpec /\ Fairness

-----------------------------------------------------------------------------
\* query_current_stock.py, stock_query_repository.py:98-100: an answer misses
\* at most the movements recorded since the start of the refresh whose result
\* the view showed, or that was running, when the request came; with no row to
\* be had, none that was recorded before the request.
AnswersKeepUp == query = "none" => floor <= stock /\ stock <= movements

\* A client that asks again may be told less than before, once: when its first
\* answer was the sum and the product has got its row meanwhile, from an older
\* snapshot.  Answers that come from the view never go back, and never come
\* from the sum again.
ReadsGoBackOnce ==
    [][/\ stock' < stock => source = "table" /\ source' = "view"
       /\ source = "view" => source' = "view"]_readsVars
=============================================================================

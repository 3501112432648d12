---------------------------- MODULE PagedListing ----------------------------
(***************************************************************************)
(* GET /v1/products and GET /v1/movements: pages by LIMIT and OFFSET over  *)
(* rows in key order, and the total, read in a statement of its own.  A    *)
(* client walks the pages while others insert.                             *)
(*                                                                         *)
(* Rows are listed by id (products) or by created_at backwards (movements  *)
(* of one product).  Either way the key is drawn before the row is visible *)
(* and rows become visible in any order, so an insert may put its row at   *)
(* any place of the list.  No row is ever deleted.                         *)
(***************************************************************************)
EXTENDS Integers, FiniteSets

CONSTANTS
    Keys,         \* what rows are ordered by, smaller is listed earlier
    InitialRows,  \* rows that are there before Init
    Limits        \* values of the limit query parameter

ASSUME ListingAssumption ==
    /\ Keys \subseteq Int
    /\ InitialRows \subseteq Keys
    /\ IsFiniteSet(InitialRows)
    /\ Limits \subseteq Nat \ {0}

VARIABLES
    rows,       \* keys of the committed rows
    stage,      \* of the client's walk: see Stages
    limit,      \* query parameters of its request
    offset,
    page,       \* keys of the items that the first statement returned
    total,      \* what the second statement counted
    shown,      \* keys of the items of all answered pages
    atStart     \* history: rows when the first page was read

walk == <<stage, limit, offset, page, total, shown, atStart>>
listVars == <<rows, walk>>

ListStages == {"idle", "listing", "counting", "answered", "complete"}

ListInit ==
    /\ rows = InitialRows
    /\ stage = "idle"
    /\ limit = 0
    /\ offset = 0
    /\ page = {}
    /\ total = 0
    /\ shown = {}
    /\ atStart = {}

\* Number of rows of R that ORDER BY puts before key.
Position(key, R) == Cardinality({k \in R : k < key})

\* A row becomes visible.
Insert(key) ==
    /\ key \in Keys \ rows
    /\ rows' = rows \cup {key}
    /\ UNCHANGED walk

\* The client asks for the first page.
StartWalk ==
    /\ stage \in {"idle", "complete"}
    /\ stage' = "listing"
    /\ limit' \in Limits
    /\ offset' = 0
    /\ page' = {} /\ total' = 0 /\ shown' = {} /\ atStart' = {}
    /\ UNCHANGED rows

\* Mutant: OFFSET is taken for the number of the last row to skip.
PageOffByOne(R, lim, off) ==
    {key \in R : Position(key, R) > off /\ Position(key, R) <= off + lim}

\* LIMIT lim OFFSET off over R in key order.
Page(R, lim, off) ==
    {key \in R : Position(key, R) >= off /\ Position(key, R) < off + lim}

ListRows ==
    /\ stage = "listing"
    /\ stage' = "counting"
    /\ page' = Page(rows, limit, offset)
    /\ atStart' = IF offset = 0 THEN rows ELSE atStart
    /\ UNCHANGED <<rows, limit, offset, total, shown>>

\* Mutant: the rows that OFFSET skips are not counted.
CountRest ==
    /\ stage = "counting"
    /\ stage' = "answered"
    /\ total' = Cardinality({key \in rows : Position(key, rows) >= offset})
    /\ shown' = shown \cup page
    /\ UNCHANGED <<rows, limit, offset, page, atStart>>

\* SELECT COUNT(*), and the answer with both.
CountRows ==
    /\ stage = "counting"
    /\ stage' = "answered"
    /\ total' = Cardinality(rows)
    /\ shown' = shown \cup page
    /\ UNCHANGED <<rows, limit, offset, page, atStart>>

\* The second statement fails: the items are thrown away with it, and the
\* client asks for the same page again.
CountFails ==
    /\ stage = "counting"
    /\ stage' = "listing"
    /\ page' = {}
    /\ UNCHANGED <<rows, limit, offset, total, shown, atStart>>

\* The client believes the total.
NextPage ==
    /\ stage = "answered"
    /\ offset + limit < total
    /\ stage' = "listing"
    /\ offset' = offset + limit
    /\ page' = {}
    /\ UNCHANGED <<rows, limit, total, shown, atStart>>

EndWalk ==
    /\ stage = "answered"
    /\ offset + limit >= total
    /\ stage' = "complete"
    /\ UNCHANGED <<rows, limit, offset, page, total, shown, atStart>>

WalkNext ==
    StartWalk \/ ListRows \/ CountRows \/ CountFails \/ NextPage \/ EndWalk

ListNext == WalkNext \/ \E key \in Keys : Insert(key)

ListSpec == ListInit /\ [][ListNext]_listVars

-----------------------------------------------------------------------------
\* Type invariant.
ListTypeOK ==
    /\ rows \subseteq Keys /\ IsFiniteSet(rows)
    /\ stage \in ListStages
    /\ limit \in Nat /\ offset \in Nat /\ total \in Nat
    /\ page \subseteq rows /\ shown \subseteq rows /\ atStart \subseteq rows

\* A walk that stops where the total says shows every row that was there when
\* it began, although each page is a statement of its own and rows are
\* inserted anywhere in between.  Rows may be shown twice, and those that
\* come later may be missed.
WalkMissesNothing == stage = "complete" => atStart \subseteq shown

\* The total of an answer is never less than what its page shows, although it
\* is counted in another statement.
TotalCoversPage ==
    stage = "answered" /\ page # {} => offset + Cardinality(page) <= total
=============================================================================

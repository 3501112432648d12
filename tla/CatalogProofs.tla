---------------------------- MODULE CatalogProofs ----------------------------
(***************************************************************************)
(* What concurrent creation promises for any number of requests and any    *)
(* bodies, and that it only ever inserts into the list that is walked.     *)
(***************************************************************************)
EXTENDS Catalog, PagedListingProofs

\* The id of a request: none before its INSERT, one of its own afterwards,
\* that no row has until the INSERT ends.
IdsAreOwn ==
    /\ \A r \in Requests :
          /\ pc[r] \in {"new", "get_category", "insert"} => idOf[r] = 0
          /\ pc[r] = "inserting" => idOf[r] # 0 /\ ~Recorded(r)
    /\ \A r, s \in Requests :
          r # s /\ body[r].table = body[s].table /\ idOf[r] # 0 => idOf[r] # idOf[s]

\* A request has no answer before its end.
UndecidedBeforeEnd == \A r \in Requests : pc[r] # "done" => answer[r] = 0

CatalogInv ==
    CatalogTypeOK /\ IdsAreOwn /\ UndecidedBeforeEnd /\ CreatedOnce
    /\ CategoryIsStillThere

-----------------------------------------------------------------------------
\* Types that CatalogTypeOK leaves implicit.
LEMMA CatalogTypes ==
    ASSUME CatalogTypeOK
    PROVE  /\ \A r \in Requests :
                 /\ body[r].table \in Tables
                 /\ IsProduct(r) => body[r].category \in Nat \ {0}
                 /\ idOf[r] \in Nat
           /\ drawn["categories"] \in Nat /\ drawn["products"] \in Nat
           /\ \A r \in Requests : TableOf(r) \subseteq 1 .. drawn[body[r].table]
  <1>1. ASSUME NEW r \in Requests
        PROVE  /\ body[r].table \in Tables
               /\ IsProduct(r) => body[r].category \in Nat \ {0}
    <2>1. body[r] \in Bodies
      BY DEF CatalogTypeOK
    <2> QED
      BY <2>1, CatalogAssumption DEF IsProduct, Tables
  <1>2. /\ drawn \in [Tables -> Nat]
        /\ categories \subseteq 1 .. drawn["categories"]
        /\ rows \subseteq 1 .. drawn["products"]
        /\ \A r \in Requests : idOf[r] \in 0 .. drawn[body[r].table]
    BY DEF CatalogTypeOK
  <1>3. drawn["categories"] \in Nat /\ drawn["products"] \in Nat
    BY <1>2 DEF Tables
  <1>4. ASSUME NEW r \in Requests PROVE idOf[r] \in Nat
    BY <1>1, <1>2
  <1>5. ASSUME NEW r \in Requests
        PROVE  TableOf(r) \subseteq 1 .. drawn[body[r].table]
    BY <1>1, <1>2 DEF TableOf, IsProduct, Tables
  <1> QED
    BY <1>1, <1>3, <1>4, <1>5

\* Whatever creation does to the list is an insert or nothing.
LEMMA CreationInserts == [Next]_vars => [ListNext]_listVars
  <1> SUFFICES ASSUME [Next]_vars PROVE [ListNext]_listVars
    OBVIOUS
  <1>1. ASSUME NEW r \in Requests, Record(r) PROVE [ListNext]_listVars
    BY <1>1 DEF Record, ListNext, Insert
  <1>2. ASSUME NEW r \in Requests, CreationStep(r) PROVE [ListNext]_listVars
    BY <1>1, <1>2
       DEF CreationStep, Arrive, GetCategory, StartInsert, Create, Refuse,
           StatementFails, ReplyLost
  <1>3. CASE WalkNext
    BY <1>3 DEF ListNext
  <1>4. CASE UNCHANGED vars
    BY <1>4 DEF vars
  <1> QED
    BY <1>2, <1>3, <1>4 DEF Next

\* When the INSERT of r takes effect, r has a row and nothing else changes
\* for the others.
LEMMA RecordAddsOne ==
    ASSUME CatalogInv, NEW r \in Requests, pc[r] = "inserting", Record(r),
           UNCHANGED <<body, idOf, drawn>>
    PROVE  /\ \A s \in Requests : Recorded(s)' <=> s = r \/ Recorded(s)
           /\ \A s \in Requests : ForeignKeyHolds(s) => ForeignKeyHolds(s)'
           /\ rows' \subseteq 1 .. drawn["products"]
           /\ categories' \subseteq 1 .. drawn["categories"]
  <1> USE DEF CatalogInv
  <1>1. /\ idOf[r] # 0 /\ idOf[r] \in 1 .. drawn[body[r].table]
        /\ body[r].table \in Tables
    BY CatalogTypes DEF IdsAreOwn, CatalogTypeOK
  <1>2. \A s \in Requests :
            s # r /\ body[s].table = body[r].table => idOf[s] # idOf[r]
    BY <1>1 DEF IdsAreOwn
  <1>3. \A s \in Requests : body[s].table \in Tables
    BY CatalogTypes
  <1>4. CASE IsProduct(r)
    <2>1. rows' = rows \cup {idOf[r]} /\ categories' = categories
      BY <1>4 DEF Record, Insert
    <2>2. rows' \subseteq 1 .. drawn["products"]
          /\ categories' \subseteq 1 .. drawn["categories"]
      BY <1>1, <1>4, <2>1 DEF IsProduct, CatalogTypeOK
    <2>3. \A s \in Requests : Recorded(s)' <=> s = r \/ Recorded(s)
      BY <1>1, <1>2, <1>4, <2>1 DEF Recorded, TableOf, IsProduct
    <2>4. \A s \in Requests : ForeignKeyHolds(s) => ForeignKeyHolds(s)'
      BY <2>1 DEF ForeignKeyHolds, IsProduct
    <2> QED
      BY <2>2, <2>3, <2>4
  <1>5. CASE ~IsProduct(r)
    <2>1. rows' = rows /\ categories' = categories \cup {idOf[r]}
      BY <1>5 DEF Record, listVars
    <2>2. body[r].table = "categories"
      BY <1>1, <1>5 DEF IsProduct, Tables
    <2>3. rows' \subseteq 1 .. drawn["products"]
          /\ categories' \subseteq 1 .. drawn["categories"]
      BY <1>1, <2>1, <2>2 DEF CatalogTypeOK
    <2>4. \A s \in Requests : Recorded(s)' <=> s = r \/ Recorded(s)
      BY <1>1, <1>2, <1>3, <2>1, <2>2 DEF Recorded, TableOf, IsProduct, Tables
    <2>5. \A s \in Requests : ForeignKeyHolds(s) => ForeignKeyHolds(s)'
      BY <2>1 DEF ForeignKeyHolds, IsProduct
    <2> QED
      BY <2>3, <2>4, <2>5
  <1> QED
    BY <1>4, <1>5

\* No request has a row before Init.
LEMMA CatalogInitEstablishes == Init => CatalogInv
  <1> SUFFICES ASSUME Init PROVE CatalogInv
    OBVIOUS
  <1>1. ListTypeOK
    BY InitEstablishes DEF Init, WalkInv
  <1>2. CatalogTypeOK
    <2>1. \A r \in Requests : body[r].table \in Tables
      BY CatalogAssumption DEF Init, Tables
    <2> QED
      BY <1>1, <2>1, CatalogAssumption
         DEF Init, CatalogTypeOK, ListInit, CatalogStages, Tables
  <1>3. IdsAreOwn /\ UndecidedBeforeEnd
    BY DEF Init, IdsAreOwn, UndecidedBeforeEnd
  <1>4. CreatedOnce
    BY DEF Init, CreatedOnce, Recorded
  <1>5. CategoryIsStillThere
    BY DEF Init, CategoryIsStillThere
  <1> QED
    BY <1>2, <1>3, <1>4, <1>5 DEF CatalogInv

\* A step that adds no row, and changes of one request no more than its stage
\* and its answer, which is not 201, keeps the invariant if the new stage is
\* one the request may be in.
LEMMA QuietStep ==
    ASSUME CatalogInv, ListTypeOK', NEW r \in Requests,
           pc' \in [Requests -> CatalogStages],
           answer' \in [Requests -> {0, 201, 400, 500}],
           \A s \in Requests \ {r} : pc'[s] = pc[s] /\ answer'[s] = answer[s],
           pc'[r] \in {"get_category", "insert", "done"},
           answer'[r] # 201,
           pc'[r] # "done" => answer'[r] = 0 /\ idOf[r] = 0,
           answer'[r] = 400 => idOf[r] = 0,
           pc'[r] = "insert" => ForeignKeyHolds(r),
           UNCHANGED <<rows, body, idOf, categories, drawn>>,
           faults' \in 0 .. MaxFaults
    PROVE  CatalogInv'
  <1> USE DEF CatalogInv
  <1>1. CatalogTypeOK'
    BY DEF CatalogTypeOK
  <1>2. \A s \in Requests :
            /\ Recorded(s)' <=> Recorded(s)
            /\ ForeignKeyHolds(s)' <=> ForeignKeyHolds(s)
    BY DEF Recorded, TableOf, IsProduct, ForeignKeyHolds
  <1>3. IdsAreOwn'
    BY <1>2 DEF IdsAreOwn
  <1>4. UndecidedBeforeEnd'
    BY <1>2 DEF UndecidedBeforeEnd
  <1>5. CreatedOnce'
    BY <1>2 DEF CreatedOnce, Clash, Recorded
  <1>6. CategoryIsStillThere'
    BY <1>2 DEF CategoryIsStillThere
  <1> QED
    BY <1>1, <1>3, <1>4, <1>5, <1>6

\* In particular, an answer that tells of an error does.
LEMMA ErrorStep ==
    ASSUME CatalogInv, ListTypeOK',
           NEW r \in Requests, NEW status \in {400, 500},
           Answer(r, status),
           UNCHANGED <<listVars, body, idOf, categories, drawn>>,
           faults' \in 0 .. MaxFaults,
           status = 400 => idOf[r] = 0
    PROVE  CatalogInv'
  <1>1. /\ pc' \in [Requests -> CatalogStages] /\ pc'[r] = "done"
        /\ answer' \in [Requests -> {0, 201, 400, 500}] /\ answer'[r] = status
        /\ \A s \in Requests \ {r} : pc'[s] = pc[s] /\ answer'[s] = answer[s]
    BY DEF Answer, Goto, CatalogInv, CatalogTypeOK, CatalogStages
  <1>2. UNCHANGED <<rows, body, idOf, categories, drawn>>
    BY DEF listVars
  <1> QED
    BY <1>1, <1>2, QuietStep

\* So does the end of an INSERT that took effect, whatever its client is told.
LEMMA RecordStep ==
    ASSUME CatalogInv, ListTypeOK',
           NEW r \in Requests, NEW status \in {201, 500},
           pc[r] = "inserting", ~Duplicate(r), Record(r),
           Answer(r, status),
           UNCHANGED <<body, idOf, drawn>>,
           faults' \in 0 .. MaxFaults
    PROVE  CatalogInv'
  <1> USE DEF CatalogInv
  <1>1. /\ \A s \in Requests : Recorded(s)' <=> s = r \/ Recorded(s)
        /\ \A s \in Requests : ForeignKeyHolds(s) => ForeignKeyHolds(s)'
        /\ rows' \subseteq 1 .. drawn["products"]
        /\ categories' \subseteq 1 .. drawn["categories"]
    BY RecordAddsOne
  <1>2. \A s \in Requests :
            /\ pc'[s] = IF s = r THEN "done" ELSE pc[s]
            /\ answer'[s] = IF s = r THEN status ELSE answer[s]
    BY DEF CatalogTypeOK, Answer, Goto
  <1>3. CatalogTypeOK'
    BY <1>1 DEF CatalogTypeOK, Answer, Goto, CatalogStages
  <1>4. IdsAreOwn'
    BY <1>1, <1>2 DEF IdsAreOwn
  <1>5. UndecidedBeforeEnd'
    BY <1>2 DEF UndecidedBeforeEnd
  <1>6. CreatedOnce'
    <2>1. \A s, t \in Requests : Clash(s, t)' <=> Clash(s, t)
      BY DEF Clash
    <2>2. \A s, t \in Requests : Clash(s, t) <=> Clash(t, s)
      BY DEF Clash
    <2>3. \A s \in Requests : Clash(r, s) => s # r /\ ~Recorded(s)
      BY DEF Duplicate, Clash
    <2> QED
      BY <1>1, <1>2, <2>1, <2>2, <2>3 DEF CreatedOnce
  <1>7. CategoryIsStillThere'
    BY <1>1, <1>2 DEF CategoryIsStillThere
  <1> QED
    BY <1>3, <1>4, <1>5, <1>6, <1>7

\* The id that an INSERT draws is nobody's and no row's.
LEMMA DrawStep ==
    ASSUME CatalogInv, ListTypeOK', NEW r \in Requests, StartInsert(r)
    PROVE  CatalogInv'
  <1> USE DEF CatalogInv
  <1> DEFINE id == drawn[body[r].table] + 1
  <1>1. /\ body[r].table \in Tables /\ drawn \in [Tables -> Nat]
        /\ idOf \in [Requests -> Nat] /\ idOf[r] = 0
        /\ \A s \in Requests : idOf[s] \in 0 .. drawn[body[s].table]
        /\ \A s \in Requests : body[s].table \in Tables
        /\ TableOf(r) \subseteq 1 .. drawn[body[r].table]
    <2>1. idOf[r] = 0
      BY DEF StartInsert, IdsAreOwn
    <2> QED
      BY <2>1, CatalogTypes DEF CatalogTypeOK
  <1>2. /\ id \in Nat \ {0} /\ id \notin TableOf(r)
        /\ \A s \in Requests : body[s].table = body[r].table => idOf[s] # id
    BY <1>1
  <1>3. /\ UNCHANGED <<rows, categories, body, answer, faults>>
        /\ \A s \in Requests :
              /\ idOf'[s] = IF s = r THEN id ELSE idOf[s]
              /\ pc'[s] = IF s = r THEN "inserting" ELSE pc[s]
        /\ pc[r] = "insert"
        /\ \A t \in Tables :
              drawn'[t] = IF t = body[r].table THEN id ELSE drawn[t]
    BY <1>1 DEF StartInsert, Goto, CatalogTypeOK, listVars
  <1>4. \A s \in Requests : TableOf(s)' = TableOf(s)
    BY <1>3 DEF TableOf, IsProduct
  <1>5. \A s \in Requests : Recorded(s)' <=> Recorded(s)
    BY <1>1, <1>2, <1>3, <1>4 DEF Recorded
  <1>6. CatalogTypeOK'
    <2>1. drawn' \in [Tables -> Nat]
      BY <1>1, <1>2 DEF StartInsert
    <2>2. \A t \in Tables : drawn[t] <= drawn'[t]
      BY <1>1, <1>3
    <2>3. \A s \in Requests : idOf'[s] \in 0 .. drawn'[body'[s].table]
      BY <1>1, <1>2, <1>3, <2>1, <2>2
    <2>4. /\ categories' \subseteq 1 .. drawn'["categories"]
          /\ rows' \subseteq 1 .. drawn'["products"]
      BY <1>1, <1>3, <2>1, <2>2 DEF CatalogTypeOK, Tables
    <2> QED
      BY <1>3, <2>1, <2>3, <2>4
         DEF CatalogTypeOK, StartInsert, Goto, CatalogStages
  <1>7. IdsAreOwn'
    BY <1>1, <1>2, <1>3, <1>4, <1>5 DEF IdsAreOwn, Recorded
  <1>8. UndecidedBeforeEnd'
    BY <1>3 DEF UndecidedBeforeEnd
  <1>9. CreatedOnce'
    BY <1>3, <1>5 DEF CreatedOnce, Clash
  <1>10. CategoryIsStillThere'
    BY <1>3 DEF CategoryIsStillThere, ForeignKeyHolds, IsProduct
  <1> QED
    BY <1>6, <1>7, <1>8, <1>9, <1>10

\* Every step keeps the invariant.
LEMMA CatalogStepPreserves == CatalogInv /\ [Next]_vars => CatalogInv'
  <1> SUFFICES ASSUME CatalogInv, [Next]_vars PROVE CatalogInv'
    OBVIOUS
  <1>t. ListTypeOK'
    BY CreationInserts, TypesPreserved DEF CatalogInv, CatalogTypeOK
  <1>f. faults \in 0 .. MaxFaults /\ MaxFaults \in Nat
    BY CatalogAssumption DEF CatalogInv, CatalogTypeOK
  <1>a. /\ pc \in [Requests -> CatalogStages]
        /\ answer \in [Requests -> {0, 201, 400, 500}]
        /\ \A r \in Requests : pc[r] # "done" => answer[r] = 0
        /\ \A r \in Requests : pc[r] \in {"new", "get_category"} => idOf[r] = 0
    BY DEF CatalogInv, CatalogTypeOK, UndecidedBeforeEnd, IdsAreOwn
  <1>1. ASSUME NEW r \in Requests, Arrive(r) PROVE CatalogInv'
    <2>1. /\ pc' \in [Requests -> CatalogStages]
          /\ pc'[r] = IF IsProduct(r) THEN "get_category" ELSE "insert"
          /\ \A s \in Requests \ {r} : pc'[s] = pc[s]
          /\ answer' = answer /\ answer[r] = 0 /\ idOf[r] = 0
          /\ UNCHANGED <<rows, body, idOf, categories, drawn, faults>>
      BY <1>1, <1>a DEF Arrive, Goto, CatalogStages, listVars
    <2>2. pc'[r] = "insert" => ForeignKeyHolds(r)
      BY <2>1 DEF ForeignKeyHolds
    <2> QED
      BY <1>a, <1>t, <1>f, <2>1, <2>2, QuietStep
  <1>2. ASSUME NEW r \in Requests, GetCategory(r) PROVE CatalogInv'
    <2>1. idOf[r] = 0
      BY <1>2, <1>a DEF GetCategory
    <2>2. CASE body[r].category \in categories
      <3>1. /\ pc' \in [Requests -> CatalogStages] /\ pc'[r] = "insert"
            /\ \A s \in Requests \ {r} : pc'[s] = pc[s]
            /\ answer' = answer /\ answer[r] = 0
            /\ UNCHANGED <<rows, body, idOf, categories, drawn, faults>>
        BY <1>2, <1>a, <2>2 DEF GetCategory, Goto, CatalogStages, listVars
      <3>2. ForeignKeyHolds(r)
        BY <2>2 DEF ForeignKeyHolds
      <3> QED
        BY <1>a, <1>t, <1>f, <2>1, <3>1, <3>2, QuietStep
    <2>3. CASE body[r].category \notin categories
      BY <1>2, <1>t, <1>f, <2>1, <2>3, ErrorStep DEF GetCategory
    <2> QED
      BY <2>2, <2>3
  <1>3. ASSUME NEW r \in Requests, StartInsert(r) PROVE CatalogInv'
    BY <1>3, <1>t, DrawStep
  <1>4. ASSUME NEW r \in Requests, Create(r) PROVE CatalogInv'
    BY <1>4, <1>t, <1>f, RecordStep DEF Create
  <1>5. ASSUME NEW r \in Requests, Refuse(r) PROVE CatalogInv'
    BY <1>5, <1>t, <1>f, ErrorStep DEF Refuse
  <1>6. ASSUME NEW r \in Requests, StatementFails(r) PROVE CatalogInv'
    <2>1. faults' \in 0 .. MaxFaults
      BY <1>6, <1>f DEF StatementFails, Fault
    <2> QED
      BY <1>6, <1>t, <2>1, ErrorStep DEF StatementFails
  <1>7. ASSUME NEW r \in Requests, ReplyLost(r) PROVE CatalogInv'
    <2>1. faults' \in 0 .. MaxFaults
      BY <1>7, <1>f DEF ReplyLost, Fault
    <2> QED
      BY <1>7, <1>t, <2>1, RecordStep DEF ReplyLost
  <1>8. CASE UNCHANGED <<rows, creation>>
    BY <1>8, <1>t
       DEF creation, CatalogInv, CatalogTypeOK, IdsAreOwn, UndecidedBeforeEnd,
           CreatedOnce, CategoryIsStillThere, Recorded, TableOf, IsProduct, Clash,
           ForeignKeyHolds
  <1>9. CASE WalkNext /\ UNCHANGED creation
    BY <1>8, <1>9
       DEF WalkNext, StartWalk, ListRows, CountRows, CountFails, NextPage, EndWalk
  <1>10. CASE UNCHANGED vars
    BY <1>8, <1>10 DEF vars, listVars
  <1> QED
    BY <1>1, <1>2, <1>3, <1>4, <1>5, <1>6, <1>7, <1>9, <1>10
       DEF Next, CreationStep

-----------------------------------------------------------------------------
\* The variables of the catalog keep their types, and no row has an id that
\* its identity column has not drawn.
THEOREM CatalogTypeCorrect == Spec => []CatalogTypeOK
  <1>1. CatalogInv => CatalogTypeOK
    BY DEF CatalogInv
  <1> QED
    BY <1>1, CatalogInitEstablishes, CatalogStepPreserves, PTL DEF Spec

\* Of any number of concurrent requests for one SKU or name one has the row,
\* whatever fails, and nobody else is told 201.
THEOREM UniqueValuesCreatedOnce == Spec => []CreatedOnce
  <1>1. CatalogInv => CreatedOnce
    BY DEF CatalogInv
  <1> QED
    BY <1>1, CatalogInitEstablishes, CatalogStepPreserves, PTL DEF Spec

\* The category that was looked up is there when the product is inserted.
THEOREM LookedUpCategoryStays == Spec => []CategoryIsStillThere
  <1>1. CatalogInv => CategoryIsStillThere
    BY DEF CatalogInv
  <1> QED
    BY <1>1, CatalogInitEstablishes, CatalogStepPreserves, PTL DEF Spec

\* Creation is nothing but inserts to whoever walks the products, so that all
\* that is proved of PagedListing holds of the catalog.
THEOREM CatalogImplementsListing == Spec => ListSpec
  <1>1. Init => ListInit
    BY DEF Init
  <1> QED
    BY <1>1, CreationInserts, PTL DEF Spec, ListSpec
=============================================================================

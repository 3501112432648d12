------------------------ MODULE MovementBoundaryProofs ------------------------
(***************************************************************************)
(* MovementBoundary for any bodies, products, seed rows and widths.        *)
(***************************************************************************)
EXTENDS MovementBoundary, SequenceTheorems, TLAPS

\* The three copies of the metadata rule are one rule.
LEMMA CopiesAgree ==
    ASSUME NEW type PROVE DtoRequires(type) = EntityRequires(type)
  BY DEF DtoRequires, EntityRequires

\* No rule of the domain refuses what the DTO let through.
LEMMA EntityTakesWhatDtoTakes ==
    ASSUME NEW body \in Bodies, DtoAccepts(body)
    PROVE  EntityError(body.type, body.quantity, body.keys) = "none"
  <1>1. body.quantity \in Int
    BY BoundaryAssumption DEF BodyShape
  <1>2. body.quantity > 0 /\ DtoRequires(body.type) \subseteq body.keys
    BY DEF DtoAccepts
  <1> QED
    BY <1>1, <1>2, CopiesAgree DEF EntityError, QuantityHolds

\* The row that Create inserts.
RowOf(body) ==
    [product |-> body.product, type |-> body.type,
     quantity |-> body.quantity, keys |-> body.keys]

\* What passes every layer is a row that the table can hold and the mapper
\* can read.
LEMMA AcceptedIsRow ==
    ASSUME NEW body \in Bodies, Refusal(body) = "none"
    PROVE  /\ RowOf(body) \in RowShape
           /\ MapperError(RowOf(body)) = "none"
  <1>1. DtoAccepts(body) /\ body.product \in Products /\ ColumnTakes(body)
    BY DEF Refusal
  <1>2. body.type \in MovementTypes /\ body.quantity \in 1 .. MaxInteger
    BY <1>1 DEF DtoAccepts, ColumnTakes
  <1>3. body.keys \in SUBSET MetadataKeys
    BY BoundaryAssumption DEF BodyShape
  <1>4. RowOf(body) \in RowShape
    BY <1>1, <1>2, <1>3 DEF RowOf, RowShape
  <1>5. MapperError(RowOf(body)) = "none"
    BY <1>1, EntityTakesWhatDtoTakes DEF MapperError, Metadata, RowOf
  <1> QED
    BY <1>4, <1>5

\* What a POST may be refused with.
LEMMA RefusalsOfDto ==
    ASSUME NEW body \in Bodies
    PROVE  Refusal(body) \in {"none", "RequestValidation", "DataError",
                              "ProductNotFound", "InsufficientStock"}
  <1>1. CASE ~DtoAccepts(body)
    BY <1>1 DEF Refusal
  <1>2. CASE DtoAccepts(body)
    BY <1>2, EntityTakesWhatDtoTakes DEF Refusal
  <1> QED
    BY <1>1, <1>2

-----------------------------------------------------------------------------
\* What POST recorded can be read.
RecordedReadable ==
    \A id \in recorded : MapperError(rows[id]) = "none"

Errors ==
    {"none", "ValueError", "ProductNotFound", "NotFound", "InsufficientStock",
     "RequestValidation", "InvalidQuantity", "DataError"}

AnswerShape ==
    [request : {"none", "post", "seed", "get", "list"}, error : Errors,
     ids : SUBSET DOMAIN rows]

Types ==
    /\ rows \in Seq(RowShape) /\ Len(rows) <= MaxRows
    /\ DOMAIN mv \subseteq Products
    /\ recorded \subseteq DOMAIN rows
    /\ answer \in AnswerShape

IInv ==
    /\ Types
    /\ RecordedReadable
    /\ DtoDecides
    /\ UnreadableOnlyFromSeed

\* The errors that the mapper can raise.
LEMMA MapperErrors ==
    ASSUME NEW row
    PROVE  MapperError(row) \in {"none", "InvalidQuantity", "ValueError"}
  BY DEF MapperError, EntityError, QuantityHolds

LEMMA Statuses ==
    /\ DOMAIN StatusOf = Errors
    /\ \A error \in Errors :
          StatusOf[error] = 400 => error \in {"ValueError", "ProductNotFound"}
  BY DEF StatusOf, Errors

LEMMA InitHolds == Init => IInv
  <1> SUFFICES ASSUME Init PROVE IInv
    OBVIOUS
  <1>1. rows \in Seq(RowShape) /\ Len(rows) = 0 /\ DOMAIN rows = {}
    BY EmptySeq DEF Init
  <1>2. /\ answer = [request |-> "none", error |-> "none", ids |-> {}] /\ recorded = {}
        /\ DOMAIN mv \subseteq Products
    BY DEF Init
  <1>3. Types
    BY <1>1, <1>2, BoundaryAssumption DEF Types, AnswerShape, Errors
  <1> QED
    BY <1>2, <1>3 DEF IInv, RecordedReadable, DtoDecides, UnreadableOnlyFromSeed

LEMMA RefusePreserves ==
    ASSUME IInv, NEW body \in Bodies, Refuse(body) PROVE IInv'
  <1>1. rows' = rows /\ mv' = mv /\ recorded' = recorded
    BY DEF Refuse
  <1>2. answer' = [request |-> "post", error |-> Refusal(body), ids |-> {}]
    BY DEF Refuse, Answer
  <1>3. Refusal(body) \in {"RequestValidation", "DataError", "ProductNotFound",
                           "InsufficientStock"}
    BY RefusalsOfDto DEF Refuse
  <1>4. Types'
    BY <1>1, <1>2, <1>3 DEF IInv, Types, AnswerShape, Errors
  <1>5. RecordedReadable'
    BY <1>1 DEF IInv, RecordedReadable
  <1>6. DtoDecides' /\ UnreadableOnlyFromSeed'
    BY <1>2, <1>3 DEF DtoDecides, UnreadableOnlyFromSeed
  <1> QED
    BY <1>4, <1>5, <1>6 DEF IInv

\* A row that is appended leaves the others where they are.
LEMMA AppendKeeps ==
    ASSUME Types, NEW row \in RowShape, rows' = Append(rows, row)
    PROVE  /\ rows' \in Seq(RowShape)
           /\ Len(rows') = Len(rows) + 1
           /\ DOMAIN rows' = DOMAIN rows \cup {Len(rows) + 1}
           /\ rows'[Len(rows) + 1] = row
           /\ \A id \in DOMAIN rows : rows'[id] = rows[id]
  <1>1. rows \in Seq(RowShape) /\ Len(rows) \in Nat /\ DOMAIN rows = 1 .. Len(rows)
    BY LenProperties DEF Types
  <1>2. /\ rows' \in Seq(RowShape)
        /\ Len(rows') = Len(rows) + 1
        /\ \A id \in 1 .. Len(rows) : rows'[id] = rows[id]
        /\ rows'[Len(rows) + 1] = row
    BY <1>1, AppendProperties
  <1>3. DOMAIN rows' = 1 .. Len(rows) + 1
    BY <1>2, LenProperties
  <1> QED
    BY <1>1, <1>2, <1>3

LEMMA CreatePreserves ==
    ASSUME IInv, NEW body \in Bodies, Create(body) PROVE IInv'
  <1> DEFINE id == Len(rows) + 1
  <1>1. /\ Refusal(body) = "none" /\ id <= MaxRows
        /\ rows' = Append(rows, RowOf(body))
        /\ recorded' = recorded \cup {id} /\ mv' = mv
        /\ answer' = [request |-> "post", error |-> MapperError(RowOf(body)),
                      ids |-> {id}]
    BY DEF Create, Answer, RowOf
  <1>2. RowOf(body) \in RowShape /\ MapperError(RowOf(body)) = "none"
    BY <1>1, AcceptedIsRow
  <1>3. /\ rows' \in Seq(RowShape)
        /\ Len(rows') = id
        /\ DOMAIN rows' = DOMAIN rows \cup {id}
        /\ rows'[id] = RowOf(body)
        /\ \A other \in DOMAIN rows : rows'[other] = rows[other]
    BY <1>1, <1>2, AppendKeeps DEF IInv
  <1>4. Types'
    BY <1>1, <1>2, <1>3 DEF IInv, Types, AnswerShape, Errors
  <1>5. RecordedReadable'
    BY <1>1, <1>2, <1>3 DEF IInv, Types, RecordedReadable, MapperError, Metadata
  <1>6. DtoDecides' /\ UnreadableOnlyFromSeed'
    BY <1>1, <1>2 DEF DtoDecides, UnreadableOnlyFromSeed
  <1> QED
    BY <1>4, <1>5, <1>6 DEF IInv

LEMMA SeedPreserves ==
    ASSUME IInv, Seed PROVE IInv'
  <1> DEFINE batch == IF rows = <<>> THEN Append(SeedRows, FirstSeed) ELSE SeedRows
  <1>1. /\ Len(rows) + Len(batch) <= MaxRows
        /\ rows' = rows \o batch
        /\ recorded' = recorded /\ mv' = mv
        /\ answer' = [request |-> "seed", error |-> "none", ids |-> {}]
    BY DEF Seed, Answer
  <1>2. batch \in Seq(RowShape)
    BY BoundaryAssumption, AppendProperties
  <1> HIDE DEF batch
  <1>3. rows \in Seq(RowShape) /\ DOMAIN rows = 1 .. Len(rows) /\ Len(rows) \in Nat
    BY LenProperties DEF IInv, Types
  <1>4. /\ rows' \in Seq(RowShape)
        /\ Len(rows') = Len(rows) + Len(batch)
        /\ \A id \in 1 .. Len(rows) + Len(batch) :
              rows'[id] = IF id <= Len(rows) THEN rows[id] ELSE batch[id - Len(rows)]
    BY <1>1, <1>2, <1>3, ConcatProperties
  <1>5. Len(batch) \in Nat /\ DOMAIN rows' = 1 .. Len(rows) + Len(batch)
    BY <1>2, <1>4, LenProperties
  <1>6. DOMAIN rows \subseteq DOMAIN rows' /\ \A id \in DOMAIN rows : rows'[id] = rows[id]
    BY <1>3, <1>4, <1>5
  <1>7. Types'
    BY <1>1, <1>4, <1>6 DEF IInv, Types, AnswerShape, Errors
  <1>8. RecordedReadable'
    BY <1>1, <1>6 DEF IInv, Types, RecordedReadable, MapperError, Metadata
  <1>9. DtoDecides' /\ UnreadableOnlyFromSeed'
    BY <1>1 DEF DtoDecides, UnreadableOnlyFromSeed
  <1> QED
    BY <1>7, <1>8, <1>9 DEF IInv

LEMMA RefreshPreserves ==
    ASSUME IInv, Refresh PROVE IInv'
  <1>1. UNCHANGED <<rows, recorded, answer>> /\ DOMAIN mv' = Products
    BY DEF Refresh
  <1> QED
    BY <1>1 DEF IInv, Types, AnswerShape, RecordedReadable, DtoDecides,
                UnreadableOnlyFromSeed

\* A GET changes nothing; if it fails on a row it shows one that is not
\* readable.
LEMMA ReadPreserves ==
    ASSUME IInv, UNCHANGED <<rows, mv, recorded>>,
           NEW request \in {"get", "list"}, NEW error, NEW ids \in SUBSET DOMAIN rows,
           Answer(request, error, ids),
           \/ error \in {"none", "NotFound", "DataError", "RequestValidation"}
           \/ \E id \in ids : error = MapperError(rows[id])
    PROVE  IInv'
  <1>1. answer' = [request |-> request, error |-> error, ids |-> ids]
    BY DEF Answer
  <1>2. error \in {"none", "NotFound", "DataError", "RequestValidation",
                   "InvalidQuantity", "ValueError"}
    BY MapperErrors
  <1>3. Types'
    BY <1>1, <1>2 DEF IInv, Types, AnswerShape, Errors
  <1>4. RecordedReadable'
    BY DEF IInv, RecordedReadable
  <1>5. DtoDecides'
    BY <1>1 DEF DtoDecides
  <1>6. UnreadableOnlyFromSeed'
    <2>1. ASSUME StatusOf[error] = 400 PROVE ~(ids \subseteq recorded)
      <3>1. error = "ValueError"
        BY <1>2, <2>1, Statuses DEF Errors
      <3>2. PICK id \in ids : MapperError(rows[id]) = "ValueError"
        BY <3>1
      <3>3. id \notin recorded
        BY <3>2 DEF IInv, RecordedReadable
      <3> QED
        BY <3>3
    <2> QED
      BY <1>1, <2>1 DEF UnreadableOnlyFromSeed
  <1> QED
    BY <1>3, <1>4, <1>5, <1>6 DEF IInv

LEMMA GetPreserves ==
    ASSUME IInv, NEW question \in Questions, GetMovement(question) PROVE IInv'
  <1> DEFINE id == question.id
  <1>1. UNCHANGED <<rows, mv, recorded>>
    BY DEF GetMovement
  <1>2. CASE Answer("get", "DataError", {}) \/ Answer("get", "NotFound", {})
    BY <1>1, <1>2, ReadPreserves
  <1>3. CASE id \in DOMAIN rows /\ Answer("get", MapperError(rows[id]), {id})
    BY <1>1, <1>3, ReadPreserves
  <1> QED
    BY <1>2, <1>3 DEF GetMovement

LEMMA ListPreserves ==
    ASSUME IInv, NEW question \in Questions, ListMovements(question) PROVE IInv'
  <1>1. UNCHANGED <<rows, mv, recorded>>
    BY DEF ListMovements
  <1>2. CASE \/ Answer("list", "RequestValidation", {})
             \/ Answer("list", "DataError", {})
    BY <1>1, <1>2, ReadPreserves
  <1>3. CASE \E page \in SUBSET DOMAIN rows :
                \/ Answer("list", "none", page)
                \/ \E id \in page : Answer("list", MapperError(rows[id]), page)
    <2>1. PICK page \in SUBSET DOMAIN rows :
                \/ Answer("list", "none", page)
                \/ \E id \in page : Answer("list", MapperError(rows[id]), page)
      BY <1>3
    <2>2. CASE Answer("list", "none", page)
      BY <1>1, <2>2, ReadPreserves
    <2>3. ASSUME NEW id \in page, Answer("list", MapperError(rows[id]), page)
          PROVE  IInv'
      BY <1>1, <2>3, ReadPreserves
    <2> QED
      BY <2>1, <2>2, <2>3
  <1>4. \A size : kSubset(size, RowsOf(question.product)) \subseteq SUBSET DOMAIN rows
    BY DEF kSubset, RowsOf
  <1> QED
    BY <1>2, <1>3, <1>4 DEF ListMovements

LEMMA IInvPreserved == IInv /\ [Next]_vars => IInv'
  <1> SUFFICES ASSUME IInv, [Next]_vars PROVE IInv'
    OBVIOUS
  <1>1. CASE Seed
    BY <1>1, SeedPreserves
  <1>2. ASSUME NEW body \in Bodies, Refuse(body) PROVE IInv'
    BY <1>2, RefusePreserves
  <1>3. ASSUME NEW body \in Bodies, Create(body) PROVE IInv'
    BY <1>3, CreatePreserves
  <1>4. ASSUME NEW question \in Questions, GetMovement(question) PROVE IInv'
    BY <1>4, GetPreserves
  <1>5. ASSUME NEW question \in Questions, ListMovements(question) PROVE IInv'
    BY <1>5, ListPreserves
  <1>6. CASE Refresh
    BY <1>6, RefreshPreserves
  <1>7. CASE UNCHANGED vars
    BY <1>7 DEF vars, IInv, Types, AnswerShape, RecordedReadable, DtoDecides,
                UnreadableOnlyFromSeed
  <1> QED
    BY <1>1, <1>2, <1>3, <1>4, <1>5, <1>6, <1>7 DEF Next

LEMMA IInvHolds == Spec => []IInv
  BY InitHolds, IInvPreserved, PTL DEF Spec

-----------------------------------------------------------------------------
\* Every row fits the table and every answer has a status.
THEOREM BoundaryTypeCorrect == Spec => []BoundaryTypeOK
  <1>1. IInv => BoundaryTypeOK
    BY Statuses DEF IInv, Types, AnswerShape, BoundaryTypeOK
  <1> QED
    BY <1>1, IInvHolds, PTL

\* What the DTO lets through no rule of the domain refuses.
THEOREM InnerRulesAgree == Spec => []DtoDecides
  <1>1. IInv => DtoDecides
    BY DEF IInv
  <1> QED
    BY <1>1, IInvHolds, PTL

\* Whatever POST recorded can be read back, alone or on a page of its like.
THEOREM RecordedCanBeRead == Spec => []UnreadableOnlyFromSeed
  <1>1. IInv => UnreadableOnlyFromSeed
    BY DEF IInv
  <1> QED
    BY <1>1, IInvHolds, PTL

\* An error is never told for a movement that is in the table.
THEOREM ErrorsAddNoRow == Spec => RefusalLeavesNoRow
  <1>1. ASSUME Next, answer'.request = "post", answer'.error # "none"
        PROVE  rows' = rows
    <2>1. CASE Seed \/ Refresh
      BY <1>1, <2>1 DEF Seed, Refresh, Answer
    <2>2. ASSUME NEW body \in Bodies, Refuse(body) PROVE rows' = rows
      BY <2>2 DEF Refuse
    <2>3. ASSUME NEW body \in Bodies, Create(body) PROVE FALSE
      <3>1. /\ Refusal(body) = "none"
            /\ answer'.error = MapperError(RowOf(body))
        BY <2>3 DEF Create, Answer, RowOf
      <3> QED
        BY <1>1, <3>1, AcceptedIsRow
    <2>4. ASSUME NEW question \in Questions,
                 GetMovement(question) \/ ListMovements(question)
          PROVE  rows' = rows
      BY <2>4 DEF GetMovement, ListMovements
    <2> QED
      BY <1>1, <2>1, <2>2, <2>3, <2>4 DEF Next
  <1>2. [Next]_vars => [answer'.request = "post" /\ answer'.error # "none"
                            => rows' = rows]_vars
    BY <1>1
  <1> QED
    BY <1>2, PTL DEF Spec, RefusalLeavesNoRow
=============================================================================

------------------------- MODULE PagedListingProofs -------------------------
(***************************************************************************)
(* What a walk over pages promises for every table, limit and sequence of  *)
(* inserts.                                                                *)
(***************************************************************************)
EXTENDS PagedListing, FiniteSetTheorems, WellFoundedInduction, TLAPS

\* Of the rows that were there at the start, those that no answer has shown
\* stand at offset or behind, and once the page is read, those that are not on
\* it stand behind it: inserts only push rows back.
NothingSkipped ==
    /\ stage \in {"listing", "counting"} =>
         \A key \in atStart \ shown : offset <= Position(key, rows)
    /\ stage \in {"counting", "answered"} =>
         \A key \in atStart \ (shown \cup page) :
             offset + limit <= Position(key, rows)

\* As long as rows are missing, the total tells the client to go on.
TotalLeadsOn ==
    stage = "answered" /\ ~(atStart \subseteq shown) => offset + limit < total

PageIsShown == stage = "answered" => page \subseteq shown

WalkInv ==
    ListTypeOK /\ PageIsShown /\ NothingSkipped /\ TotalLeadsOn /\ WalkMissesNothing

-----------------------------------------------------------------------------
\* How many rows stand before a key is a number, an insert does not lower it,
\* and for a row of the table it is less than the size of the table.
LEMMA PositionBounds ==
    ASSUME NEW R \in SUBSET Int, IsFiniteSet(R),
           NEW Q \in SUBSET R,
           NEW key \in R
    PROVE  /\ Position(key, R) \in Nat
           /\ Position(key, Q) \in Nat
           /\ Position(key, Q) <= Position(key, R)
           /\ Position(key, R) < Cardinality(R)
           /\ Cardinality(R) \in Nat
  <1> DEFINE Before(S) == {k \in S : k < key}
  <1>1. /\ IsFiniteSet(Before(R))
        /\ Cardinality(Before(R)) <= Cardinality(R)
        /\ Cardinality(Before(R)) = Cardinality(R) => Before(R) = R
    <2>1. Before(R) \in SUBSET R
      OBVIOUS
    <2> QED
      BY <2>1, FS_Subset
  <1>2. /\ IsFiniteSet(Before(Q))
        /\ Cardinality(Before(Q)) <= Cardinality(Before(R))
    <2>1. Before(Q) \in SUBSET Before(R)
      OBVIOUS
    <2> QED
      BY <1>1, <2>1, FS_Subset
  <1>3. /\ Cardinality(Before(R)) \in Nat
        /\ Cardinality(Before(Q)) \in Nat
        /\ Cardinality(R) \in Nat
    BY <1>1, <1>2, FS_CardinalityType
  <1>4. Before(R) # R
    BY key \in R, key \in Int
  <1> QED
    BY <1>1, <1>2, <1>3, <1>4 DEF Position

-----------------------------------------------------------------------------
\* In a set of numbers there is a least one.
LEMMA LeastNatural ==
    ASSUME NEW T \in SUBSET Nat, T # {}
    PROVE  \E x \in T : \A y \in T : x <= y
  <1>1. PICK x \in T : \A y \in T : ~(<<y, x>> \in OpToRel(<, Nat))
    BY NatLessThanWellFounded, WFMin
  <1>2. ASSUME NEW y \in T PROVE x <= y
    <2>1. x \in Nat /\ y \in Nat
      OBVIOUS
    <2>2. <<y, x>> \notin OpToRel(<, Nat)
      BY <1>1
    <2>3. ~(y < x)
      BY <2>1, <2>2 DEF OpToRel
    <2> QED
      BY <2>1, <2>3
  <1> QED
    BY <1>2

\* If any row stands at offset or behind, at least offset rows stand before.
LEMMA RowsBeforeOffset ==
    ASSUME NEW R \in SUBSET Int, IsFiniteSet(R), NEW off \in Nat,
           \E key \in R : Position(key, R) >= off
    PROVE  off <= Cardinality({key \in R : Position(key, R) < off})
  <1> DEFINE Skipped == {key \in R : Position(key, R) < off}
             T == {Position(key, R) : key \in R \ Skipped}
  <1>1. \A key \in R : Position(key, R) \in Nat
    BY PositionBounds
  <1>2. T \in SUBSET Nat /\ T # {}
    BY <1>1
  <1>3. PICK least \in T : \A other \in T : least <= other
    BY <1>2, LeastNatural
  <1>4. PICK key \in R \ Skipped : Position(key, R) = least
    BY <1>3
  <1>5. {k \in R : k < key} \subseteq Skipped
    <2> SUFFICES ASSUME NEW k \in R, k < key, k \notin Skipped PROVE FALSE
      OBVIOUS
    <2>1. Position(key, R) <= Position(k, R)
      BY <1>3, <1>4
    <2>2. /\ {j \in R : j < k} \cup {k} \subseteq {j \in R : j < key}
          /\ k \notin {j \in R : j < k}
          /\ IsFiniteSet({j \in R : j < key})
          /\ IsFiniteSet({j \in R : j < k})
      BY <1>4, FS_Subset
    <2>3. Cardinality({j \in R : j < k} \cup {k}) = Cardinality({j \in R : j < k}) + 1
      BY <2>2, FS_AddElement
    <2>4. Cardinality({j \in R : j < k} \cup {k}) <= Cardinality({j \in R : j < key})
      BY <2>2, FS_Subset
    <2> QED
      BY <1>1, <1>4, <2>1, <2>3, <2>4 DEF Position
  <1>6. IsFiniteSet(Skipped)
    BY FS_Subset
  <1>7. Position(key, R) <= Cardinality(Skipped)
    BY <1>5, <1>6, FS_Subset DEF Position
  <1>8. off <= Position(key, R)
    BY <1>1, <1>4
  <1> QED
    BY <1>1, <1>4, <1>6, <1>7, <1>8, FS_CardinalityType

\* The rows that OFFSET skips and those of a page together are no more than
\* the table has.
LEMMA PageFits ==
    ASSUME NEW R \in SUBSET Int, IsFiniteSet(R), NEW lim \in Nat, NEW off \in Nat,
           Page(R, lim, off) # {}
    PROVE  /\ Cardinality(Page(R, lim, off)) \in Nat
           /\ off + Cardinality(Page(R, lim, off)) <= Cardinality(R)
  <1> DEFINE Skipped == {key \in R : Position(key, R) < off}
             Shown == Page(R, lim, off)
  <1>1. Shown \subseteq R /\ \A key \in Shown : Position(key, R) >= off
    BY DEF Page
  <1>2. off <= Cardinality(Skipped)
    BY <1>1, RowsBeforeOffset
  <1>3. /\ IsFiniteSet(Skipped) /\ IsFiniteSet(Shown)
        /\ IsFiniteSet(Skipped \cup Shown)
        /\ Cardinality(Skipped \cup Shown) <= Cardinality(R)
    <2>1. Skipped \subseteq R /\ Skipped \cup Shown \subseteq R
      BY <1>1
    <2> QED
      BY <1>1, <2>1, FS_Subset
  <1>4. Skipped \cap Shown = {}
    <2> SUFFICES ASSUME NEW k \in Skipped, k \in Shown PROVE FALSE
      OBVIOUS
    <2>1. Position(k, R) \in Nat /\ Position(k, R) < off
      BY PositionBounds
    <2> QED
      BY <1>1, <2>1
  <1>5. Cardinality(Skipped \cup Shown) = Cardinality(Skipped) + Cardinality(Shown)
    <2>1. Cardinality(Skipped \cap Shown) = 0
      BY <1>4, FS_EmptySet
    <2>2. /\ Cardinality(Skipped) \in Nat /\ Cardinality(Shown) \in Nat
          /\ Cardinality(Skipped \cup Shown)
                = Cardinality(Skipped) + Cardinality(Shown)
                      - Cardinality(Skipped \cap Shown)
      BY <1>3, FS_Union, FS_CardinalityType
    <2> QED
      BY <2>1, <2>2
  <1> QED
    BY <1>2, <1>3, <1>5, FS_CardinalityType

\* No row has been listed before the walk starts.
LEMMA InitEstablishes == ListInit => WalkInv
  BY ListingAssumption
     DEF ListInit, WalkInv, ListTypeOK, ListStages, PageIsShown, NothingSkipped,
         TotalLeadsOn, WalkMissesNothing

\* Every step keeps the types.
LEMMA TypesPreserved == ListTypeOK /\ [ListNext]_listVars => ListTypeOK'
  <1> SUFFICES ASSUME ListTypeOK, [ListNext]_listVars PROVE ListTypeOK'
    OBVIOUS
  <1> USE ListingAssumption DEF ListTypeOK, ListStages
  <1>1. ASSUME NEW key \in Keys, Insert(key) PROVE ListTypeOK'
    <2>1. IsFiniteSet(rows')
      BY <1>1, FS_AddElement DEF Insert
    <2> QED
      BY <1>1, <2>1 DEF Insert, walk
  <1>2. CASE StartWalk
    BY <1>2 DEF StartWalk
  <1>3. CASE ListRows
    BY <1>3 DEF ListRows, Page
  <1>4. CASE CountRows
    <2>1. total' \in Nat
      BY <1>4, FS_CardinalityType DEF CountRows
    <2> QED
      BY <1>4, <2>1 DEF CountRows
  <1>5. CASE CountFails
    BY <1>5 DEF CountFails
  <1>6. CASE NextPage
    BY <1>6 DEF NextPage
  <1>7. CASE EndWalk
    BY <1>7 DEF EndWalk
  <1>8. CASE UNCHANGED listVars
    BY <1>8 DEF listVars, walk
  <1> QED
    BY <1>1, <1>2, <1>3, <1>4, <1>5, <1>6, <1>7, <1>8 DEF ListNext, WalkNext

\* Every step keeps the invariant.
LEMMA StepPreserves == WalkInv /\ [ListNext]_listVars => WalkInv'
  <1> SUFFICES ASSUME WalkInv, [ListNext]_listVars PROVE WalkInv'
    OBVIOUS
  <1>t. ListTypeOK'
    BY TypesPreserved DEF WalkInv
  <1>i. /\ rows \subseteq Int /\ IsFiniteSet(rows) /\ atStart \subseteq rows
        /\ limit \in Nat /\ offset \in Nat /\ total \in Nat
    BY ListingAssumption DEF WalkInv, ListTypeOK
  <1>p. \A key \in atStart : Position(key, rows) \in Nat
    BY <1>i, PositionBounds
  <1> USE DEF WalkInv, PageIsShown, TotalLeadsOn, WalkMissesNothing
  <1>1. ASSUME NEW key \in Keys, Insert(key) PROVE WalkInv'
    <2>1. /\ rows \subseteq rows' /\ rows' \subseteq Int /\ IsFiniteSet(rows')
      BY <1>1, <1>t, ListingAssumption DEF Insert, ListTypeOK
    <2>2. \A k \in atStart :
              /\ Position(k, rows') \in Nat
              /\ Position(k, rows) <= Position(k, rows')
      BY <2>1, <1>i, PositionBounds
    <2>3. NothingSkipped'
      BY <1>1, <1>i, <1>p, <2>2 DEF Insert, walk, NothingSkipped
    <2> QED
      BY <1>1, <1>t, <2>3 DEF Insert, walk
  <1>2. CASE StartWalk
    BY <1>2, <1>t DEF StartWalk, NothingSkipped
  <1>3. CASE ListRows
    <2>1. ASSUME NEW k \in atStart', k \notin shown', k \notin page'
          PROVE  offset + limit <= Position(k, rows)
      <3>1. k \in rows /\ Position(k, rows) \in Nat
        BY <1>3, <1>i, <1>p, <2>1, PositionBounds DEF ListRows
      <3>2. offset <= Position(k, rows)
        BY <1>3, <1>i, <2>1, <3>1 DEF ListRows, NothingSkipped
      <3>3. ~(Position(k, rows) < offset + limit)
        BY <1>3, <2>1, <3>1, <3>2 DEF ListRows, Page
      <3> QED
        BY <1>i, <3>1, <3>3
    <2>2. ASSUME NEW k \in atStart', k \notin shown'
          PROVE  offset <= Position(k, rows)
      <3>1. k \in rows /\ Position(k, rows) \in Nat
        BY <1>3, <1>i, <1>p, <2>2, PositionBounds DEF ListRows
      <3> QED
        BY <1>3, <1>i, <2>2, <3>1 DEF ListRows, NothingSkipped
    <2>3. NothingSkipped'
      BY <1>3, <2>1, <2>2 DEF ListRows, NothingSkipped
    <2> QED
      BY <1>3, <1>t, <2>3 DEF ListRows
  <1>4. CASE CountRows
    <2>1. NothingSkipped'
      BY <1>4 DEF CountRows, NothingSkipped
    <2>2. ASSUME NEW k \in atStart, k \notin shown'
          PROVE  offset + limit < total'
      <3>1. Position(k, rows) < Cardinality(rows) /\ Cardinality(rows) \in Nat
        BY <1>i, <2>2, PositionBounds
      <3>2. offset + limit <= Position(k, rows)
        BY <1>4, <2>2 DEF CountRows, NothingSkipped
      <3> QED
        BY <1>4, <1>i, <1>p, <2>2, <3>1, <3>2 DEF CountRows
    <2> QED
      BY <1>4, <1>t, <2>1, <2>2 DEF CountRows
  <1>5. CASE CountFails
    BY <1>5, <1>t DEF CountFails, NothingSkipped
  <1>6. CASE NextPage
    BY <1>6, <1>t DEF NextPage, NothingSkipped
  <1>7. CASE EndWalk
    BY <1>7, <1>t, <1>i DEF EndWalk, NothingSkipped
  <1>8. CASE UNCHANGED listVars
    BY <1>8 DEF listVars, walk, NothingSkipped, ListTypeOK
  <1> QED
    BY <1>1, <1>2, <1>3, <1>4, <1>5, <1>6, <1>7, <1>8 DEF ListNext, WalkNext

-----------------------------------------------------------------------------
\* The variables of a listing keep their types under any inserts.
THEOREM ListingTypeCorrect == ListSpec => []ListTypeOK
  <1>1. ListInit => ListTypeOK
    BY InitEstablishes DEF WalkInv
  <1> QED
    BY <1>1, TypesPreserved, PTL DEF ListSpec

\* For every limit and whatever is inserted between the statements, a walk that
\* ends has shown each row that was there when it began.
THEOREM WalksAreComplete == ListSpec => []WalkMissesNothing
  <1>1. WalkInv => WalkMissesNothing
    BY DEF WalkInv
  <1> QED
    BY <1>1, InitEstablishes, StepPreserves, PTL DEF ListSpec

-----------------------------------------------------------------------------
\* Between the two statements of a page the table still holds what it shows.
PageInTable ==
    stage = "counting" /\ page # {} => offset + Cardinality(page) <= Cardinality(rows)

TotalInv == ListTypeOK /\ PageInTable /\ TotalCoversPage

LEMMA TotalInit == ListInit => TotalInv
  <1> SUFFICES ASSUME ListInit PROVE TotalInv
    OBVIOUS
  <1>1. ListTypeOK
    BY InitEstablishes DEF WalkInv
  <1> QED
    BY <1>1 DEF TotalInv, PageInTable, TotalCoversPage, ListInit

LEMMA TotalPreserved == TotalInv /\ [ListNext]_listVars => TotalInv'
  <1> SUFFICES ASSUME TotalInv, [ListNext]_listVars PROVE TotalInv'
    OBVIOUS
  <1>t. ListTypeOK'
    BY TypesPreserved DEF TotalInv
  <1>i. /\ rows \subseteq Int /\ IsFiniteSet(rows) /\ page \subseteq rows
        /\ limit \in Nat /\ offset \in Nat
        /\ Cardinality(rows) \in Nat /\ Cardinality(page) \in Nat
    BY ListingAssumption, FS_Subset, FS_CardinalityType DEF TotalInv, ListTypeOK
  <1> USE DEF TotalInv, PageInTable, TotalCoversPage
  <1>1. ASSUME NEW key \in Keys, Insert(key) PROVE TotalInv'
    <2>1. Cardinality(rows') = Cardinality(rows) + 1
      BY <1>1, <1>i, FS_AddElement DEF Insert
    <2> QED
      BY <1>1, <1>t, <1>i, <2>1 DEF Insert, walk
  <1>2. CASE ListRows
    <2>1. page' = Page(rows, limit, offset) /\ UNCHANGED <<rows, offset>>
          /\ stage' = "counting"
      BY <1>2 DEF ListRows
    <2>2. page' # {} => offset + Cardinality(page') <= Cardinality(rows)
      BY <1>i, <2>1, PageFits
    <2> QED
      BY <1>t, <2>1, <2>2
  <1>3. CASE CountRows
    BY <1>3, <1>t DEF CountRows
  <1>4. CASE StartWalk \/ CountFails \/ NextPage \/ EndWalk
    BY <1>4, <1>t DEF StartWalk, CountFails, NextPage, EndWalk
  <1>5. CASE UNCHANGED listVars
    BY <1>5, <1>t DEF listVars, walk
  <1> QED
    BY <1>1, <1>2, <1>3, <1>4, <1>5 DEF ListNext, WalkNext

\* The total of an answer is never less than what its page shows, although
\* rows are inserted between its two statements.
THEOREM TotalsCoverPages == ListSpec => []TotalCoversPage
  <1>1. TotalInv => TotalCoversPage
    BY DEF TotalInv
  <1> QED
    BY <1>1, TotalInit, TotalPreserved, PTL DEF ListSpec
=============================================================================

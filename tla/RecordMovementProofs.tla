------------------------ MODULE RecordMovementProofs ------------------------
(***************************************************************************)
(* Proofs about RecordMovement, for any products, requests, orders, pool   *)
(* and number of faults.                                                   *)
(***************************************************************************)
EXTENDS RecordMovement, FiniteSetTheorems, TLAPS

-----------------------------------------------------------------------------
(***************************************************************************)
(* Sums.  SumFunctionOnSet is a fold: a function on the subsets of S that   *)
(* takes out one chosen element after the other.  A set of subsets that    *)
(* holds whatever subset has all its predecessors in it holds all of them  *)
(* (SubsetInduction), which is induction without a predicate parameter.    *)
(***************************************************************************)
Pick(s) == CHOOSE x \in s : TRUE

IsSumTable(g, f, S) ==
   g = [s \in SUBSET S |->
           IF s = {} THEN 0 ELSE f[Pick(s)] + g[s \ {Pick(s)}]]

SumTable(f, S) == CHOOSE g : IsSumTable(g, f, S)

LEMMA PickIn == ASSUME NEW s, s # {} PROVE Pick(s) \in s
  BY DEF Pick

\* The fold of the library is such a table.
LEMMA SumIsTable ==
    ASSUME NEW f, NEW S PROVE SumFunctionOnSet(f, S) = SumTable(f, S)[S]
  BY DEF SumFunctionOnSet, FoldFunctionOnSet, MapThenFoldSet, SumTable, IsSumTable, Pick

\* In a set of numbers there is a least one.
LEMMA LeastNatural ==
    ASSUME NEW T \in SUBSET Nat, T # {}
    PROVE  \E x \in T : \A y \in T : x <= y
  <1>1. PICK x \in T : \A y \in T : ~(<<y, x>> \in OpToRel(<, Nat))
    BY NatLessThanWellFounded, WFMin
  <1>2. ASSUME NEW y \in T PROVE x <= y
    <2>1. x \in Nat /\ y \in Nat
      OBVIOUS
    <2>2. <<y, x>> \notin OpToRel(<, Nat)
      BY <1>1
    <2>3. ~(y < x)
      BY <2>1, <2>2 DEF OpToRel
    <2> QED
      BY <2>1, <2>3
  <1> QED
    BY <1>2

\* For a finite set the table exists: otherwise there would be a least size up
\* to which it cannot be filled in.
LEMMA SumTableExists ==
    ASSUME NEW S, IsFiniteSet(S), NEW f
    PROVE  \E g : IsSumTable(g, f, S)
  <1> DEFINE Filled(g) == [s \in SUBSET S |-> IF s = {} THEN 0 ELSE f[Pick(s)] + g[s \ {Pick(s)}]]
             Fixed(n) == \E g : \A s \in SUBSET S : Cardinality(s) <= n => g[s] = Filled(g)[s]
             T == {n \in Nat : ~Fixed(n)}
  <1>0. \A s \in SUBSET S : IsFiniteSet(s) /\ Cardinality(s) \in Nat
    BY FS_Subset, FS_CardinalityType
  <1>1. Fixed(0)
    <2> DEFINE g == [s \in SUBSET S |-> 0]
    <2>1. \A s \in SUBSET S : Cardinality(s) <= 0 => s = {}
      BY <1>0, FS_EmptySet
    <2>2. \A s \in SUBSET S : Cardinality(s) <= 0 => g[s] = Filled(g)[s]
      BY <2>1
    <2> HIDE DEF g
    <2> QED
      BY <2>2
  <1>2. ASSUME NEW n \in Nat, Fixed(n) PROVE Fixed(n+1)
    <2>1. PICK g : \A s \in SUBSET S : Cardinality(s) <= n => g[s] = Filled(g)[s]
      BY <1>2
    <2> DEFINE h == Filled(g)
    <2>2. ASSUME NEW s \in SUBSET S, Cardinality(s) <= n+1
          PROVE  h[s] = Filled(h)[s]
      <3>1. CASE s = {}
        BY <3>1
      <3>2. CASE s # {}
        <4> DEFINE t == s \ {Pick(s)}
        <4>1. t \in SUBSET S /\ Cardinality(t) <= n
          BY <1>0, <2>2, <3>2, PickIn, FS_RemoveElement
        <4>2. h[t] = g[t]
          BY <2>1, <4>1
        <4>3. h[s] = f[Pick(s)] + g[t]
          BY <3>2
        <4>4. Filled(h)[s] = f[Pick(s)] + h[t]
          BY <3>2
        <4> QED
          BY <4>2, <4>3, <4>4
      <3> QED
        BY <3>1, <3>2
    <2> HIDE DEF h
    <2> QED
      BY <2>2
  <1>3. \A n \in Nat : Fixed(n)
    <2> HIDE DEF Fixed
    <2> SUFFICES ASSUME T # {} PROVE FALSE
      OBVIOUS
    <2>1. PICK n \in T : \A m \in T : n <= m
      BY LeastNatural
    <2>2. n # 0
      BY <1>1
    <2>3. n - 1 \in Nat /\ n - 1 \notin T
      BY <2>1, <2>2
    <2>4. Fixed((n-1)+1)
      BY <1>2, <2>3
    <2> QED
      BY <2>1, <2>4
  <1>4. PICK g : \A s \in SUBSET S : Cardinality(s) <= Cardinality(S) => g[s] = Filled(g)[s]
    BY <1>3, <1>0
  <1>5. \A s \in SUBSET S : Cardinality(s) <= Cardinality(S)
    BY FS_Subset
  <1> DEFINE h == Filled(g)
  <1>6. h = Filled(h)
    <2>1. \A s \in SUBSET S : h[s] = g[s]
      BY <1>4, <1>5
    <2>2. \A s \in SUBSET S : s \ {Pick(s)} \in SUBSET S
      OBVIOUS
    <2>3. \A s \in SUBSET S : h[s \ {Pick(s)}] = g[s \ {Pick(s)}]
      BY <2>1, <2>2
    <2> QED
      BY <2>3
  <1> HIDE DEF h
  <1> QED
    BY <1>6 DEF IsSumTable

\* Induction over the subsets of a finite set.
LEMMA SubsetInduction ==
    ASSUME NEW S, IsFiniteSet(S), NEW Z,
           \A s \in SUBSET S : (\A x \in s : s \ {x} \in Z) => s \in Z
    PROVE  \A s \in SUBSET S : s \in Z
  <1> SUFFICES ASSUME NEW bad \in SUBSET S, bad \notin Z PROVE FALSE
    OBVIOUS
  <1> DEFINE B == {s \in SUBSET S : s \notin Z}
             T == {Cardinality(s) : s \in B}
  <1>1. \A s \in SUBSET S : IsFiniteSet(s) /\ Cardinality(s) \in Nat
    BY FS_Subset, FS_CardinalityType
  <1>2. T \in SUBSET Nat /\ T # {}
    BY <1>1
  <1>3. PICK n \in T : \A m \in T : n <= m
    BY <1>2, LeastNatural
  <1>4. PICK s \in B : Cardinality(s) = n
    BY <1>3
  <1>5. ASSUME NEW x \in s PROVE s \ {x} \in Z
    <2>1. Cardinality(s \ {x}) = Cardinality(s) - 1
      BY <1>1, FS_RemoveElement
    <2>2. s \ {x} \in SUBSET S
      OBVIOUS
    <2> QED
      BY <1>1, <1>3, <1>4, <2>1, <2>2
  <1> QED
    BY <1>4, <1>5

LEMMA SumTableStep ==
    ASSUME NEW S, IsFiniteSet(S), NEW f, NEW s \in SUBSET S
    PROVE  SumTable(f, S)[s] = IF s = {} THEN 0 ELSE f[Pick(s)] + SumTable(f, S)[s \ {Pick(s)}]
  <1>1. IsSumTable(SumTable(f, S), f, S)
    BY SumTableExists DEF SumTable
  <1> QED
    BY <1>1 DEF IsSumTable

LEMMA SumTableType ==
    ASSUME NEW D, NEW S \in SUBSET D, IsFiniteSet(S), NEW f \in [D -> Int]
    PROVE  \A s \in SUBSET S : SumTable(f, S)[s] \in Int
  <1> DEFINE Z == {s \in SUBSET S : SumTable(f, S)[s] \in Int}
  <1>1. ASSUME NEW s \in SUBSET S, \A x \in s : s \ {x} \in Z PROVE s \in Z
    <2>1. CASE s = {}
      <3>1. SumTable(f, S)[s] = 0
        BY <2>1, SumTableStep
      <3> QED
        BY <3>1
    <2>2. CASE s # {}
      <3>1. Pick(s) \in s /\ f[Pick(s)] \in Int
        BY <2>2, PickIn
      <3>2. SumTable(f, S)[s \ {Pick(s)}] \in Int
        BY <1>1, <3>1
      <3>3. SumTable(f, S)[s] = f[Pick(s)] + SumTable(f, S)[s \ {Pick(s)}]
        BY <2>2, SumTableStep
      <3> QED
        BY <3>1, <3>2, <3>3
    <2> QED
      BY <2>1, <2>2
  <1> HIDE DEF Z
  <1>2. \A s \in SUBSET S : s \in Z
    BY <1>1, SubsetInduction
  <1> QED
    BY <1>2 DEF Z

\* The order does not matter: any element may be taken out first.
LEMMA SumTableRemove ==
    ASSUME NEW D, NEW S \in SUBSET D, IsFiniteSet(S), NEW f \in [D -> Int]
    PROVE  \A s \in SUBSET S : \A y \in s :
               SumTable(f, S)[s] = f[y] + SumTable(f, S)[s \ {y}]
  <1> DEFINE G == SumTable(f, S)
             Z == {s \in SUBSET S : \A y \in s : G[s] = f[y] + G[s \ {y}]}
  <1>t. \A s \in SUBSET S : G[s] \in Int
    BY SumTableType
  <1>s. \A s \in SUBSET S : s # {} => G[s] = f[Pick(s)] + G[s \ {Pick(s)}]
    BY SumTableStep
  <1> HIDE DEF G
  <1>1. ASSUME NEW s \in SUBSET S, \A x \in s : s \ {x} \in Z PROVE s \in Z
    <2> SUFFICES ASSUME NEW y \in s PROVE G[s] = f[y] + G[s \ {y}]
      OBVIOUS
    <2> DEFINE x == Pick(s)
    <2>1. x \in s /\ G[s] = f[x] + G[s \ {x}]
      BY PickIn, <1>s
    <2>2. CASE x = y
      BY <2>1, <2>2
    <2>3. CASE x # y
      <3> HIDE DEF x
      <3>1. y \in s \ {x} /\ x \in s \ {y}
        BY <2>1, <2>3
      <3>2. G[s \ {x}] = f[y] + G[(s \ {x}) \ {y}]
        BY <1>1, <2>1, <3>1
      <3>3. G[s \ {y}] = f[x] + G[(s \ {y}) \ {x}]
        BY <1>1, <3>1
      <3> DEFINE u == G[(s \ {x}) \ {y}]
      <3>4. G[(s \ {y}) \ {x}] = u
        <4>1. (s \ {x}) \ {y} = (s \ {y}) \ {x}
          OBVIOUS
        <4> QED
          BY <4>1
      <3>5. u \in Int /\ f[x] \in Int /\ f[y] \in Int
        BY <1>t, <2>1
      <3> HIDE DEF u
      <3>6. G[s] = f[x] + (f[y] + u) /\ G[s \ {y}] = f[x] + u
        BY <2>1, <3>2, <3>3, <3>4 DEF u
      <3> QED
        BY <3>5, <3>6
    <2> QED
      BY <2>2, <2>3
  <1> HIDE DEF Z
  <1>2. \A s \in SUBSET S : s \in Z
    BY <1>1, SubsetInduction
  <1> QED
    BY <1>2 DEF Z, G

\* The table of a set holds the tables of its subsets.
LEMMA SumTableLocal ==
    ASSUME NEW S, IsFiniteSet(S), NEW R \in SUBSET S, NEW f
    PROVE  \A s \in SUBSET R : SumTable(f, R)[s] = SumTable(f, S)[s]
  <1> DEFINE Z == {s \in SUBSET R : SumTable(f, R)[s] = SumTable(f, S)[s]}
  <1>r. IsFiniteSet(R)
    BY FS_Subset
  <1>1. ASSUME NEW s \in SUBSET R, \A x \in s : s \ {x} \in Z PROVE s \in Z
    <2>1. CASE s = {}
      BY <1>r, <2>1, SumTableStep
    <2>2. CASE s # {}
      <3>1. Pick(s) \in s
        BY <2>2, PickIn
      <3>2. SumTable(f, R)[s \ {Pick(s)}] = SumTable(f, S)[s \ {Pick(s)}]
        BY <1>1, <3>1
      <3>3. SumTable(f, R)[s] = f[Pick(s)] + SumTable(f, R)[s \ {Pick(s)}]
        BY <1>r, <2>2, SumTableStep
      <3>4. SumTable(f, S)[s] = f[Pick(s)] + SumTable(f, S)[s \ {Pick(s)}]
        BY <2>2, SumTableStep
      <3> QED
        BY <3>2, <3>3, <3>4
    <2> QED
      BY <2>1, <2>2
  <1> HIDE DEF Z
  <1>2. \A s \in SUBSET R : s \in Z
    BY <1>r, <1>1, SubsetInduction
  <1> QED
    BY <1>2 DEF Z

\* What the proofs below use of sums.
LEMMA SumOfNone == ASSUME NEW f PROVE SumFunctionOnSet(f, {}) = 0
  BY SumIsTable, SumTableStep, FS_EmptySet

LEMMA SumIsInt ==
    ASSUME NEW D, NEW S \in SUBSET D, IsFiniteSet(S), NEW f \in [D -> Int]
    PROVE  SumFunctionOnSet(f, S) \in Int
  BY SumIsTable, SumTableType

LEMMA SumWith ==
    ASSUME NEW D, NEW S \in SUBSET D, IsFiniteSet(S), NEW f \in [D -> Int],
           NEW x \in D \ S
    PROVE  SumFunctionOnSet(f, S \cup {x}) = SumFunctionOnSet(f, S) + f[x]
  <1> DEFINE W == S \cup {x}
  <1>1. IsFiniteSet(W) /\ W \in SUBSET D
    BY FS_AddElement
  <1>2. SumTable(f, W)[W] = f[x] + SumTable(f, W)[W \ {x}]
    BY <1>1, SumTableRemove
  <1>3. W \ {x} = S
    OBVIOUS
  <1>4. SumTable(f, S)[S] = SumTable(f, W)[S]
    BY <1>1, SumTableLocal
  <1>5. f[x] \in Int /\ SumFunctionOnSet(f, S) \in Int
    BY SumIsInt
  <1>6. SumFunctionOnSet(f, W) = SumTable(f, W)[W]
    BY SumIsTable
  <1>7. SumFunctionOnSet(f, S) = SumTable(f, W)[W \ {x}]
    BY <1>3, <1>4, SumIsTable
  <1> HIDE DEF W
  <1>8. SumFunctionOnSet(f, W) = SumFunctionOnSet(f, S) + f[x]
    BY <1>2, <1>5, <1>6, <1>7
  <1> QED
    BY <1>8 DEF W

LEMMA SumAtMost ==
    ASSUME NEW D, NEW S \in SUBSET D, IsFiniteSet(S), NEW f \in [D -> Int],
           NEW m \in Int, \A x \in S : f[x] <= m
    PROVE  SumFunctionOnSet(f, S) <= Cardinality(S) * m
  <1> DEFINE Z == {s \in SUBSET S : SumFunctionOnSet(f, s) <= Cardinality(s) * m}
  <1>1. ASSUME NEW s \in SUBSET S, \A x \in s : s \ {x} \in Z PROVE s \in Z
    <2>1. CASE s = {}
      BY <2>1, SumOfNone, FS_EmptySet
    <2>2. CASE s # {}
      <3>1. PICK x : x \in s
        BY <2>2
      <3> DEFINE rest == s \ {x}
      <3>2. /\ IsFiniteSet(s) /\ IsFiniteSet(rest) 
            /\ Cardinality(rest) \in Nat /\ Cardinality(s) = Cardinality(rest) + 1
        BY <3>1, FS_Subset, FS_RemoveElement, FS_CardinalityType
      <3>3. rest \cup {x} = s /\ x \in D \ rest /\ rest \in SUBSET D
        BY <3>1
      <3>4. /\ SumFunctionOnSet(f, s) = SumFunctionOnSet(f, rest) + f[x]
            /\ SumFunctionOnSet(f, rest) \in Int
        BY <3>2, <3>3, SumWith, SumIsInt
      <3>5. f[x] \in Int /\ f[x] <= m
        BY <3>1
      <3>6. SumFunctionOnSet(f, rest) <= Cardinality(rest) * m
        BY <1>1, <3>1
      <3>7. (Cardinality(rest) + 1) * m = Cardinality(rest) * m + m /\ Cardinality(rest) * m \in Int
        BY <3>2
      <3> HIDE DEF rest
      <3> QED
        BY <3>2, <3>4, <3>5, <3>6, <3>7
    <2> QED
      BY <2>1, <2>2
  <1> HIDE DEF Z
  <1>2. S \in Z
    BY <1>1, SubsetInduction
  <1> QED
    BY <1>2 DEF Z

\* A sum of natural numbers is one.
LEMMA SumOfNaturals ==
    ASSUME NEW D, NEW S \in SUBSET D, IsFiniteSet(S), NEW f \in [D -> Nat]
    PROVE  SumFunctionOnSet(f, S) \in Nat
  <1> DEFINE Z == {s \in SUBSET S : SumFunctionOnSet(f, s) \in Nat}
  <1>1. ASSUME NEW s \in SUBSET S, \A x \in s : s \ {x} \in Z PROVE s \in Z
    <2>1. CASE s = {}
      BY <2>1, SumOfNone
    <2>2. CASE s # {}
      <3>1. PICK x : x \in s
        BY <2>2
      <3>2. /\ IsFiniteSet(s \ {x}) /\ s \ {x} \in SUBSET D
            /\ (s \ {x}) \cup {x} = s /\ x \in D \ (s \ {x})
        BY <3>1, FS_Subset
      <3>3. f \in [D -> Int]
        OBVIOUS
      <3>4. SumFunctionOnSet(f, s) = SumFunctionOnSet(f, s \ {x}) + f[x]
        <4> DEFINE rest == s \ {x}
        <4> HIDE DEF rest
        <4>1. SumFunctionOnSet(f, rest \cup {x}) = SumFunctionOnSet(f, rest) + f[x]
          BY <3>2, <3>3, SumWith DEF rest
        <4> QED
          BY <3>2, <4>1 DEF rest
      <3> QED
        BY <1>1, <3>1, <3>4
    <2> QED
      BY <2>1, <2>2
  <1> HIDE DEF Z
  <1>2. S \in Z
    BY <1>1, SubsetInduction
  <1> QED
    BY <1>2 DEF Z

\* A movement changes the stock by an integer, downwards by its quantity
\* exactly when its type is one that the use case validates.
LEMMA ContributionSign ==
    ASSUME NEW o \in Orders
    PROVE  /\ o.product \in ProductIds
           /\ o.type \in MovementTypes
           /\ o.quantity \in Nat \ {0}
           /\ SqlContribution(o.type, o.quantity) \in Int
           /\ Reduces(o.type) => SqlContribution(o.type, o.quantity) = -o.quantity
           /\ ~Reduces(o.type) => SqlContribution(o.type, o.quantity) = o.quantity
  <1>1. /\ o.product \in ProductIds
        /\ o.type \in MovementTypes
        /\ o.quantity \in Nat \ {0}
    BY OrdersAssumption
  <1>2. CASE o.type = "IN"
    BY <1>1, <1>2 DEF SqlContribution, Reduces
  <1>3. CASE o.type = "OUT"
    BY <1>1, <1>3 DEF SqlContribution, Reduces
  <1>4. CASE o.type = "ADJUSTMENT"
    BY <1>1, <1>4 DEF SqlContribution, Reduces
  <1>5. CASE o.type = "TRANSFER"
    BY <1>1, <1>5 DEF SqlContribution, Reduces
  <1> QED
    BY <1>1, <1>2, <1>3, <1>4, <1>5 DEF MovementTypes

\* The domain's delta is what SQL sums.
LEMMA DeltaIsContribution ==
    ASSUME NEW o \in Orders
    PROVE  StockDelta(o.type, o.quantity) = SqlContribution(o.type, o.quantity)
  BY OrdersAssumption DEF StockDelta, SqlContribution, MovementTypes

\* A movement that is not Insufficient is covered by the stock it was
\* compared with.
LEMMA ValidationCovers ==
    ASSUME NEW o \in Orders, NEW current \in Int, Reduces(o.type),
           ~Insufficient(o.type, o.quantity, current)
    PROVE  current >= o.quantity
  <1>1. o.quantity \in Nat
    BY ContributionSign
  <1>2. StockDelta(o.type, o.quantity) = -o.quantity
    BY DEF StockDelta, Reduces
  <1> QED
    BY <1>1, <1>2 DEF Insufficient

-----------------------------------------------------------------------------
(***************************************************************************)
(* Type correctness.  A request that is past GetProduct has a product that *)
(* exists, which the functions indexed by Products need.                   *)
(***************************************************************************)
ProductIsKnown ==
    \A r \in Requests :
        pc[r] \in InUnitOfWork \cup {"fail_fast", "fail_fast_direct", "enter_uow"}
            => ProductOf(r) \in Products

TypeInv == TypeOK /\ ProductIsKnown

LEMMA InitType == Init => TypeInv
  BY ProductsAssumption, OpeningStockAssumption, MaxFaultsAssumption
  DEF Init, TypeInv, TypeOK, ProductIsKnown, Stages, InUnitOfWork, Answers

LEMMA TypeStep == TypeInv /\ [Next]_vars => TypeInv'
  <1> SUFFICES ASSUME TypeInv, [Next]_vars PROVE TypeInv'
    OBVIOUS
  <1> USE DEF TypeInv, TypeOK, ProductIsKnown, ProductOf, requests, pool,
              tables, view, history, Goto, Answer, Stages, InUnitOfWork, Answers
  <1>1. ASSUME NEW r \in Requests, Arrive(r) PROVE TypeInv'
    BY <1>1 DEF Arrive
  <1>2. ASSUME NEW r \in Requests, GetProduct(r) PROVE TypeInv'
    BY <1>2 DEF GetProduct
  <1>3. ASSUME NEW r \in Requests, FailFastView(r) PROVE TypeInv'
    BY <1>3 DEF FailFastView, FailFastOn
  <1>4. ASSUME NEW r \in Requests, FailFastMiss(r) PROVE TypeInv'
    BY <1>4 DEF FailFastMiss
  <1>5. ASSUME NEW r \in Requests, FailFastDirect(r) PROVE TypeInv'
    BY <1>5 DEF FailFastDirect, FailFastOn
  <1>6. ASSUME NEW r \in Requests, Acquire(r) PROVE TypeInv'
    BY <1>6 DEF Acquire, Idle
  <1>7. ASSUME NEW r \in Requests, Begin(r) PROVE TypeInv'
    BY <1>7 DEF Begin
  <1>8. ASSUME NEW r \in Requests, LockProduct(r) PROVE TypeInv'
    BY <1>8 DEF LockProduct
  <1>9. ASSUME NEW r \in Requests, ReadStock(r) PROVE TypeInv'
    BY <1>9 DEF ReadStock
  <1>10. ASSUME NEW r \in Requests, pc[r] = "insert", InsertRow(r)
         PROVE  /\ stock' \in [Products -> Int]
                /\ recorded' \subseteq Requests
                /\ outSince' \in [Requests -> Nat]
                /\ raced' \subseteq Products
    <2>1. Contribution(r) \in Int /\ order[r].quantity \in Nat
      BY ContributionSign DEF Contribution
    <2>2. ProductOf(r) \in Products
      BY <1>10
    <2> QED
      BY <1>10, <2>1, <2>2 DEF InsertRow
  <1>11. ASSUME NEW r \in Requests, CreateMovement(r) PROVE TypeInv'
    BY <1>10, <1>11 DEF CreateMovement
  <1>12. ASSUME NEW r \in Requests, Commit(r) PROVE TypeInv'
    BY <1>12 DEF Commit, Release
  <1>13. ASSUME NEW r \in Requests, Rollback(r) PROVE TypeInv'
    BY <1>13 DEF Rollback, Release
  <1>14. ASSUME Fault PROVE faults' \in 0 .. MaxFaults
    BY <1>14, MaxFaultsAssumption DEF Fault
  <1>15. ASSUME NEW r \in Requests, StatementFails(r) \/ AcquireFails(r) PROVE TypeInv'
    BY <1>14, <1>15 DEF StatementFails, AcquireFails
  <1>16. ASSUME NEW r \in Requests, InsertReplyLost(r) PROVE TypeInv'
    BY <1>10, <1>14, <1>16 DEF InsertReplyLost
  <1>17. ASSUME NEW r \in Requests, BeginFails(r) PROVE TypeInv'
    BY <1>14, <1>17 DEF BeginFails
  <1>18. ASSUME NEW r \in Requests, CommitFails(r) PROVE TypeInv'
    BY <1>14, <1>18 DEF CommitFails, Release
  <1>19. CASE RefreshStart
    BY <1>19 DEF RefreshStart, Idle
  <1>20. CASE RefreshInstall
    BY <1>20 DEF RefreshInstall, EndRefresh
  <1>21. CASE RefreshFails
    BY <1>14, <1>21 DEF RefreshFails, EndRefresh
  <1>22. CASE UNCHANGED vars
    BY <1>22 DEF vars
  <1> QED
    BY <1>1, <1>2, <1>3, <1>4, <1>5, <1>6, <1>7, <1>8, <1>9, <1>11, <1>12,
       <1>13, <1>15, <1>16, <1>17, <1>18, <1>19, <1>20, <1>21, <1>22
    DEF Next, Step, Error

\* Every reachable state is well typed: statuses, stages, connection holders
\* and stocks stay in their sets whatever the interleaving.
THEOREM TypeCorrect == Spec => []TypeOK
  <1>1. TypeInv => TypeOK
    BY DEF TypeInv
  <1> QED
    BY InitType, TypeStep, <1>1, PTL DEF Spec

-----------------------------------------------------------------------------
(***************************************************************************)
(* What a validated request may still rely on: its quantity is covered by  *)
(* the stock, but for what other movements took since it read it.          *)
(***************************************************************************)
ValidatedIsCovered ==
    \A r \in Requests :
        Validated(r) =>
            stock[ProductOf(r)] + outSince[r] >= order[r].quantity

RaceInv == TypeInv /\ ValidatedIsCovered /\ NegativeOnlyIfRaced

\* The INSERT is the only action that moves the stock: it keeps every other
\* validated request covered, and goes below zero only by racing.
LEMMA InsertKeepsRaceInv ==
    ASSUME RaceInv, NEW r \in Requests, pc[r] = "insert", InsertRow(r),
           NEW stage \in {"commit", "rollback"}, Goto(r, stage), order' = order
    PROVE  ValidatedIsCovered' /\ NegativeOnlyIfRaced'
  <1> DEFINE q == order[r].quantity
             p == ProductOf(r)
  <1>1. /\ q \in Nat \ {0}
        /\ Contribution(r) \in Int
        /\ ReducesStock(r) => Contribution(r) = -q
        /\ ~ReducesStock(r) => Contribution(r) = q
    BY ContributionSign DEF RaceInv, TypeInv, TypeOK, Contribution, ReducesStock
  <1>2. p \in Products /\ stock[p] \in Int
    BY DEF RaceInv, TypeInv, TypeOK, ProductIsKnown, InUnitOfWork
  <1>3. /\ stock'[p] = stock[p] + Contribution(r)
        /\ \A other \in Products \ {p} : stock'[other] = stock[other]
    BY <1>2 DEF InsertRow, RaceInv, TypeInv, TypeOK
  <1>4. NegativeOnlyIfRaced'
    <2>1. CASE ReducesStock(r) /\ outSince[r] = 0
      <3>1. stock[p] >= q
        BY <1>1, <1>2, <2>1
        DEF RaceInv, ValidatedIsCovered, Validated, TypeInv, TypeOK
      <3>2. stock'[p] >= 0
        BY <1>1, <1>2, <1>3, <2>1, <3>1
      <3> QED
        BY <1>3, <3>2 DEF NegativeOnlyIfRaced, RaceInv, InsertRow
    <2>2. CASE ReducesStock(r) /\ outSince[r] # 0
      <3>1. p \in raced' /\ raced \subseteq raced'
        BY <2>2 DEF InsertRow, RaceInv, TypeInv, TypeOK
      <3> QED
        BY <1>3, <3>1 DEF NegativeOnlyIfRaced, RaceInv
    <2>3. CASE ~ReducesStock(r)
      <3>1. stock'[p] >= stock[p] /\ stock'[p] \in Int
        BY <1>1, <1>2, <1>3, <2>3
      <3>2. raced' = raced
        BY <2>3 DEF InsertRow
      <3>3. stock[p] >= 0 => stock'[p] >= 0
        BY <1>2, <3>1
      <3> QED
        BY <1>2, <1>3, <3>2, <3>3 DEF NegativeOnlyIfRaced, RaceInv
    <2> QED
      BY <2>1, <2>2, <2>3
  <1>5. ValidatedIsCovered'
    <2> SUFFICES ASSUME NEW s \in Requests, Validated(s)'
                 PROVE  (stock[ProductOf(s)] + outSince[s] >= order[s].quantity)'
      BY DEF ValidatedIsCovered
    <2>1. s # r /\ Validated(s)
      BY DEF Validated, Goto, ReducesStock, RaceInv, TypeInv, TypeOK
    <2>2. /\ ProductOf(s) \in Products
          /\ ProductOf(s)' = ProductOf(s)
          /\ order'[s].quantity = order[s].quantity
      BY <2>1 DEF Validated, RaceInv, TypeInv, ProductIsKnown, InUnitOfWork, ProductOf
    <2>3. /\ stock[ProductOf(s)] + outSince[s] >= order[s].quantity
          /\ stock[ProductOf(s)] \in Int
          /\ outSince[s] \in Nat
          /\ order[s].quantity \in Nat
      BY <2>1, <2>2, ContributionSign
      DEF RaceInv, ValidatedIsCovered, TypeInv, TypeOK
    <2>4. CASE ProductOf(s) # p
      <3>1. outSince'[s] = outSince[s]
        BY <2>4 DEF InsertRow
      <3> QED
        BY <1>3, <2>2, <2>3, <2>4, <3>1
    <2>5. CASE ProductOf(s) = p /\ ReducesStock(r)
      <3>1. outSince'[s] = outSince[s] + q
        BY <2>1, <2>5 DEF InsertRow
      <3>2. stock'[p] = stock[p] - q
        BY <1>1, <1>2, <1>3, <2>5
      <3> QED
        BY <1>1, <2>2, <2>3, <2>5, <3>1, <3>2
    <2>6. CASE ProductOf(s) = p /\ ~ReducesStock(r)
      <3>1. outSince'[s] = outSince[s]
        BY <2>6 DEF InsertRow
      <3>2. stock'[p] = stock[p] + q
        BY <1>1, <1>2, <1>3, <2>6
      <3> QED
        BY <1>1, <2>2, <2>3, <2>6, <3>1, <3>2
    <2> QED
      BY <2>4, <2>5, <2>6
  <1> QED
    BY <1>4, <1>5

\* The second validation establishes the cover.
LEMMA ReadKeepsRaceInv ==
    ASSUME RaceInv, NEW r \in Requests, ReadStock(r)
    PROVE  ValidatedIsCovered' /\ NegativeOnlyIfRaced'
  <1>1. /\ UNCHANGED <<order, stock, raced>>
        /\ ProductOf(r) \in Products
        /\ stock[ProductOf(r)] \in Int
    BY DEF ReadStock, tables, RaceInv, TypeInv, TypeOK, ProductIsKnown, InUnitOfWork
  <1>2. NegativeOnlyIfRaced'
    BY <1>1 DEF NegativeOnlyIfRaced, RaceInv
  <1>3. ValidatedIsCovered'
    <2> SUFFICES ASSUME NEW s \in Requests, Validated(s)'
                 PROVE  stock[ProductOf(s)] + outSince'[s] >= order[s].quantity
      BY <1>1 DEF ValidatedIsCovered, ProductOf
    <2>1. CASE s = r
      <3>1. Reduces(order[r].type) /\ ~WouldOverdraw(r, stock[ProductOf(r)])
        BY <1>1, <2>1
        DEF ReadStock, Validated, ReducesStock, Goto, RaceInv, TypeInv, TypeOK
      <3>2. stock[ProductOf(r)] >= order[r].quantity
        BY <1>1, <3>1, ValidationCovers DEF WouldOverdraw, RaceInv, TypeInv, TypeOK
      <3>3. outSince'[r] = 0
        BY DEF ReadStock, RaceInv, TypeInv, TypeOK
      <3> QED
        BY <1>1, <2>1, <3>2, <3>3
    <2>2. CASE s # r
      <3>1. Validated(s) /\ outSince'[s] = outSince[s]
        BY <1>1, <2>2 DEF ReadStock, Validated, ReducesStock, Goto, RaceInv, TypeInv, TypeOK
      <3> QED
        BY <3>1 DEF RaceInv, ValidatedIsCovered
    <2> QED
      BY <2>1, <2>2
  <1> QED
    BY <1>2, <1>3

\* Every other action leaves the stock alone and validates nobody, except
\* that a request without stock check may arrive at its INSERT.
LEMMA OthersKeepRaceInv ==
    ASSUME RaceInv, UNCHANGED <<order, stock, outSince, raced>>,
           \A s \in Requests : Validated(s)' => Validated(s)
    PROVE  ValidatedIsCovered' /\ NegativeOnlyIfRaced'
  BY DEF RaceInv, ValidatedIsCovered, NegativeOnlyIfRaced, ProductOf

LEMMA RaceStep == RaceInv /\ [Next]_vars => RaceInv'
  <1> SUFFICES ASSUME RaceInv, [Next]_vars
               PROVE  ValidatedIsCovered' /\ NegativeOnlyIfRaced'
    BY TypeStep DEF RaceInv
  <1> USE DEF requests, pool, tables, view, history
  <1>1. ASSUME NEW r \in Requests, CreateMovement(r) \/ InsertReplyLost(r)
        PROVE  ValidatedIsCovered' /\ NegativeOnlyIfRaced'
    BY <1>1, InsertKeepsRaceInv DEF CreateMovement, InsertReplyLost
  <1>2. ASSUME NEW r \in Requests, ReadStock(r)
        PROVE  ValidatedIsCovered' /\ NegativeOnlyIfRaced'
    BY <1>2, ReadKeepsRaceInv
  <1>3. ASSUME NEW r \in Requests,
               \/ Arrive(r) \/ GetProduct(r) \/ FailFastView(r) \/ FailFastMiss(r)
               \/ FailFastDirect(r) \/ Acquire(r) \/ Begin(r) \/ LockProduct(r)
               \/ Commit(r) \/ Rollback(r) \/ StatementFails(r) \/ AcquireFails(r)
               \/ BeginFails(r) \/ CommitFails(r)
        PROVE  ValidatedIsCovered' /\ NegativeOnlyIfRaced'
    <2>1. UNCHANGED <<order, stock, outSince, raced>>
      BY <1>3
      DEF Arrive, GetProduct, FailFastView, FailFastMiss, FailFastDirect,
          FailFastOn, Acquire, Begin, LockProduct, Commit, Rollback,
          StatementFails, AcquireFails, BeginFails, CommitFails
    <2>2. \E stage \in Stages : Goto(r, stage) /\ (ReducesStock(r) => stage # "insert")
      BY <1>3
      DEF Arrive, GetProduct, FailFastView, FailFastMiss, FailFastDirect,
          FailFastOn, Acquire, Begin, LockProduct, Commit, Rollback,
          StatementFails, AcquireFails, BeginFails, CommitFails, Stages, InUnitOfWork
    <2>3. \A s \in Requests : Validated(s)' => Validated(s)
      BY <2>1, <2>2 DEF Goto, Validated, ReducesStock, RaceInv, TypeInv, TypeOK
    <2> QED
      BY <2>1, <2>3, OthersKeepRaceInv
  <1>4. CASE RefreshStart \/ RefreshInstall \/ RefreshFails \/ UNCHANGED vars
    <2>1. UNCHANGED <<order, pc, stock, outSince, raced>>
      BY <1>4 DEF RefreshStart, RefreshInstall, RefreshFails, EndRefresh, vars
    <2>2. \A s \in Requests : Validated(s)' => Validated(s)
      BY <2>1 DEF Validated, ReducesStock
    <2> QED
      BY <2>1, <2>2, OthersKeepRaceInv
  <1> QED
    BY <1>1, <1>2, <1>3, <1>4 DEF Next, Step, Error

LEMMA InitRace == Init => RaceInv
  BY InitType, OpeningStockAssumption
  DEF Init, RaceInv, ValidatedIsCovered, Validated, NegativeOnlyIfRaced

\* The stock goes below zero only by a movement inserted on an overtaken
\* read: everything else that the code does about stock is sound, for any
\* number of requests, any pool and any failures.
THEOREM OverdraftNeedsRace == Spec => []NegativeOnlyIfRaced
  <1>1. RaceInv => NegativeOnlyIfRaced
    BY DEF RaceInv
  <1> QED
    BY InitRace, RaceStep, <1>1, PTL DEF Spec

-----------------------------------------------------------------------------
(***************************************************************************)
(* What the client is told.  The strengthening follows a request through   *)
(* the unit of work: no answer is decided before the rollback or the end,  *)
(* and the row exists from the INSERT on.                                  *)
(***************************************************************************)
AnswerInv ==
    /\ TypeInv
    /\ AnswerMatchesLedger
    /\ \A r \in Requests :
          /\ pc[r] \notin {"rollback", "done"} => answer[r] = 0
          /\ r \in recorded => pc[r] \in {"commit", "rollback", "done"}
          /\ pc[r] = "commit" => r \in recorded

LEMMA InitAnswer == Init => AnswerInv
  BY InitType DEF Init, AnswerInv, AnswerMatchesLedger

LEMMA AnswerStep == AnswerInv /\ [Next]_vars => AnswerInv'
  <1> SUFFICES ASSUME AnswerInv, TypeInv', [Next]_vars PROVE AnswerInv'
    BY TypeStep DEF AnswerInv
  <1> USE DEF AnswerInv, AnswerMatchesLedger, requests, pool, tables, view,
              history, Goto, Answer
  <1>1. TypeOK
    BY DEF TypeInv
  <1>2. ASSUME NEW r \in Requests,
               \/ Arrive(r) \/ GetProduct(r) \/ FailFastView(r) \/ FailFastMiss(r)
               \/ FailFastDirect(r)
        PROVE  AnswerInv'
    BY <1>1, <1>2
    DEF Arrive, GetProduct, FailFastView, FailFastMiss, FailFastDirect,
        FailFastOn, TypeOK
  <1>3. ASSUME NEW r \in Requests,
               Acquire(r) \/ Begin(r) \/ LockProduct(r) \/ ReadStock(r)
        PROVE  AnswerInv'
    BY <1>1, <1>3 DEF Acquire, Begin, LockProduct, ReadStock, TypeOK
  <1>4. ASSUME NEW r \in Requests, CreateMovement(r) \/ InsertReplyLost(r)
        PROVE  AnswerInv'
    BY <1>1, <1>4 DEF CreateMovement, InsertReplyLost, InsertRow, TypeOK
  <1>5. ASSUME NEW r \in Requests, Commit(r) \/ Rollback(r) \/ CommitFails(r)
        PROVE  AnswerInv'
    BY <1>1, <1>5 DEF Commit, Rollback, CommitFails, TypeOK
  <1>6. ASSUME NEW r \in Requests, StatementFails(r) \/ AcquireFails(r) \/ BeginFails(r)
        PROVE  AnswerInv'
    BY <1>1, <1>6 DEF StatementFails, AcquireFails, BeginFails, TypeOK
  <1>7. CASE RefreshStart \/ RefreshInstall \/ RefreshFails \/ UNCHANGED vars
    BY <1>7 DEF RefreshStart, RefreshInstall, RefreshFails, EndRefresh, vars
  <1> QED
    BY <1>2, <1>3, <1>4, <1>5, <1>6, <1>7 DEF Next, Step, Error

\* 201 is answered only for a row that is in the table, and 400 and 409 only
\* for one that is not; only 500 leaves the client in doubt.
THEOREM AnswersAreTrue == Spec => []AnswerMatchesLedger
  <1>1. AnswerInv => AnswerMatchesLedger
    BY DEF AnswerInv
  <1> QED
    BY InitAnswer, AnswerStep, <1>1, PTL DEF Spec

-----------------------------------------------------------------------------
(***************************************************************************)
(* Pool accounting.                                                        *)
(***************************************************************************)
HolderInv == TypeInv /\ OneConnectionPerUnitOfWork

LEMMA InitHolder == Init => HolderInv
  BY InitType, RequestsAssumption
  DEF Init, HolderInv, OneConnectionPerUnitOfWork, InUnitOfWork, HeldBy

LEMMA HolderStep == HolderInv /\ [Next]_vars => HolderInv'
  <1> SUFFICES ASSUME HolderInv, [Next]_vars PROVE OneConnectionPerUnitOfWork'
    BY TypeStep DEF HolderInv
  <1> USE DEF HolderInv, OneConnectionPerUnitOfWork, HeldBy, requests, pool,
              tables, view, history, Goto, Answer, InUnitOfWork
  <1>1. TypeOK
    BY DEF TypeInv
  <1>2. ASSUME NEW r \in Requests,
               \/ Arrive(r) \/ GetProduct(r) \/ FailFastView(r) \/ FailFastMiss(r)
               \/ FailFastDirect(r) \/ Begin(r) \/ LockProduct(r) \/ ReadStock(r)
               \/ CreateMovement(r) \/ InsertReplyLost(r) \/ StatementFails(r)
               \/ AcquireFails(r)
        PROVE  OneConnectionPerUnitOfWork'
    <2>1. holder' = holder
      BY <1>2
      DEF Arrive, GetProduct, FailFastView, FailFastMiss, FailFastDirect,
          FailFastOn, Begin, LockProduct, ReadStock, CreateMovement,
          InsertReplyLost, StatementFails, AcquireFails
    <2>2. \E stage : /\ Goto(r, stage)
                     /\ stage \in InUnitOfWork <=> pc[r] \in InUnitOfWork
      BY <1>2
      DEF Arrive, GetProduct, FailFastView, FailFastMiss, FailFastDirect,
          FailFastOn, Begin, LockProduct, ReadStock, CreateMovement,
          InsertReplyLost, StatementFails, AcquireFails
    <2>3. \A s \in Requests : pc'[s] \in InUnitOfWork <=> pc[s] \in InUnitOfWork
      BY <1>1, <2>2 DEF TypeOK
    <2> QED
      BY <2>1, <2>3
  <1>3. ASSUME NEW r \in Requests, Acquire(r)
        PROVE  OneConnectionPerUnitOfWork'
    <2>1. PICK c \in Idle : holder' = [holder EXCEPT ![c] = r]
      BY <1>3 DEF Acquire
    <2>2. HeldBy(r) = {} /\ HeldBy(r)' = {c}
      BY <1>1, <1>3, <2>1, RequestsAssumption DEF Acquire, Idle, TypeOK
    <2>3. \A s \in Requests \ {r} : HeldBy(s)' = HeldBy(s) /\ pc'[s] = pc[s]
      BY <1>1, <1>3, <2>1, RequestsAssumption DEF Acquire, Idle, TypeOK
    <2>4. \A d \in Conns : holder'[d] = "refresh" => holder[d] = "refresh"
      BY <1>1, <2>1, RequestsAssumption DEF Idle, TypeOK
    <2>5. pc'[r] \in InUnitOfWork
      BY <1>1, <1>3 DEF Acquire, TypeOK
    <2> QED
      BY <2>2, <2>3, <2>4, <2>5
  <1>4. ASSUME NEW r \in Requests,
               Commit(r) \/ Rollback(r) \/ CommitFails(r) \/ BeginFails(r)
        PROVE  OneConnectionPerUnitOfWork'
    <2>1. PICK fate \in {"idle", "leaked"} :
             holder' = [c \in Conns |-> IF holder[c] = r THEN fate ELSE holder[c]]
      BY <1>4 DEF Commit, Rollback, CommitFails, BeginFails, Release
    <2>2. HeldBy(r)' = {} /\ pc'[r] = "done"
      BY <1>1, <1>4, <2>1, RequestsAssumption
      DEF TypeOK, Commit, Rollback, CommitFails, BeginFails
    <2>3. \A s \in Requests \ {r} : HeldBy(s)' = HeldBy(s) /\ pc'[s] = pc[s]
      BY <1>1, <1>4, <2>1, RequestsAssumption
      DEF TypeOK, Commit, Rollback, CommitFails, BeginFails
    <2>4. \A d \in Conns : holder'[d] = "refresh" => holder[d] = "refresh"
      BY <1>1, <2>1, RequestsAssumption DEF TypeOK
    <2> QED
      BY <2>2, <2>3, <2>4
  <1>5. CASE RefreshStart
    <2>1. PICK c \in Idle : holder' = [holder EXCEPT ![c] = "refresh"]
      BY <1>5 DEF RefreshStart
    <2>2. \A s \in Requests : HeldBy(s)' = HeldBy(s) /\ pc'[s] = pc[s]
      BY <1>1, <1>5, <2>1, RequestsAssumption DEF RefreshStart, Idle, TypeOK
    <2>3. \A d \in Conns : holder'[d] = "refresh" => d = c
      BY <1>1, <1>5, <2>1 DEF RefreshStart, RefreshRunning, TypeOK
    <2> QED
      BY <2>2, <2>3
  <1>6. CASE RefreshInstall \/ RefreshFails
    <2>1. holder' = [c \in Conns |-> IF holder[c] = "refresh" THEN "idle"
                                                             ELSE holder[c]]
      BY <1>6 DEF RefreshInstall, RefreshFails, EndRefresh
    <2>2. \A s \in Requests : HeldBy(s)' = HeldBy(s) /\ pc'[s] = pc[s]
      BY <1>1, <1>6, <2>1, RequestsAssumption
      DEF RefreshInstall, RefreshFails, EndRefresh, TypeOK
    <2>3. \A d \in Conns : holder'[d] # "refresh"
      BY <2>1
    <2> QED
      BY <2>2, <2>3
  <1>7. CASE UNCHANGED vars
    BY <1>7 DEF vars
  <1> QED
    BY <1>2, <1>3, <1>4, <1>5, <1>6, <1>7 DEF Next, Step, Error

\* A request owns exactly one connection inside its unit of work and none
\* outside, whatever fails; a refresh never runs twice.
THEOREM ConnectionsAreAccounted == Spec => []OneConnectionPerUnitOfWork
  <1>1. HolderInv => OneConnectionPerUnitOfWork
    BY DEF HolderInv
  <1> QED
    BY InitHolder, HolderStep, <1>1, PTL DEF Spec

-----------------------------------------------------------------------------
(***************************************************************************)
(* A pool of at most two connections.  An INSERT needs an idle connection  *)
(* besides the one its own request holds, so no other request can have a   *)
(* unit of work open at that moment.                                       *)
(***************************************************************************)
ValidatedIsSafe ==
    \A r \in Requests : Validated(r) => stock[ProductOf(r)] >= order[r].quantity

PoolInv == HolderInv /\ ValidatedIsSafe /\ StockNeverNegative

LEMMA StatementExcludesOthers ==
    ASSUME PoolOfTwo, HolderInv, CanRunStatement,
           NEW r \in Requests, NEW s \in Requests,
           pc[r] \in InUnitOfWork, pc[s] \in InUnitOfWork
    PROVE  r = s
  <1>1. PICK c \in Conns : holder[c] = "idle"
    BY DEF CanRunStatement, Idle
  <1>2. PICK a \in Conns : holder[a] = r
    BY DEF HolderInv, OneConnectionPerUnitOfWork, HeldBy
  <1>3. PICK b \in Conns : holder[b] = s
    BY DEF HolderInv, OneConnectionPerUnitOfWork, HeldBy
  <1>4. a # c /\ b # c
    BY <1>1, <1>2, <1>3, RequestsAssumption
  <1> QED
    BY <1>2, <1>3, <1>4 DEF PoolOfTwo

LEMMA InitPool == Init => PoolInv
  BY InitHolder, OpeningStockAssumption
  DEF Init, PoolInv, ValidatedIsSafe, Validated, StockNeverNegative

LEMMA PoolStep == ASSUME PoolOfTwo PROVE PoolInv /\ [Next]_vars => PoolInv'
  <1> SUFFICES ASSUME PoolInv, [Next]_vars
               PROVE  ValidatedIsSafe' /\ StockNeverNegative'
    BY HolderStep DEF PoolInv
  <1> USE DEF requests, pool, tables, view, history
  <1>1. TypeOK /\ ProductIsKnown
    BY DEF PoolInv, HolderInv, TypeInv
  <1>2. ASSUME NEW r \in Requests, CreateMovement(r) \/ InsertReplyLost(r)
        PROVE  ValidatedIsSafe' /\ StockNeverNegative'
    <2>1. /\ pc[r] = "insert" /\ CanRunStatement /\ InsertRow(r)
          /\ order' = order
          /\ \E stage \in {"commit", "rollback"} : Goto(r, stage)
      BY <1>2 DEF CreateMovement, InsertReplyLost
    <2>2. \A s \in Requests : Validated(s) => s = r
      BY <2>1, StatementExcludesOthers DEF PoolInv, Validated, InUnitOfWork
    <2>3. \A s \in Requests : ~Validated(s)'
      BY <1>1, <2>1, <2>2 DEF Validated, Goto, ReducesStock, TypeOK
    <2>4. /\ ProductOf(r) \in Products
          /\ stock[ProductOf(r)] \in Int
          /\ stock[ProductOf(r)] >= 0
      BY <1>1, <2>1 DEF TypeOK, ProductIsKnown, InUnitOfWork, PoolInv, StockNeverNegative
    <2>5. /\ order[r].quantity \in Nat
          /\ ReducesStock(r) => Contribution(r) = -order[r].quantity
          /\ ~ReducesStock(r) => Contribution(r) = order[r].quantity
      BY <1>1, ContributionSign DEF TypeOK, Contribution, ReducesStock
    <2>6. ReducesStock(r) => stock[ProductOf(r)] >= order[r].quantity
      BY <2>1 DEF PoolInv, ValidatedIsSafe, Validated
    <2>7. stock[ProductOf(r)] + Contribution(r) >= 0
      BY <2>4, <2>5, <2>6
    <2> QED
      BY <1>1, <2>1, <2>3, <2>4, <2>7
      DEF ValidatedIsSafe, StockNeverNegative, InsertRow, TypeOK, PoolInv
  <1>3. ASSUME NEW r \in Requests, ReadStock(r)
        PROVE  ValidatedIsSafe' /\ StockNeverNegative'
    <2>1. UNCHANGED <<order, stock>>
      BY <1>3 DEF ReadStock
    <2>2. ASSUME NEW s \in Requests, Validated(s)'
          PROVE  stock[ProductOf(s)] >= order[s].quantity
      <3>1. CASE s = r
        <4>1. Reduces(order[r].type) /\ ~WouldOverdraw(r, stock[ProductOf(r)])
          BY <1>1, <1>3, <2>1, <2>2, <3>1
          DEF ReadStock, Validated, ReducesStock, Goto, TypeOK
        <4>2. ProductOf(r) \in Products
          BY <1>1, <1>3 DEF ReadStock, ProductIsKnown, InUnitOfWork
        <4> QED
          BY <1>1, <3>1, <4>1, <4>2, ValidationCovers DEF WouldOverdraw, TypeOK
      <3>2. CASE s # r
        BY <1>1, <1>3, <2>1, <2>2, <3>2
        DEF ReadStock, Validated, ReducesStock, Goto, TypeOK, PoolInv, ValidatedIsSafe
      <3> QED
        BY <3>1, <3>2
    <2> QED
      BY <2>1, <2>2 DEF ValidatedIsSafe, StockNeverNegative, PoolInv, ProductOf
  <1>4. ASSUME NEW r \in Requests,
               \/ Arrive(r) \/ GetProduct(r) \/ FailFastView(r) \/ FailFastMiss(r)
               \/ FailFastDirect(r) \/ Acquire(r) \/ Begin(r) \/ LockProduct(r)
               \/ Commit(r) \/ Rollback(r) \/ StatementFails(r) \/ AcquireFails(r)
               \/ BeginFails(r) \/ CommitFails(r)
        PROVE  ValidatedIsSafe' /\ StockNeverNegative'
    <2>1. UNCHANGED <<order, stock>>
      BY <1>4
      DEF Arrive, GetProduct, FailFastView, FailFastMiss, FailFastDirect,
          FailFastOn, Acquire, Begin, LockProduct, Commit, Rollback,
          StatementFails, AcquireFails, BeginFails, CommitFails
    <2>2. \E stage \in Stages : Goto(r, stage) /\ (ReducesStock(r) => stage # "insert")
      BY <1>4
      DEF Arrive, GetProduct, FailFastView, FailFastMiss, FailFastDirect,
          FailFastOn, Acquire, Begin, LockProduct, Commit, Rollback,
          StatementFails, AcquireFails, BeginFails, CommitFails, Stages, InUnitOfWork
    <2>3. \A s \in Requests : Validated(s)' => Validated(s)
      BY <1>1, <2>1, <2>2 DEF Goto, Validated, ReducesStock, TypeOK
    <2> QED
      BY <2>1, <2>3 DEF ValidatedIsSafe, StockNeverNegative, PoolInv, ProductOf
  <1>5. CASE RefreshStart \/ RefreshInstall \/ RefreshFails \/ UNCHANGED vars
    <2>1. UNCHANGED <<order, pc, stock>>
      BY <1>5 DEF RefreshStart, RefreshInstall, RefreshFails, EndRefresh, vars
    <2> QED
      BY <2>1
      DEF ValidatedIsSafe, StockNeverNegative, PoolInv, ProductOf, Validated, ReducesStock
  <1> QED
    BY <1>2, <1>3, <1>4, <1>5 DEF Next, Step, Error

\* With at most two connections the stock is never negative, for any number
\* of requests and any faults: the pool does what the row lock was meant to.
THEOREM PoolOfTwoSerializes == Spec => []PoolOfTwoNeverOverdraws
  <1>1. CASE PoolOfTwo
    <2>1. PoolInv => PoolOfTwoNeverOverdraws
      BY DEF PoolInv, StockNeverNegative, PoolOfTwoNeverOverdraws
    <2>2. PoolInv /\ [Next]_vars => PoolInv'
      BY <1>1, PoolStep
    <2> QED
      BY InitPool, <2>1, <2>2, PTL DEF Spec
  <1>2. CASE ~PoolOfTwo
    <2>1. PoolOfTwoNeverOverdraws
      BY <1>2 DEF PoolOfTwoNeverOverdraws
    <2> QED
      BY <2>1, PTL
  <1> QED
    BY <1>1, <1>2

-----------------------------------------------------------------------------
(***************************************************************************)
(* The stock is the sum of the movements.  A request's row is inserted     *)
(* once, which AnswerInv knows, so each INSERT adds one new summand.       *)
(***************************************************************************)
LedgerInv == AnswerInv /\ IsFiniteSet(recorded) /\ StockMatchesDomainRule

Deltas == [r \in Requests |-> StockDelta(order[r].type, order[r].quantity)]

LEMMA DeltasType == ASSUME TypeOK PROVE Deltas \in [Requests -> Int]
  <1>1. ASSUME NEW r \in Requests
        PROVE  StockDelta(order[r].type, order[r].quantity) \in Int
    BY ContributionSign, DeltaIsContribution DEF TypeOK
  <1> QED
    BY <1>1 DEF Deltas

LEMMA InsertAddsSummand ==
    ASSUME LedgerInv, NEW r \in Requests, pc[r] = "insert", InsertRow(r),
           order' = order
    PROVE  IsFiniteSet(recorded)' /\ StockMatchesDomainRule'
  <1>1. /\ TypeOK /\ r \notin recorded /\ IsFiniteSet(recorded)
        /\ ProductOf(r) \in Products
    BY DEF LedgerInv, AnswerInv, TypeInv, ProductIsKnown, InUnitOfWork
  <1>2. recorded' = recorded \cup {r} /\ IsFiniteSet(recorded')
    BY <1>1, FS_AddElement DEF InsertRow
  <1>3. Deltas' = Deltas
    BY DEF Deltas
  <1>4. Deltas[r] = Contribution(r) /\ Deltas[r] \in Int
    BY <1>1, DeltaIsContribution, DeltasType DEF Deltas, Contribution, TypeOK
  <1>5. ASSUME NEW p \in Products
        PROVE  stock'[p] = OpeningStock[p] + SumFunctionOnSet(Deltas, MovementsOf(p)')
    <2>1. /\ MovementsOf(p) \in SUBSET Requests /\ IsFiniteSet(MovementsOf(p))
          /\ r \notin MovementsOf(p)
      BY <1>1, FS_Subset DEF MovementsOf, TypeOK
    <2>2. stock[p] = OpeningStock[p] + SumFunctionOnSet(Deltas, MovementsOf(p))
      BY DEF LedgerInv, StockMatchesDomainRule, Deltas
    <2>3. CASE p = ProductOf(r)
      <3>1. MovementsOf(p)' = MovementsOf(p) \cup {r}
        BY <1>2, <2>3 DEF MovementsOf, ProductOf
      <3>2. SumFunctionOnSet(Deltas, MovementsOf(p) \cup {r})
                = SumFunctionOnSet(Deltas, MovementsOf(p)) + Deltas[r]
        BY <1>1, <2>1, DeltasType, SumWith
      <3>3. stock'[p] = stock[p] + Deltas[r]
        BY <1>1, <1>4, <2>3 DEF InsertRow, TypeOK
      <3>4. SumFunctionOnSet(Deltas, MovementsOf(p)) \in Int /\ OpeningStock[p] \in Int
        BY <1>1, <2>1, DeltasType, SumIsInt, OpeningStockAssumption
      <3> QED
        BY <1>4, <2>2, <3>1, <3>2, <3>3, <3>4
    <2>4. CASE p # ProductOf(r)
      <3>1. MovementsOf(p)' = MovementsOf(p)
        BY <1>2, <2>4 DEF MovementsOf, ProductOf
      <3>2. stock'[p] = stock[p]
        BY <1>1, <2>4 DEF InsertRow, TypeOK
      <3> QED
        BY <2>2, <3>1, <3>2
    <2> QED
      BY <2>3, <2>4
  <1> QED
    BY <1>2, <1>3, <1>5 DEF StockMatchesDomainRule, Deltas

\* No other action changes the rows, the bodies or the stock.
LEMMA OnlyInsertMovesStock ==
    ASSUME [Next]_vars,
           \A r \in Requests : ~CreateMovement(r) /\ ~InsertReplyLost(r)
    PROVE  UNCHANGED <<order, stock, recorded>>
  <1> USE DEF requests, tables
  <1>1. ASSUME NEW r \in Requests,
               \/ Arrive(r) \/ GetProduct(r) \/ FailFastView(r) \/ FailFastMiss(r)
               \/ FailFastDirect(r) \/ Acquire(r) \/ Begin(r) \/ LockProduct(r)
               \/ ReadStock(r) \/ Commit(r) \/ Rollback(r) \/ StatementFails(r)
               \/ AcquireFails(r) \/ BeginFails(r) \/ CommitFails(r)
        PROVE  UNCHANGED <<order, stock, recorded>>
    BY <1>1
    DEF Arrive, GetProduct, FailFastView, FailFastMiss, FailFastDirect,
        FailFastOn, Acquire, Begin, LockProduct, ReadStock, Commit, Rollback,
        StatementFails, AcquireFails, BeginFails, CommitFails
  <1>2. CASE RefreshStart \/ RefreshInstall \/ RefreshFails \/ UNCHANGED vars
    BY <1>2 DEF RefreshStart, RefreshInstall, RefreshFails, EndRefresh, vars
  <1> QED
    BY <1>1, <1>2 DEF Next, Step, Error

LEMMA InitLedger == Init => LedgerInv
  <1> SUFFICES ASSUME Init PROVE IsFiniteSet(recorded) /\ StockMatchesDomainRule
    BY InitAnswer DEF LedgerInv
  <1>1. recorded = {} /\ stock = OpeningStock
    BY DEF Init
  <1>2. ASSUME NEW p \in Products
        PROVE  stock[p] = OpeningStock[p] + SumFunctionOnSet(Deltas, MovementsOf(p))
    <2>1. MovementsOf(p) = {}
      BY <1>1 DEF MovementsOf
    <2>2. SumFunctionOnSet(Deltas, MovementsOf(p)) = 0
      BY <2>1, SumOfNone
    <2> QED
      BY <1>1, <2>2, OpeningStockAssumption
  <1> QED
    BY <1>1, <1>2, FS_EmptySet DEF StockMatchesDomainRule, Deltas

LEMMA LedgerStep == LedgerInv /\ [Next]_vars => LedgerInv'
  <1> SUFFICES ASSUME LedgerInv, [Next]_vars
               PROVE  IsFiniteSet(recorded)' /\ StockMatchesDomainRule'
    BY AnswerStep DEF LedgerInv
  <1>1. ASSUME NEW r \in Requests, CreateMovement(r) \/ InsertReplyLost(r)
        PROVE  IsFiniteSet(recorded)' /\ StockMatchesDomainRule'
    BY <1>1, InsertAddsSummand DEF CreateMovement, InsertReplyLost
  <1>2. CASE \A r \in Requests : ~CreateMovement(r) /\ ~InsertReplyLost(r)
    BY <1>2, OnlyInsertMovesStock
    DEF LedgerInv, StockMatchesDomainRule, MovementsOf, ProductOf
  <1> QED
    BY <1>1, <1>2

\* The stock that SQL sums is at every moment the opening stock moved by what
\* the domain rule says of each recorded movement, once each.
THEOREM StockIsSumOfMovements == Spec => []StockMatchesDomainRule
  <1>1. LedgerInv => StockMatchesDomainRule
    BY DEF LedgerInv
  <1> QED
    BY InitLedger, LedgerStep, <1>1, PTL DEF Spec

-----------------------------------------------------------------------------
(***************************************************************************)
(* How far an overdraft can go.  At worst all requests that have validated *)
(* insert: what would be left then is bounded, because each of them holds  *)
(* a connection of its own, and a statement needs one more.                *)
(***************************************************************************)
Quantities == [r \in Requests |-> order[r].quantity]
Pending(p) == {r \in Requests : Validated(r) /\ ProductOf(r) = p}
Slack == UnprotectedUnitsOfWork * LargestMovement

WorstCaseBounded ==
    \A p \in Products :
        stock[p] - SumFunctionOnSet(Quantities, Pending(p)) >= -Slack

OverdraftInv == HolderInv /\ WorstCaseBounded

\* Units of work are no more than the connections that they hold.
LEMMA UnitsHoldConnections ==
    ASSUME HolderInv, NEW C \in SUBSET Conns,
           NEW W \in SUBSET {r \in Requests : pc[r] \in InUnitOfWork},
           \A r \in W : HeldBy(r) \subseteq C
    PROVE  /\ IsFiniteSet(W) /\ IsFiniteSet(C)
           /\ Cardinality(W) \in Nat /\ Cardinality(C) \in Nat
           /\ Cardinality(W) <= Cardinality(C)
  <1> DEFINE f == [r \in W |-> CHOOSE c \in C : holder[c] = r]
  <1>1. IsFiniteSet(C)
    BY ConnsAssumption, FS_Subset
  <1>2. ASSUME NEW r \in W PROVE f[r] \in C /\ holder[f[r]] = r
    <2>1. \E c \in C : holder[c] = r
      BY <1>2 DEF HolderInv, OneConnectionPerUnitOfWork, HeldBy
    <2> QED
      BY <2>1
  <1>3. f \in Injection(W, C)
    BY <1>2 DEF Injection, IsInjective
  <1> HIDE DEF f
  <1> QED
    BY <1>1, <1>3, FS_Injection, FS_CardinalityType

\* A statement that can run leaves at most one connection less than there are
\* to the units of work.
LEMMA StatementNeedsSpare ==
    ASSUME HolderInv, CanRunStatement,
           NEW W \in SUBSET {r \in Requests : pc[r] \in InUnitOfWork}
    PROVE  /\ IsFiniteSet(W)
           /\ Cardinality(W) \in Nat /\ Cardinality(Conns) \in Nat
           /\ Cardinality(W) <= Cardinality(Conns) - 1
  <1>1. PICK c \in Conns : holder[c] = "idle"
    BY DEF CanRunStatement, Idle
  <1>2. \A r \in W : HeldBy(r) \subseteq Conns \ {c}
    BY <1>1, RequestsAssumption DEF HeldBy
  <1>3. Cardinality(Conns \ {c}) = Cardinality(Conns) - 1
    BY ConnsAssumption, FS_RemoveElement
  <1>4. Conns \ {c} \in SUBSET Conns
    OBVIOUS
  <1> QED
    BY <1>2, <1>3, <1>4, UnitsHoldConnections, ConnsAssumption, FS_CardinalityType

LEMMA LargestIsBound ==
    ASSUME IsFiniteSet(Orders), Orders # {}
    PROVE  /\ LargestMovement \in Nat
           /\ \A o \in Orders : o.quantity <= LargestMovement
  <1> DEFINE T == {o.quantity : o \in Orders}
             g == [o \in Orders |-> o.quantity]
             Z == {s \in SUBSET T : s = {} \/ \E m \in s : \A y \in s : m >= y}
  <1>1. T \in SUBSET Nat /\ T # {}
    BY OrdersAssumption
  <1>2. g \in Surjection(Orders, T)
    BY DEF Surjection
  <1>3. IsFiniteSet(T)
    <2> HIDE DEF g, T
    <2> QED
      BY <1>2, FS_Surjection
  <1>4. ASSUME NEW s \in SUBSET T, \A x \in s : s \ {x} \in Z PROVE s \in Z
    <2> SUFFICES ASSUME NEW x \in s PROVE \E m \in s : \A y \in s : m >= y
      OBVIOUS
    <2>1. CASE s \ {x} = {}
      BY <1>1, <2>1
    <2>2. CASE s \ {x} # {}
      <3>1. PICK m \in s \ {x} : \A y \in s \ {x} : m >= y
        BY <1>4, <2>2
      <3>2. m \in Nat /\ x \in Nat /\ s \subseteq Nat
        BY <1>1, <3>1
      <3>3. CASE m >= x
        BY <3>1, <3>3
      <3>4. CASE x > m
        BY <3>1, <3>2, <3>4
      <3> QED
        BY <3>2, <3>3, <3>4
    <2> QED
      BY <2>1, <2>2
  <1>5. T \in Z
    <2> HIDE DEF Z, T
    <2> QED
      BY <1>3, <1>4, SubsetInduction
  <1>6. \E m \in T : \A y \in T : m >= y
    BY <1>1, <1>5
  <1>7. LargestMovement \in T /\ \A y \in T : LargestMovement >= y
    BY <1>6 DEF LargestMovement, Max
  <1> QED
    BY <1>1, <1>7

LEMMA QuantitiesType ==
    ASSUME TypeOK PROVE Quantities \in [Requests -> Nat]
  BY OrdersAssumption DEF TypeOK, Quantities

\* The requests that have validated are finitely many.
LEMMA PendingIsFinite ==
    ASSUME HolderInv, NEW p
    PROVE  /\ Pending(p) \in SUBSET {r \in Requests : pc[r] \in InUnitOfWork}
           /\ Pending(p) \in SUBSET Requests
           /\ IsFiniteSet(Pending(p))
  <1>1. Pending(p) \in SUBSET {r \in Requests : pc[r] \in InUnitOfWork}
    BY DEF Pending, Validated, InUnitOfWork
  <1>2. \A r \in Pending(p) : HeldBy(r) \subseteq Conns
    BY DEF HeldBy
  <1>3. IsFiniteSet(Pending(p))
    <2> DEFINE W == Pending(p)
               C == Conns
    <2>1. W \in SUBSET {r \in Requests : pc[r] \in InUnitOfWork}
      BY <1>1
    <2>2. C \in SUBSET Conns /\ \A r \in W : HeldBy(r) \subseteq C
      BY <1>2
    <2> HIDE DEF W, C
    <2>3. IsFiniteSet(W)
      BY <2>1, <2>2, UnitsHoldConnections
    <2> QED
      BY <2>3 DEF W
  <1> QED
    BY <1>1, <1>3

LEMMA SlackIsNatural ==
    ASSUME IsFiniteSet(Orders), Orders # {}
    PROVE  /\ UnprotectedUnitsOfWork \in Nat /\ LargestMovement \in Nat
           /\ Slack \in Nat
  <1>1. Cardinality(Conns) \in Nat
    BY ConnsAssumption, FS_CardinalityType
  <1>2. UnprotectedUnitsOfWork \in Nat
    BY <1>1 DEF UnprotectedUnitsOfWork
  <1>3. LargestMovement \in Nat
    BY LargestIsBound
  <1>4. \A a, b \in Nat : a * b \in Nat
    OBVIOUS
  <1> QED
    BY <1>2, <1>3, <1>4 DEF Slack

\* When a request stops to be pending, the worst case improves by its quantity.
LEMMA WithoutPending ==
    ASSUME HolderInv, NEW p, NEW r \in Pending(p)
    PROVE  /\ SumFunctionOnSet(Quantities, Pending(p)) \in Int
           /\ SumFunctionOnSet(Quantities, Pending(p) \ {r}) \in Int
           /\ SumFunctionOnSet(Quantities, Pending(p))
                  = SumFunctionOnSet(Quantities, Pending(p) \ {r}) + order[r].quantity
  <1> DEFINE rest == Pending(p) \ {r}
  <1>1. Quantities \in [Requests -> Int] /\ r \in Requests
        /\ Quantities[r] = order[r].quantity
    BY QuantitiesType, PendingIsFinite DEF HolderInv, TypeInv, Quantities
  <1>2. /\ rest \in SUBSET Requests /\ IsFiniteSet(rest) /\ r \in Requests \ rest
        /\ rest \cup {r} = Pending(p)
    BY PendingIsFinite, FS_Subset
  <1> HIDE DEF rest
  <1>3. SumFunctionOnSet(Quantities, rest \cup {r})
            = SumFunctionOnSet(Quantities, rest) + Quantities[r]
    BY <1>1, <1>2, SumWith
  <1>4. /\ SumFunctionOnSet(Quantities, rest) \in Int
        /\ SumFunctionOnSet(Quantities, Pending(p)) \in Int
    BY <1>1, <1>2, PendingIsFinite, SumIsInt
  <1> QED
    BY <1>1, <1>2, <1>3, <1>4 DEF rest

\* A step that leaves the stock alone and lets nobody become pending keeps the
\* worst case.
LEMMA FewerPending ==
    ASSUME OverdraftInv, IsFiniteSet(Orders), Orders # {},
           UNCHANGED <<order, stock>>,
           NEW r \in Requests,
           \A s \in Requests \ {r} : pc'[s] = pc[s],
           Validated(r)' => Validated(r)
    PROVE  WorstCaseBounded'
  <1>0. TypeOK /\ HolderInv
    BY DEF OverdraftInv, HolderInv, TypeInv
  <1>1. SUFFICES ASSUME NEW p \in Products
                 PROVE  stock[p] - SumFunctionOnSet(Quantities, Pending(p)') >= -Slack
    BY DEF WorstCaseBounded, Quantities, Slack, LargestMovement, UnprotectedUnitsOfWork
  <1>2. /\ stock[p] - SumFunctionOnSet(Quantities, Pending(p)) >= -Slack
        /\ stock[p] \in Int /\ Slack \in Nat
    BY <1>0, SlackIsNatural DEF OverdraftInv, WorstCaseBounded, TypeOK
  <1>3. CASE Pending(p)' = Pending(p)
    BY <1>2, <1>3
  <1>4. CASE r \in Pending(p) /\ Pending(p)' = Pending(p) \ {r}
    <2>1. order[r].quantity \in Nat
      BY <1>0, OrdersAssumption DEF TypeOK
    <2>2. /\ SumFunctionOnSet(Quantities, Pending(p) \ {r}) \in Int
          /\ SumFunctionOnSet(Quantities, Pending(p))
                = SumFunctionOnSet(Quantities, Pending(p) \ {r}) + order[r].quantity
      BY <1>0, <1>4, WithoutPending
    <2>3. stock[p] - SumFunctionOnSet(Quantities, Pending(p) \ {r}) >= -Slack
      BY <1>2, <2>1, <2>2
    <2> QED
      BY <1>4, <2>3
  <1>5. \A s \in Requests \ {r} : s \in Pending(p)' <=> s \in Pending(p)
    BY DEF Pending, Validated, ReducesStock, ProductOf
  <1>6. r \in Pending(p)' => r \in Pending(p)
    BY DEF Pending, Validated, ReducesStock, ProductOf
  <1>7. Pending(p) \subseteq Requests /\ Pending(p)' \subseteq Requests
    BY DEF Pending
  <1> QED
    BY <1>3, <1>4, <1>5, <1>6, <1>7

\* The INSERT takes its quantity off the stock and off what is pending.
LEMMA InsertKeepsWorstCase ==
    ASSUME OverdraftInv, IsFiniteSet(Orders), Orders # {},
           NEW r \in Requests, pc[r] = "insert", InsertRow(r), order' = order,
           NEW stage \in {"commit", "rollback"}, Goto(r, stage)
    PROVE  WorstCaseBounded'
  <1>0. TypeOK /\ HolderInv /\ ProductOf(r) \in Products
    BY DEF OverdraftInv, HolderInv, TypeInv, ProductIsKnown, InUnitOfWork
  <1>1. SUFFICES ASSUME NEW p \in Products
                 PROVE  stock'[p] - SumFunctionOnSet(Quantities, Pending(p)') >= -Slack
    BY DEF WorstCaseBounded, Quantities, Slack, LargestMovement, UnprotectedUnitsOfWork
  <1>2. /\ stock[p] - SumFunctionOnSet(Quantities, Pending(p)) >= -Slack
        /\ stock[p] \in Int /\ Slack \in Nat
    BY <1>0, SlackIsNatural DEF OverdraftInv, WorstCaseBounded, TypeOK
  <1>3. /\ order[r].quantity \in Nat
        /\ ReducesStock(r) => Contribution(r) = -order[r].quantity
        /\ ~ReducesStock(r) => Contribution(r) = order[r].quantity
    BY <1>0, ContributionSign DEF TypeOK, Contribution, ReducesStock
  <1>4. Pending(p)' = Pending(p) \ {r}
    BY <1>0 DEF Pending, Validated, ReducesStock, ProductOf, Goto, TypeOK
  <1>5. SumFunctionOnSet(Quantities, Pending(p)) \in Int
    BY <1>0, QuantitiesType, PendingIsFinite, SumIsInt
  <1>6. CASE p = ProductOf(r)
    <2>1. stock'[p] = stock[p] + Contribution(r)
      BY <1>0, <1>6 DEF InsertRow, TypeOK
    <2>2. CASE ReducesStock(r)
      <3>1. r \in Pending(p)
        BY <1>6, <2>2 DEF Pending, Validated
      <3>2. /\ SumFunctionOnSet(Quantities, Pending(p) \ {r}) \in Int
            /\ SumFunctionOnSet(Quantities, Pending(p))
                  = SumFunctionOnSet(Quantities, Pending(p) \ {r}) + order[r].quantity
        BY <1>0, <3>1, WithoutPending
      <3> QED
        BY <1>2, <1>3, <1>4, <2>1, <2>2, <3>2
    <2>3. CASE ~ReducesStock(r)
      <3>1. Pending(p) \ {r} = Pending(p)
        BY <2>3 DEF Pending, Validated
      <3>2. stock'[p] - SumFunctionOnSet(Quantities, Pending(p)) >= -Slack
        BY <1>2, <1>3, <1>5, <2>1, <2>3
      <3> QED
        BY <1>4, <3>1, <3>2
    <2> QED
      BY <2>2, <2>3
  <1>7. CASE p # ProductOf(r)
    <2>1. stock'[p] = stock[p] /\ Pending(p) \ {r} = Pending(p)
      BY <1>0, <1>7 DEF InsertRow, TypeOK, Pending
    <2> QED
      BY <1>2, <1>4, <2>1
  <1> QED
    BY <1>6, <1>7

\* A request that passes its validation is covered by itself; the others that
\* are pending at that moment are the ones that can go wrong.
LEMMA ReadKeepsWorstCase ==
    ASSUME OverdraftInv, IsFiniteSet(Orders), Orders # {},
           NEW r \in Requests, ReadStock(r), pc'[r] = "insert"
    PROVE  WorstCaseBounded'
  <1>0. TypeOK /\ HolderInv /\ ProductOf(r) \in Products
    BY DEF ReadStock, OverdraftInv, HolderInv, TypeInv, ProductIsKnown, InUnitOfWork
  <1>9. /\ UNCHANGED <<order, stock>>
        /\ \A s \in Requests \ {r} : pc'[s] = pc[s]
        /\ pc[r] = "read_stock"
    BY <1>0 DEF ReadStock, Goto, TypeOK, tables
  <1>1. SUFFICES ASSUME NEW p \in Products
                 PROVE  stock[p] - SumFunctionOnSet(Quantities, Pending(p)') >= -Slack
    BY <1>9 DEF WorstCaseBounded, Quantities, Slack, LargestMovement, UnprotectedUnitsOfWork
  <1>2. /\ stock[p] - SumFunctionOnSet(Quantities, Pending(p)) >= -Slack
        /\ stock[p] \in Int /\ Slack \in Nat
    BY <1>0, SlackIsNatural DEF OverdraftInv, WorstCaseBounded, TypeOK
  <1>3. r \notin Pending(p) /\ Pending(p) \subseteq Requests /\ Pending(p)' \subseteq Requests
    BY <1>9 DEF Pending, Validated
  <1>4. \A s \in Requests \ {r} : s \in Pending(p)' <=> s \in Pending(p)
    BY <1>9 DEF Pending, Validated, ReducesStock, ProductOf
  <1>5. CASE r \notin Pending(p)'
    <2>1. Pending(p)' = Pending(p)
      BY <1>3, <1>4, <1>5
    <2> QED
      BY <1>2, <2>1
  <1>6. CASE r \in Pending(p)'
    <2>1. Pending(p)' = Pending(p) \cup {r} /\ p = ProductOf(r) /\ ReducesStock(r)
      BY <1>9, <1>3, <1>4, <1>6 DEF Pending, Validated, ReducesStock, ProductOf
    <2>2. stock[p] >= order[r].quantity
      <3>1. ~WouldOverdraw(r, stock[p])
        BY <1>0, <2>1 DEF ReadStock, Goto, TypeOK
      <3>2. order[r] \in Orders
        BY <1>0 DEF TypeOK
      <3> QED
        BY <1>2, <2>1, <3>1, <3>2, ValidationCovers DEF WouldOverdraw, ReducesStock
    <2>3. /\ SumFunctionOnSet(Quantities, Pending(p)')
                = SumFunctionOnSet(Quantities, Pending(p)) + order[r].quantity
          /\ SumFunctionOnSet(Quantities, Pending(p)) \in Int
      <3>1. Quantities \in [Requests -> Int] /\ Quantities[r] = order[r].quantity
        BY <1>0, QuantitiesType DEF Quantities
      <3>2. /\ Pending(p) \in SUBSET Requests /\ IsFiniteSet(Pending(p))
            /\ r \in Requests \ Pending(p)
        BY <1>0, <1>3, PendingIsFinite
      <3>3. SumFunctionOnSet(Quantities, Pending(p) \cup {r})
                = SumFunctionOnSet(Quantities, Pending(p)) + Quantities[r]
        BY <3>1, <3>2, SumWith
      <3>4. SumFunctionOnSet(Quantities, Pending(p)) \in Int
        BY <3>1, <3>2, SumIsInt
      <3> QED
        BY <2>1, <3>1, <3>3, <3>4
    <2>4. /\ Cardinality(Pending(p)) \in Nat /\ Cardinality(Conns) \in Nat
          /\ Cardinality(Pending(p)) <= Cardinality(Conns) - 2
      <3> DEFINE W == Pending(p) \cup {r}
      <3>1. CanRunStatement /\ W \in SUBSET {s \in Requests : pc[s] \in InUnitOfWork}
        BY <1>0, <1>9, PendingIsFinite DEF ReadStock, InUnitOfWork
      <3>2. /\ Cardinality(W) <= Cardinality(Conns) - 1
            /\ Cardinality(Conns) \in Nat
        <4> HIDE DEF W
        <4> QED
          BY <1>0, <3>1, StatementNeedsSpare
      <3>3. /\ Cardinality(W) = Cardinality(Pending(p)) + 1
            /\ Cardinality(Pending(p)) \in Nat
        BY <1>0, <1>3, PendingIsFinite, FS_AddElement, FS_CardinalityType
      <3> QED
        BY <3>2, <3>3
    <2>5. SumFunctionOnSet(Quantities, Pending(p))
              <= Cardinality(Pending(p)) * LargestMovement
      <3>1. Quantities \in [Requests -> Int]
        BY <1>0, QuantitiesType
      <3>2. \A s \in Pending(p) : Quantities[s] <= LargestMovement
        BY <1>0, <1>3, LargestIsBound DEF Quantities, TypeOK
      <3>3. LargestMovement \in Int
        BY LargestIsBound
      <3> QED
        BY <1>0, <3>1, <3>2, <3>3, PendingIsFinite, SumAtMost
    <2>6. Cardinality(Pending(p)) * LargestMovement <= Slack
      <3>1. Cardinality(Pending(p)) <= UnprotectedUnitsOfWork
        BY <2>4 DEF UnprotectedUnitsOfWork
      <3>2. \A a, b, m \in Nat : a <= b => a * m <= b * m
        OBVIOUS
      <3> QED
        BY <2>4, <3>1, <3>2, SlackIsNatural DEF Slack
    <2>7. Cardinality(Pending(p)) * LargestMovement \in Int /\ order[r].quantity \in Nat
      BY <1>0, <2>4, LargestIsBound, OrdersAssumption DEF TypeOK
    <2> QED
      BY <1>2, <2>2, <2>3, <2>5, <2>6, <2>7
  <1> QED
    BY <1>5, <1>6

LEMMA OverdraftStep ==
    ASSUME IsFiniteSet(Orders), Orders # {}
    PROVE  OverdraftInv /\ [Next]_vars => OverdraftInv'
  <1> SUFFICES ASSUME OverdraftInv, [Next]_vars PROVE WorstCaseBounded'
    BY HolderStep DEF OverdraftInv
  <1> USE DEF requests, pool, tables, view, history
  <1>1. TypeOK
    BY DEF OverdraftInv, HolderInv, TypeInv
  <1>2. ASSUME NEW r \in Requests, CreateMovement(r) \/ InsertReplyLost(r)
        PROVE  WorstCaseBounded'
    BY <1>2, InsertKeepsWorstCase DEF CreateMovement, InsertReplyLost
  <1>3. ASSUME NEW r \in Requests, ReadStock(r) PROVE WorstCaseBounded'
    <2>1. CASE pc'[r] = "insert"
      BY <1>3, <2>1, ReadKeepsWorstCase
    <2>2. CASE pc'[r] # "insert"
      <3>1. UNCHANGED <<order, stock>> /\ ~Validated(r)'
        BY <1>3, <2>2 DEF ReadStock, Validated
      <3>2. \A s \in Requests \ {r} : pc'[s] = pc[s]
        BY <1>1, <1>3 DEF ReadStock, Goto, TypeOK
      <3> QED
        BY <3>1, <3>2, FewerPending
    <2> QED
      BY <2>1, <2>2
  <1>4. ASSUME NEW r \in Requests,
               \/ Arrive(r) \/ GetProduct(r) \/ FailFastView(r) \/ FailFastMiss(r)
               \/ FailFastDirect(r) \/ Acquire(r) \/ Begin(r) \/ LockProduct(r)
               \/ Commit(r) \/ Rollback(r) \/ StatementFails(r) \/ AcquireFails(r)
               \/ BeginFails(r) \/ CommitFails(r)
        PROVE  WorstCaseBounded'
    <2>1. UNCHANGED <<order, stock>>
      BY <1>4
      DEF Arrive, GetProduct, FailFastView, FailFastMiss, FailFastDirect,
          FailFastOn, Acquire, Begin, LockProduct, Commit, Rollback,
          StatementFails, AcquireFails, BeginFails, CommitFails
    <2>2. PICK stage \in Stages : Goto(r, stage) /\ (ReducesStock(r) => stage # "insert")
      BY <1>4
      DEF Arrive, GetProduct, FailFastView, FailFastMiss, FailFastDirect,
          FailFastOn, Acquire, Begin, LockProduct, Commit, Rollback,
          StatementFails, AcquireFails, BeginFails, CommitFails, Stages, InUnitOfWork
    <2>3. \A s \in Requests \ {r} : pc'[s] = pc[s]
      BY <1>1, <2>2 DEF Goto, TypeOK
    <2>4. ~Validated(r)'
      BY <1>1, <2>1, <2>2 DEF Goto, Validated, ReducesStock, TypeOK
    <2> QED
      BY <2>1, <2>3, <2>4, FewerPending
  <1>5. CASE RefreshStart \/ RefreshInstall \/ RefreshFails \/ UNCHANGED vars
    <2>1. UNCHANGED <<order, pc, stock>>
      BY <1>5 DEF RefreshStart, RefreshInstall, RefreshFails, EndRefresh, vars
    <2> QED
      BY <2>1
      DEF WorstCaseBounded, OverdraftInv, Pending, Quantities, Validated,
          ReducesStock, ProductOf, Slack, LargestMovement, UnprotectedUnitsOfWork
  <1> QED
    BY <1>2, <1>3, <1>4, <1>5 DEF Next, Step, Error

LEMMA InitOverdraft ==
    ASSUME IsFiniteSet(Orders), Orders # {} PROVE Init => OverdraftInv
  <1> SUFFICES ASSUME Init PROVE WorstCaseBounded
    BY InitHolder DEF OverdraftInv
  <1>1. ASSUME NEW p \in Products
        PROVE  stock[p] - SumFunctionOnSet(Quantities, Pending(p)) >= -Slack
    <2>1. Pending(p) = {}
      BY DEF Init, Pending, Validated
    <2>2. SumFunctionOnSet(Quantities, Pending(p)) = 0
      BY <2>1, SumOfNone
    <2>3. stock[p] \in Nat
      BY OpeningStockAssumption DEF Init
    <2> QED
      BY <2>2, <2>3, SlackIsNatural
  <1> QED
    BY <1>1 DEF WorstCaseBounded

\* However many requests race, no product is overdrawn by more than the
\* largest movement times the connections of the pool less two.
THEOREM OverdraftIsBounded ==
    ASSUME IsFiniteSet(Orders), Orders # {}
    PROVE  Spec => []OverdraftBoundedByPool
  <1>1. ASSUME OverdraftInv, NEW p \in Products PROVE stock[p] >= -Slack
    <2>1. SumFunctionOnSet(Quantities, Pending(p)) \in Nat
      BY <1>1, QuantitiesType, PendingIsFinite, SumOfNaturals
      DEF OverdraftInv, HolderInv, TypeInv
    <2>2. stock[p] \in Int
      BY <1>1 DEF OverdraftInv, HolderInv, TypeInv, TypeOK
    <2> QED
      BY <1>1, <2>1, <2>2, SlackIsNatural DEF OverdraftInv, WorstCaseBounded
  <1>2. OverdraftInv => OverdraftBoundedByPool
    BY <1>1 DEF OverdraftBoundedByPool, Slack
  <1> QED
    BY InitOverdraft, OverdraftStep, <1>2, PTL DEF Spec

-----------------------------------------------------------------------------
(***************************************************************************)
(* Who can keep a connection away.  Each connection that leaked did so in  *)
(* a request of its own, which has ended, and each one that is held is     *)
(* held by a request of its own, which has not: together they are no more  *)
(* than the requests.                                                      *)
(***************************************************************************)
Leaked == {c \in Conns : holder[c] = "leaked"}
Held == {c \in Conns : holder[c] \in Requests}
Finished == {r \in Requests : pc[r] = "done"}

LeakedBehindFinished == Cardinality(Leaked) <= Cardinality(Finished)

LeakInv == HolderInv /\ LeakedBehindFinished

\* The sets that are counted are finite.
LEMMA CountsAreNatural ==
    ASSUME IsFiniteSet(Requests)
    PROVE  /\ IsFiniteSet(Leaked) /\ Cardinality(Leaked) \in Nat
           /\ IsFiniteSet(Held) /\ Cardinality(Held) \in Nat
           /\ IsFiniteSet(Finished) /\ Cardinality(Finished) \in Nat
  BY ConnsAssumption, FS_Subset, FS_CardinalityType DEF Leaked, Held, Finished

\* What neither leaks a connection nor takes a request back from its end.
LEMMA NoNewLeak ==
    ASSUME IsFiniteSet(Requests), LeakInv, Leaked' = Leaked,
           Finished \in SUBSET Finished', Finished' \in SUBSET Requests
    PROVE  LeakedBehindFinished'
  <1>1. IsFiniteSet(Finished') /\ Cardinality(Finished') \in Nat
    BY FS_Subset, FS_CardinalityType
  <1>2. Cardinality(Finished) <= Cardinality(Finished')
    BY <1>1, FS_Subset
  <1>3. Cardinality(Leaked) <= Cardinality(Finished)
    BY DEF LeakInv, LeakedBehindFinished
  <1>4. Cardinality(Leaked) <= Cardinality(Finished')
    BY <1>1, <1>2, <1>3, CountsAreNatural
  <1> QED
    BY <1>4 DEF LeakedBehindFinished

LEMMA InitLeak == ASSUME IsFiniteSet(Requests) PROVE Init => LeakInv
  <1> SUFFICES ASSUME Init PROVE LeakedBehindFinished
    BY InitHolder DEF LeakInv
  <1>1. Leaked = {}
    BY DEF Init, Leaked
  <1> QED
    BY <1>1, CountsAreNatural, FS_EmptySet DEF LeakedBehindFinished

LEMMA LeakStep ==
    ASSUME IsFiniteSet(Requests) PROVE LeakInv /\ [Next]_vars => LeakInv'
  <1> SUFFICES ASSUME LeakInv, [Next]_vars PROVE LeakedBehindFinished'
    BY HolderStep DEF LeakInv
  <1> USE DEF requests, pool, tables, view, history, Goto, Answer
  <1>1. TypeOK /\ HolderInv
    BY DEF LeakInv, HolderInv, TypeInv
  <1>2. ASSUME NEW r \in Requests, BeginFails(r) PROVE LeakedBehindFinished'
    <2>1. PICK c \in Conns : HeldBy(r) = {c}
      BY <1>1, <1>2
      DEF BeginFails, HolderInv, OneConnectionPerUnitOfWork, InUnitOfWork
    <2>2. Leaked' \in SUBSET (Leaked \cup {c})
      BY <1>1, <1>2, <2>1, RequestsAssumption DEF BeginFails, Leaked, HeldBy, TypeOK
    <2>3. Finished' = Finished \cup {r} /\ r \notin Finished
      BY <1>1, <1>2 DEF BeginFails, Finished, TypeOK
    <2>4. Cardinality(Finished \cup {r}) = Cardinality(Finished) + 1
      BY <2>3, CountsAreNatural, FS_AddElement
    <2>5. /\ IsFiniteSet(Leaked \cup {c})
          /\ Cardinality(Leaked \cup {c}) \in Nat
          /\ Cardinality(Leaked \cup {c}) <= Cardinality(Leaked) + 1
      <3>1. IsFiniteSet(Leaked) /\ Cardinality(Leaked) \in Nat
        BY CountsAreNatural
      <3> HIDE DEF requests, pool, tables, view, history, Goto, Answer
      <3>2. /\ IsFiniteSet(Leaked \cup {c})
            /\ Cardinality(Leaked \cup {c}) =
                  IF c \in Leaked THEN Cardinality(Leaked) ELSE Cardinality(Leaked) + 1
        BY <3>1, FS_AddElement
      <3> QED
        BY <3>1, <3>2
    <2>6. /\ Cardinality(Leaked') <= Cardinality(Leaked \cup {c})
          /\ Cardinality(Leaked') \in Nat
      BY <2>2, <2>5, FS_Subset, FS_CardinalityType
    <2>7. Cardinality(Leaked') <= Cardinality(Finished) + 1
      BY <2>5, <2>6, CountsAreNatural DEF LeakInv, LeakedBehindFinished
    <2> QED
      BY <2>3, <2>4, <2>7 DEF LeakedBehindFinished
  <1>3. ASSUME NEW r \in Requests,
               \/ Arrive(r) \/ GetProduct(r) \/ FailFastView(r) \/ FailFastMiss(r)
               \/ FailFastDirect(r) \/ Begin(r) \/ LockProduct(r) \/ ReadStock(r)
               \/ CreateMovement(r) \/ InsertReplyLost(r) \/ StatementFails(r)
               \/ AcquireFails(r)
        PROVE  LeakedBehindFinished'
    <2>1. holder' = holder
      BY <1>3
      DEF Arrive, GetProduct, FailFastView, FailFastMiss, FailFastDirect,
          FailFastOn, Begin, LockProduct, ReadStock, CreateMovement,
          InsertReplyLost, StatementFails, AcquireFails
    <2>2. pc[r] # "done" /\ \E stage : pc' = [pc EXCEPT ![r] = stage]
      BY <1>3
      DEF Arrive, GetProduct, FailFastView, FailFastMiss, FailFastDirect,
          FailFastOn, Begin, LockProduct, ReadStock, CreateMovement,
          InsertReplyLost, StatementFails, AcquireFails
    <2>3. Leaked' = Leaked /\ Finished \in SUBSET Finished' /\ Finished' \in SUBSET Requests
      BY <1>1, <2>1, <2>2 DEF Leaked, Finished, TypeOK
    <2> QED
      BY <2>3, NoNewLeak
  <1>4. ASSUME NEW r \in Requests,
               Acquire(r) \/ Commit(r) \/ Rollback(r) \/ CommitFails(r)
        PROVE  LeakedBehindFinished'
    <2>1. Leaked' = Leaked
      BY <1>1, <1>4, RequestsAssumption
      DEF Acquire, Idle, Commit, Rollback, CommitFails, Release, Leaked, TypeOK
    <2>2. Finished \in SUBSET Finished' /\ Finished' \in SUBSET Requests
      BY <1>1, <1>4 DEF Acquire, Commit, Rollback, CommitFails, Finished, TypeOK
    <2> QED
      BY <2>1, <2>2, NoNewLeak
  <1>5. CASE RefreshStart \/ RefreshInstall \/ RefreshFails \/ UNCHANGED vars
    <2>1. pc' = pc
      BY <1>5 DEF RefreshStart, RefreshInstall, RefreshFails, EndRefresh, vars
    <2>2. Leaked' = Leaked
      BY <1>1, <1>5
      DEF RefreshStart, RefreshInstall, RefreshFails, EndRefresh, Idle, vars,
          Leaked, TypeOK
    <2>3. Finished \in SUBSET Finished' /\ Finished' \in SUBSET Requests
      BY <2>1 DEF Finished
    <2> QED
      BY <2>2, <2>3, NoNewLeak
  <1> QED
    BY <1>2, <1>3, <1>4, <1>5 DEF Next, Step, Error

\* The connections that are held are no more than the requests under way.
LEMMA HeldBehindOpen ==
    ASSUME IsFiniteSet(Requests), HolderInv
    PROVE  Cardinality(Held) <= Cardinality(Requests \ Finished)
  <1> DEFINE f == [c \in Held |-> holder[c]]
  <1>1. ASSUME NEW c \in Held PROVE holder[c] \in Requests \ Finished
    BY DEF Held, Finished, HolderInv, OneConnectionPerUnitOfWork, HeldBy, InUnitOfWork
  <1>2. ASSUME NEW c \in Held, NEW d \in Held, holder[c] = holder[d] PROVE c = d
    BY <1>2 DEF Held, HolderInv, OneConnectionPerUnitOfWork, HeldBy
  <1>3. f \in Injection(Held, Requests \ Finished)
    BY <1>1, <1>2 DEF Injection, IsInjective
  <1>4. IsFiniteSet(Requests \ Finished)
    BY FS_Subset
  <1> HIDE DEF f
  <1> QED
    BY <1>3, <1>4, FS_Injection

\* With more connections than requests, a request that cannot run its
\* statement waits for a refresh and for nothing else.
THEOREM OnlyRefreshDelaysRequests ==
    ASSUME IsFiniteSet(Requests) PROVE Spec => []OnlyRefreshDelays
  <1>1. ASSUME LeakInv, Cardinality(Conns) > Cardinality(Requests),
               ~CanRunStatement, ~RefreshRunning
        PROVE  FALSE
    <2>1. HolderInv /\ TypeOK
      BY <1>1 DEF LeakInv, HolderInv, TypeInv
    <2>2. Conns = Leaked \cup Held /\ Leaked \cap Held = {}
      BY <1>1, <2>1, RequestsAssumption
      DEF CanRunStatement, Idle, RefreshRunning, Leaked, Held, TypeOK
    <2>3. Cardinality(Conns) = Cardinality(Leaked) + Cardinality(Held)
      <3>1. IsFiniteSet(Leaked) /\ IsFiniteSet(Held)
        BY CountsAreNatural
      <3>2. Cardinality(Leaked \cup Held)
                = Cardinality(Leaked) + Cardinality(Held) - Cardinality(Leaked \cap Held)
        BY <3>1, FS_Union
      <3>3. Cardinality(Leaked \cap Held) = 0
        BY <2>2, FS_EmptySet
      <3> QED
        BY <2>2, <3>2, <3>3, CountsAreNatural
    <2>4. Cardinality(Leaked) <= Cardinality(Finished)
      BY <1>1 DEF LeakInv, LeakedBehindFinished
    <2>5. Cardinality(Requests \ Finished) = Cardinality(Requests) - Cardinality(Finished)
      <3>1. Requests \cap Finished = Finished
        BY DEF Finished
      <3> QED
        BY <3>1, FS_Difference
    <2> QED
      BY <1>1, <2>1, <2>3, <2>4, <2>5, HeldBehindOpen, CountsAreNatural,
         FS_CardinalityType
  <1>2. LeakInv => OnlyRefreshDelays
    BY <1>1 DEF OnlyRefreshDelays
  <1> QED
    BY InitLeak, LeakStep, <1>2, PTL DEF Spec

-----------------------------------------------------------------------------
(***************************************************************************)
(* With that pool the program implements the atomic ledger.                *)
(***************************************************************************)
RefinementInv == PoolInv /\ AnswerInv

Outcome(r) == IF r \in recorded THEN "recorded"
              ELSE IF answer[r] # 0 THEN "refused" ELSE "pending"

\* A step that adds no row, and decides an error for at most one request, is
\* a refusal or a stutter.
LEMMA NoRowIsRefusal ==
    ASSUME RefinementInv, AnswerInv',
           NEW r \in Requests, UNCHANGED <<order, stock, recorded>>,
           answer[r] = 0 \/ r \in recorded,
           NEW status \in Answers, Answer(r, status),
           r \in recorded \/ status # 0
    PROVE  [Ledger!Next]_(Ledger!vars)
  <1> USE DEF Answer
  <1>1. TypeOK
    BY DEF RefinementInv, AnswerInv, TypeInv
  <1>2. \A s \in Requests \ {r} : Outcome(s)' = Outcome(s)
    BY <1>1 DEF Outcome, TypeOK
  <1>3. CASE r \in recorded
    <2>1. \A s \in Requests : Outcome(s)' = Outcome(s)
      BY <1>2, <1>3 DEF Outcome
    <2> QED
      BY <2>1 DEF Ledger!vars, Outcome
  <1>4. CASE r \notin recorded
    <2>1. Outcome(r) = "pending" /\ Outcome(r)' = "refused"
      BY <1>1, <1>4 DEF Outcome, TypeOK
    <2>2. Ledger!Refuse(r)
      BY <1>2, <2>1 DEF Ledger!Refuse, Outcome
    <2> QED
      BY <2>2 DEF Ledger!Next
  <1> QED
    BY <1>3, <1>4

\* The INSERT is the atomic Record step.
LEMMA InsertIsRecord ==
    ASSUME RefinementInv, NEW r \in Requests, pc[r] = "insert", InsertRow(r),
           order' = order,
           answer' = answer \/ (\E status \in Answers : Answer(r, status))
    PROVE  Ledger!Record(r)
  <1>1. TypeOK /\ ProductOf(r) \in Products /\ stock[ProductOf(r)] \in Int
    BY DEF RefinementInv, AnswerInv, TypeInv, TypeOK, ProductIsKnown, InUnitOfWork
  <1>2. answer[r] = 0 /\ r \notin recorded
    BY DEF RefinementInv, AnswerInv
  <1>3. Outcome(r) = "pending" /\ Outcome(r)' = "recorded"
    BY <1>2 DEF Outcome, InsertRow
  <1>4. \A s \in Requests \ {r} : Outcome(s)' = Outcome(s)
    BY <1>1 DEF Outcome, InsertRow, Answer, TypeOK
  <1>5. stock' = [stock EXCEPT ![order[r].product] =
                     @ + StockDelta(order[r].type, order[r].quantity)]
    BY <1>1, DeltaIsContribution DEF InsertRow, Contribution, ProductOf, TypeOK
  <1>6. ASSUME Reduces(order[r].type)
        PROVE  ~Insufficient(order[r].type, order[r].quantity, stock[order[r].product])
    <2>1. stock[ProductOf(r)] >= order[r].quantity
      BY <1>6 DEF RefinementInv, PoolInv, ValidatedIsSafe, Validated, ReducesStock
    <2>2. /\ StockDelta(order[r].type, order[r].quantity) = -order[r].quantity
          /\ order[r].quantity \in Nat
      BY <1>1, <1>6, ContributionSign DEF StockDelta, Reduces, TypeOK
    <2> QED
      BY <1>1, <2>1, <2>2 DEF Insufficient, ProductOf
  <1>7. [s \in Requests |-> Outcome(s)']
            = [[s \in Requests |-> Outcome(s)] EXCEPT ![r] = "recorded"]
    BY <1>3, <1>4
  <1> QED
    BY <1>1, <1>3, <1>5, <1>6, <1>7
    DEF Ledger!Record, Outcome, ProductOf, Ledger!Reduces, Ledger!StockDelta,
        Ledger!Insufficient, Reduces, StockDelta, Insufficient

\* Any other step changes neither the ledger nor an outcome.
LEMMA QuietStepIsStutter ==
    ASSUME UNCHANGED <<order, stock, recorded, answer>>
    PROVE  [Ledger!Next]_(Ledger!vars)
  BY DEF Ledger!vars

LEMMA StepRefines ==
    ASSUME RefinementInv, AnswerInv', [Next]_vars
    PROVE  [Ledger!Next]_(Ledger!vars)
  <1> USE DEF requests, pool, tables, view, history
  <1>1. TypeOK
    BY DEF RefinementInv, AnswerInv, TypeInv
  <1>2. ASSUME NEW r \in Requests, CreateMovement(r) \/ InsertReplyLost(r)
        PROVE  Ledger!Next
    <2>1. Ledger!Record(r)
      BY <1>2, InsertIsRecord DEF CreateMovement, InsertReplyLost, Answers
    <2> QED
      BY <2>1 DEF Ledger!Next
  <1>3. ASSUME NEW r \in Requests,
               \/ GetProduct(r) \/ FailFastView(r) \/ FailFastDirect(r)
               \/ ReadStock(r) \/ StatementFails(r) \/ AcquireFails(r) \/ BeginFails(r)
        PROVE  [Ledger!Next]_(Ledger!vars)
    <2>1. UNCHANGED <<order, stock, recorded>> /\ answer[r] = 0
      BY <1>3
      DEF GetProduct, FailFastView, FailFastDirect, FailFastOn, ReadStock,
          StatementFails, AcquireFails, BeginFails, RefinementInv, AnswerInv
    <2>2. answer' = answer \/ (\E status \in Answers \ {0} : Answer(r, status))
      BY <1>3
      DEF GetProduct, FailFastView, FailFastDirect, FailFastOn, ReadStock,
          StatementFails, AcquireFails, BeginFails, Answers
    <2> QED
      BY <2>1, <2>2, NoRowIsRefusal, QuietStepIsStutter
  <1>4. ASSUME NEW r \in Requests, Commit(r) \/ CommitFails(r)
        PROVE  [Ledger!Next]_(Ledger!vars)
    <2>1. /\ UNCHANGED <<order, stock, recorded>>
          /\ r \in recorded
          /\ \E status \in Answers : Answer(r, status)
      BY <1>4 DEF Commit, CommitFails, Answers, RefinementInv, AnswerInv
    <2> QED
      BY <2>1, NoRowIsRefusal
  <1>5. ASSUME NEW r \in Requests,
               \/ Arrive(r) \/ FailFastMiss(r) \/ Acquire(r) \/ Begin(r)
               \/ LockProduct(r) \/ Rollback(r)
        PROVE  [Ledger!Next]_(Ledger!vars)
    BY <1>5, QuietStepIsStutter
    DEF Arrive, FailFastMiss, Acquire, Begin, LockProduct, Rollback
  <1>6. CASE RefreshStart \/ RefreshInstall \/ RefreshFails \/ UNCHANGED vars
    BY <1>6, QuietStepIsStutter
    DEF RefreshStart, RefreshInstall, RefreshFails, EndRefresh, vars
  <1> QED
    BY <1>2, <1>3, <1>4, <1>5, <1>6 DEF Next, Step, Error

\* With at most two connections every behaviour of the program is one of the
\* ledger that checks and records in a single step.
THEOREM PoolOfTwoImplementsLedger ==
    ASSUME PoolOfTwo PROVE Spec => ImplementsLedger
  <1>1. Init => RefinementInv
    BY InitPool, InitAnswer DEF RefinementInv
  <1>2. RefinementInv /\ [Next]_vars => RefinementInv'
    BY PoolStep, AnswerStep DEF RefinementInv
  <1>3. Init => Ledger!Init
    BY DEF Init, Ledger!Init
  <1>4. RefinementInv /\ RefinementInv' /\ [Next]_vars => [Ledger!Next]_(Ledger!vars)
    BY StepRefines DEF RefinementInv
  <1> QED
    BY <1>1, <1>2, <1>3, <1>4, PTL DEF Spec, ImplementsLedger, Ledger!Spec

-----------------------------------------------------------------------------
(***************************************************************************)
(* What the pool sees of a request is what Lifespan says of it.            *)
(***************************************************************************)
StagesInLife == [s \in Requests |-> LifeStage(s)]
AnswersInLife == [s \in Requests |-> LifeAnswer(s)]
JobInLife == IF RefreshRunning THEN "working" ELSE "idle"

\* A step of one request changes its own stage and answer.
LEMMA OneRequestMoves ==
    ASSUME TypeOK, NEW r \in Requests, NEW stage,
           Goto(r, stage),
           answer' = answer \/ (\E status \in Answers : Answer(r, status))
    PROVE  /\ StagesInLife' = [StagesInLife EXCEPT ![r] = LifeStage(r)']
           /\ AnswersInLife' = [AnswersInLife EXCEPT ![r] = LifeAnswer(r)']
           /\ pc'[r] = stage
  <1>1. pc'[r] = stage /\ \A s \in Requests \ {r} : pc'[s] = pc[s]
    BY DEF Goto, TypeOK
  <1>2. \A s \in Requests \ {r} : answer'[s] = answer[s]
    BY DEF Answer, TypeOK
  <1>3. \A s \in Requests \ {r} : LifeStage(s)' = LifeStage(s)
    BY <1>1 DEF LifeStage
  <1>4. \A s \in Requests \ {r} : LifeAnswer(s)' = LifeAnswer(s)
    BY <1>1, <1>2 DEF LifeAnswer
  <1> QED
    BY <1>1, <1>3, <1>4 DEF StagesInLife, AnswersInLife

\* The connection of a request is not the one of the refresh.
LEMMA RefreshKeepsRunning ==
    ASSUME TypeOK, NEW r \in Requests,
           \/ holder' = holder
           \/ \E c \in Idle : holder' = [holder EXCEPT ![c] = r]
           \/ \E fate \in {"idle", "leaked"} :
                 holder' = [c \in Conns |-> IF holder[c] = r THEN fate ELSE holder[c]]
    PROVE  JobInLife' = JobInLife
  BY RequestsAssumption DEF JobInLife, RefreshRunning, Idle, TypeOK

\* A step before the unit of work: the request gets the pool, stays where it is
\* or is refused.
LEMMA OutsideStepInLife ==
    ASSUME TypeInv, NEW r \in Requests, holder' = holder,
           NEW stage \in Stages, Goto(r, stage),
           answer' = answer \/ (\E status \in Answers \ {201} : Answer(r, status)),
           \/ pc[r] = "new" /\ stage = "get_product"
           \/ /\ LifeStage(r) = "waiting"
              /\ stage \in {"fail_fast", "fail_fast_direct", "enter_uow"}
           \/ /\ LifeStage(r) = "waiting" /\ stage = "done"
              /\ \E status \in Answers \ {201} : Answer(r, status)
    PROVE  [Life!Next]_(Life!vars)
  <1>1. /\ StagesInLife' = [StagesInLife EXCEPT ![r] = LifeStage(r)']
        /\ AnswersInLife' = [AnswersInLife EXCEPT ![r] = LifeAnswer(r)']
        /\ pc'[r] = stage /\ JobInLife' = JobInLife
    BY OneRequestMoves, RefreshKeepsRunning DEF TypeInv
  <1>2. CASE pc[r] = "new" /\ stage = "get_product"
    <2>1. LifeStage(r) = "arrived" /\ LifeStage(r)' = "waiting"
      BY <1>1, <1>2 DEF LifeStage
    <2>2. LifeAnswer(r) = "none" /\ LifeAnswer(r)' = "none"
      BY <1>1, <1>2 DEF LifeAnswer
    <2>3. AnswersInLife' = AnswersInLife
      BY <1>1, <2>2 DEF AnswersInLife
    <2>4. Life!GetPool(r)
      BY <1>1, <2>1, <2>3
      DEF Life!GetPool, Life!Goto, Life!service, StagesInLife, AnswersInLife,
          JobInLife
    <2> QED
      BY <2>4 DEF Life!Next, Life!RequestStep
  <1>3. CASE /\ LifeStage(r) = "waiting"
             /\ stage \in {"fail_fast", "fail_fast_direct", "enter_uow"}
    <2>1. LifeStage(r)' = LifeStage(r)
      BY <1>1, <1>3 DEF LifeStage
    <2>2. LifeAnswer(r) = "none" /\ LifeAnswer(r)' = "none"
      BY <1>1, <1>3 DEF LifeAnswer, LifeStage
    <2>3. StagesInLife' = StagesInLife
      BY <1>1, <2>1 DEF StagesInLife
    <2>4. AnswersInLife' = AnswersInLife
      BY <1>1, <2>2 DEF AnswersInLife
    <2> QED
      BY <1>1, <2>3, <2>4
      DEF Life!vars, Life!service, Life!requests, StagesInLife, AnswersInLife,
          JobInLife
  <1>4. CASE /\ LifeStage(r) = "waiting" /\ stage = "done"
             /\ \E status \in Answers \ {201} : Answer(r, status)
    <2>1. LifeStage(r)' = "answered"
      BY <1>1, <1>4 DEF LifeStage
    <2>2. LifeAnswer(r)' = "error"
      BY <1>1, <1>4 DEF LifeAnswer, Answer, TypeInv, TypeOK
    <2>3. Life!AcquireFails(r)
      BY <1>1, <1>4, <2>1, <2>2
      DEF Life!AcquireFails, Life!Reply, Life!Failed, Life!Goto, Life!service,
          StagesInLife, AnswersInLife, JobInLife
    <2> QED
      BY <2>3 DEF Life!Next, Life!RequestFault
  <1> QED
    BY <1>2, <1>3, <1>4

\* A statement of the unit of work: one on which another follows leaves the
\* request where it is, the last one takes it to the end of its unit of work.
LEMMA InsideStepInLife ==
    ASSUME TypeInv, NEW r \in Requests, holder' = holder,
           LifeStage(r) = "working",
           NEW stage \in Stages, Goto(r, stage),
           answer' = answer \/ (\E status \in Answers : Answer(r, status)),
           \/ stage \in {"lock", "read_stock", "insert"}
           \/ stage \in {"commit", "rollback"} /\ CanRunStatement
    PROVE  [Life!Next]_(Life!vars)
  <1>1. /\ StagesInLife' = [StagesInLife EXCEPT ![r] = LifeStage(r)']
        /\ AnswersInLife' = [AnswersInLife EXCEPT ![r] = LifeAnswer(r)']
        /\ pc'[r] = stage /\ JobInLife' = JobInLife
    BY OneRequestMoves, RefreshKeepsRunning DEF TypeInv
  <1>2. AnswersInLife' = AnswersInLife
    <2>1. LifeAnswer(r) = "none" /\ LifeAnswer(r)' = "none"
      BY <1>1 DEF LifeAnswer, LifeStage
    <2> QED
      BY <1>1, <2>1 DEF AnswersInLife
  <1>3. CASE stage \in {"lock", "read_stock", "insert"}
    <2>1. LifeStage(r)' = LifeStage(r)
      BY <1>1, <1>3 DEF LifeStage
    <2>2. StagesInLife' = StagesInLife
      BY <1>1, <2>1 DEF StagesInLife
    <2> QED
      BY <1>1, <1>2, <2>2
      DEF Life!vars, Life!service, Life!requests, StagesInLife, AnswersInLife,
          JobInLife
  <1>4. CASE stage \in {"commit", "rollback"} /\ CanRunStatement
    <2>1. LifeStage(r)' = "ending"
      BY <1>1, <1>4 DEF LifeStage
    <2>2. Life!RunStatements(r)
      BY <1>1, <1>2, <1>4, <2>1
      DEF Life!RunStatements, Life!Idle, Life!Goto, Life!service, CanRunStatement,
          Idle, StagesInLife, AnswersInLife, JobInLife
    <2> QED
      BY <2>2 DEF Life!Next, Life!RequestStep
  <1> QED
    BY <1>3, <1>4

\* __aenter__ gets a connection, and __aexit__ gives it back.
LEMMA AcquireInLife ==
    ASSUME TypeInv, NEW r \in Requests, Acquire(r) PROVE Life!Acquire(r)
  <1>1. /\ StagesInLife' = [StagesInLife EXCEPT ![r] = LifeStage(r)']
        /\ AnswersInLife' = [AnswersInLife EXCEPT ![r] = LifeAnswer(r)']
        /\ pc'[r] = "begin" /\ JobInLife' = JobInLife
    BY OneRequestMoves, RefreshKeepsRunning DEF Acquire, TypeInv
  <1>2. LifeStage(r) = "waiting" /\ LifeStage(r)' = "working"
    BY <1>1 DEF LifeStage, Acquire
  <1>3. LifeAnswer(r) = "none" /\ LifeAnswer(r)' = "none"
    BY <1>1 DEF LifeAnswer, Acquire
  <1>4. AnswersInLife' = AnswersInLife
    BY <1>1, <1>3 DEF AnswersInLife
  <1>5. \E c \in Conns : Life!CheckOut(c, r)
    BY DEF Acquire, Idle, Life!CheckOut, Life!Idle
  <1> QED
    BY <1>1, <1>2, <1>4, <1>5
    DEF Life!Acquire, Life!Goto, Life!service, StagesInLife, AnswersInLife, JobInLife

LEMMA EndInLife ==
    ASSUME TypeInv, NEW r \in Requests,
           Commit(r) \/ CommitFails(r) \/ Rollback(r)
    PROVE  Life!Finish(r)
  <1>1. /\ StagesInLife' = [StagesInLife EXCEPT ![r] = LifeStage(r)']
        /\ AnswersInLife' = [AnswersInLife EXCEPT ![r] = LifeAnswer(r)']
        /\ pc'[r] = "done" /\ JobInLife' = JobInLife
    BY OneRequestMoves, RefreshKeepsRunning
    DEF Commit, CommitFails, Rollback, Release, Answers, TypeInv
  <1>2. LifeStage(r) = "ending" /\ LifeStage(r)' = "answered"
    BY <1>1 DEF LifeStage, Commit, CommitFails, Rollback
  <1>3. LifeAnswer(r)' \in {"ok", "error"}
    BY <1>1 DEF LifeAnswer
  <1>4. Life!ReleaseTo(r, "idle")
    BY DEF Life!ReleaseTo, Commit, CommitFails, Rollback, Release
  <1> QED
    BY <1>1, <1>2, <1>3, <1>4
    DEF Life!Finish, Life!LastOnOwn, Life!Reply, Life!Failed, Life!Goto,
        Life!service, StagesInLife, AnswersInLife, JobInLife

LEMMA BeginFailsInLife ==
    ASSUME TypeInv, NEW r \in Requests, BeginFails(r) PROVE Life!BeginFails(r)
  <1>1. /\ StagesInLife' = [StagesInLife EXCEPT ![r] = LifeStage(r)']
        /\ AnswersInLife' = [AnswersInLife EXCEPT ![r] = LifeAnswer(r)']
        /\ pc'[r] = "done" /\ JobInLife' = JobInLife
    BY OneRequestMoves, RefreshKeepsRunning DEF BeginFails, Answers, TypeInv
  <1>2. LifeStage(r) = "working" /\ LifeStage(r)' = "answered"
    BY <1>1 DEF LifeStage, BeginFails
  <1>3. LifeAnswer(r)' = "error"
    BY <1>1 DEF LifeAnswer, BeginFails, Answer, TypeInv, TypeOK
  <1>4. \E fate \in {"idle", "leaked"} : Life!ReleaseTo(r, fate)
    BY DEF Life!ReleaseTo, BeginFails
  <1> QED
    BY <1>1, <1>2, <1>3, <1>4
    DEF Life!BeginFails, Life!Reply, Life!Goto, Life!service, StagesInLife,
        AnswersInLife, JobInLife

LEMMA RefreshEndInLife ==
    ASSUME RefreshInstall \/ RefreshFails PROVE Life!JobEnds
  <1>1. /\ RefreshRunning /\ UNCHANGED <<pc, answer>>
        /\ Life!ReleaseTo("refresh", "idle")
    BY DEF RefreshInstall, RefreshFails, EndRefresh, requests, Life!ReleaseTo
  <1>2. ~RefreshRunning'
    BY <1>1 DEF RefreshRunning, Life!ReleaseTo
  <1>3. JobInLife = "working" /\ JobInLife' = "idle"
    BY <1>1, <1>2 DEF JobInLife
  <1>4. StagesInLife' = StagesInLife /\ AnswersInLife' = AnswersInLife
    BY <1>1 DEF StagesInLife, AnswersInLife, LifeStage, LifeAnswer
  <1> QED
    BY <1>1, <1>3, <1>4
    DEF Life!JobEnds, Life!service, Life!requests, StagesInLife, AnswersInLife,
        JobInLife

\* For any pool and any errors: a request of RecordMovement moves through the
\* stages of Lifespan and holds a connection exactly when that says so.  What
\* Lifespan leaves out of a request is invisible to it.
THEOREM RequestsFollowLifespan == Spec => StepsAreLifespanSteps
  <1>1. ASSUME TypeInv, NEW r \in Requests, Arrive(r) \/ Step(r) \/ Error(r)
        PROVE  [Life!Next]_(Life!vars)
    <2> USE DEF pool
    <2>1. CASE \/ Arrive(r) \/ GetProduct(r) \/ FailFastView(r)
               \/ FailFastMiss(r) \/ FailFastDirect(r)
      BY <1>1, <2>1, OutsideStepInLife
      DEF Arrive, GetProduct, FailFastView, FailFastMiss, FailFastDirect,
          FailFastOn, LifeStage, Stages, Answers
    <2>2. CASE Begin(r) \/ LockProduct(r) \/ ReadStock(r)
      BY <1>1, <2>2, InsideStepInLife
      DEF Begin, LockProduct, ReadStock, LifeStage, Stages, InUnitOfWork, Answers
    <2>3. CASE CreateMovement(r) \/ InsertReplyLost(r)
      BY <1>1, <2>3, InsideStepInLife
      DEF CreateMovement, InsertReplyLost, LifeStage, Stages, InUnitOfWork, Answers
    <2>4. CASE StatementFails(r) \/ AcquireFails(r)
      <3>1. CASE pc[r] \in InUnitOfWork
        BY <1>1, <2>4, <3>1, InsideStepInLife
        DEF StatementFails, AcquireFails, LifeStage, Stages, InUnitOfWork, Answers
      <3>2. CASE pc[r] \notin InUnitOfWork
        BY <1>1, <2>4, <3>2, OutsideStepInLife
        DEF StatementFails, AcquireFails, LifeStage, Stages, InUnitOfWork, Answers
      <3> QED
        BY <3>1, <3>2
    <2>5. CASE Acquire(r)
      BY <1>1, <2>5, AcquireInLife DEF Life!Next, Life!RequestStep
    <2>6. CASE Commit(r) \/ CommitFails(r) \/ Rollback(r)
      BY <1>1, <2>6, EndInLife DEF Life!Next, Life!RequestStep
    <2>7. CASE BeginFails(r)
      BY <1>1, <2>7, BeginFailsInLife DEF Life!Next, Life!RequestFault
    <2> QED
      BY <1>1, <2>1, <2>2, <2>3, <2>4, <2>5, <2>6, <2>7 DEF Step, Error
  <1>2. ASSUME UNCHANGED vars PROVE UNCHANGED Life!vars
    BY <1>2 DEF vars, Life!vars, Life!service, Life!requests, LifeStage, LifeAnswer,
                RefreshRunning
  <1>3. TypeInv /\ [Next]_vars => [Life!Next \/ RefreshStart]_(Life!vars)
    BY <1>1, <1>2, RefreshEndInLife DEF Next, Life!Next, Life!Refresh
  <1> QED
    BY InitType, TypeStep, <1>3, PTL DEF Spec, StepsAreLifespanSteps
=============================================================================

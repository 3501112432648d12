-------------------------- MODULE MigrationsProofs --------------------------
(***************************************************************************)
(* What Migrations promises for every number of scripts and of runners.    *)
(***************************************************************************)
EXTENDS Migrations, TLAPS

\* What a running loop has behind it has taken effect.
LoopBehind ==
    \A r \in Runners, v \in Versions :
        pc[r] = "applying" /\ v < next[r] => ran[v] > 0

IInv ==
    /\ MigrationsTypeOK
    /\ TrackedOnce /\ ScriptsRunInOrder /\ DoneMeansApplied
    /\ LoopBehind

\* The invariant holds before any tool has run.
LEMMA InitEstablishes == Init => IInv
  <1> SUFFICES ASSUME Init PROVE IInv
    OBVIOUS
  <1>1. MigrationsTypeOK
    BY MigrationsAssumption DEF Init, MigrationsTypeOK, Versions
  <1>2. TrackedOnce /\ ScriptsRunInOrder
    BY DEF Init, TrackedOnce, ScriptsRunInOrder, Versions
  <1>3. DoneMeansApplied /\ LoopBehind
    BY DEF Init, DoneMeansApplied, LoopBehind, Versions
  <1> QED
    BY <1>1, <1>2, <1>3 DEF IInv

\* Whatever takes effect, if it is a script whose predecessors all have, and if
\* a transactional one is recorded with it and only once, keeps the two
\* invariants about the database.
LEMMA EffectKeepsOrder ==
    ASSUME IInv,
           NEW v \in Versions,
           \A w \in Versions : w < v => ran[w] > 0,
           v \notin recorded,
           ran' = [ran EXCEPT ![v] = @ + 1],
           recorded' = recorded \cup ({v} \ NonTransactional)
    PROVE  /\ TrackedOnce'
           /\ ScriptsRunInOrder'
           /\ \A w \in Versions : ran[w] > 0 => ran'[w] > 0
           /\ ran'[v] > 0
           /\ ran' \in [Versions -> Nat]
           /\ recorded' \subseteq Versions \ NonTransactional
  <1>1. /\ ran \in [Versions -> Nat]
        /\ recorded \subseteq Versions \ NonTransactional
        /\ Versions \subseteq Nat
    BY MigrationsAssumption DEF IInv, MigrationsTypeOK, Versions
  <1>2. \A w \in Versions : ran'[w] = IF w = v THEN ran[w] + 1 ELSE ran[w]
    BY <1>1
  <1>3. TrackedOnce'
    BY <1>1, <1>2 DEF IInv, TrackedOnce
  <1>4. ScriptsRunInOrder'
    BY <1>1, <1>2 DEF IInv, ScriptsRunInOrder
  <1>5. /\ \A w \in Versions : ran[w] > 0 => ran'[w] > 0
        /\ ran'[v] > 0
        /\ ran' \in [Versions -> Nat]
    BY <1>1, <1>2
  <1>6. recorded' \subseteq Versions \ NonTransactional
    BY <1>1
  <1> QED
    BY <1>3, <1>4, <1>5, <1>6

\* A step that leaves the database alone keeps the two invariants about it.
LEMMA NoEffectKeepsOrder ==
    ASSUME IInv, UNCHANGED <<recorded, ran>>
    PROVE  TrackedOnce' /\ ScriptsRunInOrder'
    BY DEF IInv, TrackedOnce, ScriptsRunInOrder

\* Every step keeps the invariant.
LEMMA StepPreserves == IInv /\ [Next]_vars => IInv'
  <1> SUFFICES ASSUME IInv, [Next]_vars PROVE IInv'
    OBVIOUS
  <1> USE MigrationsAssumption
  <1>0. /\ MigrationsTypeOK /\ Versions \subseteq Int
    BY DEF IInv, Versions
  <1>1. CASE Seed
    <2>1. MigrationsTypeOK'
      BY <1>0, <1>1 DEF MigrationsTypeOK, Seed, loop
    <2>2. TrackedOnce' /\ ScriptsRunInOrder'
      BY <1>1, NoEffectKeepsOrder DEF Seed
    <2>3. DoneMeansApplied' /\ LoopBehind'
      BY <1>1 DEF IInv, Seed, loop, DoneMeansApplied, LoopBehind
    <2> QED
      BY <2>1, <2>2, <2>3 DEF IInv
  <1>2. ASSUME NEW r \in Runners, Start(r) PROVE IInv'
    <2>1. MigrationsTypeOK'
      BY <1>0, <1>2 DEF MigrationsTypeOK, Start
    <2>2. TrackedOnce' /\ ScriptsRunInOrder'
      BY <1>2, NoEffectKeepsOrder DEF Start
    <2>3. DoneMeansApplied' /\ LoopBehind'
      BY <1>0, <1>2 DEF IInv, MigrationsTypeOK, Start, DoneMeansApplied, LoopBehind
    <2> QED
      BY <2>1, <2>2, <2>3 DEF IInv
  <1>3. ASSUME NEW r \in Runners, GetAppliedVersions(r) PROVE IInv'
    <2>1. MigrationsTypeOK'
      BY <1>0, <1>3 DEF MigrationsTypeOK, GetAppliedVersions
    <2>2. TrackedOnce' /\ ScriptsRunInOrder'
      BY <1>3, NoEffectKeepsOrder DEF GetAppliedVersions
    <2>3. DoneMeansApplied' /\ LoopBehind'
      BY <1>0, <1>3
      DEF IInv, MigrationsTypeOK, GetAppliedVersions, DoneMeansApplied, LoopBehind, Versions
    <2> QED
      BY <2>1, <2>2, <2>3 DEF IInv
  <1>4. ASSUME NEW r \in Runners, Fail(r) PROVE IInv'
    <2>1. MigrationsTypeOK'
      BY <1>0, <1>4 DEF MigrationsTypeOK, Fail, Stop
    <2>2. TrackedOnce' /\ ScriptsRunInOrder'
      BY <1>4, NoEffectKeepsOrder DEF Fail
    <2>3. DoneMeansApplied' /\ LoopBehind'
      BY <1>0, <1>4 DEF IInv, MigrationsTypeOK, Fail, Stop, DoneMeansApplied, LoopBehind
    <2> QED
      BY <2>1, <2>2, <2>3 DEF IInv
  <1>5. ASSUME NEW r \in Runners, Finish(r) PROVE IInv'
    <2>1. MigrationsTypeOK'
      BY <1>0, <1>5 DEF MigrationsTypeOK, Finish
    <2>2. TrackedOnce' /\ ScriptsRunInOrder'
      BY <1>5, NoEffectKeepsOrder DEF Finish
    <2>3. DoneMeansApplied' /\ LoopBehind'
      BY <1>0, <1>5
      DEF IInv, MigrationsTypeOK, Finish, DoneMeansApplied, LoopBehind, Versions
    <2> QED
      BY <2>1, <2>2, <2>3 DEF IInv
  <1>6. ASSUME NEW r \in Runners, NEW v \in Versions, Skip(r, v) PROVE IInv'
    <2>1. /\ MigrationsTypeOK' /\ ran[v] = 1
      BY <1>0, <1>6 DEF IInv, MigrationsTypeOK, TrackedOnce, Skip, At, Advance, Versions
    <2>2. TrackedOnce' /\ ScriptsRunInOrder'
      BY <1>6, NoEffectKeepsOrder DEF Skip
    <2>3. DoneMeansApplied' /\ LoopBehind'
      BY <1>0, <1>6, <2>1
      DEF IInv, MigrationsTypeOK, Skip, At, Advance, DoneMeansApplied, LoopBehind, Versions
    <2> QED
      BY <2>1, <2>2, <2>3 DEF IInv
  <1>7. ASSUME NEW r \in Runners, NEW v \in Versions, Pending(r, v),
               v \notin recorded,
               ran' = [ran EXCEPT ![v] = @ + 1],
               recorded' = recorded \cup ({v} \ NonTransactional),
               Advance(r) \/ Stop(r),
               UNCHANGED <<seeded, runs>>
        PROVE  IInv'
    <2>1. /\ TrackedOnce' /\ ScriptsRunInOrder'
          /\ \A w \in Versions : ran[w] > 0 => ran'[w] > 0
          /\ ran'[v] > 0
          /\ ran' \in [Versions -> Nat]
          /\ recorded' \subseteq Versions \ NonTransactional
      <3>1. \A w \in Versions : w < v => ran[w] > 0
        BY <1>7 DEF IInv, LoopBehind, Pending, At
      <3> QED
        BY <1>7, <3>1, EffectKeepsOrder
    <2>2. MigrationsTypeOK'
      <3>1. known' \in [Runners -> SUBSET recorded']
        <4>1. known' = known /\ recorded \subseteq recorded'
          BY <1>7 DEF Advance, Stop
        <4> QED
          BY <1>0, <4>1 DEF MigrationsTypeOK
      <3>2. next' \in [Runners -> 1 .. Scripts + 1]
        <4>1. next[r] \in 1 .. Scripts /\ Scripts \in Nat
          BY <1>7 DEF Pending, At, Versions
        <4>2. next' = next \/ next' = [next EXCEPT ![r] = @ + 1]
          BY <1>7 DEF Advance, Stop
        <4> QED
          BY <1>0, <4>1, <4>2 DEF MigrationsTypeOK
      <3>3. /\ seeded' \in 0 .. MaxSeeds
            /\ runs' \in [Runners -> 0 .. MaxRuns]
        BY <1>0, <1>7 DEF MigrationsTypeOK
      <3>4. pc' \in [Runners -> {"stopped", "reading", "applying", "done"}]
        <4>1. pc' = pc \/ pc' = [pc EXCEPT ![r] = "stopped"]
          BY <1>7 DEF Advance, Stop
        <4> QED
          BY <1>0, <4>1 DEF MigrationsTypeOK
      <3> QED
        BY <2>1, <3>1, <3>2, <3>3, <3>4 DEF MigrationsTypeOK
    <2>3. DoneMeansApplied'
      BY <1>0, <1>7, <2>1 DEF IInv, MigrationsTypeOK, Advance, Stop, DoneMeansApplied
    <2>4. LoopBehind'
      <3>1. CASE Advance(r)
        BY <1>0, <1>7, <2>1, <3>1
        DEF IInv, MigrationsTypeOK, Pending, At, Advance, LoopBehind, Versions
      <3>2. CASE Stop(r)
        BY <1>0, <2>1, <3>2 DEF IInv, MigrationsTypeOK, Stop, LoopBehind
      <3> QED
        BY <1>7, <3>1, <3>2
    <2> QED
      BY <2>1, <2>2, <2>3, <2>4 DEF IInv
  <1>8. ASSUME NEW r \in Runners, NEW v \in Versions, ApplyInTransaction(r, v)
        PROVE  IInv'
    <2>1. CASE v \in recorded
      <3>1. Stop(r) /\ UNCHANGED <<recorded, ran, seeded, runs>>
        BY <1>8, <2>1 DEF ApplyInTransaction
      <3>2. MigrationsTypeOK'
        BY <1>0, <3>1 DEF MigrationsTypeOK, Stop
      <3>3. DoneMeansApplied' /\ LoopBehind'
        BY <1>0, <3>1 DEF IInv, MigrationsTypeOK, Stop, DoneMeansApplied, LoopBehind
      <3> QED
        BY <3>1, <3>2, <3>3, NoEffectKeepsOrder DEF IInv
    <2>2. CASE v \notin recorded
      <3>1. recorded' = recorded \cup ({v} \ NonTransactional)
        BY <1>8, <2>2 DEF ApplyInTransaction
      <3> QED
        BY <1>7, <1>8, <2>2, <3>1 DEF ApplyInTransaction
    <2> QED
      BY <2>1, <2>2
  <1>9. ASSUME NEW r \in Runners, NEW v \in Versions, ApplyWithoutTransaction(r, v)
        PROVE  IInv'
    <2>1. v \notin recorded /\ recorded' = recorded \cup ({v} \ NonTransactional)
      BY <1>0, <1>9 DEF MigrationsTypeOK, ApplyWithoutTransaction
    <2> QED
      BY <1>7, <1>9, <2>1 DEF ApplyWithoutTransaction
  <1>10. ASSUME NEW r \in Runners, NEW v \in Versions, DieAfterCommit(r, v)
         PROVE  IInv'
    BY <1>7, <1>10 DEF DieAfterCommit
  <1>11. CASE UNCHANGED vars
    <2>1. MigrationsTypeOK'
      BY <1>0, <1>11 DEF MigrationsTypeOK, vars, loop
    <2>2. DoneMeansApplied' /\ LoopBehind'
      BY <1>11 DEF IInv, vars, loop, DoneMeansApplied, LoopBehind
    <2> QED
      BY <1>11, <2>1, <2>2, NoEffectKeepsOrder DEF IInv, vars
  <1> QED
    BY <1>1, <1>2, <1>3, <1>4, <1>5, <1>6, <1>8, <1>9, <1>10, <1>11 DEF Next

\* The inductive invariant holds in every reachable state.
LEMMA Invariant == Spec => []IInv
    BY InitEstablishes, StepPreserves, PTL DEF Spec

\* Each variable keeps its type; a runner knows nothing that is not recorded.
THEOREM MigrationsTypeCorrect == Spec => []MigrationsTypeOK
    BY Invariant, PTL DEF IInv

\* migrate.py: a transactional script takes effect once, and is recorded.
THEOREM TransactionalScriptsRunOnce == Spec => []TrackedOnce
    BY Invariant, PTL DEF IInv

\* migrate.py: scripts take effect in their order, across runners and crashes.
THEOREM ScriptsAreOrdered == Spec => []ScriptsRunInOrder
    BY Invariant, PTL DEF IInv

\* migrate.py: a run that ends normally leaves nothing pending.
THEOREM SuccessIsComplete == Spec => []DoneMeansApplied
    BY Invariant, PTL DEF IInv
=============================================================================

----------------------------- MODULE Migrations -----------------------------
(***************************************************************************)
(* The command-line tools that prepare a database: "make migrate", which   *)
(* may be started on several machines at once and again after a failure,   *)
(* and "make seed".  Scripts are numbered in the order in which sorted()   *)
(* puts their file names.                                                  *)
(***************************************************************************)
EXTENDS Integers

CONSTANTS
    Scripts,           \* number of .sql files in migrations/
    NonTransactional,  \* those that start with "-- non-transactional"
    SeedScript,        \* 007_seed_data.sql, which both tools run
    Runners,           \* processes that run migrate.py
    MaxRuns,           \* bound: times a runner is started
    MaxSeeds           \* bound: times seed.py is run

ASSUME MigrationsAssumption ==
    /\ Scripts \in Nat \ {0}
    /\ NonTransactional \subseteq 1 .. Scripts
    /\ SeedScript \in (1 .. Scripts) \ NonTransactional
    /\ MaxRuns \in Nat
    /\ MaxSeeds \in Nat

Versions == 1 .. Scripts

VARIABLES
    recorded,  \* rows of schema_migrations
    ran,       \* times each script took effect through run_migrations
    seeded,    \* times the seed script took effect through run_seed
    pc,        \* of each runner: "stopped", "reading", "applying" or "done"
    known,     \* what the runner's only SELECT found recorded
    next,      \* the script the runner's loop is at
    runs       \* times each runner was started

loop == <<pc, known, next>>
vars == <<recorded, ran, seeded, loop, runs>>

Init ==
    /\ recorded = {}
    /\ ran = [v \in Versions |-> 0]
    /\ seeded = 0
    /\ pc = [r \in Runners |-> "stopped"]
    /\ known = [r \in Runners |-> {}]
    /\ next = [r \in Runners |-> 1]
    /\ runs = [r \in Runners |-> 0]

\* run_migrations_from_settings opens a pool and _ensure_migrations_table
\* leaves an existing table alone.
Start(r) ==
    /\ pc[r] \in {"stopped", "done"}
    /\ runs[r] < MaxRuns
    /\ runs' = [runs EXCEPT ![r] = @ + 1]
    /\ pc' = [pc EXCEPT ![r] = "reading"]
    /\ UNCHANGED <<recorded, ran, seeded, known, next>>

\* _get_applied_versions, once per run.
GetAppliedVersions(r) ==
    /\ pc[r] = "reading"
    /\ known' = [known EXCEPT ![r] = recorded]
    /\ next' = [next EXCEPT ![r] = 1]
    /\ pc' = [pc EXCEPT ![r] = "applying"]
    /\ UNCHANGED <<recorded, ran, seeded, runs>>

At(r, v) == pc[r] = "applying" /\ next[r] = v /\ v \in Versions
Advance(r) == next' = [next EXCEPT ![r] = @ + 1] /\ UNCHANGED <<pc, known>>
Stop(r) == pc' = [pc EXCEPT ![r] = "stopped"] /\ UNCHANGED <<known, next>>
Pending(r, v) == At(r, v) /\ v \notin known[r]

\* Mutant: the loop moves on twice.
SkipTwice(r, v) ==
    /\ At(r, v)
    /\ v \in known[r]
    /\ next' = [next EXCEPT ![r] = @ + 2]
    /\ UNCHANGED <<recorded, ran, seeded, pc, known, runs>>

Skip(r, v) ==
    /\ At(r, v)
    /\ v \in known[r]
    /\ Advance(r)
    /\ UNCHANGED <<recorded, ran, seeded, runs>>

\* Mutant: INSERT ... ON CONFLICT DO NOTHING.
ApplyIgnoresConflict(r, v) ==
    /\ Pending(r, v)
    /\ v \notin NonTransactional
    /\ ran' = [ran EXCEPT ![v] = @ + 1]
    /\ recorded' = recorded \cup {v}
    /\ Advance(r)
    /\ UNCHANGED <<seeded, runs>>

\* The script and its row of schema_migrations in one transaction: a version
\* that another runner recorded meanwhile violates the primary key, which
\* undoes the script and ends the run.
ApplyInTransaction(r, v) ==
    /\ Pending(r, v)
    /\ v \notin NonTransactional
    /\ IF v \in recorded
       THEN Stop(r) /\ UNCHANGED <<recorded, ran>>
       ELSE /\ ran' = [ran EXCEPT ![v] = @ + 1]
            /\ recorded' = recorded \cup {v}
            /\ Advance(r)
    /\ UNCHANGED <<seeded, runs>>

\* The branch of non-transactional scripts records nothing.
ApplyWithoutTransaction(r, v) ==
    /\ Pending(r, v)
    /\ v \in NonTransactional
    /\ ran' = [ran EXCEPT ![v] = @ + 1]
    /\ Advance(r)
    /\ UNCHANGED <<recorded, seeded, runs>>

\* Mutant: a script that fails is logged and the loop goes on.
FailureContinues(r) ==
    /\ pc[r] = "applying"
    /\ next[r] \in Versions \ known[r]
    /\ Advance(r)
    /\ UNCHANGED <<recorded, ran, seeded, runs>>

\* A script fails or the process dies: whatever transaction was open is
\* undone and no later script runs.
Fail(r) ==
    /\ pc[r] \in {"reading", "applying"}
    /\ Stop(r)
    /\ UNCHANGED <<recorded, ran, seeded, runs>>

\* The process dies, or loses the connection, right after a commit.
DieAfterCommit(r, v) ==
    /\ Pending(r, v)
    /\ v \notin recorded
    /\ ran' = [ran EXCEPT ![v] = @ + 1]
    /\ recorded' = recorded \cup ({v} \ NonTransactional)
    /\ Stop(r)
    /\ UNCHANGED <<seeded, runs>>

Finish(r) ==
    /\ pc[r] = "applying"
    /\ next[r] = Scripts + 1
    /\ pc' = [pc EXCEPT ![r] = "done"]
    /\ UNCHANGED <<recorded, ran, seeded, known, next, runs>>

\* run_seed runs the script again, and records nothing.  Without the tables
\* of the scripts before it, it fails and has no effect.
Seed ==
    /\ seeded < MaxSeeds
    /\ \A v \in 1 .. SeedScript - 1 : ran[v] > 0
    /\ seeded' = seeded + 1
    /\ UNCHANGED <<recorded, ran, loop, runs>>

Next ==
    \/ Seed
    \/ \E r \in Runners :
         \/ Start(r) \/ GetAppliedVersions(r) \/ Fail(r) \/ Finish(r)
         \/ \E v \in Versions :
              \/ Skip(r, v) \/ ApplyInTransaction(r, v)
              \/ ApplyWithoutTransaction(r, v) \/ DieAfterCommit(r, v)

Spec == Init /\ [][Next]_vars

-----------------------------------------------------------------------------
\* Type invariant.
MigrationsTypeOK ==
    /\ recorded \subseteq Versions \ NonTransactional
    /\ ran \in [Versions -> Nat]
    /\ seeded \in 0 .. MaxSeeds
    /\ pc \in [Runners -> {"stopped", "reading", "applying", "done"}]
    /\ known \in [Runners -> SUBSET recorded]
    /\ next \in [Runners -> 1 .. Scripts + 1]
    /\ runs \in [Runners -> 0 .. MaxRuns]

\* However many runners there are and wherever they die, a script that runs in
\* a transaction takes effect once, and schema_migrations says so.
TrackedOnce ==
    \A v \in Versions \ NonTransactional :
        ran[v] = IF v \in recorded THEN 1 ELSE 0

\* No script runs on a database that an earlier one has not prepared, although
\* a runner knows only what was recorded when it started.
ScriptsRunInOrder ==
    \A v, w \in Versions : v < w /\ ran[w] > 0 => ran[v] > 0

\* A run that reports success leaves nothing pending.
DoneMeansApplied ==
    \A r \in Runners : pc[r] = "done" => \A v \in Versions : ran[v] > 0

\* seed.py:43-44 and 007_seed_data.sql:14: the movements of the seed script are
\* inserted into an empty table only, so they are there once.
SeedRowsOnce == ran[SeedScript] + seeded <= 1
=============================================================================

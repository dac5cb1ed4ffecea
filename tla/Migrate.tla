------------------------------ MODULE Migrate -------------------------------
(***************************************************************************)
(* scripts/migrate.py followed by scripts/bootstrap.py, the job Compose    *)
(* and Kubernetes run before the agents start: several runners against one *)
(* Postgres, each from its own checkout, each applying what is pending or  *)
(* rolling back the highest version.                                       *)
(*                                                                         *)
(* A transaction's effects appear when it commits.  Its DDL holds the locks*)
(* of the tables it touches until then, so a second transaction on the same*)
(* migration waits for the first.  Versions are fixed-width digits, so the *)
(* order of the file names is that of the numbers.                         *)
(***************************************************************************)
EXTENDS Integers, FiniteSets, FiniteSetsExt

CONSTANTS Runner,
          Version,      \* migrations ever written
          files,        \* files[r]: forward migrations in r's checkout
          has_down,     \* versions with a .down.sql
          Contract,     \* (subject, version) of the JSON schemas ever written
          schemas,      \* schemas[r]: those in r's checkout
          LegacyVersions, \* those an existing database got from initdb, untracked
          MaxRuns,      \* bound: runs of the script
          MaxAborts     \* bound: runs that die

ASSUME MigrateAssumption ==
    /\ Version \subseteq Nat \ {0} /\ IsFiniteSet(Version)
    /\ files \in [Runner -> SUBSET Version] /\ has_down \subseteq Version
    /\ schemas \in [Runner -> SUBSET Contract]
    /\ LegacyVersions \subseteq Version /\ MaxRuns \in Nat /\ MaxAborts \in Nat

VARIABLES jobPc, done, at, \* each runner: next statement, versions read, migration
          tracking,       \* rows of schema_migrations
          effect,         \* migrations whose objects are in the schema
          registry,       \* rows of schema_registry
          undone,         \* history: versions rolled back since r's run began
          ups, downs,     \* history: commits of each migration and of its down
          runs, aborts

dbVars == <<tracking, effect, registry>>
history == <<undone, ups, downs>>
jobVars == <<jobPc, done, at, dbVars, history, runs, aborts>>

Active == {"read", "next", "tx", "insert", "bootstrap", "last", "down", "delete"}
Ended == {"idle", "migrated", "reverted", "failed"}

JobTypeOK ==
    /\ jobPc \in [Runner -> Active \cup Ended]
    /\ done \in [Runner -> SUBSET Version]
    /\ at \in [Runner -> Version \cup {0}]
    /\ \A r \in Runner : jobPc[r] \in {"tx", "insert", "down", "delete"} => at[r] # 0
    /\ tracking \subseteq Version /\ effect \subseteq Version
    /\ registry \subseteq Contract
    /\ undone \in [Runner -> SUBSET Version]
    /\ ups \in [Version -> Nat] /\ downs \in [Version -> Nat]
    /\ runs \in 0..MaxRuns /\ aborts \in 0..MaxAborts

\* A fresh database, or one that initdb filled before there was a tracking table.
JobInit ==
    /\ jobPc = [r \in Runner |-> "idle"]
    /\ done = [r \in Runner |-> {}] /\ at = [r \in Runner |-> 0]
    /\ tracking = {} /\ effect \in {{}, LegacyVersions} /\ registry = {}
    /\ undone = [r \in Runner |-> {}]
    /\ ups = [v \in Version |-> 0] /\ downs = [v \in Version |-> 0]
    /\ runs = 0 /\ aborts = 0

Goto(r, step) == jobPc' = [jobPc EXCEPT ![r] = step]

\* main(): a new process, with --rollback or without.
Start(r, step) ==
    /\ jobPc[r] \in Ended
    /\ runs < MaxRuns /\ runs' = runs + 1
    /\ Goto(r, step)
    /\ done' = [done EXCEPT ![r] = {}] /\ at' = [at EXCEPT ![r] = 0]
    /\ undone' = [undone EXCEPT ![r] = {}]
    /\ UNCHANGED <<dbVars, ups, downs, aborts>>

\* The transaction of another runner on the same migration has run its DDL.
locked(r) == \E s \in Runner \ {r} : jobPc[s] \in {"insert", "delete"} /\ at[s] = at[r]

-----------------------------------------------------------------------------
(* apply_pending *)

\* CREATE_TRACKING and _applied_versions: the set is read once, here.
ReadApplied(r) ==
    /\ jobPc[r] = "read"
    /\ done' = [done EXCEPT ![r] = tracking]
    /\ Goto(r, "next")
    /\ UNCHANGED <<at, dbVars, history, runs, aborts>>

\* Mutant of pending: off by one, the migration after the last applied is skipped.
pending_later(r) == {v \in files[r] \ done[r] : v > at[r] + 1}

\* Migrations of the checkout the loop has yet to come to.
pending(r) == {v \in files[r] \ done[r] : v > at[r]}

\* The next migration in version order; after the last, main returns 0.
NextMigration(r) ==
    /\ jobPc[r] = "next"
    /\ IF pending(r) = {} THEN Goto(r, "bootstrap") /\ UNCHANGED at
       ELSE at' = [at EXCEPT ![r] = Min(pending(r))] /\ Goto(r, "tx")
    /\ UNCHANGED <<done, dbVars, history, runs, aborts>>

\* The migration's SQL, in a transaction of its own.
ExecuteUp(r) ==
    /\ jobPc[r] = "tx" /\ ~locked(r)
    /\ Goto(r, "insert")
    /\ UNCHANGED <<done, at, dbVars, history, runs, aborts>>

\* Mutant of conflicts: the table has no primary key.
conflicts_never(r) == FALSE

\* version is the primary key of schema_migrations.
conflicts(r) == at[r] \in tracking

\* Mutant of Insert: the SQL is committed and no row is written.
Insert_untracked(r) ==
    /\ jobPc[r] = "insert"
    /\ effect' = effect \cup {at[r]}
    /\ ups' = [ups EXCEPT ![at[r]] = @ + 1]
    /\ Goto(r, "next")
    /\ UNCHANGED <<done, at, tracking, registry, undone, downs, runs, aborts>>

\* INSERT INTO schema_migrations and COMMIT; a second row for the version raises,
\* which rolls the transaction back and ends the run.
Insert(r) ==
    /\ jobPc[r] = "insert"
    /\ IF conflicts(r) THEN Goto(r, "failed") /\ UNCHANGED <<tracking, effect, ups>>
       ELSE /\ tracking' = tracking \cup {at[r]}
            /\ effect' = effect \cup {at[r]}
            /\ ups' = [ups EXCEPT ![at[r]] = @ + 1]
            /\ Goto(r, "next")
    /\ UNCHANGED <<done, at, registry, undone, downs, runs, aborts>>

\* load_schemas: every contract of the checkout upserted in one transaction.
LoadSchemas(r) ==
    /\ jobPc[r] = "bootstrap"
    /\ registry' = registry \cup schemas[r]
    /\ Goto(r, "migrated")
    /\ UNCHANGED <<done, at, tracking, effect, history, runs, aborts>>

-----------------------------------------------------------------------------
(* rollback_last *)

\* ORDER BY version DESC LIMIT 1, in a transaction that ends with the read.
ReadLast(r) ==
    /\ jobPc[r] = "last"
    /\ IF tracking = {} THEN Goto(r, "reverted") /\ UNCHANGED at
       ELSE LET v == Max(tracking) IN
            IF v \in files[r] \cap has_down
            THEN at' = [at EXCEPT ![r] = v] /\ Goto(r, "down")
            ELSE Goto(r, "failed") /\ UNCHANGED at
    /\ UNCHANGED <<done, dbVars, history, runs, aborts>>

ExecuteDown(r) ==
    /\ jobPc[r] = "down" /\ ~locked(r)
    /\ Goto(r, "delete")
    /\ UNCHANGED <<done, at, dbVars, history, runs, aborts>>

\* Mutant of Delete: the row is kept as a record of what was applied.
Delete_keeps_row(r) ==
    /\ jobPc[r] = "delete"
    /\ effect' = effect \ {at[r]}
    /\ undone' = [s \in Runner |-> undone[s] \cup {at[r]}]
    /\ downs' = [downs EXCEPT ![at[r]] = @ + 1]
    /\ Goto(r, "reverted")
    /\ UNCHANGED <<done, at, tracking, registry, ups, runs, aborts>>

\* DELETE and COMMIT.  Another runner may have deleted the row by now: the down
\* migration, all IF EXISTS, then changes nothing and is still reported.
Delete(r) ==
    /\ jobPc[r] = "delete"
    /\ tracking' = tracking \ {at[r]}
    /\ effect' = effect \ {at[r]}
    /\ undone' = [s \in Runner |-> undone[s] \cup {at[r]}]
    /\ downs' = [downs EXCEPT ![at[r]] = @ + 1]
    /\ Goto(r, "reverted")
    /\ UNCHANGED <<done, at, registry, ups, runs, aborts>>

\* The process dies or loses its connection: an open transaction is rolled back.
Abort(r) ==
    /\ jobPc[r] \in Active
    /\ aborts < MaxAborts /\ aborts' = aborts + 1
    /\ Goto(r, "failed")
    /\ UNCHANGED <<done, at, dbVars, history, runs>>

-----------------------------------------------------------------------------
JobStep(r) == \/ ReadApplied(r) \/ NextMigration(r) \/ ExecuteUp(r) \/ Insert(r)
              \/ LoadSchemas(r) \/ ReadLast(r) \/ ExecuteDown(r) \/ Delete(r)

\* No more runs (the bound): not a deadlock.
JobQuiescent == /\ runs = MaxRuns /\ \A r \in Runner : jobPc[r] \in Ended
                /\ UNCHANGED jobVars

JobNext == \/ \E r \in Runner : \/ Start(r, "read") \/ Start(r, "last")
                                \/ JobStep(r) \/ Abort(r)
           \/ JobQuiescent

JobSpec == JobInit /\ [][JobNext]_jobVars

-----------------------------------------------------------------------------
(* Safety.                                                                 *)

\* "each in its own transaction": whichever runner dies where, and however runs and
\* rollbacks interleave, a recorded version is in the schema, and what is in the
\* schema unrecorded was there before the tracking table (apply_pending, rollback_last).
RecordedIsApplied == tracking \subseteq effect /\ effect \subseteq tracking \cup LegacyVersions

\* A job that exits 0 lets the agents start: then every migration and contract of its
\* checkout is in place, though its list of applied versions was read before other
\* runners worked.  A version rolled back since the job began is the exception.
ExitMeansMigrated ==
    \A r \in Runner : jobPc[r] = "migrated" =>
        files[r] \subseteq tracking \cup undone[r] /\ schemas[r] \subseteq registry

\* "Idempotent": between two rollbacks of a version at most one runner applies it and
\* reports having applied it.
AppliedOnce == \A v \in Version : ups[v] <= downs[v] + 1

-----------------------------------------------------------------------------
(* Liveness: a started job runs on.                                        *)
JobLiveSpec == JobSpec /\ \A r \in Runner : WF_jobVars(JobStep(r))

\* Runners that contend for a migration do not all lose: it is recorded, unless a
\* process died or the version was rolled back (the loser's INSERT raises).
ContendedIsApplied ==
    \A v \in Version :
        (\E r \in Runner : jobPc[r] = "tx" /\ at[r] = v) ~>
            (v \in tracking \/ aborts > 0 \/ downs[v] > 0)
=============================================================================

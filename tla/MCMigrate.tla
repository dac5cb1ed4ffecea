----------------------------- MODULE MCMigrate ------------------------------
(***************************************************************************)
(* Small instances of Migrate: the repository's 0001 to 0004, of which the *)
(* last two can be rolled back.                                            *)
(***************************************************************************)
EXTENDS Migrate

\* One runner from the release before 0004, the others from the current one.
Releases == [r \in Runner |-> IF r = "old" THEN 1..3 ELSE 1..4]
Contracts == [r \in Runner |-> IF r = "old" THEN {"v1"} ELSE {"v1", "v2"}]
=============================================================================

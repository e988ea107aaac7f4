----------------------------- MODULE MCTestSets -----------------------------
(* Instances of TestSets for TLC. *)
EXTENDS TestSets, TLC

CONSTANTS r1, r2, r3, s1

\* Versions are made on PostgreSQL only.
VersionOnPostgres == ("sqlite" :> Op \ {"version"} @@ "postgresql" :> Op)

AllOnSqlite == ("sqlite" :> Op)
=============================================================================

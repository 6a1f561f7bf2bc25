---------------------------- MODULE MCMigrations ----------------------------
(* Small instances of Migrations for TLC.                                  *)
EXTENDS Migrations

CONSTANTS c1, c2, d2

(* An old build, its successor, and one whose second migration was edited *)
MCBuilds == {<<c1>>, <<c1, c2>>, <<c1, d2>>}

=============================================================================

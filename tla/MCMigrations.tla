---------------------------- MODULE MCMigrations ----------------------------
(***************************************************************************)
(* Values for the run of Migrations.                                       *)
(***************************************************************************)
EXTENDS Migrations, TLC

CONSTANTS ann, bob, matrix, example

Symm == Permutations(Emails) \cup Permutations(Servers)
=============================================================================

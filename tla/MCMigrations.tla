---------------------------- MODULE MCMigrations ----------------------------
(* TLC instance of Migrations. *)
EXTENDS Migrations, TLC

(* Processes are alike. *)
Symmetry == Permutations(Procs)
=============================================================================

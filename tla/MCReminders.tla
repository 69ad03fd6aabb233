---------------------------- MODULE MCReminders -----------------------------
(* TLC instance of Reminders. *)
EXTENDS Reminders, TLC

(* Requests are alike until they are made, and so are runs. *)
Symmetry == Permutations(Requests) \cup Permutations(Triggers)
=============================================================================

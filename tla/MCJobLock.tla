------------------------------ MODULE MCJobLock ------------------------------
(* TLC instance of JobLock: two instances, both triggers. *)
EXTENDS JobLock, TLC

(* Safety runs only. *)
InstanceSymmetry == Permutations(Instances) \cup Permutations(Triggers)
=============================================================================

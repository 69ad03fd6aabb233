------------------------- MODULE MCConditionalWrites -------------------------
(* TLC instance of ConditionalWrites: three requests, two values a column. *)
EXTENDS ConditionalWrites, TLC

(* Requests, bodies and marks are interchangeable. *)
InstanceSymmetry ==
    Permutations(Requests) \cup Permutations(Bodies) \cup Permutations(Marks)
=============================================================================

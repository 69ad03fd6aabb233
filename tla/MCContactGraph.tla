--------------------------- MODULE MCContactGraph ---------------------------
(* TLC instance of ContactGraph: three contacts and a symmetric relation. *)
EXTENDS ContactGraph, TLC

(* A friend of mine has me for a friend: the edge may be told either way round. *)
InstanceInverse == [t \in Types |-> t]

(* Safety runs only; the identities are interchangeable. *)
InstanceSymmetry ==
    Permutations(Contacts) \cup Permutations(Edges) \cup Permutations(Notes)
      \cup Permutations(Slots)
=============================================================================

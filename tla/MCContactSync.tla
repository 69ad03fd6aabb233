---------------------------- MODULE MCContactSync ----------------------------
(* TLC instance of ContactSync: two cards, of which a run takes one. *)
EXTENDS ContactSync, TLC

InstanceSymmetry == Permutations(Hrefs) \cup Permutations(Cards)
=============================================================================

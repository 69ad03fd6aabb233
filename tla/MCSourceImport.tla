--------------------------- MODULE MCSourceImport ---------------------------
(* TLC instance of SourceImport: two contacts and at most one record of each kind. *)
EXTENDS SourceImport
CONSTANTS c1, c2, note

MCEnds == [r \in Records |-> IF r = note THEN {c1} ELSE {c1, c2}]
=============================================================================

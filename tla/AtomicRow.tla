------------------------------ MODULE AtomicRow ------------------------------
(***************************************************************************)
(* What a row of a revision-bearing entity promises its clients: every     *)
(* write that succeeds behaves as if it had been applied, alone and in one *)
(* step, to the row as it stood at that moment.  An edit replaces the body *)
(* and keeps the mark (archived / favourite), a toggle changes the mark    *)
(* and keeps the body, each takes the next revision, and a deletion is     *)
(* final.  There are no requests, loads or conflicts at this level.        *)
(***************************************************************************)
EXTENDS Naturals

CONSTANTS Bodies, Marks

VARIABLES
    revision,   \* the validator clients are given
    body, mark, \* the columns an edit and a toggle replace
    live        \* not deleted

row == <<revision, body, mark, live>>

Init == /\ revision = 1
        /\ body \in Bodies
        /\ mark \in Marks
        /\ live = TRUE

(* The next version of the row: one more revision, other columns as given. *)
NextVersion(b, m) == /\ live
                     /\ revision' = revision + 1
                     /\ body' = b
                     /\ mark' = m
                     /\ UNCHANGED live

Edit(b) == NextVersion(b, mark)
Toggle(m) == NextVersion(body, m)

Delete == /\ live' = FALSE
          /\ UNCHANGED <<revision, body, mark>>

Next == \/ \E b \in Bodies : Edit(b)
        \/ \E m \in Marks : Toggle(m)
        \/ Delete

Spec == Init /\ [][Next]_row
=============================================================================

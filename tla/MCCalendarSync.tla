--------------------------- MODULE MCCalendarSync ---------------------------
(* TLC instance of CalendarSync. *)
EXTENDS CalendarSync, TLC
=============================================================================

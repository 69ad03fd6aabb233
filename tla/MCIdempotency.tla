---------------------------- MODULE MCIdempotency ----------------------------
(* TLC instance of Idempotency: three attempts with one key, two requests. *)
EXTENDS Idempotency
=============================================================================

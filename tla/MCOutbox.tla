------------------------------- MODULE MCOutbox -------------------------------
(* TLC instance of Outbox: two calls of which a read returns one, two reader chains, a killed
   process. *)
EXTENDS Outbox
=============================================================================

------------------------------ MODULE MCWebhooks ------------------------------
(* TLC instance of Webhooks: two events, two attempts. *)
EXTENDS Webhooks
=============================================================================

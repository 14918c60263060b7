------------------------------ MODULE MCWebhooks ----------------------------
(***************************************************************************)
(* Constants for model checking Webhooks.                                  *)
(***************************************************************************)
EXTENDS Webhooks

CONSTANTS h1, h2, d1
=============================================================================

------------------------------ MODULE MCWebhook ------------------------------
(***************************************************************************)
(* Small instances of Webhook for TLC: there are more alerts than a round  *)
(* reads, so that the rows compete for the dispatcher.                     *)
(***************************************************************************)
EXTENDS Webhook

CONSTANTS e1, e2, e3
=============================================================================

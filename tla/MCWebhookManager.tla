-------------------------- MODULE MCWebhookManager --------------------------
(***************************************************************************)
(* Instances of WebhookManager for TLC.                                    *)
(***************************************************************************)
EXTENDS WebhookManager
=============================================================================

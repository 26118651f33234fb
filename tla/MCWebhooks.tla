---------------------------- MODULE MCWebhooks ----------------------------
(* Webhooks for TLC: the constants are given in the configurations.          *)
EXTENDS WebhooksProps
=============================================================================

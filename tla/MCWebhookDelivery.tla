-------------------------- MODULE MCWebhookDelivery --------------------------
(* Small instances of WebhookDelivery for TLC. *)
EXTENDS WebhookDelivery

\* The backoff table: two entries, the last one reused.
MCBackoff == <<1, 2>>
=============================================================================

--------------------------- MODULE MCWebhookRetry ---------------------------
(***************************************************************************)
(* WebhookRetry for TLC: two retries, the second beyond the longest delay  *)
(* of the queue, so that its message must be requeued.                     *)
(***************************************************************************)
EXTENDS WebhookRetry

Intervals == <<[base |-> 2, jitter |-> 1], [base |-> 5, jitter |-> 0]>>

=============================================================================

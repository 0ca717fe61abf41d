----------------------------- MODULE MCRMQHealth -----------------------------
(***************************************************************************)
(* What the docs say of the health checker and the code does not do.       *)
(***************************************************************************)
EXTENDS RMQHealth

\* health.py:207 "ALIVE -> queue deleted -> DEGRADED fires on_queue_missing()"
\* and :97-98 "Consumer is effectively broken -- alert immediately": once a
\* probe has found the queue missing, the alert has fired.
MissingQueueAlerts == status = "degraded" /\ queueExists = "no" => alerted
=============================================================================

------------------------------ MODULE MCMetrics ------------------------------
(* Flushes and scrapes on a small instance.                                *)
EXTENDS Metrics

MCDuration == {3, 8}
MCAttempt == 0..3
MCBatchBounds == <<1>>
MCLatencyBounds == <<2, 8>>
=============================================================================

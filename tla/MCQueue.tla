------------------------------- MODULE MCQueue -------------------------------
(* The ring buffer on a small instance: two distinguishable events, a      *)
(* capacity that Prepend can exceed, batches that wrap around.             *)
EXTENDS Queue
=============================================================================

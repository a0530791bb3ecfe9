----------------------------- MODULE MCCollector -----------------------------
(* The whole process on small instances; the values are in the cfg files.  *)
EXTENDS Collector
=============================================================================

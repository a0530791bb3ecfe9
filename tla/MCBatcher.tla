------------------------------ MODULE MCBatcher ------------------------------
(* The batcher on small instances; the values are in the cfg files.        *)
EXTENDS Batcher
=============================================================================

---------------------------- MODULE MCDetection -----------------------------
(* Detection on small instances: the constants are given in the cfg files. *)
EXTENDS Detection
=============================================================================

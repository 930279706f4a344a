---------------------------- MODULE MCSettlement ----------------------------
(* Settlement on small instances: the constants are given in the cfg files. *)
EXTENDS Settlement
=============================================================================

-------------------------------- MODULE MCApi -------------------------------
(* Api on a small instance: the constants are given in the cfg file.       *)
EXTENDS Api
=============================================================================

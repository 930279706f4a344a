------------------------------ MODULE MCPayFeed -----------------------------
(* PayFeed on a small instance: the constants are given in the cfg file.   *)
EXTENDS PayFeed
=============================================================================

------------------------------ MODULE MCReplica -----------------------------
(* Replica on a small instance: the constants are given in Replica.cfg. *)
EXTENDS Replica

\* Notifications of one deposit, each behind the earlier ones.
MCLine == [r \in Rows |-> "notify_app"]
=============================================================================

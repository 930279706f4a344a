---------------------------- MODULE MCRelayQuote ----------------------------
(* RelayQuote on a small instance.                                         *)
EXTENDS RelayQuote

\* No allowance before, or the whole input to every holder.
MCPrior == {None, [h \in Holder |-> Input]}
=============================================================================

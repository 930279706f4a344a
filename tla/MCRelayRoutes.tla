---------------------------- MODULE MCRelayRoutes ----------------------------
EXTENDS RelayRoutes

MCTokens == {"native", "usd", "unprobed"}
MCDirect == {"native", "usd"}
MCDecimals == [t \in MCTokens |-> IF t = "native" THEN 18 ELSE 6]
MCForeign == [t \in MCTokens |-> 6]

\* First a list without the native currency's decimals; then usd is dropped
\* and the deposit's chain is paused.
MCLists ==
    <<[usable |-> TRUE, receives |-> TRUE, solver |-> MCTokens, currency |-> FALSE],
      [usable |-> TRUE, receives |-> FALSE, solver |-> {"native"}, currency |-> TRUE]>>
=============================================================================

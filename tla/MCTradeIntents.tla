--------------------------- MODULE MCTradeIntents ---------------------------
(* TradeIntents on small instances.                                        *)
EXTENDS TradeIntents, TLC

CONSTANTS t1, t2, o1, o2, s1, s2, m1

\* All trades in one market: cancel_market then covers every order.
OneMarket == [t \in Trades |-> m1]

Symmetry == Permutations(Trades) \cup Permutations(Orders) \cup Permutations(Submitters)
=============================================================================

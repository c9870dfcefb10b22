-------------------------- MODULE MCTradingCycle --------------------------
(* Instances of TradingCycle for TLC: orders 1 and 3 share a market. *)
EXTENDS TradingCycle

MCMarketOf(o) == o % 2
Losses == {-100, 6}

=============================================================================

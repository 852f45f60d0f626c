--------------------------- MODULE MCTradingCycle ---------------------------
(* Model-checking instances of the trading cycle.                          *)
EXTENDS TradingCycle

MCZoneDrop == <<1, 2, 3>>
MCZonePct  == <<50, 50, 60>>
=============================================================================

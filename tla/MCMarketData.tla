---------------------------- MODULE MCMarketData ----------------------------
(* Url tables for model checking MarketData. *)
EXTENDS MarketData

\* Three endpoints, one of them listed twice, and a blank; two of the three
\* differ in their path alone, so that they share a contract.
MCUrls == <<"primary", "", "backup", "primary", "spare">>
MCHost == [primary |-> "a", backup |-> "b", spare |-> "a"]
==============================================================================

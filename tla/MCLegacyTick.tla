---------------------------- MODULE MCLegacyTick ----------------------------
(* A model-checking instance of the tick without the decision engine.      *)
EXTENDS LegacyTick

MCZoneDrop == <<1, 2, 3>>
MCZonePct  == <<50, 50, 60>>
=============================================================================

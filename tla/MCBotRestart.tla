---------------------------- MODULE MCBotRestart ----------------------------
(* Zone tables for model checking BotRestart. *)
EXTENDS BotRestart

MCZoneDrop == <<1, 2, 3>>
MCZonePct  == <<50, 50, 50>>
==============================================================================

---------------------------- MODULE MCBotCombat ----------------------------
(* BotCombat for TLC. *)
EXTENDS BotCombat
=============================================================================

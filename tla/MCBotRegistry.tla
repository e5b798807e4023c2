---------------------------- MODULE MCBotRegistry ----------------------------
(* Constants of the BotRegistry run: the callers are alike.                *)
EXTENDS BotRegistry, TLC

CallerSymmetry == Permutations(Callers)
=============================================================================

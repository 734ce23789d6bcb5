-------------------------------- MODULE MCBots --------------------------------
(* Trading bots and simulation bots for TLC.  The two managers share no      *)
(* state, so that every interleaving of the two is one of each: one stands   *)
(* still while TLC explores the other.                                       *)
EXTENDS BotManager, SimBots

MCInit == BotInit /\ SimInit
MCNext == \/ SimInit /\ BotNext /\ UNCHANGED simVars
          \/ BotInit /\ SimNext /\ UNCHANGED botVars
MCSpec == /\ MCInit /\ [][MCNext]_<<botVars, simVars>>
          /\ BotFairness /\ SimFairness

(* The shapes of both: in particular a bot has a connection exactly when its *)
(* loop has been started, and a simulation bot's loop can be cancelled.      *)
TypeOK == BotTypeOK /\ SimTypeOK
===============================================================================

----------------------------- MODULE MCConnections -----------------------------
(* The websocket hub and what its clients are shown, for TLC.  The two       *)
(* models share no state, so that every interleaving of the two is one of    *)
(* each: one stands still while TLC explores the other.                      *)
EXTENDS WsHub, LiveFeed

MCInit == HubInit /\ FeedInit
MCNext == \/ FeedInit /\ HubNext /\ UNCHANGED feedVars
          \/ HubInit /\ FeedNext /\ UNCHANGED hubVars
MCSpec == /\ MCInit /\ [][MCNext]_<<hubVars, feedVars>>
          /\ HubFairness /\ FeedFairness

(* The shapes of both: in particular no send channel holds more than it has  *)
(* room for, and a client shows no depth and no portfolio that never was.    *)
TypeOK == HubTypeOK /\ FeedTypeOK
================================================================================

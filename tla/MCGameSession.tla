---------------------------- MODULE MCGameSession ----------------------------
(* GameSession for TLC; the .cfg files give the bounds and the client.       *)
EXTENDS GameSession
==============================================================================

---------------------------- MODULE MCAccountStore ----------------------------
(* AccountStore for TLC; the bounds are in the configurations.               *)
EXTENDS AccountStore
==============================================================================

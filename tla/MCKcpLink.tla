------------------------------ MODULE MCKcpLink ------------------------------
(* KcpLink for TLC; the bounds are in the configurations.                   *)
EXTENDS KcpLink
==============================================================================

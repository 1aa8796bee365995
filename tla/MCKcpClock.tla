----------------------------- MODULE MCKcpClock -----------------------------
(* KcpClock with a word of four bits.                                       *)
EXTENDS KcpClock
=============================================================================

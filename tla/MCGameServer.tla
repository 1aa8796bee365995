---------------------------- MODULE MCGameServer ----------------------------
(* GameServer for TLC: endpoints with small addresses and ports.            *)
EXTENDS GameServer

Ep(ip, port) == [ip |-> ip, port |-> port]

\* With Word = 8 the sum 7 + 4 wraps to the key of 1 + 2.
Colliding == {Ep(1, 2), Ep(7, 4)}

\* Two clients behind one address.
Distinct == {Ep(1, 1), Ep(1, 2)}
==============================================================================

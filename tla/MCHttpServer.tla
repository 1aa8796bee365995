---------------------------- MODULE MCHttpServer ----------------------------
(* HttpServer for TLC: one client that sends two requests, and another.      *)
EXTENDS HttpServer

CONSTANTS c1, c2

Two == {c1, c2}
Kinds == {[target |-> "login", keepAlive |-> TRUE],
          [target |-> Root, keepAlive |-> FALSE]}
Requesting == [c \in Two |-> IF c = c1 THEN 2 ELSE 0]
==============================================================================

------------------------------ MODULE MCStartup ------------------------------
(* Startup for TLC: the program's own settings and stack.                    *)
EXTENDS Startup
==============================================================================

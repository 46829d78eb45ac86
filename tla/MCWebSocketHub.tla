--------------------------- MODULE MCWebSocketHub ----------------------------
(* The hub with a connection of one user and one of nobody.                  *)
EXTENDS WebSocketHub, TLC

CONSTANTS c1, c2, ann

OneNamed == [c \in Conns |-> IF c = c1 THEN ann ELSE Anonymous]
==============================================================================

--------------------------- MODULE MCCircuitBreaker ---------------------------
(* A small instance of CircuitBreaker: two providers, three requests.      *)
EXTENDS CircuitBreaker, TLC

CONSTANTS c1, c2, c3, p1, p2

MCCallers == {c1, c2, c3}
MCProviders == {p1, p2}
===============================================================================

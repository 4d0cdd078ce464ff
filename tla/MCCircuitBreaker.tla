--------------------------- MODULE MCCircuitBreaker ---------------------------
(* Instances of CircuitBreaker for TLC: the sending goroutines.               *)
EXTENDS CircuitBreaker

CONSTANTS a, b, c
=============================================================================

-------------------------- MODULE MCCircuitBreaker --------------------------
(* Instances of CircuitBreaker for model checking. *)
EXTENDS CircuitBreaker, TLC

CONSTANTS c1, c2, c3, t1, t2, t3, t4
=============================================================================

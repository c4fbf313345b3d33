-------------------------- MODULE MCCircuitBreaker --------------------------
(* CircuitBreaker with three goroutines, so that two late answers may reach *)
(* the breaker while the third finds it open.                               *)
EXTENDS CircuitBreaker
=============================================================================

-------------------------- MODULE MCCircuitBreaker --------------------------
(* The callers of a circuit breaker are interchangeable.                   *)
EXTENDS CircuitBreaker, TLC

Symmetry == Permutations(Threads)

=============================================================================

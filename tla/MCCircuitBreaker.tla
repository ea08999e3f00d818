-------------------------- MODULE MCCircuitBreaker --------------------------
(* Instances of CircuitBreaker for TLC. *)
EXTENDS CircuitBreaker, TLC

CONSTANTS d1, d2, t1, t2, market

OneApp == [d \in Destinations |-> market]

Callers == Permutations(Tasks)

=============================================================================

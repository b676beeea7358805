-------------------------- MODULE MCCircuitBreaker --------------------------
(* Instance of CircuitBreaker for TLC.  The callers are interchangeable in *)
(* every safety property, so those runs use their permutations.            *)
EXTENDS CircuitBreaker, TLC

CallerSymmetry == Permutations(Callers)
=============================================================================

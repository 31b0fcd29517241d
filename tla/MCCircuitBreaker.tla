-------------------------- MODULE MCCircuitBreaker --------------------------
(***************************************************************************)
(* Instances of CircuitBreaker for TLC.  The threads are model values; the *)
(* runs check liveness, so none of them uses their symmetry.               *)
(***************************************************************************)
EXTENDS CircuitBreaker

CONSTANTS t1, t2, t3

ThreeCallers == {t1, t2, t3}
AllOutcomes == Outcome
============================================================================

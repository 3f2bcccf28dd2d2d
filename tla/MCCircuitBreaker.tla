--------------------------- MODULE MCCircuitBreaker ---------------------------
(***************************************************************************)
(* Instances of CircuitBreaker for TLC.                                    *)
(***************************************************************************)
EXTENDS CircuitBreaker, TLC

CONSTANTS k1, k2, r1, r2

===============================================================================

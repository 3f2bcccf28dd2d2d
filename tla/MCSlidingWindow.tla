---------------------------- MODULE MCSlidingWindow ----------------------------
(***************************************************************************)
(* Instances of RedisSlidingWindow for TLC.                                *)
(***************************************************************************)
EXTENDS RedisSlidingWindow, TLC

CONSTANTS k1, k2, r1, r2, r3, x1

WindowSymmetry == Permutations(Requests)

===============================================================================

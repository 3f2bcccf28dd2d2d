---------------------------- MODULE MCRateLimiter ----------------------------
(***************************************************************************)
(* Instances of RedisRateLimiter for TLC.                                *)
(***************************************************************************)
EXTENDS RedisRateLimiter, TLC

CONSTANTS k1, k2, r1, r2, x1

LimiterSymmetry == Permutations(Requests)

===============================================================================

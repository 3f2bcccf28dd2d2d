------------------------- MODULE MCRedisCircuitBreaker -------------------------
(***************************************************************************)
(* Instances of RedisCircuitBreaker for TLC: the first instance of the     *)
(* proxy runs two requests at a time, the second one.                      *)
(***************************************************************************)
EXTENDS RedisCircuitBreaker, TLC

CONSTANTS i1, i2, r1, r2, r3

TwoInstances == r1 :> i1 @@ r2 :> i1 @@ r3 :> i2

FirstInstance == Permutations({r1, r2})

===============================================================================

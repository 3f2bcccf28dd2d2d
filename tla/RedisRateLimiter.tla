--------------------------- MODULE RedisRateLimiter ---------------------------
(***************************************************************************)
(* The token-bucket limiter with either of its stores.  With the in-memory *)
(* one it is module RateLimiter.  With the Redis one (redis_impl of        *)
(* src/middleware/rate_limiter.rs) a bucket is a hash shared by several    *)
(* proxy instances; RATE_LIMIT_LUA runs atomically in Redis, the call to   *)
(* it does not, so that the script and the use of its reply are two steps, *)
(* and a call that fails, before or after the script ran, takes from the   *)
(* instance's own in-memory store, again as in RateLimiter.                *)
(*                                                                         *)
(* Requests are those of the instance whose in-memory store is followed,   *)
(* Remote those of other instances; one of these that falls back leaves    *)
(* the model, as one whose client goes away does.  Buckets of different    *)
(* keys do not meet in Redis, where only Shared is followed.  Nothing is   *)
(* read before the script runs: a call starts with it.                     *)
(***************************************************************************)
EXTENDS RateLimiter

CONSTANTS
    Shared,      \* the key whose bucket in Redis is followed
    Remote,      \* slots for requests of other instances
    Slack,       \* the 60 s that ttl_ms adds to the time of a whole refill
    MaxLatency,  \* bound: time between the script's execution and its reply
    MaxFailures  \* bound: calls that fail

Callers == Requests \cup Remote

\* The debt the model follows is refilled before the hash can expire.
ASSUME RedisLimiterConstants ==
    /\ Shared \in Keys /\ Slack \in Nat /\ MaxDebt <= Slack
    /\ MaxLatency \in Nat /\ MaxFailures \in Nat
    /\ Requests \cap Remote = {} /\ IsFiniteSet(Remote)

VARIABLES
    backend,  \* the store the layer was built with
    bucket,   \* Shared's hash: its tokens, in units
    life,     \* what is left of the hash's time to live; 0: there is no hash
    call,     \* per caller: where its take() stands, its sleep, how late its reply is
    failures, \* calls that failed so far
    granted   \* history: requests let through by Redis in the last L ticks

shared    == <<bucket, life>>
redisVars == <<backend, shared, call, failures, granted>>
allVars   == <<vars, redisVars>>

-------------------------------------------------------------------------------
(* RATE_LIMIT_LUA.                                                         *)

\* ttl_ms.
Lifetime == Burst + Slack

\* The tokens after the script: `tokens == nil` reads as a full bucket.
ScriptTokens == Taken(IF life = 0 THEN Burst ELSE bucket)

-------------------------------------------------------------------------------

Idle == [phase |-> "idle", delay |-> 0, age |-> 0]

RedisTypeOK ==
    /\ backend \in {"memory", "redis"}
    /\ bucket \in (-MaxDebt)..Burst
    /\ life \in 0..(Burst + Slack)
    /\ call \in [Callers -> [phase : {"idle", "answered", "asleep"}, delay : 0..MaxDebt,
                             age : 0..MaxLatency]]
    /\ failures \in 0..MaxFailures
    /\ granted \in [0..Horizon -> Nat]

RedisInit ==
    /\ Init
    /\ backend \in {"memory", "redis"}
    /\ bucket = Burst
    /\ life = 0
    /\ call = [c \in Callers |-> Idle]
    /\ failures = 0
    /\ granted = [L \in 0..Horizon |-> 0]

\* The layer has the in-memory store.
MemoryTake(r, k) ==
    /\ backend = "memory"
    /\ Take(r, k)
    /\ UNCHANGED redisVars

Free(c) == call[c] = Idle /\ (c \in Requests => waiting[c] = None)

\* Mutant: the script answers with the wait for one token.
ScriptDelayOfOne == IF ScriptTokens < 0 THEN Cost ELSE 0

ScriptDelay == DelayOf(ScriptTokens)

\* Redis runs the script for a caller.
RunScript(c) ==
    /\ backend = "redis" /\ Free(c)
    /\ ScriptTokens >= -MaxDebt
    /\ bucket' = ScriptTokens
    /\ life' = Lifetime
    /\ call' = [call EXCEPT ![c] = [phase |-> "answered", delay |-> ScriptDelay, age |-> 0]]
    /\ UNCHANGED <<vars, backend, failures, granted>>

Granted == Counted(granted)

\* The reply arrives: the request goes on, or starts to sleep now.
Answer(c) ==
    /\ call[c].phase = "answered"
    /\ IF call[c].delay = 0
       THEN call' = [call EXCEPT ![c] = Idle] /\ granted' = Granted
       ELSE /\ call' = [call EXCEPT ![c].phase = "asleep"]
            /\ UNCHANGED granted
    /\ UNCHANGED <<vars, backend, shared, failures>>

\* Connecting or the call fails: the in-memory store decides.  If the script did
\* run, its token in Redis is spent as well.
FallBack(r) ==
    /\ backend = "redis" /\ failures < MaxFailures
    /\ call[r].phase \in {"idle", "answered"}
    /\ Take(r, Shared)
    /\ call' = [call EXCEPT ![r] = Idle]
    /\ failures' = failures + 1
    /\ UNCHANGED <<backend, shared, granted>>

\* The sleep a reply asked for is over.
RedisWake(c) ==
    /\ call[c].phase = "asleep" /\ call[c].delay = 0
    /\ call' = [call EXCEPT ![c] = Idle]
    /\ granted' = Granted
    /\ UNCHANGED <<vars, backend, shared, failures>>

\* The future is dropped at either await; its token is spent.
RedisCancel(c) ==
    /\ call[c].phase # "idle"
    /\ call' = [call EXCEPT ![c] = Idle]
    /\ UNCHANGED <<vars, backend, shared, failures, granted>>

\* A caller's reply and its sleep a tick later.
Aged(state) ==
    [phase |-> state.phase,
     delay |-> IF state.phase = "asleep" THEN Down(state.delay) ELSE state.delay,
     age   |-> IF state.phase = "answered" THEN state.age + 1 ELSE state.age]

\* Time passes; Redis drops the hash when its life is over.
RedisTick ==
    /\ \A c \in Callers :
         /\ call[c].phase = "answered" => call[c].age < MaxLatency
         /\ call[c].phase = "asleep" => call[c].delay > 0
    /\ Tick
    /\ life' = Down(life)
    /\ bucket' = IF life <= 1 THEN Burst ELSE Refilled(bucket)
    /\ call' = [c \in Callers |-> Aged(call[c])]
    /\ granted' = Older(granted)
    /\ UNCHANGED <<backend, failures>>

RedisNext ==
    \/ \E r \in Requests, k \in Keys : MemoryTake(r, k)
    \/ \E r \in Requests : Wake(r) /\ UNCHANGED redisVars
    \/ \E r \in Requests : Cancel(r) /\ UNCHANGED redisVars
    \/ \E c \in Callers : RunScript(c)
    \/ \E c \in Callers : Answer(c)
    \/ \E c \in Callers : RedisWake(c)
    \/ \E c \in Callers : RedisCancel(c)
    \/ \E r \in Requests : FallBack(r)
    \/ RedisTick

RedisSpec == RedisInit /\ [][RedisNext]_allVars

-------------------------------------------------------------------------------

\* What Redis grants, over all instances: any interval of L ticks sees at most
\* (burst + (L + latency) * rate) requests of the key go through, although each
\* sleeps from the moment its own reply arrives, replies are lost after their
\* token was taken, and the hash expires.
SharedConforms ==
    \A L \in 0..Horizon : granted[L] <= (Burst + L + MaxLatency) \div Cost

\* The hash expires only once its bucket has refilled: expiry forgets no debt.
ExpiryForgetsNothing == [][life > 0 /\ life' = 0 => Refilled(bucket) = Burst]_allVars

===============================================================================

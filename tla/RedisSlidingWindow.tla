-------------------------- MODULE RedisSlidingWindow --------------------------
(***************************************************************************)
(* The sliding-window limiter with either of its stores.  With the         *)
(* in-memory one it is module SlidingWindow.  With the Redis one           *)
(* (redis_impl of src/middleware/sliding_window.rs) the timestamps of a    *)
(* key are the scores of a sorted set shared by several proxy instances;   *)
(* SLIDING_WINDOW_LUA runs atomically in Redis, its reply is read later,   *)
(* and a call that fails takes from the instance's own in-memory store.    *)
(*                                                                         *)
(* Requests, Remote and Shared are as in module RedisRateLimiter.  A score *)
(* is kept as the time until it leaves the window, as in SlidingWindow;    *)
(* one that has left it is not kept, since the script removes those before *)
(* it looks at any.  Members are random and never collide here.            *)
(***************************************************************************)
EXTENDS SlidingWindow

CONSTANTS
    Shared,      \* the key whose sorted set in Redis is followed
    Remote,      \* slots for requests of other instances
    Slack,       \* the 1000 ms the script adds to the set's time to live
    MaxLatency,  \* bound: time between the script's execution and its reply
    MaxFailures, \* bound: calls that fail
    MaxMembers   \* bound: members of the set the model follows

Callers == Requests \cup Remote

ASSUME RedisWindowConstants ==
    /\ Shared \in Keys /\ Slack \in Nat \ {0} /\ MaxLatency \in Nat
    /\ MaxFailures \in Nat /\ MaxMembers \in Nat
    /\ Requests \cap Remote = {}

VARIABLES
    backend, \* the store the layer was built with
    zset,    \* Shared's sorted set: how many members have each score
    life,    \* what is left of its time to live; 0: there is no set
    call,    \* per caller: where its take() stands
    failures \* calls that failed so far

shared    == <<zset, life>>
redisVars == <<backend, shared, call, failures>>
allVars   == <<vars, redisVars>>

-------------------------------------------------------------------------------
(* SLIDING_WINDOW_LUA, after ZREMRANGEBYSCORE.                             *)

Scores == 1..(2 * Window)

NoMembers == [s \in Scores |-> 0]

\* Each member is its score and its number among those with that score.
Members == {m \in Scores \X (1..MaxMembers) : m[2] <= zset[m[1]]}

Present == {s \in Scores : zset[s] > 0}

OldestScore == CHOOSE s \in Present : \A t \in Present : s <= t

\* ZCARD against count; the answer is 0, or the time until the oldest leaves.
ScriptDelay == IF Cardinality(Members) < Count THEN 0 ELSE OldestScore

\* Mutant: a reservation does not lengthen the set's life.
LifetimeOfWindow(wait) == Window + Slack

\* What PEXPIRE is given in either branch.
Lifetime(wait) == Window + wait + Slack

-------------------------------------------------------------------------------

Idle == [phase |-> "idle", delay |-> 0, age |-> 0]

RedisTypeOK ==
    /\ backend \in {"memory", "redis"}
    /\ zset \in [Scores -> 0..MaxMembers]
    /\ life \in 0..(3 * Window + Slack)
    /\ call \in [Callers -> [phase : {"idle", "answered", "asleep"}, delay : 0..(2 * Window),
                             age : 0..MaxLatency]]
    /\ failures \in 0..MaxFailures

RedisInit ==
    /\ Init
    /\ backend \in {"memory", "redis"}
    /\ zset = NoMembers
    /\ life = 0
    /\ call = [c \in Callers |-> Idle]
    /\ failures = 0

\* The layer has the in-memory store.
MemoryTake(r, k) ==
    /\ backend = "memory"
    /\ Take(r, k)
    /\ UNCHANGED redisVars

Free(c) == call[c] = Idle /\ (c \in Requests => waiting[c] = None)

\* Redis runs the script: now, or the reserved instant, is added to the set.
RunScript(c) ==
    /\ backend = "redis" /\ Free(c)
    /\ Cardinality(Members) < MaxMembers
    /\ zset' = [zset EXCEPT ![ScriptDelay + Window] = @ + 1]
    /\ life' = Lifetime(ScriptDelay)
    /\ call' = [call EXCEPT ![c] = [phase |-> "answered", delay |-> ScriptDelay, age |-> 0]]
    /\ UNCHANGED <<vars, backend, failures>>

\* The reply arrives: the request goes on, or starts to sleep now.
Answer(c) ==
    /\ call[c].phase = "answered"
    /\ call' = [call EXCEPT ![c] =
                  IF call[c].delay = 0 THEN Idle
                  ELSE [phase |-> "asleep", delay |-> call[c].delay, age |-> 0]]
    /\ UNCHANGED <<vars, backend, shared, failures>>

\* Connecting or the call fails: the in-memory store decides.  If the script did
\* run, its entry stays in the set as well.
FallBack(r) ==
    /\ backend = "redis" /\ failures < MaxFailures
    /\ call[r].phase \in {"idle", "answered"}
    /\ Take(r, Shared)
    /\ call' = [call EXCEPT ![r] = Idle]
    /\ failures' = failures + 1
    /\ UNCHANGED <<backend, shared>>

\* The sleep a reply asked for is over.
RedisWake(c) ==
    /\ call[c].phase = "asleep" /\ call[c].delay = 0
    /\ call' = [call EXCEPT ![c] = Idle]
    /\ UNCHANGED <<vars, backend, shared, failures>>

\* The future is dropped at either await; its entry stays.
RedisCancel(c) ==
    /\ call[c].phase # "idle"
    /\ call' = [call EXCEPT ![c] = Idle]
    /\ UNCHANGED <<vars, backend, shared, failures>>

\* A caller's reply and its sleep a tick later.
Aged(state) ==
    [phase |-> state.phase,
     delay |-> IF state.phase = "asleep" THEN Down(state.delay) ELSE state.delay,
     age   |-> IF state.phase = "answered" THEN state.age + 1 ELSE 0]

\* Time passes; Redis drops the set when its life is over.
RedisTick ==
    /\ \A c \in Callers :
         /\ call[c].phase = "answered" => call[c].age < MaxLatency
         /\ call[c].phase = "asleep" => call[c].delay > 0
    /\ Tick
    /\ life' = Down(life)
    /\ zset' = IF life <= 1 THEN NoMembers
               ELSE [s \in Scores |-> IF s = 2 * Window THEN 0 ELSE zset[s + 1]]
    /\ call' = [c \in Callers |-> Aged(call[c])]
    /\ UNCHANGED <<backend, failures>>

RedisNext ==
    \/ \E r \in Requests, k \in Keys : MemoryTake(r, k)
    \/ \E r \in Requests : Wake(r) /\ UNCHANGED redisVars
    \/ \E r \in Requests : Cancel(r) /\ UNCHANGED redisVars
    \/ \E c \in Callers : RunScript(c)
    \/ \E c \in Callers : Answer(c)
    \/ \E c \in Callers : RedisWake(c)
    \/ \E c \in Callers : RedisCancel(c)
    \/ \E r \in Requests : FallBack(r)
    \/ RedisTick

RedisSpec == RedisInit /\ [][RedisNext]_allVars

-------------------------------------------------------------------------------

\* The set lives until its last member, a reservation included, has left the window:
\* each call sets the expiry anew, an immediate admission to a shorter one than the
\* reservation before it, and none may cut short what an earlier one relied on.
ReservationsOutliveExpiry ==
    \A s \in Scores : zset[s] > 0 => s < life

===============================================================================

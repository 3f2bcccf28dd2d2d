------------------------------ MODULE RateLimiter ------------------------------
(***************************************************************************)
(* The token-bucket limiter of src/middleware/rate_limiter.rs with its     *)
(* in-memory store.  take() runs under the store's mutex and is one step;  *)
(* it always takes a token, going into debt when there is none, and the    *)
(* request then sleeps until its debt is refilled.                         *)
(*                                                                         *)
(* Time is discrete and relative.  Tokens are counted in units of the      *)
(* amount refilled per tick: a token costs Cost units (rate is 1/Cost      *)
(* tokens a tick), a full bucket holds Burst units, and level is what      *)
(* tokens + elapsed * rate, capped at burst, comes to now.  A sleep ends   *)
(* in the tick it is due.                                                  *)
(***************************************************************************)
EXTENDS Integers, FiniteSets

CONSTANTS
    Keys,            \* what key_fn can return
    Requests,        \* slots for requests that may wait at the same time
    Cost,            \* refill time of one token, in ticks
    Burst,           \* refill time of a whole bucket, in ticks
    MaxKeys,         \* max_keys
    IdleTtl,         \* idle_ttl, in ticks
    CleanupInterval, \* CLEANUP_INTERVAL, in ticks
    IdleCap,         \* bound: idle times beyond it are not told apart
    MaxDebt,         \* bound: debt the model follows
    Horizon,         \* bound: longest interval conformance is checked over
    None             \* not a key

ASSUME LimiterConstants ==
    /\ Cost \in Nat \ {0} /\ Burst \in Nat /\ Burst >= Cost /\ MaxKeys \in Nat \ {0}
    /\ IdleTtl \in Nat /\ CleanupInterval \in Nat /\ IdleCap \in Nat
    /\ MaxDebt \in Nat /\ Horizon \in Nat /\ None \notin Keys /\ IsFiniteSet(Requests)

VARIABLES
    level,     \* per key: tokens in units, negative when in debt
    tracked,   \* the keys in the map
    idle,      \* per key: time since last_seen
    cleanupIn, \* ticks until next_cleanup
    waiting,   \* per request: the key it sleeps for, or None
    delay,     \* per request: how long it still sleeps
    sent       \* history, per key: requests let through in the last L ticks

vars == <<level, tracked, idle, cleanupIn, waiting, delay, sent>>

-------------------------------------------------------------------------------
(* Cleanup and eviction.                                                   *)

\* refill_horizon() is burst / rate.
EffectiveTtl == IF IdleTtl > Burst THEN IdleTtl ELSE Burst

\* The debt the model follows is refilled before its key counts as idle.
ASSUME DebtIsKept == MaxDebt <= EffectiveTtl /\ EffectiveTtl < IdleCap

Cleaned ==
    IF cleanupIn > 0 THEN tracked ELSE {k \in tracked : idle[k] <= EffectiveTtl}

Oldest(S) == {j \in S : \A i \in S : idle[i] <= idle[j]}

\* The keys of which evict_if_needed drops one: the oldest; ties in any order.
Victims(k) ==
    IF k \in Cleaned \/ Cardinality(Cleaned) < MaxKeys THEN {}
    ELSE Oldest({j \in Cleaned : idle[j] > EffectiveTtl})

Survivors(k) ==
    IF Victims(k) = {} THEN {Cleaned} ELSE {Cleaned \ {j} : j \in Victims(k)}

-------------------------------------------------------------------------------
(* TokenBucket.                                                            *)

\* Mutant: a bucket is never in debt.
TakenNoDebt(tokens) == IF tokens >= Cost THEN tokens - Cost ELSE tokens

Taken(tokens) == tokens - Cost

\* Mutant: a request does not wait for the debt of those before it.
DelayOfOwnToken(tokens) == IF tokens < 0 THEN Cost ELSE 0

DelayOf(tokens) == IF tokens < 0 THEN -tokens ELSE 0

Refilled(tokens) == IF tokens < Burst THEN tokens + 1 ELSE tokens

-------------------------------------------------------------------------------

TypeOK ==
    /\ level \in [Keys -> (-MaxDebt)..Burst]
    /\ tracked \subseteq Keys
    /\ idle \in [Keys -> 0..IdleCap]
    /\ cleanupIn \in 0..CleanupInterval
    /\ waiting \in [Requests -> Keys \cup {None}]
    /\ delay \in [Requests -> 0..MaxDebt]
    /\ sent \in [Keys -> [0..Horizon -> Nat]]

Init ==
    /\ level = [k \in Keys |-> Burst]
    /\ tracked = {}
    /\ idle = [k \in Keys |-> 0]
    /\ cleanupIn = CleanupInterval
    /\ waiting = [r \in Requests |-> None]
    /\ delay = [r \in Requests |-> 0]
    /\ sent = [k \in Keys |-> [L \in 0..Horizon |-> 0]]

\* One more event, and a tick, in a history of events in the last L ticks.
Counted(history) == [L \in 0..Horizon |-> history[L] + 1]
Older(history)   == [L \in 0..Horizon |-> IF L = 0 THEN 0 ELSE history[L - 1]]

Sent(k) == [sent EXCEPT ![k] = Counted(@)]

\* SharedState::take and what RateLimiterService::call does with its answer.
Take(r, k) ==
    /\ waiting[r] = None
    /\ level[k] - Cost >= -MaxDebt
    /\ \E S \in Survivors(k) :
        LET tokens == Taken(IF k \in S THEN level[k] ELSE Burst) IN
        /\ tracked' = S \cup {k}
        /\ level' = [j \in Keys |-> IF j = k THEN tokens ELSE IF j \in S THEN level[j] ELSE Burst]
        /\ IF DelayOf(tokens) = 0
           THEN sent' = Sent(k) /\ UNCHANGED <<waiting, delay>>
           ELSE /\ waiting' = [waiting EXCEPT ![r] = k]
                /\ delay' = [delay EXCEPT ![r] = DelayOf(tokens)]
                /\ UNCHANGED sent
    /\ idle' = [idle EXCEPT ![k] = 0]
    /\ cleanupIn' = IF cleanupIn > 0 THEN cleanupIn ELSE CleanupInterval

\* The sleep is over and the request goes on to the inner service.
Wake(r) ==
    /\ waiting[r] # None /\ delay[r] = 0
    /\ sent' = Sent(waiting[r])
    /\ waiting' = [waiting EXCEPT ![r] = None]
    /\ UNCHANGED <<level, tracked, idle, cleanupIn, delay>>

\* The client goes away and the sleeping future is dropped; its token is spent.
Cancel(r) ==
    /\ waiting[r] # None
    /\ waiting' = [waiting EXCEPT ![r] = None]
    /\ delay' = [delay EXCEPT ![r] = 0]
    /\ UNCHANGED <<level, tracked, idle, cleanupIn, sent>>

Down(t) == IF t > 0 THEN t - 1 ELSE 0

Tick ==
    /\ \A r \in Requests : waiting[r] # None => delay[r] > 0
    /\ level' = [k \in Keys |-> IF k \in tracked THEN Refilled(level[k]) ELSE level[k]]
    /\ idle' = [k \in Keys |-> IF idle[k] < IdleCap THEN idle[k] + 1 ELSE idle[k]]
    /\ cleanupIn' = Down(cleanupIn)
    /\ delay' = [r \in Requests |-> Down(delay[r])]
    /\ sent' = [k \in Keys |-> Older(sent[k])]
    /\ UNCHANGED <<tracked, waiting>>

Next ==
    \/ \E r \in Requests, k \in Keys : Take(r, k)
    \/ \E r \in Requests : Wake(r)
    \/ \E r \in Requests : Cancel(r)
    \/ Tick

Spec == Init /\ [][Next]_vars

-------------------------------------------------------------------------------

\* The bucket's contract, whatever mix of immediate, delayed and cancelled
\* requests: any interval of L ticks sees at most (burst + L * rate) requests of a
\* key go through, rounded down to whole tokens.
Conforms ==
    \A k \in Keys, L \in 0..Horizon : sent[k][L] <= (Burst + L) \div Cost

\* No request overtakes one of its key that is already waiting: it is let through
\* at least one token's refill time after it.
NoOvertaking ==
    [][\A k \in Keys :
        LET ahead == {s \in Requests : waiting[s] = k /\ waiting'[s] = k} IN
        /\ sent'[k][0] > sent[k][0] /\ waiting' = waiting => ahead = {}
        /\ \A r \in Requests : waiting[r] = None /\ waiting'[r] = k =>
             \A s \in ahead : delay[s] + Cost <= delay'[r]]_vars

===============================================================================

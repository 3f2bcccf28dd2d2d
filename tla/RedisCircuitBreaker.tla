-------------------------- MODULE RedisCircuitBreaker --------------------------
(***************************************************************************)
(* The circuit of one key shared through Redis by several proxy instances: *)
(* redis_impl of src/middleware/circuit_breaker.rs.  CB_CHECK_LUA and      *)
(* CB_RECORD_LUA run atomically in Redis; the call to them does not, so    *)
(* that a script and the use of its reply are two steps.  Each instance    *)
(* has a local cache of Closed and Open answers.                           *)
(*                                                                         *)
(* An instance whose call fails asks its in-memory store instead, which is *)
(* the component of module CircuitBreaker; here its answer is free.  The   *)
(* cleanup of the local cache drops expired entries only and is left out.  *)
(* Time is relative, as in CircuitBreaker; all clocks run at one rate.     *)
(***************************************************************************)
EXTENDS Naturals

CONSTANTS
    Instances,      \* proxy processes that share the Redis database
    Requests,       \* slots for concurrently running request futures
    Home,           \* the instance of each request slot
    Threshold, Recovery, HalfOpenProbes,
    CacheTtl,       \* cache_ttl, in ticks
    Slack,          \* what ttl_ms adds to recovery
    MaxDelay,       \* bound: time between a script's execution and its reply
    AgeCap          \* bound: ages beyond it are not told apart

ASSUME RedisConstants ==
    /\ Home \in [Requests -> Instances]
    /\ Threshold \in Nat \ {0} /\ Recovery \in Nat \ {0} /\ HalfOpenProbes \in Nat \ {0}
    /\ CacheTtl \in Nat \ {0} /\ Slack \in Nat \ {0} /\ MaxDelay \in Nat
    /\ AgeCap \in Nat /\ AgeCap > CacheTtl + MaxDelay + Recovery

VARIABLES
    hash,        \* the key's hash in Redis, with its time to live
    cache,       \* per instance: the cached action and how long it is valid
    phase,       \* per request: where its future stands
    reply,       \* per request: what the check script returned
    delay,       \* per request: time since the script ran
    sinceClosed, \* history: time since the circuit was last closed
    overdue,     \* history: time since the recovery period was last over
    probed       \* history: probes admitted since the circuit opened

request == <<phase, reply, delay>>
history == <<sinceClosed, overdue, probed>>
vars    == <<hash, cache, request, history>>

-------------------------------------------------------------------------------
(* The hash.  A missing key reads as a closed circuit without failures; n  *)
(* is consecutive_failures of a closed circuit, in_flight of a half-open   *)
(* one, wait the time to until_ms of an open one.                          *)

Counts == 0..(IF Threshold > HalfOpenProbes THEN Threshold - 1 ELSE HalfOpenProbes)

Missing == [kind |-> "closed", n |-> 0, wait |-> 0, ttl |-> 0]

\* Mutant: the key's lifetime does not cover the recovery period.
TtlShort == Slack

Ttl == Recovery + Slack

\* A key without a time to live.
Forever == Ttl + 1

\* The scripts call PEXPIRE before HSET: for a missing key it does nothing, and
\* the HSET that then creates the key sets no expiry.
NewTtl == IF hash.ttl = 0 THEN Forever ELSE Ttl

Closed(n) == [kind |-> "closed", n |-> n, wait |-> 0, ttl |-> NewTtl]

Open == [kind |-> "open", n |-> 0, wait |-> Recovery, ttl |-> NewTtl]

HalfOpen(n) == [kind |-> "halfopen", n |-> n, wait |-> 0, ttl |-> NewTtl]

Refreshed == IF hash.ttl = 0 THEN hash ELSE [hash EXCEPT !.ttl = Ttl]

\* CB_CHECK_LUA: the hash it leaves and the code it returns.
CheckHash ==
    CASE hash.kind = "open" /\ hash.wait = 0                   -> HalfOpen(1)
      [] hash.kind = "halfopen" /\ hash.n < HalfOpenProbes     -> HalfOpen(hash.n + 1)
      [] OTHER                                                 -> Refreshed

Codes == {"none", "closed", "open", "probe", "full"}

\* Mutant: a half-open circuit never turns a request away.
CheckCodeNeverFull ==
    CASE hash.kind = "closed"                  -> "closed"
      [] hash.kind = "open" /\ hash.wait > 0   -> "open"
      [] OTHER                                 -> "probe"

CheckCode ==
    CASE hash.kind = "closed"                                   -> "closed"
      [] hash.kind = "open" /\ hash.wait > 0                    -> "open"
      [] hash.kind = "halfopen" /\ hash.n >= HalfOpenProbes     -> "full"
      [] OTHER                                                  -> "probe"

\* CB_RECORD_LUA.
RecordHash(success) ==
    CASE hash.kind # "open" /\ success                              -> Closed(0)
      [] hash.kind = "closed" /\ ~success /\ hash.n + 1 < Threshold -> Closed(hash.n + 1)
      [] hash.kind # "open" /\ ~success                             -> Open
      [] OTHER                                                      -> Refreshed

-------------------------------------------------------------------------------

NoReply == [code |-> "none", remaining |-> 0]

Empty == [action |-> "reject", left |-> 0]

TypeOK ==
    /\ hash \in [kind : {"closed", "open", "halfopen"}, n : Counts,
                 wait : 0..Recovery, ttl : 0..Forever]
    /\ cache \in [Instances -> [action : {"allow", "reject"}, left : 0..CacheTtl]]
    /\ phase \in [Requests -> {"idle", "asking", "answered", "serving", "recording",
                           "recorded"}]
    /\ reply \in [Requests -> [code : Codes, remaining : 0..Recovery]]
    /\ delay \in [Requests -> 0..MaxDelay]
    /\ sinceClosed \in 0..AgeCap
    /\ overdue \in 0..AgeCap
    /\ probed \in Nat

Init ==
    /\ hash = Missing
    /\ cache = [i \in Instances |-> Empty]
    /\ phase = [r \in Requests |-> "idle"]
    /\ reply = [r \in Requests |-> NoReply]
    /\ delay = [r \in Requests |-> 0]
    /\ sinceClosed = 0
    /\ overdue = 0
    /\ probed = 0

\* The request leaves the phase it is in.
Goes(r, to) ==
    /\ phase' = [phase EXCEPT ![r] = to]
    /\ reply' = [reply EXCEPT ![r] = NoReply]
    /\ delay' = [delay EXCEPT ![r] = 0]

\* check() up to its first await: a valid cache entry answers.
Call(r) ==
    LET entry == cache[Home[r]] IN
    /\ phase[r] = "idle"
    /\ IF entry.left > 0
       THEN entry.action = "allow" /\ Goes(r, "serving")
       ELSE Goes(r, "asking")
    /\ UNCHANGED <<hash, cache, history>>

\* Redis runs CB_CHECK_LUA.
RunCheck(r) ==
    /\ phase[r] = "asking"
    /\ phase' = [phase EXCEPT ![r] = "answered"]
    /\ reply' = [reply EXCEPT ![r] = [code |-> CheckCode, remaining |-> hash.wait]]
    /\ hash' = CheckHash
    /\ probed' = IF CheckCode = "probe" THEN probed + 1 ELSE probed
    /\ UNCHANGED <<cache, delay, sinceClosed, overdue>>

Least(a, b) == IF a < b THEN a ELSE b

\* Mutant: an open circuit is cached for the whole cache_ttl.
CachedForTtl(old, answer) ==
    CASE answer.code = "closed" -> [action |-> "allow", left |-> CacheTtl]
      [] answer.code = "open"   -> [action |-> "reject", left |-> CacheTtl]
      [] OTHER                  -> old

\* Mutant: a probe's answer is cached as well.
CachedProbe(old, answer) ==
    CASE answer.code \in {"closed", "probe"} -> [action |-> "allow", left |-> CacheTtl]
      [] answer.code = "open"   -> [action |-> "reject", left |-> Least(CacheTtl, answer.remaining)]
      [] OTHER                  -> old

\* The cache entry an answer leaves, valid from the moment the reply is read.
Cached(old, answer) ==
    CASE answer.code = "closed" -> [action |-> "allow", left |-> CacheTtl]
      [] answer.code = "open"   -> [action |-> "reject", left |-> Least(CacheTtl, answer.remaining)]
      [] OTHER                  -> old

\* The reply arrives: the cache is filled and the request admitted or rejected.
Answer(r) ==
    /\ phase[r] = "answered"
    /\ cache' = [cache EXCEPT ![Home[r]] = Cached(@, reply[r])]
    /\ Goes(r, IF reply[r].code \in {"closed", "probe"} THEN "serving" ELSE "idle")
    /\ UNCHANGED <<hash, history>>

\* Connecting or the call fails, before or after the script ran: the in-memory
\* store answers.
FallBack(r, allow) ==
    /\ phase[r] \in {"asking", "answered"}
    /\ Goes(r, IF allow THEN "serving" ELSE "idle")
    /\ UNCHANGED <<hash, cache, history>>

\* The inner service answers and record() sends CB_RECORD_LUA.
Respond(r) ==
    /\ phase[r] = "serving"
    /\ Goes(r, "recording")
    /\ UNCHANGED <<hash, cache, history>>

\* Redis runs CB_RECORD_LUA.
RunRecord(r, success) ==
    LET trips == hash.kind # "open" /\ RecordHash(success).kind = "open" IN
    /\ phase[r] = "recording"
    /\ Goes(r, "recorded")
    /\ hash' = RecordHash(success)
    /\ sinceClosed' = IF RecordHash(success).kind = "closed" THEN 0 ELSE sinceClosed
    /\ overdue' = IF trips THEN 0 ELSE overdue
    /\ probed' = IF hash.kind # "open" THEN 0 ELSE probed
    /\ UNCHANGED cache

\* The reply to record() arrives, or its call failed before or after the script
\* ran (and the in-memory store recorded the result): the cache entry goes.
Invalidate(r) ==
    /\ phase[r] \in {"recording", "recorded"}
    /\ cache' = [cache EXCEPT ![Home[r]] = Empty]
    /\ Goes(r, "idle")
    /\ UNCHANGED <<hash, history>>

\* Connecting for record() fails: it returns at once and leaves the cache alone.
\* Also the end of a request whose inner service fails or whose client goes away,
\* at whichever await it is.
Abandon(r) ==
    /\ phase[r] # "idle"
    /\ Goes(r, "idle")
    /\ UNCHANGED <<hash, cache, history>>

Down(t) == IF t > 0 THEN t - 1 ELSE 0

Older(age) == IF age < AgeCap THEN age + 1 ELSE AgeCap

\* The hash a tick later; Redis drops it when its time is up.
AgedHash ==
    IF hash.ttl <= 1 THEN Missing
    ELSE [kind |-> hash.kind, n |-> hash.n, wait |-> Down(hash.wait),
          ttl |-> IF hash.ttl = Forever THEN Forever ELSE hash.ttl - 1]

Tick ==
    /\ \A r \in Requests : delay[r] < MaxDelay \/ phase[r] # "answered"
    /\ hash' = AgedHash
    /\ cache' = [i \in Instances |-> [cache[i] EXCEPT !.left = Down(@)]]
    /\ delay' = [r \in Requests |-> IF phase[r] = "answered" THEN delay[r] + 1 ELSE 0]
    /\ sinceClosed' = IF AgedHash.kind = "closed" THEN 0 ELSE Older(sinceClosed)
    /\ overdue' = IF hash.wait > 0 THEN 0 ELSE Older(overdue)
    /\ probed' = IF hash.ttl <= 1 THEN 0 ELSE probed
    /\ UNCHANGED <<phase, reply>>

Next ==
    \/ \E r \in Requests :
         \/ Call(r) \/ RunCheck(r) \/ Answer(r) \/ Respond(r) \/ Invalidate(r) \/ Abandon(r)
         \/ \E allow \in BOOLEAN : FallBack(r, allow)
         \/ \E success \in BOOLEAN : RunRecord(r, success)
    \/ Tick

Spec == Init /\ [][Next]_vars

-------------------------------------------------------------------------------

\* A cached Allow outlives the closed circuit it was read from by at most cache_ttl
\* and the time its reply took: what bounds the staleness between instances, and
\* also that of an instance whose own record() tripped the circuit meanwhile.
StaleAllowIsBounded ==
    \A i \in Instances : cache[i].action = "allow" /\ cache[i].left > 0
        => cache[i].left + sinceClosed <= CacheTtl + MaxDelay

\* A cached Reject outlasts the recovery period by at most the time its reply took.
RejectLagIsBounded ==
    \A i \in Instances : cache[i].action = "reject" /\ cache[i].left > 0
        => cache[i].left + overdue <= hash.wait + MaxDelay

\* Over all instances, Redis admits at most half_open_probes requests to a circuit
\* since it opened and until it closes.
ProbesAreShared == hash.kind # "closed" => probed <= HalfOpenProbes

\* The hash of an open circuit lives until its recovery period is over.
RecoveryOutlivesTtl == hash.kind = "open" => hash.ttl > hash.wait

===============================================================================

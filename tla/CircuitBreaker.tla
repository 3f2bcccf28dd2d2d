---------------------------- MODULE CircuitBreaker ----------------------------
(***************************************************************************)
(* The circuit-breaker middleware of src/middleware/circuit_breaker.rs     *)
(* with its in-memory store: a map from keys to circuits behind one mutex, *)
(* and any number of requests that call check() before and record() after  *)
(* the inner service.  check() and record() each run under the mutex and   *)
(* are one atomic step; the inner call in between is not.                  *)
(*                                                                         *)
(* Time is discrete and relative: instead of the Instants `until`,         *)
(* `last_seen` and `next_cleanup` the model keeps how far away they are    *)
(* (wait, idle, cleanupIn), and Tick moves them.  now < until is wait > 0. *)
(* This keeps the state finite without a bound on how long the proxy runs. *)
(* All Instant::now() calls of one critical section read the same tick.    *)
(***************************************************************************)
EXTENDS Naturals, FiniteSets

CONSTANTS
    Keys,            \* what key_fn can return
    Requests,        \* slots for concurrently running request futures
    Threshold,       \* threshold
    Recovery,        \* recovery, in ticks
    HalfOpenProbes,  \* half_open_probes
    MaxKeys,         \* max_keys (set_max_keys clamps it to at least 1)
    IdleTtl,         \* idle_ttl, in ticks
    CleanupInterval, \* CLEANUP_INTERVAL, in ticks
    IdleCap,         \* bound: idle times beyond it are not told apart
    None             \* not a key

ASSUME BreakerConstants ==
    /\ Threshold \in Nat /\ Recovery \in Nat /\ HalfOpenProbes \in Nat
    /\ MaxKeys \in Nat \ {0} /\ IdleTtl \in Nat /\ CleanupInterval \in Nat
    /\ IdleCap \in Nat /\ IdleTtl < IdleCap
    /\ None \notin Keys

VARIABLES
    circuits,  \* the map; an untracked key has kind "absent"
    cleanupIn, \* ticks until next_cleanup
    serving,   \* per request: the key under which it awaits the inner service
    tripWait,  \* history: recovery time left since k last tripped or reopened
    streak,    \* history: latest run of failures recorded for k, capped
    probed,    \* history: requests admitted to k since its circuit opened
    lost       \* history: keys of which a request ended unrecorded while half-open

vars == <<circuits, cleanupIn, serving, tripWait, streak, probed, lost>>

-------------------------------------------------------------------------------
(* State and CircuitEntry.  n is consecutive_failures of a closed circuit  *)
(* and in_flight of a half-open one.                                       *)

Kinds == {"absent", "closed", "open", "halfopen"}

\* An open circuit always admits a first probe, even with half_open_probes = 0.
MaxProbes == IF HalfOpenProbes > 1 THEN HalfOpenProbes ELSE 1

\* u32 counters suffice: neither counter passes its limit.
Counts == 0..(IF Threshold > MaxProbes THEN Threshold ELSE MaxProbes)

Entry == [kind : Kinds, n : Counts, wait : 0..Recovery, idle : 0..IdleCap]

Absent == [kind |-> "absent", n |-> 0, wait |-> 0, idle |-> 0]

Closed(failures) ==
    [kind |-> "closed", n |-> failures, wait |-> 0, idle |-> 0]

Open == [kind |-> "open", n |-> 0, wait |-> Recovery, idle |-> 0]

HalfOpen(inFlight) ==
    [kind |-> "halfopen", n |-> inFlight, wait |-> 0, idle |-> 0]

Tracked == {k \in Keys : circuits[k].kind # "absent"}

-------------------------------------------------------------------------------
(* The steps check() and record() share: cleanup, eviction, or_insert and  *)
(* last_seen = now.                                                        *)

\* Mutant: cleanup that looks at idle time only.
RetainedIfRecent(e) == e.idle <= IdleTtl

Retained(e) == e.idle <= IdleTtl \/ (e.kind = "open" /\ e.wait > 0)

\* The keys maybe_cleanup leaves in the map.
Cleaned ==
    IF cleanupIn > 0 THEN Tracked ELSE {k \in Tracked : Retained(circuits[k])}

\* Mutant: eviction that does not spare open circuits.
CanEvictAnyIdle(e) == e.idle > IdleTtl

CanEvict(e) == e.idle > IdleTtl /\ ~(e.kind = "open" /\ e.wait > 0)

Oldest(S) == {j \in S : \A i \in S : circuits[i].idle <= circuits[j].idle}

\* The keys evict_if_needed may drop for k (one of them): min_by_key picks the
\* oldest evictable entry, and a HashMap breaks ties in any order.
Victims(k) ==
    IF k \in Cleaned \/ Cardinality(Cleaned) < MaxKeys THEN {}
    ELSE Oldest({j \in Cleaned : CanEvict(circuits[j])})

\* The sets of keys that may be left in the map.
Survivors(k) ==
    IF Victims(k) = {} THEN {Cleaned} ELSE {Cleaned \ {j} : j \in Victims(k)}

\* k's entry as the match on its state sees it.
Touched(k, S) ==
    IF k \in S THEN [circuits[k] EXCEPT !.idle = 0] ELSE Closed(0)

\* The map when only S survives and k's entry becomes e.
Updated(k, S, e) ==
    [j \in Keys |-> IF j = k THEN e ELSE IF j \in S THEN circuits[j] ELSE Absent]

CleanupTimer == IF cleanupIn > 0 THEN cleanupIn ELSE CleanupInterval

-------------------------------------------------------------------------------
(* SharedState::check and SharedState::record on the touched entry.        *)

Allows(e) ==
    \/ e.kind = "closed"
    \/ e.kind = "open" /\ e.wait = 0
    \/ e.kind = "halfopen" /\ e.n < HalfOpenProbes

Checked(e) ==
    CASE e.kind = "open" /\ e.wait = 0               -> HalfOpen(1)
      [] e.kind = "halfopen" /\ e.n < HalfOpenProbes -> HalfOpen(e.n + 1)
      [] OTHER                                       -> e

FailedOnce(e) == IF e.n + 1 >= Threshold THEN Open ELSE Closed(e.n + 1)

\* Mutants: a success does not clear the failures counted so far; a successful
\* probe does not close.
RecordedNoReset(e, success) ==
    CASE e.kind = "halfopen" /\ success  -> Closed(0)
      [] e.kind = "closed" /\ ~success   -> FailedOnce(e)
      [] e.kind = "halfopen" /\ ~success -> Open
      [] OTHER                           -> e

RecordedNoClose(e, success) ==
    CASE e.kind = "closed" /\ success    -> Closed(0)
      [] e.kind = "closed" /\ ~success   -> FailedOnce(e)
      [] e.kind = "halfopen" /\ ~success -> Open
      [] OTHER                           -> e

Recorded(e, success) ==
    CASE e.kind \in {"closed", "halfopen"} /\ success -> Closed(0)
      [] e.kind = "closed" /\ ~success                -> FailedOnce(e)
      [] e.kind = "halfopen" /\ ~success              -> Open
      [] OTHER                                        -> e

-------------------------------------------------------------------------------
(* CircuitBreakerService::call.                                            *)

TypeOK ==
    /\ circuits \in [Keys -> Entry]
    /\ cleanupIn \in 0..CleanupInterval
    /\ serving \in [Requests -> Keys \cup {None}]
    /\ tripWait \in [Keys -> 0..Recovery]
    /\ streak \in [Keys -> 0..Threshold]
    /\ probed \in [Keys -> 0..(MaxProbes + 1)]
    /\ lost \subseteq Keys

Init ==
    /\ circuits = [k \in Keys |-> Absent]
    /\ cleanupIn = CleanupInterval
    /\ serving = [r \in Requests |-> None]
    /\ tripWait = [k \in Keys |-> 0]
    /\ streak = [k \in Keys |-> 0]
    /\ probed = [k \in Keys |-> 0]
    /\ lost = {}

\* A request arrives and check() decides: Allow leads to the inner service,
\* Reject answers at once with reject_status.
Call(r, k) ==
    /\ serving[r] = None
    /\ \E S \in Survivors(k) :
        LET e == Touched(k, S) IN
        /\ circuits' = Updated(k, S, Checked(e))
        /\ serving' = IF Allows(e) THEN [serving EXCEPT ![r] = k] ELSE serving
        /\ probed' = IF Allows(e) /\ e.kind # "closed"
                     THEN [probed EXCEPT ![k] = IF @ > MaxProbes THEN @ ELSE @ + 1]
                     ELSE probed
    /\ cleanupIn' = CleanupTimer
    /\ UNCHANGED <<tripWait, streak, lost>>

\* The inner service answers; failure_policy judges; record() applies it.
Respond(r, success) ==
    LET k == serving[r] IN
    /\ k # None
    /\ \E S \in Survivors(k) :
        LET e == Touched(k, S)
            f == Recorded(e, success)
            trips == e.kind # "open" /\ f.kind = "open"
        IN  /\ circuits' = Updated(k, S, f)
            /\ tripWait' = IF trips THEN [tripWait EXCEPT ![k] = Recovery] ELSE tripWait
            /\ probed' = IF trips THEN [probed EXCEPT ![k] = 0] ELSE probed
    /\ streak' = [streak EXCEPT ![k] =
                    IF success THEN 0 ELSE IF @ < Threshold THEN @ + 1 ELSE @]
    /\ lost' = lost \ {k}
    /\ cleanupIn' = CleanupTimer
    /\ serving' = [serving EXCEPT ![r] = None]

\* The inner service returns Err (`fut.await?`), or the client goes away and
\* the future is dropped: record() is never called.
Abandon(r) ==
    /\ serving[r] # None
    /\ serving' = [serving EXCEPT ![r] = None]
    /\ lost' = lost \cup {k \in Keys : k = serving[r] /\ circuits[k].kind = "halfopen"}
    /\ UNCHANGED <<circuits, cleanupIn, tripWait, streak, probed>>

Down(t) == IF t > 0 THEN t - 1 ELSE 0

Aged(e) ==
    IF e.kind = "absent" THEN e
    ELSE [kind |-> e.kind, n |-> e.n, wait |-> Down(e.wait),
          idle |-> IF e.idle < IdleCap THEN e.idle + 1 ELSE e.idle]

Tick ==
    /\ circuits' = [k \in Keys |-> Aged(circuits[k])]
    /\ cleanupIn' = Down(cleanupIn)
    /\ tripWait' = [k \in Keys |-> Down(tripWait[k])]
    /\ UNCHANGED <<serving, streak, probed, lost>>

Next ==
    \/ \E r \in Requests, k \in Keys : Call(r, k)
    \/ \E r \in Requests, success \in BOOLEAN : Respond(r, success)
    \/ \E r \in Requests : Abandon(r)
    \/ Tick

Spec == Init /\ [][Next]_vars

-------------------------------------------------------------------------------
(* Safety.                                                                 *)

\* While a recovery period runs, the circuit that tripped is still in the map,
\* open, with exactly the rest of that period to wait: neither cleanup, nor the
\* eviction other keys cause, nor late results of requests admitted earlier
\* shorten, extend or forget it.
RecoveryIsKept ==
    \A k \in Keys : tripWait[k] > 0 =>
        circuits[k].kind = "open" /\ circuits[k].wait = tripWait[k]

\* check() lets no request through to a key during its recovery period.
NoAdmissionInRecovery ==
    [][\A r \in Requests, k \in Keys :
         serving[r] = None /\ serving'[r] = k => tripWait[k] = 0]_vars

\* A closed circuit never counts failures that an intervening success of the
\* key should have cleared, so it trips only on Threshold failures in a row.
FailuresAreConsecutive ==
    \A k \in Keys : circuits[k].kind = "closed" => circuits[k].n <= streak[k]

\* Since a circuit opened, and until a success closes it, the upstream sees at
\* most half_open_probes requests of the key, or the one check() always admits.
ProbesAreBounded ==
    \A k \in Keys : circuits[k].kind \in {"open", "halfopen"} =>
        probed[k] <= MaxProbes

\* A half-open circuit has a request in flight whose result will close or reopen
\* it, unless it has lost one to an error of the inner service or to a client
\* that went away.
HalfOpenIsProbed ==
    \A k \in Keys : circuits[k].kind = "halfopen" =>
        k \in lost \/ \E r \in Requests : serving[r] = k

-------------------------------------------------------------------------------
(* Liveness.  Time passes, every admitted request is answered (or fails, or *)
(* is dropped), and every key keeps receiving requests.                     *)

Fairness ==
    /\ WF_vars(Tick)
    /\ \A r \in Requests :
         WF_vars((\E success \in BOOLEAN : Respond(r, success)) \/ Abandon(r))
    /\ \A k \in Keys : SF_vars(\E r \in Requests : Call(r, k))

LiveSpec == Spec /\ Fairness

\* A half-open circuit does not stay half-open: its probes close or reopen it.
HalfOpenResolves ==
    \A k \in Keys :
        (circuits[k].kind = "halfopen") ~> (circuits[k].kind # "halfopen")

\* Once the upstream stops failing, a tripped circuit serves its key again, if its
\* probes are not lost.
CircuitRecovers ==
    <>[](lost = {}) /\ <>[][\A r \in Requests : ~Respond(r, FALSE)]_vars =>
        \A k \in Keys : []<>(circuits[k].kind \in {"absent", "closed"})

===============================================================================

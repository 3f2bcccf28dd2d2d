----------------------------- MODULE SlidingWindow -----------------------------
(***************************************************************************)
(* The sliding-window limiter of src/middleware/sliding_window.rs with its *)
(* in-memory store: per key a VecDeque of timestamps, all keys behind one  *)
(* mutex, so that take() is one step; a request that is told to wait       *)
(* sleeps before it goes on to the inner service.                          *)
(*                                                                         *)
(* Time is discrete and relative.  A timestamp t is kept as the time until *)
(* it leaves the window, t + window - now, but not below 0: it is 0 when   *)
(* t <= cutoff, Window when t is now, and above Window when t is a         *)
(* reservation still ahead.  A sleep ends in the tick it is due.           *)
(***************************************************************************)
EXTENDS Naturals, Sequences, FiniteSets

CONSTANTS
    Keys,            \* what key_fn can return
    Requests,        \* slots for requests that may wait at the same time
    Count,           \* count; 0 makes timestamps[0] panic and is left out
    Window,          \* window, in ticks
    MaxKeys,         \* max_keys
    IdleTtl,         \* idle_ttl, in ticks
    CleanupInterval, \* CLEANUP_INTERVAL, in ticks
    IdleCap,         \* bound: idle times beyond it are not told apart
    MaxLog,          \* bound: longest deque the model follows
    None             \* not a key

ASSUME WindowConstants ==
    /\ Count \in Nat \ {0} /\ Window \in Nat \ {0} /\ MaxKeys \in Nat \ {0}
    /\ IdleTtl \in Nat /\ CleanupInterval \in Nat /\ IdleCap \in Nat /\ MaxLog \in Nat
    /\ None \notin Keys /\ IsFiniteSet(Requests)

VARIABLES
    log,       \* per key: its timestamps; <<>> for an untracked key
    tracked,   \* the keys in the map
    idle,      \* per key: time since last_seen
    cleanupIn, \* ticks until next_cleanup
    waiting,   \* per request: the key it sleeps for, or None
    delay,     \* per request: how long it still sleeps
    sent       \* history, per key: requests let through in the last L ticks, for each L

vars == <<log, tracked, idle, cleanupIn, waiting, delay, sent>>

-------------------------------------------------------------------------------
(* Cleanup and eviction.                                                   *)

EffectiveTtl == IF IdleTtl > Window THEN IdleTtl ELSE Window

Cleaned ==
    IF cleanupIn > 0 THEN tracked ELSE {k \in tracked : idle[k] <= EffectiveTtl}

Oldest(S) == {j \in S : \A i \in S : idle[i] <= idle[j]}

\* The keys of which evict_if_needed drops one: the oldest; ties in any order.
Victims(k) ==
    IF k \in Cleaned \/ Cardinality(Cleaned) < MaxKeys THEN {}
    ELSE Oldest({j \in Cleaned : idle[j] > EffectiveTtl})

Survivors(k) ==
    IF Victims(k) = {} THEN {Cleaned} ELSE {Cleaned \ {j} : j \in Victims(k)}

-------------------------------------------------------------------------------
(* The deque.                                                              *)

\* The `while front().is_some_and(..) pop_front()` loop.
Drained(q) ==
    IF \A i \in DOMAIN q : q[i] = 0 THEN <<>>
    ELSE LET first == CHOOSE i \in DOMAIN q : q[i] > 0 /\ \A j \in 1..(i - 1) : q[j] = 0
         IN  SubSeq(q, first, Len(q))

\* Mutant: one more request than the window has room for.
HasRoomInclusive(q) == Len(q) <= Count

HasRoom(q) == Len(q) < Count

\* The oldest entry decides when a slot opens: window - (now - oldest).
DelayOf(q) == IF HasRoom(q) THEN 0 ELSE q[1]

\* now, or the reserved instant now + delay, is pushed to the back.
Pushed(q) == Append(q, DelayOf(q) + Window)

-------------------------------------------------------------------------------

TypeOK ==
    /\ log \in [Keys -> Seq(0..(2 * Window))]
    /\ tracked \subseteq Keys
    /\ idle \in [Keys -> 0..IdleCap]
    /\ cleanupIn \in 0..CleanupInterval
    /\ waiting \in [Requests -> Keys \cup {None}]
    /\ delay \in [Requests -> 0..(2 * Window)]
    /\ sent \in [Keys -> [0..(Window - 1) -> Nat]]

Init ==
    /\ log = [k \in Keys |-> <<>>]
    /\ tracked = {}
    /\ idle = [k \in Keys |-> 0]
    /\ cleanupIn = CleanupInterval
    /\ waiting = [r \in Requests |-> None]
    /\ delay = [r \in Requests |-> 0]
    /\ sent = [k \in Keys |-> [L \in 0..(Window - 1) |-> 0]]

\* A history with one more request let through now, and one a tick later.
Counted(history) == [L \in 0..(Window - 1) |-> history[L] + 1]

Older(history) == [L \in 0..(Window - 1) |-> IF L = 0 THEN 0 ELSE history[L - 1]]

Sent(k) == [sent EXCEPT ![k] = Counted(@)]

\* SharedState::take and what SlidingWindowService::call does with its answer:
\* with no delay the request goes on at once, otherwise it sleeps.
Take(r, k) ==
    /\ waiting[r] = None
    /\ Len(Drained(log[k])) < MaxLog
    /\ \E S \in Survivors(k) :
        LET q == Drained(IF k \in S THEN log[k] ELSE <<>>) IN
        /\ tracked' = S \cup {k}
        /\ log' = [j \in Keys |-> IF j = k THEN Pushed(q) ELSE IF j \in S THEN log[j] ELSE <<>>]
        /\ IF DelayOf(q) = 0
           THEN sent' = Sent(k) /\ UNCHANGED <<waiting, delay>>
           ELSE /\ waiting' = [waiting EXCEPT ![r] = k]
                /\ delay' = [delay EXCEPT ![r] = DelayOf(q)]
                /\ UNCHANGED sent
    /\ idle' = [idle EXCEPT ![k] = 0]
    /\ cleanupIn' = IF cleanupIn > 0 THEN cleanupIn ELSE CleanupInterval

\* The sleep is over and the request goes on to the inner service.
Wake(r) ==
    /\ waiting[r] # None /\ delay[r] = 0
    /\ sent' = Sent(waiting[r])
    /\ waiting' = [waiting EXCEPT ![r] = None]
    /\ UNCHANGED <<log, tracked, idle, cleanupIn, delay>>

\* The client goes away and the sleeping future is dropped; its reservation
\* stays in the deque.
Cancel(r) ==
    /\ waiting[r] # None
    /\ waiting' = [waiting EXCEPT ![r] = None]
    /\ delay' = [delay EXCEPT ![r] = 0]
    /\ UNCHANGED <<log, tracked, idle, cleanupIn, sent>>

Down(t) == IF t > 0 THEN t - 1 ELSE 0

Tick ==
    /\ \A r \in Requests : waiting[r] # None => delay[r] > 0
    /\ log' = [k \in Keys |-> [i \in DOMAIN log[k] |-> Down(log[k][i])]]
    /\ idle' = [k \in Keys |-> IF idle[k] < IdleCap THEN idle[k] + 1 ELSE idle[k]]
    /\ cleanupIn' = Down(cleanupIn)
    /\ delay' = [r \in Requests |-> Down(delay[r])]
    /\ sent' = [k \in Keys |-> Older(sent[k])]
    /\ UNCHANGED <<tracked, waiting>>

Next ==
    \/ \E r \in Requests, k \in Keys : Take(r, k)
    \/ \E r \in Requests : Wake(r)
    \/ \E r \in Requests : Cancel(r)
    \/ Tick

Spec == Init /\ [][Next]_vars

-------------------------------------------------------------------------------

\* The deque is ordered, so popping expired entries off its front removes all of
\* them and timestamps[0] is the oldest, although reservations are pushed among
\* immediate admissions.
LogIsSorted ==
    \A k \in Keys : \A i, j \in DOMAIN log[k] : i < j => log[k][i] <= log[k][j]

\* However many requests queue up, take() never makes one wait longer than one
\* window: a reservation still ahead is never at the front of a deque.
WaitIsBounded ==
    \A r \in Requests : delay[r] <= Window

\* A request admitted without delay finds fewer than count requests of its key
\* let through during the last window.
ImmediateWithinCap ==
    [][\A k \in Keys : sent'[k][0] > sent[k][0] /\ waiting' = waiting
         => sent[k][Window - 1] < Count]_vars

===============================================================================

# TLA+ specifications of noxy

noxy is an HTTP proxy on tokio, hyper and tower. It runs in forward mode (CONNECT with
TLS interception) or in reverse mode, and passes every request through an onion of
middleware layers. These modules model the parts of it whose correctness depends on the
order in which things happen: stores shared by concurrent requests, timers, connection
tasks, shutdown, and state shared through Redis.

`PROJECT.json` holds the machine-readable side: which definition models which lines, which
run checks which property, which mutation of the model each property catches, the findings
and the hazards.

## The system

| part | state | operations | modelled by |
|---|---|---|---|
| circuit breaker, in memory (`middleware/circuit_breaker.rs`) | map key -> circuit behind a mutex, next cleanup | `check` before, `record` after the inner call; cleanup and eviction inside both | `CircuitBreaker` |
| circuit breaker, Redis | a hash per key with an expiry; a local cache per instance; the in-memory store as fallback | two Lua scripts, cache lookup, fill and invalidation | `RedisCircuitBreaker` |
| sliding window (`middleware/sliding_window.rs`) | per key a deque of timestamps; in Redis a sorted set with an expiry | `take`, sleep, cleanup, eviction; a Lua script, the in-memory store as fallback | `SlidingWindow`, `RedisSlidingWindow` |
| token bucket (`middleware/rate_limiter.rs`) | per key tokens (may be negative); in Redis a hash with an expiry | as above | `RateLimiter`, `RedisRateLimiter` |
| retry (`middleware/retry.rs`) | per request attempt, capture, replay bytes; a shared budget | attempt loop, body polling, budget | `Retry` |
| accept loop (`lib.rs`) | semaphore, JoinSet, watch channel | accept, permit, spawn, shutdown, drain, abort | `Proxy` |
| connection (`lib.rs`) | phase: TLS, CONNECT handshake, serving, closing | handshake timeout, graceful close, upgrade | `Proxy` |
| CONNECT handshake, authentication (`lib.rs`) | a oneshot sender per connection | answer or refuse, upgrade, inner TLS accept | `Handshake` |
| one exchange (`lib.rs`, `http.rs`, `middleware/bandwidth_throttle.rs`) | the request's headers on their way, timers, frames that wait | adapter, connector, forward service, throttled body, upgrade | `Exchange` |
| tunnel (`lib.rs`) | two copy loops, an activity counter | read, write, EOF, idle watchdog, shutdown | `Tunnel` |
| supervision, health (`main.rs`) | listener tasks, broadcast channel | start, fail, signal, join | `Supervisor`, over `Listener` |
| configuration (`config.rs`, flags in `main.rs`) | rules, match blocks, Redis scopes | walk, shadowing, predicates | `Config` |
| layers around a request (`config.rs`, `middleware/conditional.rs`, `router.rs`, `block_list.rs`, `url_rewrite.rs`, ...) | the request as it changes, the routes' counters | pass, answer, rewrite, route, retry | `Pipeline` |
| script engine (`middleware/script.rs`) | V8 thread, channels, op state | request, ops, respond, result | `Script` |
| content decoder, traffic logger | none | pure functions of a body or a message | see "Not modelled" |

How they interact, and how the modules are composed:

* `Proxy` spawns one task per connection. `Handshake` EXTENDS it and replaces the
  handshake phase of a forward connection by its steps; the other phases are `Proxy`'s.
* A connection's requests run through the layers concurrently with those of every other
  connection. `Config` decides which layers a listener's requests meet; `Pipeline` EXTENDS
  it and serves requests with what the walk has compiled.
* The stores of the layers are what requests share. The Redis limiters EXTEND the
  in-memory ones, which they fall back to: one run covers a limiter with either store.
* The innermost service is the forward service; `Exchange` follows one request through it
  and the response back. An upgraded request leaves its connection and becomes a `Tunnel`,
  which `Exchange` EXTENDS. `Proxy` only keeps whether a tunnel is there.
* The process runs several listeners. What `Supervisor` relies on of each is module
  `Listener`, which `Proxy` is shown to implement.
* What one request goes through has one run (`request`, module `MCRequest`: `Exchange`,
  `Script` and `Retry`), and so has the process with its listeners (`process`, module
  `MCProcess`: `Handshake` and `Supervisor`). The parts of a run share no state: a behaviour
  is about one of them, chosen in the initial state, and the others rest where no fairness
  condition asks anything of them.

## Conventions

*Time.* Discrete and relative. A stored `Instant` is kept as its distance from now and
`Tick` moves all of them; ages saturate at a bound above everything that is compared with
them. The state space is finite without a limit on how long the system runs. Where a timer
that is due has to act first, `Tick` waits for it.

*Atomicity.* What runs under a mutex, or inside Redis, is one step. What has an `.await`
in between is several.

*Requests* are slots: a slot is free, or holds one request's future. Dropping the future
(the client goes away) is possible at every await.

*Histories* are variables no action's guard reads; they are marked as such. Those that count
over intervals are cumulative: `sent[k][L]` is what was let through in the last `L` ticks,
for every `L` up to a bound, so that a property reads one number and a step changes each
in the same way.

*Names.* Where one proof module is about two modules that do not share state, the second
has a prefix to its specification (`RetryInit`, `RetryNext`, `ScriptInit`, `ProcessNext`).

*Types.* The modules have a `TypeOK`, some with a prefix. It is part of the inductive
invariants (`ConfigProofs` has it without the bounds, `WalkTypes`; that of `Exchange` is in
its proofs), and the runs leave it out, along with the other invariants that are proved
for every instance (`ProbesAreBounded`, `LogIsSorted`, `LoopReturns`, `NoTaskLeftBehind`
and so on, see "Proofs").

*Mutants.* Next to some definitions stands a variant with the comment `Mutant`: a
plausible slip in that code, of which the properties have to take notice.

## Modules, runs and what they show

### CircuitBreaker

`circuits` is the map; `Call` is `check()` and what the service does with its answer,
`Respond` is `record()`, `Abandon` is an inner error or a dropped future. `Cleaned`,
`Victims`, `Survivors`, `Touched` are the prelude that `check` and `record` share.

* `breaker`: two requests on two keys, one place in the map, recovery of three ticks
  against an idle time of one, so that an open circuit does look idle, and cleanups three
  ticks apart, so that eviction meets idle circuits that no cleanup has removed. One probe
  is allowed, the default, and the other request may be one from before the circuit opened;
  with two probes the same properties hold, in a larger run that is not kept, and the
  proofs of the first three are for any number. `RecoveryIsKept`
  and `NoAdmissionInRecovery`: a recovery period is never cut short, extended or forgotten,
  and nobody is admitted during it. `FailuresAreConsecutive`: what a circuit counts are
  failures in a row. `CircuitRecovers`: a circuit whose upstream recovers closes, unless a
  probe was lost.
* `breaker_abandoned_probe` (violated): `HalfOpenResolves`. See findings.

Fairness: time passes; an admitted request ends; a key keeps receiving requests (a circuit
only leaves its open state when asked).

### SlidingWindow and RedisSlidingWindow

A timestamp is kept as the time until it leaves the window. `Take` is
`SharedState::take`, `Wake` the end of a sleep, `Cancel` a dropped sleep, whose
reservation stays. `backend` is chosen at the start. With the Redis store, `RunScript` is
the Lua script, `Answer` the reading of its reply up to `MaxLatency` later, and `FallBack`
a call that failed, before or after the script ran, and takes from the in-memory store.
The sorted set is a count of members per score; `Members` are what `ZCARD` counts.

* `window`: three local requests and one of another instance, on two keys with one place
  in the map. `ImmediateWithinCap`: a request the in-memory store lets through without a
  wait finds fewer than `count` let through during the last window.
  `ReservationsOutliveExpiry`: the sorted set does not expire while a reservation in it is
  ahead, although every call sets its expiry anew.
  `idle_ttl` is long enough to outlive a reservation; `effective_ttl` alone does not see
  to that, see "Limits of what holds".

### RateLimiter and RedisRateLimiter

Tokens are counted in refill units, so that `f64` becomes exact arithmetic: `level` is
what `tokens + elapsed * rate` comes to. The Redis store is split as in
`RedisSlidingWindow`; its script rounds the delay up to the clock's unit. A call keeps the
`age` of its reply, since the sleep starts when the reply is read.

* `limiter`: two local requests and one of another instance. `Conforms` (over every
  interval up to `Horizon`, the token bucket's contract for the in-memory store),
  `SharedConforms` (the same of what Redis grants to all instances together, give or take
  the latency of replies, with lost replies and expiry of the hash), `NoOvertaking`.
  `idle_ttl` is long enough to outlive the debt (`DebtIsKept`).

### Retry

A body is a number of chunks; the inner service polls it at any pace and may answer at any
point. `AskBudget` is the check and the count under one lock. Requests are the `Slots`.

* `request`: `ReplayIsExact` (what a retry sends is the client's whole body, however much of
  it the first attempt had read), `BudgetHolds` (the ratio, but for the one retry granted
  last).

`budget` is taken to be configured; without one `AllowsRetry` is true.

### Tunnel and Exchange

In `Tunnel`, `moved` is `activity != last`; pieces of a chunk model the partial writes of
`write_all`. `Exchange` is one request: `Call` is the adapter, which sets a tunnel up if
the client asks for an upgrade, `Middleware` whatever the layers do to the headers,
`Forward` the forward service up to `client.request`, on a pooled or a new connection.
`Connected`, `Reconnect`, `Fails`, `ConnectExpired` and `RequestExpired` are the ways on
from there, `Responds` and `Switches` the upstream's answer, `PollFrame` and `PollPending`
the two halves of `ThrottledBody::poll_frame`. After `Relay` the actions of `Tunnel` go on.

* `request`: `RateIsKept` (what the throttle lets through fits the rate since the first
  byte), `FramesInOrder` (while a frame is held back none after it overtakes it, and none is
  lost), `AnsweredInTime` (no wait for the header beyond the request timeout, connecting
  and reconnecting included), `NotBeforeIdle`, `ClosedWhenIdle` (within two intervals,
  since the watchdog samples). An exchange ends, so deadlock is not checked.
* `exchange_upgrade_lines` (violated): `UpgradesAreRelayed`. See findings.

`StripHopByHop` keeps the order of the code, in which the names that `Connection` lists are
collected before anything is removed. No property of its own is about it.

### Proxy and Handshake

`loop` is the control state of `listen_on_with_shutdown`, `conn` the phase of each
connection, `tunnel` the detached task of an upgrade. `Accept` and `Acquire` are the two
halves of the accept branch. In `Handshake`, a client's requests are answered as by the
service inside `handshake()`: the oneshot channel takes the first outcome only, and the
connection stays open after a refusal.

* `process`: `PermitsBalance`, `OpenedByFirst` (a connection is served only if its first
  request was a CONNECT that is accepted), `ShutdownReturns` (while permits keep coming
  back), `HandshakeEnds`, `TunnelsEnd`. `ImplementsListener`: seen from outside, all this
  is module `Listener`, which listens, drains once the shutdown has come and returns Ok
  only then, or fails for good.
* `proxy_permit_wait` (violated): see findings.

Fairness: the runtime polls what is ready, timers fire, aborted tasks are dropped;
`tokio::select!` picks among ready branches at random, which is strong fairness for the
shutdown branch. Nothing is assumed of clients: they may stall for ever. Listening may
return, so deadlock is not checked.

### RedisCircuitBreaker

One key, several instances. `RunCheck` and `RunRecord` are the scripts, `Answer` and
`Invalidate` what the instance does with the replies up to `MaxDelay` later. A failing
call is answered by the fallback store, freely. The scripts call `PEXPIRE` before `HSET`,
so that the `HSET` that creates a key leaves it without expiry (`Forever`).

* `redis_breaker`: `StaleAllowIsBounded`, `RejectLagIsBounded`, `ProbesAreShared`,
  `RecoveryOutlivesTtl`.

### Listener and Supervisor

`Supervisor` is the second half of `apply_cli_and_run`: `main` is where the main task
stands, `task` each listener's task, `rx` and `sent` the positions of the receivers in
the broadcast channel. tokio's channel has capacity 1 and an overrun receiver gets an
error instead of the value; all callers treat both alike, so positions are all that
matters. `Bind` comes after `SpawnListener`, which has subscribed already.

* `process`: three listeners and a health endpoint. `ExitTellsFailure`: the exit status
  tells whether a listener failed or panicked. `AllEndTogether`: a failure or a signal
  brings the whole process down, however the tasks were scheduled, provided that each
  listener takes notice of a shutdown and gets through its drain (`Prompt`). `RunsListeners`: each
  task is a `Listener`.

Fairness: tasks that can go on do. That a listener observes the shutdown and returns is not
assumed: one that waits for a permit does not observe it (see findings), so `AllEndTogether`
has it as a condition, which `ShutdownReturns` of `Proxy` meets while permits come back.
Nothing is assumed of signals and failures. The process may end, so deadlock is not
checked.

### Config and Pipeline

The tree of rules is not a value of the model. `EnterMatch`, `Rule` and `LeaveMatch` are
what the recursive walk does at a node, with its stacks, and the behaviours are the walks
over all trees of up to `MaxNodes` nodes. `EndGlobals` and `EndBody` end the two bodies,
`CliRule` adds what the command line asks for; `Invalid` and `InvalidFlag` are the errors
(`Fail`), after which nothing is served. A predicate is a sequence of match
specifications; `Top`, `Pop` and `StartsWith` are what the code does to its stacks and
paths. What a rule's place in the file means is kept apart, as
history (`zone`, `block`), and the properties compare the two.

`Pipeline` then serves with the declarations: `Serve` is a request outside all layers,
`Meet` its step into the next layer inwards whose predicate accepts it as the layers
before left it (`Ahead`), which passes it on or answers it, and `Arrive` its arrival at
the router and the backend. `Again` is a retry, which starts below the retry layer with
the request that layer was given. The router has no default, as in `ProxyBuilder::build`.

* `pipeline`: `InnermostWins` (a request in the scope of a rule of an exclusive kind meets
  some rule of that kind, and a rule lets a request pass exactly where a rule inside it
  takes over; all but between the listener's rules and those in global match blocks,
  `Collides`), `ScopesAreExact` (predicates and connections
  are those of the enclosing blocks), `UnnamedScopesAreUnique` (different unnamed blocks of
  a listener never share a Redis store). While serving: `NestedMeetOnce` (a request passes
  two nested exclusive rules only if a rule between them changed it), `GlobalsSeeTheClient`
  (the listener's rules never change what a global rule sees), `RoutedAsSent` (an
  unchanged request goes to the first upstream rule that accepts it, and elsewhere only if
  none does), `Balanced` (the backends
  of a route differ by at most one in round-robin turns, retries included). The bounds end
  behaviours, so deadlock is not checked.
* `pipeline_listener_shadowing` (violated): `ListenerWins`, and
  `pipeline_default_upstream` (violated): `DefaultIsUsed`. See findings.

### Script

`thread` is the V8 thread, `queue` its channel, `current` the call whose `RequestState` is
in place; `call`, `command`, `forwarding` and `result` are the future of `ScriptService::
call` with its channels, `respond` the state of the operation behind `respond()`. The
handler is free to read bodies, respond, return or throw; `awaits` says whether it awaits
`respond()`. While a body comes in (`reading`) the handler waits, and with it every other
request of the thread, until `BodyRead`.

* `request`: `OwnAnswer`, `ForwardedOnce` (an awaiting handler answers each client with what
  came back for its own request, and sends at most one), `CallsEnd` (every call ends, however
  the handler is written and also when the script does not load, as long as no upstream
  exchange stays open for ever and every body that is being read ends).

Fairness: the thread and the futures are polled while they can go on, and the handler
returns or throws once nothing is left for it to wait for. Nothing is assumed of the
upstream, nor of the senders of bodies: `BodyRead` has no fairness, as `collect_limited` has
no timeout. All calls may end, so deadlock is not checked.

## Bounds

| bound | where | why it is enough |
|---|---|---|
| 2-3 requests, keys or connections | all | two to interleave, a third to be the late one |
| `IdleCap`, `AgeCap` | stores, Tunnel, Redis | above every duration an age is compared with |
| `MaxLog`, `MaxMembers` | sliding windows | `Count` and reservations on top, so that a reservation follows a reservation; the set also holds those of the other instance |
| `MaxDebt`, `Horizon` | RateLimiter | the debt of all requests at once; as long as filling a bucket |
| `MaxLatency` | Redis limiters | one tick: a reply overtaken by time and by other scripts |
| `MaxFailures` | Redis limiters | one failing call, so that both stores hold tokens of one client |
| `Slack` | Redis stores | the constant the code adds to an expiry, scaled down; the least that the assumptions allow |
| `MaxChunks` | Retry | one more than `MaxReplay`, so that a body can overflow |
| `MaxRequests` | Retry | per budget window; windows follow each other without bound |
| `MaxUnits` | Tunnel | two: a write that is under way |
| `MaxFrame`, `MaxFrames` | Exchange | a frame larger than the rate, an empty one, and one after a frame that waited |
| `MaxDelay` | RedisCircuitBreaker | one tick, as `MaxLatency` |
| `MaxNodes` | Config | four: two blocks deep with a rule inside and a rule outside, or two siblings with a rule each |
| `ServedNodes` | Pipeline | as `MaxNodes`: a rule, one that changes requests, and a block with a rule inside all fit |
| `Kinds` | Config, Pipeline | a kind for each thing rules can do: exclusive (`circuit-breaker`, `retry`), with a store (`circuit-breaker`), answering or passing on as it likes (`circuit-breaker`), changing requests (`rewrite-path`), repeating (`retry`), routing (`upstream`). The cases of `block`, `respond`, `rate-limit` and the header rules are in the module but not in the run; with them in `Kinds`, a blocked path and `ServedNodes = 3` the same properties hold, which takes too long to be kept as part of it |
| `MaxPasses`, `MaxBackends` | Pipeline | three requests or retries over two backends: one turn more than the backends |
| `Capacity` | Script | one instead of 64, so that a second call finds the channel full |
| 3 listeners | Supervisor | one that fails, one bound and one that is not bound yet |

The theorems do not depend on them.

## Proofs

For every value of the constants, by inductive invariants. Every safety property that a
passing run checks is also a theorem (`theorems` in `PROJECT.json` names them).

* `CircuitBreakerProofs`, first part: `BreakerInv` is the type invariant, `RecoveryIsKept`,
  `FailuresAreConsecutive` and `ProbesAreCounted` (the history of probes equals the
  circuit's own counter, without which the bound is not inductive). The key lemma,
  `SurvivorsKeepWaiting`, says that neither cleanup nor eviction drops a circuit that has
  to wait. `RecoveryAdmitsNothing` is the action property. Second part, `Retry`:
  `ReplayReady` ties the capture to what was polled (a complete capture that has not
  overflowed holds the whole body); the budget's bound is carried through window resets.
* `RedisCircuitBreakerProofs`: `SharedInv`. The hash's time to live exceeds what an open
  circuit has to wait (`HashInv`), the history of probes equals `in_flight` (`ProbesInv`),
  and a reply on its way is out of date by at most the time it has taken (`AnswerInv`).
  The last is what makes the bounds on cached answers (`CacheInv`) inductive: an entry is
  filled from a reply, whatever other instances did to the hash in between.
* `SlidingWindowProofs`: `WellFormed` adds to sortedness (`LogIsSorted`, what the
  `pop_front` loop and `timestamps[0]` rely on) that all entries lie within one window of
  the first and that the first is never ahead, which is what keeps a new reservation at
  the end and its delay within a window. `WithinCap` needs more, `CapInv`: every request
  let through in the last `L` ticks, and every sleeping one, has an entry of its own no
  older than that (`Recorded`), and entries of a forgotten key have expired (`Expiring`).
  `SetInv` is the same shape for the sorted set. `WindowEmbedded`: the limiter with either
  store implements `SlidingWindow`, so that what is proved of it holds of that too.
* `RateLimiterProofs`: `Queued` ties each sleep to its key's debt, `RefilledSinceSeen` says
  that debt is refilled while a key is idle. Under `DebtIsKept` (debts are refilled within
  `effective_ttl`) the lemma `WaitersKeepTheirKey` follows: no key somebody waits for is
  forgotten. `InOrder` is the action property. `ConformsToRate` and `SharedConformsToRate`
  rest on one notion, `Schedule`, of a bucket, its pending requests, when they are due and
  what was let through: the tokens pay for both (`PaidFor`, `PaidSince`), what was and
  will be let through conforms over every interval (`Conforming`, `ConformingDue`), and
  pending requests are a token apart (`Spaced`). Its lemmas are proved once and used for
  the in-memory bucket, where a sleep ends when it is due, and for the one in Redis, where
  it ends up to a reply's latency later. `NothingForgotten` says that a bucket in Redis
  expires only when it is full, since what it lacks is never more than its remaining life.
  `LimiterEmbedded` is as `WindowEmbedded`.
* `ExchangeProofs`, first part: `WatchdogTracks` relates the age of the last read to the
  watchdog's sleep, in both cases of `moved`; `TunnelEmbedded` carries what is proved of
  tunnels over to those that exchanges become. `RateKept` and `FramesKept` are about the
  throttle for frames of any number and size, `AnswersInTime` about the two timeouts.
  Second part, `Script`: with an awaiting handler, at most one operation
  is under way and it is that of the current call; from this `AnswersAreOwn` and
  `ForwardsOnce` follow for any number of calls and any capacity.
* `ProxyProofs`, first part: the permit account by cardinality of the set of running tasks,
  one lemma each for steps that start, end or leave tasks alone. `ListenerImplemented` is
  the refinement: each action maps to one of `Listener` or leaves what a caller sees alone.
  `HandshakeEmbedded` shows that `Handshake` implements `Proxy`; `OnlyFirstOpens` rests on
  the channel holding what the first request left in it. Second part, `Supervisor`:
  whatever was sent has a cause among the joined listeners or the signal (`SentForCause`),
  and the error kept is that of a joined one (`JoinedAreOver`). `TasksAreListeners` is the
  refinement for each of any number of listeners.
* `ConfigProofs`: for rule trees of any depth and size. The state of the walk is a set of
  stacks, some pushed conditionally, so `WalkInv` says what each open block has pushed:
  there is a height of the stack for every block, which the block raised by one exactly if
  it restricts or connects (`PredsInv`, `RedisInv`), and a block without a name has a number
  that no other block got (`LabelInv`). It says the same of what every rule was collected
  with. `ScopesExact` and `StoresAreUnique` follow. They are stated of `PipelineSpec`,
  whose behaviours begin with the walk.
* `PipelineProofs`: `resolve_exclusions` compares paths, nesting is about blocks, and
  `PathInv` relates the two: within a body, one path is a prefix of another exactly when
  the block of one rule is around the other (`InsideShadows`, which also covers the
  listener's rules against the top level of the file). `CarvedInv` says that a compiled rule leaves
  out what was found so. That no hole is left takes an innermost rule among those that
  accept a request, by well-founded descent on the length of paths. `PassInv` is about a
  request under way: a layer it met saw it as sent or as a changing layer outside left it,
  and accepted it then. `BalanceInv` gives each backend's picks as quotient or quotient
  plus one of the route's counter.

The assumptions are those each module states of its constants: counts, thresholds and
durations that the code divides by, indexes with or waits for are positive (the builder
methods do not insist on it), and bounds lie above what is compared with them. Two theorems
assume more, in their own statement: `ConformsToRate` that `effective_ttl` covers the debt
and the refill of a burst (`MaxDebt + Burst <= EffectiveTtl + 1`), and `WithinCap` that
`idle_ttl` is at least two windows. Both hold in the runs.

Model-checked only: the liveness properties `CircuitRecovers`, `HalfOpenResolves`,
`ShutdownReturns`, `ShutdownAlwaysReturns`, `HandshakeEnds`, `TunnelsEnd`, `AllEndTogether`
and `CallsEnd`, since liveness under fairness is out of the prover's reach.

## Findings

Five places where the code does something else than its documentation says, each with a
run that shows it (`findings` in `PROJECT.json` quotes the lines):

1. Half-open circuits whose probes fail with an error or are dropped stay half-open. The
   shared circuit has the same gap (`Abandon` and `Invalidate` of `RedisCircuitBreaker`).
2. A shutdown is not seen while the accept loop waits for a permit.
3. A client whose `upgrade` token is not in its first Connection line gets a 101 and no
   tunnel: the adapter looks at the first line, the forward service at all of them.
4. A listener's rule does not shadow a rule of its exclusive kind in a global match block.
   Listener rules get the path prefix `[0]`, which does not extend the path of such a
   block. At index 0 it is even the same path: a global rule two blocks deep there switches
   off the listener's rule, and only listener rules inside match blocks are carved out of
   the rules of that block.
5. The router is built without a default: with any upstream rule, a request that none
   accepts gets a 502 instead of the default upstream.

### Limits of what holds

Some properties are stated with the bound the code really keeps, which is weaker than a
first reading of the documentation suggests:

* `ImmediateWithinCap` and `Conforms` need an `idle_ttl` that outlives reservations and
  debt: `effective_ttl` counts from the last request, not from the last reservation. Two
  windows are enough for the one; for the other, the time to refill the debt and a burst.
* `BudgetHolds`: the ratio is compared before the retry it decides on is counted.
* `NotBeforeIdle` is about reads: a chunk that is being written out in pieces does not
  count as activity.
* `PermitsBalance` is about connection tasks: an upgraded connection gives its permit back
  while its tunnel lives on.
* `RejectLagIsBounded`: a cached Reject is valid from when the reply is read, not from
  when the script ran.
* `StaleAllowIsBounded` also bounds what an instance may keep after its own `record()`: a
  check that read Closed earlier may fill the cache after `record()` has removed the
  entry, so that the state change is not seen "immediately" (`circuit_breaker.rs:554`) but
  within `cache_ttl` and the delay of the reply.
* `HandshakeEnds` is about the CONNECT handshake. The TLS accept before it
  (`lib.rs:1083`) is outside the timeout, although `lib.rs:345` counts client-side TLS in.
* `InnermostWins` and `NestedMeetOnce` leave out a listener's rules against those in global
  match blocks (`Collides`), which is the fourth finding.
* `UnnamedScopesAreUnique` is about different unnamed blocks of one listener, and names
  without dots. Rules of one kind in the same block share a Redis store, a global rule and
  a listener's top-level rule both have the empty label, and the counter of unnamed blocks
  starts at 0 again for each listener.
* `rate-limit` and `sliding-window` are additive, although the comment at `config.rs:178`
  lists them among the exclusive ones; `ExclusiveKinds` follows `is_exclusive`.
* The window of `SlidingWindow` is no hard cap, although `sliding_window.rs:143` says so:
  all requests that wait for a full window reserve the same instant. With `count` = 0 the
  in-memory `take` panics while it holds the mutex, and the Redis script limits nothing.
* Redis limits are per store: each instance that falls back adds its own bucket, and a
  call whose reply is lost takes from both. `SharedConforms` allows for the latency of
  replies, since a sleep starts when the reply is read. What a debt
  of more than 60 s exceeds them by is forgotten when the hash expires (hence
  `MaxDebt <= Slack`). Loss of Redis's data is not modelled.
* Upstream rules are not exclusive: the first one that accepts wins, and an outer rule
  declared before a match block takes its requests. The router and every layer see the
  request as rewritten by the layers outside them, predicates and exclusions included
  (`NestedMeetOnce`, `GlobalsSeeTheClient`).
* A client refused with 407 or 400 may send a correct CONNECT on the same connection: it
  is answered 200 and then dropped, as the channel's sender is used up (`OpenedByFirst`).
* `RateIsKept`: a frame is never split, so one larger than the rate waits as a whole, and
  credit accumulates while the upstream stalls.
* `OwnAnswer` and `ForwardedOnce` are about handlers that await `respond()`. An operation
  that is not awaited goes on under the state of a later request. A handler that reads the
  body and then passes the request on sends an empty one.
* `CallsEnd`: a body that stalls while a handler reads it holds up all requests of the
  layer, since they share the thread.
* An accept error drops the watch sender without a signal, so that tunnels of a failed
  listener go on; nothing says what they should do.

## Not modelled

TLS, generation of certificates, HTTP parsing and KDL parsing are libraries'. The content
decoder and the traffic logger convert one body or message and keep nothing. What
`Pipeline` leaves out of the stateless layers is their text: captures of patterns, bodies
of fixed answers, headers of responses; it has one pattern and one header. Fault and
latency injection have no more than that a fault may answer.

Delays between retries are not modelled: the exponent, the jitter and `Retry-After` change
when a retry happens, which no property depends on. (`1 << attempt` overflows at 32
attempts; `min(max_backoff)` comes last and bounds the delay all the same.) `Conditional`
with several rules is not used by the configuration; its `poll_ready` asks the inner
service only, which no layer of the repository minds. JavaScript and the conversion of its
headers are an input of `Script`. In the Redis stores one key is followed, and the
fallback stores of other instances are not.

## Plan

1. An abstract circuit breaker (one key, no map) implemented by `CircuitBreaker`, and the
   Redis one against the same specification.
2. Retry delays as a pure operator with 32-bit arithmetic.

------------------------------- MODULE Exchange -------------------------------
(***************************************************************************)
(* One HTTP exchange from the client's connection to the upstream's:       *)
(* HyperServiceAdapter::call of src/lib.rs, UpstreamConnector and          *)
(* ForwardService of src/http.rs, the body of the response behind a        *)
(* BandwidthThrottle, and, after a 101, the tunnel of module Tunnel.       *)
(*                                                                         *)
(* The adapter decides from the client's request whether it may become a   *)
(* tunnel, ForwardService from the request that the middleware hands it.   *)
(* Of the headers there are the lines of Connection, each a set of tokens, *)
(* and the set of the other names.  Time is in ticks; a timeout that is    *)
(* due fires before time goes on.                                          *)
(***************************************************************************)
EXTENDS Tunnel, Sequences

CONSTANTS
    RequestTimeout,  \* ForwardService::request_timeout, in ticks
    ConnectTimeout,  \* UpstreamConnector::connect_timeout, in ticks
    BytesPerTick,    \* BandwidthThrottle::bytes_per_second
    Headers,         \* the headers clients and upstreams send
    MaxFrame,        \* bound: bytes of a frame
    MaxFrames        \* bound: frames of a body

ASSUME ExchangeConstants ==
    /\ RequestTimeout \in Nat \ {0} /\ ConnectTimeout \in Nat \ {0}
    /\ BytesPerTick \in Nat \ {0}
    /\ \A hdr \in Headers : hdr.lines \in Seq(SUBSET STRING) /\ hdr.names \subseteq STRING
    /\ MaxFrame \in Nat /\ MaxFrames \in Nat

VARIABLES
    phase,          \* where the exchange stands
    request,        \* its header as the client sent it
    clientUpgrade,  \* the adapter holds the client's hyper::upgrade::on
    offered,        \* its header as the middleware hands it to ForwardService
    forwarded,      \* its header as it goes to the upstream
    age,            \* time since client.request
    connectAge,     \* time since the connector was called
    answer,         \* the status the client gets, or "none"
    answered,       \* the header of the upstream's response as the client gets it
    started,        \* ThrottledBody::start is set
    elapsed,        \* start.elapsed()
    charged,        \* bytes_delivered
    held,           \* the frames in ThrottledBody::pending, at most one
    arrived,        \* history: the frames of the upstream's body so far
    out,            \* history: the frames handed to the client so far
    delivered       \* history: their bytes

requestVars == <<request, clientUpgrade, offered, forwarded>>
timeVars == <<age, connectAge>>
replyVars == <<answer, answered>>
bodyVars == <<started, elapsed, charged, held, arrived, out, delivered>>
exchangeVars == <<phase, requestVars, timeVars, replyVars, bodyVars, vars>>

-------------------------------------------------------------------------------
(* Headers.                                                                *)

NoHeader == [lines |-> <<>>, names |-> {}]

\* HOP_BY_HOP_HEADERS, and the two names without a constant
HopByHop == {"connection", "te", "trailer", "transfer-encoding", "upgrade",
             "proxy-authenticate", "proxy-authorization", "keep-alive", "proxy-connection"}

\* The tokens of all Connection lines.
Tokens(hdr) == UNION {hdr.lines[i] : i \in DOMAIN hdr.lines}

\* headers.remove for each of the names.
Without(hdr, ns) ==
    [lines |-> IF "connection" \in ns THEN <<>> ELSE hdr.lines, names |-> hdr.names \ ns]

\* What Connection names is collected first, then removed, then the fixed names.
StripHopByHop(hdr) ==
    LET connectionNamed == Tokens(hdr)
    IN  Without(Without(hdr, connectionNamed), HopByHop)

RequestsUpgrade(hdr) == "upgrade" \in Tokens(hdr)

\* The adapter looks at the first line only.
IsUpgrade(hdr) == hdr.lines # <<>> /\ "upgrade" \in hdr.lines[1]

\* What the middleware makes of the Connection header: it leaves it alone, keeps only
\* the last line (a script's Headers is a map), removes it or sets it (header rules).
Rewritten(hdr) ==
    {hdr} \cup {[hdr EXCEPT !.lines = ls] :
                  ls \in {<<>>, <<{"upgrade"}>>} \cup {<<hdr.lines[i]>> : i \in {Len(hdr.lines)} \ {0}}}

-------------------------------------------------------------------------------
(* HyperServiceAdapter::call and ForwardService::call.                     *)

ExchangeInit ==
    /\ Init
    /\ phase = "new" /\ request = NoHeader /\ clientUpgrade = FALSE
    /\ offered = NoHeader /\ forwarded = NoHeader
    /\ age = 0 /\ connectAge = 0 /\ answer = "none"
    /\ answered = NoHeader
    /\ started = FALSE /\ elapsed = 0 /\ charged = 0 /\ held = <<>>
    /\ arrived = <<>> /\ out = <<>> /\ delivered = 0

Call(hdr) ==
    /\ phase = "new"
    /\ phase' = "called"
    /\ request' = hdr
    /\ clientUpgrade' = IsUpgrade(hdr)
    /\ UNCHANGED <<offered, forwarded, timeVars, replyVars, bodyVars, vars>>

Middleware(hdr) ==
    /\ phase = "called"
    /\ phase' = "offered"
    /\ offered' = hdr
    /\ UNCHANGED <<request, clientUpgrade, forwarded, timeVars, replyVars, bodyVars, vars>>

\* ForwardService::call, on a pooled connection or with a new one.
Forward(pooled) ==
    /\ phase = "offered"
    /\ forwarded' = IF RequestsUpgrade(offered) THEN offered ELSE StripHopByHop(offered)
    /\ phase' = IF pooled THEN "pooled" ELSE "connecting"
    /\ UNCHANGED <<request, clientUpgrade, offered, timeVars, replyVars, bodyVars, vars>>

Connected ==
    /\ phase = "connecting" /\ phase' = "waiting"
    /\ UNCHANGED <<requestVars, timeVars, replyVars, bodyVars, vars>>

\* The pooled connection turns out to be closed: the client connects anew.
Reconnect ==
    /\ phase = "pooled" /\ phase' = "connecting"
    /\ UNCHANGED <<requestVars, timeVars, replyVars, bodyVars, vars>>

\* The exchange ends with s: "error" closes the client's connection.
EndsWith(s) ==
    /\ phase' = "ended" /\ answer' = s
    /\ UNCHANGED <<requestVars, timeVars, answered, bodyVars, vars>>

\* The upstream's response has not begun.
Waiting == phase \in {"connecting", "pooled", "waiting"}

\* Connecting or the upstream fails.
Fails == Waiting /\ EndsWith("error")

\* "upstream connect timed out"
ConnectDue == phase = "connecting" /\ connectAge = ConnectTimeout

ConnectExpired == ConnectDue /\ EndsWith("error")

\* Mutant: the request's time does not cover connecting.
RequestDueConnected == phase \in {"pooled", "waiting"} /\ age = RequestTimeout

\* The request's time runs from client.request, connecting included.
RequestDue == Waiting /\ age = RequestTimeout

\* gateway_timeout()
RequestExpired == RequestDue /\ EndsWith("504")

\* The header of a response that is no 101: its body comes through the throttle.
Responds(hdr) ==
    /\ phase \in {"pooled", "waiting"} /\ phase' = "relaying"
    /\ answer' = "200" /\ answered' = StripHopByHop(hdr)
    /\ UNCHANGED <<requestVars, timeVars, bodyVars, vars>>

\* 101, which an upstream sends only if asked for an upgrade: its header is kept, and
\* the adapter spawns the tunnel if it has the client's half.
Switches(hdr) ==
    /\ phase \in {"pooled", "waiting"} /\ RequestsUpgrade(forwarded)
    /\ answer' = "101" /\ answered' = hdr
    /\ phase' = IF clientUpgrade THEN "upgrading" ELSE "ended"
    /\ UNCHANGED <<requestVars, timeVars, bodyVars, vars>>

\* try_join! of the two upgrades
Upgraded ==
    /\ phase = "upgrading" /\ phase' = "tunnel"
    /\ UNCHANGED <<requestVars, timeVars, replyVars, bodyVars, vars>>

UpgradeFails == phase = "upgrading" /\ EndsWith(answer)

Relay ==
    /\ phase = "tunnel" /\ Next
    /\ UNCHANGED <<phase, requestVars, timeVars, replyVars, bodyVars>>

-------------------------------------------------------------------------------
(* ThrottledBody.                                                          *)

\* Mutant: a frame is charged when the next one comes.
ChargedLate(n) == charged

\* bytes_delivered += size
Charged(n) == charged + n

\* elapsed >= expected
Due(bytes) == bytes <= BytesPerTick * elapsed

\* Mutant: the inner body is polled also while a frame is held.
ReadyAlways == TRUE

\* A held frame comes before anything the inner body has.
Ready == held = <<>>

\* poll_frame: the inner body is ready with a frame of n bytes of data.  Trailers and
\* empty frames pass at once.
PollFrame(n) ==
    /\ phase = "relaying" /\ Ready /\ Len(arrived) < MaxFrames
    /\ arrived' = Append(arrived, n)
    /\ started' = (started \/ n > 0)
    /\ charged' = IF n = 0 THEN charged ELSE Charged(n)
    /\ IF n = 0 \/ Due(Charged(n))
       THEN out' = Append(out, n) /\ delivered' = delivered + n /\ UNCHANGED held
       ELSE held' = Append(held, n) /\ UNCHANGED <<out, delivered>>
    /\ UNCHANGED <<phase, requestVars, timeVars, replyVars, elapsed, vars>>

\* poll_frame: the sleep is over, which was due when the rate allows the frame.
PollPending ==
    /\ phase = "relaying" /\ held # <<>> /\ Due(charged)
    /\ out' = out \o held /\ held' = <<>>
    /\ delivered' = delivered + held[1]
    /\ UNCHANGED <<phase, requestVars, timeVars, replyVars, started, elapsed,
                   charged, arrived, vars>>

\* poll_frame: the inner body is through, or fails.
BodyEnds == phase = "relaying" /\ Ready /\ EndsWith(answer)

BodyFails == phase = "relaying" /\ Ready /\ EndsWith("error")

\* The client leaves, and hyper drops the exchange.
Leave ==
    /\ phase \in {"called", "offered", "relaying"} \/ Waiting
    /\ EndsWith("gone")

\* Time passes.  Beyond what MaxFrames frames can cost it is not told apart.
Passes ==
    /\ Waiting \/ phase = "relaying"
    /\ ~ConnectDue /\ ~RequestDue
    /\ elapsed * BytesPerTick < MaxFrame * MaxFrames
    /\ age' = IF Waiting THEN age + 1 ELSE age
    /\ connectAge' = IF phase = "connecting" THEN connectAge + 1 ELSE connectAge
    /\ elapsed' = IF started THEN elapsed + 1 ELSE elapsed
    /\ UNCHANGED <<phase, requestVars, replyVars, started, charged, held, arrived, out,
                   delivered, vars>>

ExchangeNext ==
    \/ \E hdr \in Headers : Call(hdr)
    \/ \E hdr \in Rewritten(request) : Middleware(hdr)
    \/ \E pooled \in BOOLEAN : Forward(pooled)
    \/ Connected \/ Reconnect \/ Fails \/ ConnectExpired \/ RequestExpired
    \/ \E hdr \in Headers : Responds(hdr) \/ Switches(hdr)
    \/ Upgraded \/ UpgradeFails \/ Relay
    \/ \E n \in 0..MaxFrame : PollFrame(n)
    \/ PollPending \/ BodyEnds \/ BodyFails \/ Leave \/ Passes

ExchangeSpec == ExchangeInit /\ [][ExchangeNext]_exchangeVars

-------------------------------------------------------------------------------
(* Properties.                                                             *)

\* The data handed to the client never exceeds the configured rate over the time since
\* the first of it came, however the frames arrive and whenever the client reads.
RateIsKept ==
    delivered <= BytesPerTick * elapsed

\* The client is handed what the upstream sent, all of it and in its order: no frame
\* is lost while it waits, and trailers do not overtake data.
FramesInOrder ==
    /\ out \o held = arrived
    /\ phase = "ended" /\ answer = "200" => out = arrived

\* From client.request on, the client waits for the header of an answer no longer than
\* the request timeout, also when the connection must be made, or made again.
AnsweredInTime ==
    Waiting => age <= RequestTimeout

\* What the comments on requests_upgrade and its use say: a request whose Connection
\* header has an upgrade token is relayed so that its handshake works.  A client that
\* sends one, and whose request the middleware leaves alone, is not left with a 101 and
\* no tunnel behind it.
UpgradesAreRelayed ==
    answer = "101" /\ RequestsUpgrade(request) /\ offered = request => clientUpgrade

===============================================================================

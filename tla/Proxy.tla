--------------------------------- MODULE Proxy ---------------------------------
(***************************************************************************)
(* The accept loop of Proxy::listen_on_with_shutdown in src/lib.rs: the    *)
(* connection limit, the tasks it spawns, the phases of a connection (TLS  *)
(* accept, CONNECT handshake, serving, graceful close), upgrade tunnels    *)
(* that outlive their connection, and shutdown with its drain timeout.     *)
(*                                                                         *)
(* A slot of Conns is one client connection after another.  What a client  *)
(* does (send, stall, finish, go away) is unconstrained; only the proxy's  *)
(* own steps are fair.                                                     *)
(***************************************************************************)
EXTENDS Naturals, FiniteSets

CONSTANTS
    Conns,            \* slots for client connections
    MaxConns,         \* max_connections
    Forward,          \* forward mode: CONNECT handshake before serving
    Tls,              \* a tls_acceptor is configured
    HandshakeTimeout, \* handshake_timeout, in ticks
    DrainTimeout,     \* drain_timeout, in ticks
    None              \* no accepted stream

ASSUME ProxyConstants ==
    /\ IsFiniteSet(Conns) /\ None \notin Conns
    /\ MaxConns \in Nat \ {0} /\ Forward \in BOOLEAN /\ Tls \in BOOLEAN
    /\ HandshakeTimeout \in Nat \ {0} /\ DrainTimeout \in Nat

VARIABLES
    loop,       \* where listen_on_with_shutdown stands
    accepted,   \* the accepted stream that waits for a permit
    conn,       \* per slot: phase of the connection
    tunnel,     \* per slot: detached task of an upgraded connection
    permits,    \* available permits of the semaphore
    signalled,  \* the shutdown future is ready
    broadcast,  \* the value of the watch channel
    handshakeLeft, \* per slot: time left of the handshake timeout
    drainLeft   \* time left of the drain timeout

vars == <<loop, accepted, conn, tunnel, permits, signalled, broadcast,
          handshakeLeft, drainLeft>>

\* The phases in which a connection's task runs, and so holds a permit.
Handled == {"tls", "handshake", "serving", "closing", "aborting"}

Running(c) == conn[c] \in Handled

\* The loop has returned, with Ok or with the error of accept.
Ended == loop \in {"returned", "failed"}

TypeOK ==
    /\ loop \in {"accepting", "waiting", "draining", "returned", "failed"}
    /\ accepted \in Conns \cup {None}
    /\ conn \in [Conns -> {"none", "queued", "accepted"} \cup Handled]
    /\ tunnel \in [Conns -> {"none", "upgrading", "open"}]
    /\ permits \in 0..MaxConns
    /\ signalled \in BOOLEAN
    /\ broadcast \in BOOLEAN
    /\ handshakeLeft \in [Conns -> 0..HandshakeTimeout]
    /\ drainLeft \in 0..DrainTimeout

Init ==
    /\ loop = "accepting"
    /\ accepted = None
    /\ conn = [c \in Conns |-> "none"]
    /\ tunnel = [c \in Conns |-> "none"]
    /\ permits = MaxConns
    /\ signalled = FALSE
    /\ broadcast = FALSE
    /\ handshakeLeft = [c \in Conns |-> HandshakeTimeout]
    /\ drainLeft = DrainTimeout

-------------------------------------------------------------------------------
(* The environment.                                                        *)

\* A client connects: the kernel queues the stream.
Connect(c) ==
    /\ ~Ended /\ conn[c] = "none" /\ tunnel[c] = "none"
    /\ conn' = [conn EXCEPT ![c] = "queued"]
    /\ UNCHANGED <<loop, accepted, tunnel, permits, signalled, broadcast,
                   handshakeLeft, drainLeft>>

\* The shutdown future completes.
Signal ==
    /\ ~signalled
    /\ signalled' = TRUE
    /\ UNCHANGED <<loop, accepted, conn, tunnel, permits, broadcast,
                   handshakeLeft, drainLeft>>

-------------------------------------------------------------------------------
(* The accept loop.                                                        *)

\* listener.accept() wins the select!; acquire_owned().await follows inside the
\* same branch.
Accept(c) ==
    /\ loop = "accepting" /\ conn[c] = "queued"
    /\ loop' = "waiting"
    /\ accepted' = c
    /\ conn' = [conn EXCEPT ![c] = "accepted"]
    /\ UNCHANGED <<tunnel, permits, signalled, broadcast, handshakeLeft, drainLeft>>

\* A connection's first phase depends on the mode.
FirstPhase == IF Tls THEN "tls" ELSE IF Forward THEN "handshake" ELSE "serving"

\* The permit is there and the task is spawned.
Acquire ==
    /\ loop = "waiting" /\ permits > 0
    /\ permits' = permits - 1
    /\ loop' = "accepting"
    /\ accepted' = None
    /\ conn' = [conn EXCEPT ![accepted] = FirstPhase]
    /\ handshakeLeft' = [handshakeLeft EXCEPT ![accepted] = HandshakeTimeout]
    /\ UNCHANGED <<tunnel, signalled, broadcast, drainLeft>>

\* Mutant: an error of accept ends the loop as a shutdown would.
AcceptErrorIsOk ==
    /\ loop = "accepting"
    /\ loop' = "returned"
    /\ conn' = [c \in Conns |-> IF Running(c) THEN "aborting" ELSE "none"]
    /\ UNCHANGED <<accepted, tunnel, permits, signalled, broadcast,
                   handshakeLeft, drainLeft>>

\* accept() fails: `?` leaves the loop, the JoinSet is dropped and aborts its tasks,
\* the watch sender is dropped without a signal.
AcceptError ==
    /\ loop = "accepting"
    /\ loop' = "failed"
    /\ conn' = [c \in Conns |-> IF Running(c) THEN "aborting" ELSE "none"]
    /\ UNCHANGED <<accepted, tunnel, permits, signalled, broadcast,
                   handshakeLeft, drainLeft>>

\* The shutdown branch wins the select!: the signal is broadcast.
ObserveShutdown ==
    /\ loop = "accepting" /\ signalled
    /\ loop' = "draining"
    /\ broadcast' = TRUE
    /\ UNCHANGED <<accepted, conn, tunnel, permits, signalled, handshakeLeft, drainLeft>>

\* join_next has returned every task; the listener is dropped, which resets the
\* streams still queued in the kernel.
Drained ==
    /\ loop = "draining"
    /\ \A c \in Conns : ~Running(c)
    /\ loop' = "returned"
    /\ conn' = [c \in Conns |-> "none"]
    /\ UNCHANGED <<accepted, tunnel, permits, signalled, broadcast,
                   handshakeLeft, drainLeft>>

\* Mutant: the drain timeout is not acted upon.
DrainExpiredNever ==
    /\ FALSE
    /\ UNCHANGED vars

\* The drain timeout fires: abort_all, and return without waiting for the tasks.
DrainExpired ==
    /\ loop = "draining" /\ drainLeft = 0
    /\ \E c \in Conns : Running(c)
    /\ loop' = "returned"
    /\ conn' = [c \in Conns |-> IF Running(c) THEN "aborting" ELSE "none"]
    /\ UNCHANGED <<accepted, tunnel, permits, signalled, broadcast,
                   handshakeLeft, drainLeft>>

-------------------------------------------------------------------------------
(* The task of a connection.                                               *)

\* The outer TLS accept is done (no timeout covers it).
TlsAccepted(c) ==
    /\ conn[c] = "tls"
    /\ conn' = [conn EXCEPT ![c] = IF Forward THEN "handshake" ELSE "serving"]
    /\ handshakeLeft' = [handshakeLeft EXCEPT ![c] = HandshakeTimeout]
    /\ UNCHANGED <<loop, accepted, tunnel, permits, signalled, broadcast, drainLeft>>

\* CONNECT and the client-side TLS handshake are done.
HandshakeDone(c) ==
    /\ conn[c] = "handshake"
    /\ conn' = [conn EXCEPT ![c] = "serving"]
    /\ UNCHANGED <<loop, accepted, tunnel, permits, signalled, broadcast,
                   handshakeLeft, drainLeft>>

\* Mutant: a finished task keeps its permit if the connection was aborted.
EndsLeaky(c) ==
    /\ conn' = [conn EXCEPT ![c] = "none"]
    /\ permits' = IF conn[c] = "aborting" THEN permits ELSE permits + 1

\* The task is over, whatever its result: the permit is dropped.
Ends(c) ==
    /\ conn' = [conn EXCEPT ![c] = "none"]
    /\ permits' = permits + 1

\* Mutant: the handshake timeout only covers what precedes shutdown.
HandshakeExpiredUnlessDraining(c) ==
    /\ conn[c] = "handshake" /\ handshakeLeft[c] = 0 /\ ~broadcast
    /\ Ends(c)
    /\ UNCHANGED <<loop, accepted, tunnel, signalled, broadcast, handshakeLeft, drainLeft>>

\* The handshake timeout fires.
HandshakeExpired(c) ==
    /\ conn[c] = "handshake" /\ handshakeLeft[c] = 0
    /\ Ends(c)
    /\ UNCHANGED <<loop, accepted, tunnel, signalled, broadcast, handshakeLeft, drainLeft>>

\* The connection ends by itself: an error in any phase, the client closes, or
\* what graceful_shutdown let finish has finished.  An upgrade still under way
\* fails with it.
Finish(c) ==
    /\ conn[c] \in {"tls", "handshake", "serving", "closing"}
    /\ Ends(c)
    /\ tunnel' = [tunnel EXCEPT ![c] = "none"]
    /\ UNCHANGED <<loop, accepted, signalled, broadcast, handshakeLeft, drainLeft>>

\* serve_client sees shutdown_rx.changed(): graceful_shutdown, then conn.await.
ObserveClose(c) ==
    /\ conn[c] = "serving" /\ broadcast
    /\ conn' = [conn EXCEPT ![c] = "closing"]
    /\ UNCHANGED <<loop, accepted, tunnel, permits, signalled, broadcast,
                   handshakeLeft, drainLeft>>

\* The runtime drops an aborted task.
Reap(c) ==
    /\ conn[c] = "aborting"
    /\ Ends(c)
    /\ tunnel' = [tunnel EXCEPT ![c] = IF @ = "upgrading" THEN "none" ELSE @]
    /\ UNCHANGED <<loop, accepted, signalled, broadcast, handshakeLeft, drainLeft>>

-------------------------------------------------------------------------------
(* Upgrade tunnels.                                                        *)

\* Upstream answered 101 to an upgrade request: HyperServiceAdapter::call spawns
\* the tunnel, which waits for both sides of the upgrade.
Upgrade(c) ==
    /\ conn[c] \in {"serving", "closing"} /\ tunnel[c] = "none"
    /\ tunnel' = [tunnel EXCEPT ![c] = "upgrading"]
    /\ UNCHANGED <<loop, accepted, conn, permits, signalled, broadcast,
                   handshakeLeft, drainLeft>>

\* The 101 is out: the connection future resolves, its task ends and drops the
\* permit; the tunnel has the stream.
Upgraded(c) ==
    /\ tunnel[c] = "upgrading" /\ conn[c] \in {"serving", "closing"}
    /\ tunnel' = [tunnel EXCEPT ![c] = "open"]
    /\ Ends(c)
    /\ UNCHANGED <<loop, accepted, signalled, broadcast, handshakeLeft, drainLeft>>

\* relay_tunnel ends (see Tunnel).
TunnelEnds(c) ==
    /\ tunnel[c] = "open"
    /\ tunnel' = [tunnel EXCEPT ![c] = "none"]
    /\ UNCHANGED <<loop, accepted, conn, permits, signalled, broadcast,
                   handshakeLeft, drainLeft>>

\* Mutant: a tunnel does not watch for shutdown.
TunnelShutdownNever(c) ==
    /\ FALSE
    /\ UNCHANGED vars

\* wait_for_shutdown resolves; it never does when the sender was dropped unsent.
TunnelShutdown(c) ==
    /\ tunnel[c] = "open" /\ broadcast
    /\ tunnel' = [tunnel EXCEPT ![c] = "none"]
    /\ UNCHANGED <<loop, accepted, conn, permits, signalled, broadcast,
                   handshakeLeft, drainLeft>>

-------------------------------------------------------------------------------

Timing(c) == conn[c] = "handshake"

\* Time passes once every timer that is due has fired.
Tick ==
    /\ loop = "draining" => drainLeft > 0
    /\ \A c \in Conns : Timing(c) => handshakeLeft[c] > 0
    /\ loop = "draining" \/ \E c \in Conns : Timing(c)
    /\ drainLeft' = IF loop = "draining" THEN drainLeft - 1 ELSE drainLeft
    /\ handshakeLeft' = [c \in Conns |-> IF Timing(c) THEN handshakeLeft[c] - 1
                                         ELSE handshakeLeft[c]]
    /\ UNCHANGED <<loop, accepted, conn, tunnel, permits, signalled, broadcast>>

Task(c) ==
    \/ TlsAccepted(c) \/ HandshakeDone(c) \/ HandshakeExpired(c) \/ Finish(c)
    \/ ObserveClose(c) \/ Reap(c) \/ Upgrade(c) \/ Upgraded(c)
    \/ TunnelEnds(c) \/ TunnelShutdown(c)

Next ==
    \/ Signal \/ Acquire \/ AcceptError \/ ObserveShutdown \/ Drained \/ DrainExpired
    \/ \E c \in Conns : Connect(c) \/ Accept(c) \/ Task(c)
    \/ Tick

Spec == Init /\ [][Next]_vars

\* What the runtime guarantees: a ready branch, a due timer and an aborted task
\* get their turn.  select! picks among ready branches at random, so that the
\* shutdown branch is not passed over for ever.  Nothing is assumed of clients.
Fairness ==
    /\ WF_vars(Acquire) /\ SF_vars(ObserveShutdown)
    /\ WF_vars(Drained) /\ WF_vars(DrainExpired) /\ WF_vars(Tick)
    /\ \A c \in Conns :
         /\ WF_vars(HandshakeExpired(c)) /\ WF_vars(ObserveClose(c)) /\ WF_vars(Reap(c))
         /\ WF_vars(Upgraded(c)) /\ WF_vars(TunnelShutdown(c))

LiveSpec == Spec /\ Fairness

-------------------------------------------------------------------------------

\* No permit is lost or returned twice, on whichever path a task ends: success,
\* error, timeout, upgrade, abort.
PermitsBalance ==
    permits + Cardinality({c \in Conns : Running(c)}) = MaxConns

\* When listening has returned no task is left but those being aborted.
NoTaskLeftBehind ==
    Ended => \A c \in Conns : conn[c] \in {"none", "aborting"}

\* Without an error of accept a connection is cut off only after the whole drain
\* timeout.
AbortedOnlyAfterDrain ==
    (\E c \in Conns : conn[c] = "aborting") => loop = "failed" \/ drainLeft = 0

AsListener ==
    INSTANCE Listener WITH
        state <- IF loop \in {"accepting", "waiting"} THEN "listening" ELSE loop

\* To its caller the accept loop with all its tasks is the listener of module
\* Listener: it returns Ok only after the shutdown it was given and a drain, and an
\* error of accept is never turned into Ok.
ImplementsListener == AsListener!Spec

\* Once shutdown is signalled, listening returns, even if no client cooperates,
\* unless from some time on every permit stays taken.
ShutdownReturns == []<>(permits > 0) => (signalled ~> Ended)

\* A client that stalls in the CONNECT handshake does not keep its permit.
HandshakeEnds == \A c \in Conns : conn[c] = "handshake" ~> conn[c] # "handshake"

\* A shutdown that is broadcast tears down every tunnel.
TunnelsEnd == \A c \in Conns : broadcast /\ tunnel[c] # "none" ~> tunnel[c] = "none"

\* What the documentation says of drain_timeout: after the signal, connections get
\* that long to complete and are then aborted, whatever they do.
ShutdownAlwaysReturns == signalled ~> Ended

===============================================================================

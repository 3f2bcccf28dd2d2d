------------------------------ MODULE ProxyProofs ------------------------------
(***************************************************************************)
(* For every connection limit, mode and set of timeouts: permits are       *)
(* neither lost nor returned twice, listening returns with no task left    *)
(* but those it has aborted, and a forward connection is served only if    *)
(* the first request on it opened it.                                      *)
(*                                                                         *)
(* And for every number of listeners: the process outlives its listeners,  *)
(* its exit status is theirs, none of them stops without a cause, and each *)
(* is a listener as module Listener describes it.                          *)
(***************************************************************************)
EXTENDS Handshake, Supervisor, FiniteSetTheorems, TLAPS

Tasks == {c \in Conns : Running(c)}

\* The stream that waits for a permit is the one the loop accepted.
AcceptedIsHeld ==
    /\ loop = "waiting" <=> accepted # None
    /\ \A c \in Conns : conn[c] = "accepted" <=> accepted = c

ProxyInv ==
    TypeOK /\ AcceptedIsHeld /\ PermitsBalance /\ NoTaskLeftBehind /\ AbortedOnlyAfterDrain

-------------------------------------------------------------------------------

\* The permit account of a step that starts or ends no task.
LEMMA SameTasks ==
    ASSUME PermitsBalance, permits' = permits,
           \A c \in Conns : Running(c)' <=> Running(c)
    PROVE  PermitsBalance'
  <1>1. {c \in Conns : Running(c)}' = {c \in Conns : Running(c)}
    BY Zenon
  <1> QED BY <1>1, Zenon DEF PermitsBalance

\* The permit account of a task that ends.
LEMMA TaskEnds ==
    ASSUME TypeOK, PermitsBalance, NEW c \in Conns, Running(c), Ends(c)
    PROVE  PermitsBalance' /\ permits' \in 0..MaxConns
  <1>1. IsFiniteSet(Tasks) /\ c \in Tasks
    BY ProxyConstants, FS_Subset, Zenon DEF Tasks
  <1>2. Tasks' = Tasks \ {c}
    BY Zenon DEF Tasks, Running, Ends, TypeOK, Handled
  <1>3. Cardinality(Tasks') = Cardinality(Tasks) - 1 /\ Cardinality(Tasks) \in Nat
    BY <1>1, <1>2, FS_RemoveElement, FS_CardinalityType, Zenon
  <1>4. IsFiniteSet(Tasks \ {c})
    BY <1>1, FS_RemoveElement, Zenon
  <1>5. Cardinality(Tasks') \in Nat
    BY <1>2, <1>4, FS_CardinalityType, Zenon
  <1>6. permits + Cardinality(Tasks) = MaxConns
    BY Zenon DEF PermitsBalance, Tasks
  <1>7. permits' + Cardinality(Tasks') = MaxConns /\ permits' \in 0..MaxConns
    BY <1>3, <1>5, <1>6, ProxyConstants DEF Ends, TypeOK
  <1> QED BY <1>7, Zenon DEF PermitsBalance, Tasks

\* The permit account of a task that is spawned.
LEMMA TaskStarts ==
    ASSUME ProxyInv, Acquire
    PROVE  PermitsBalance'
  <1>1. accepted \in Conns /\ conn[accepted] = "accepted"
    BY Zenon DEF ProxyInv, TypeOK, AcceptedIsHeld, Acquire
  <1>2. IsFiniteSet(Tasks) /\ accepted \notin Tasks
    BY <1>1, ProxyConstants, FS_Subset, Zenon DEF Tasks, Running, Handled
  <1>3. Tasks' = Tasks \cup {accepted}
    BY <1>1, Zenon DEF Tasks, Running, Acquire, ProxyInv, TypeOK, Handled, FirstPhase
  <1>4. Cardinality(Tasks') = Cardinality(Tasks) + 1 /\ Cardinality(Tasks) \in Nat
    BY <1>2, <1>3, FS_AddElement, FS_CardinalityType, Zenon
  <1>5. permits + Cardinality(Tasks) = MaxConns
    BY Zenon DEF ProxyInv, PermitsBalance, Tasks
  <1>6. permits' + Cardinality(Tasks') = MaxConns
    BY <1>4, <1>5, ProxyConstants DEF Acquire, ProxyInv, TypeOK
  <1> QED BY <1>6, Zenon DEF PermitsBalance, Tasks

\* The invariant holds when listening starts.
THEOREM ProxyInit == Init => ProxyInv
  <1> SUFFICES ASSUME Init PROVE ProxyInv
    BY Zenon
  <1>1. TypeOK
    <2>1. signalled \in BOOLEAN /\ broadcast \in BOOLEAN
      BY Zenon DEF Init
    <2>2. permits \in 0..MaxConns /\ drainLeft \in 0..DrainTimeout
      BY ProxyConstants DEF Init
    <2>3. handshakeLeft \in [Conns -> 0..HandshakeTimeout]
      BY ProxyConstants DEF Init
    <2> QED BY <2>1, <2>2, <2>3, Zenon DEF Init, TypeOK
  <1>2. AcceptedIsHeld /\ NoTaskLeftBehind /\ AbortedOnlyAfterDrain
    BY ProxyConstants, Zenon DEF Init, AcceptedIsHeld, NoTaskLeftBehind, AbortedOnlyAfterDrain, Ended
  <1>3. PermitsBalance
    <2>1. {c \in Conns : Running(c)} = {}
      BY Zenon DEF Init, Running, Handled
    <2> QED BY <2>1, FS_EmptySet, ProxyConstants DEF Init, PermitsBalance
  <1> QED BY <1>1, <1>2, <1>3, Zenon DEF ProxyInv

\* The steps of the accept loop and of its environment keep the invariant.
LEMMA LoopKeeps ==
    ASSUME ProxyInv,
           \/ Signal \/ Acquire \/ AcceptError \/ ObserveShutdown \/ Drained \/ DrainExpired
           \/ \E c \in Conns : Connect(c) \/ Accept(c)
    PROVE  ProxyInv'
  <1> USE DEF ProxyInv, NoTaskLeftBehind, AbortedOnlyAfterDrain, AcceptedIsHeld, Ended
  <1>1. CASE Signal \/ ObserveShutdown
    <2>1. signalled' \in BOOLEAN /\ broadcast' \in BOOLEAN
      BY <1>1, Zenon DEF Signal, ObserveShutdown, TypeOK
    <2>2. TypeOK'
      BY <1>1, <2>1, Zenon DEF Signal, ObserveShutdown, TypeOK
    <2>3. PermitsBalance'
      BY <1>1, SameTasks, Zenon DEF Signal, ObserveShutdown, Running
    <2> QED BY <1>1, <2>2, <2>3, Zenon DEF Signal, ObserveShutdown
  <1>2. CASE Acquire
    <2>1. accepted \in Conns /\ FirstPhase \in Handled \ {"aborting"}
      BY <1>2, Zenon DEF Acquire, TypeOK, FirstPhase, Handled
    <2>2. TypeOK'
      BY <1>2, <2>1, ProxyConstants DEF Acquire, TypeOK
    <2>3. AcceptedIsHeld' /\ NoTaskLeftBehind' /\ AbortedOnlyAfterDrain'
      BY <1>2, <2>1, ProxyConstants, Zenon DEF Acquire, TypeOK, Handled
    <2> QED BY <1>2, <2>2, <2>3, TaskStarts, Zenon
  <1>3. CASE AcceptError \/ Drained \/ DrainExpired
    <2>1. TypeOK'
      BY <1>3, Zenon DEF AcceptError, Drained, DrainExpired, TypeOK, Handled
    <2>2. PermitsBalance'
      BY <1>3, SameTasks, Zenon DEF AcceptError, Drained, DrainExpired, Running, Handled
    <2>3. accepted = None
      BY <1>3, Zenon DEF AcceptError, Drained, DrainExpired
    <2>4. AcceptedIsHeld'
      BY <1>3, <2>3, ProxyConstants, Zenon DEF AcceptError, Drained, DrainExpired, Handled
    <2>5. NoTaskLeftBehind' /\ AbortedOnlyAfterDrain'
      BY <1>3, Zenon DEF AcceptError, Drained, DrainExpired
    <2> QED BY <2>1, <2>2, <2>4, <2>5, Zenon
  <1>4. ASSUME NEW c \in Conns, Connect(c) \/ Accept(c) PROVE ProxyInv'
    <2>1. TypeOK'
      BY <1>4, Zenon DEF Connect, Accept, TypeOK
    <2>2. PermitsBalance'
      BY <1>4, SameTasks DEF Connect, Accept, Running, Handled, TypeOK
    <2>3. AcceptedIsHeld'
      BY <1>4, ProxyConstants DEF Connect, Accept, TypeOK
    <2>4. NoTaskLeftBehind' /\ AbortedOnlyAfterDrain'
      BY <1>4 DEF Connect, Accept, TypeOK
    <2> QED BY <2>1, <2>2, <2>3, <2>4, Zenon
  <1> QED BY <1>1, <1>2, <1>3, <1>4, Zenon

\* The steps of a connection's task and of its tunnel keep the invariant.
LEMMA TaskKeeps ==
    ASSUME ProxyInv, NEW c \in Conns, Task(c)
    PROVE  ProxyInv'
  <1> USE DEF ProxyInv, NoTaskLeftBehind, AbortedOnlyAfterDrain, AcceptedIsHeld, Ended
  <1>1. CASE TlsAccepted(c) \/ HandshakeDone(c) \/ ObserveClose(c)
    <2>1. TypeOK'
      BY <1>1, ProxyConstants DEF TlsAccepted, HandshakeDone, ObserveClose, TypeOK, Handled
    <2>2. PermitsBalance'
      BY <1>1, SameTasks, Zenon DEF TlsAccepted, HandshakeDone, ObserveClose, Running, Handled, TypeOK
    <2> QED BY <1>1, <2>1, <2>2 DEF TlsAccepted, HandshakeDone, ObserveClose, TypeOK
  <1>2. CASE HandshakeExpired(c) \/ Finish(c) \/ Reap(c) \/ Upgraded(c)
    <2>1. Running(c) /\ Ends(c)
      BY <1>2, Zenon DEF HandshakeExpired, Finish, Reap, Upgraded, Running, Handled
    <2>2. PermitsBalance' /\ permits' \in 0..MaxConns
      BY <2>1, TaskEnds, Zenon
    <2>3. TypeOK'
      BY <1>2, <2>1, <2>2, Zenon DEF HandshakeExpired, Finish, Reap, Upgraded, Ends, TypeOK, Handled
    <2>4. UNCHANGED <<loop, accepted, drainLeft>>
      BY <1>2, Zenon DEF HandshakeExpired, Finish, Reap, Upgraded
    <2> QED BY <2>1, <2>2, <2>3, <2>4, Zenon DEF Ends, Running, Handled, TypeOK
  <1>3. CASE Upgrade(c) \/ TunnelEnds(c) \/ TunnelShutdown(c)
    <2>1. TypeOK'
      BY <1>3, Zenon DEF Upgrade, TunnelEnds, TunnelShutdown, TypeOK
    <2>2. PermitsBalance'
      BY <1>3, SameTasks, Zenon DEF Upgrade, TunnelEnds, TunnelShutdown, Running
    <2> QED BY <1>3, <2>1, <2>2, Zenon DEF Upgrade, TunnelEnds, TunnelShutdown
  <1> QED BY <1>1, <1>2, <1>3, Zenon DEF Task

\* Every step keeps the invariant.
THEOREM ProxyStep == ProxyInv /\ [Next]_vars => ProxyInv'
  <1> SUFFICES ASSUME ProxyInv, [Next]_vars PROVE ProxyInv'
    BY Zenon
  <1>1. CASE Tick
    <2>1. TypeOK'
      BY <1>1, ProxyConstants DEF Tick, TypeOK, ProxyInv
    <2>2. PermitsBalance'
      BY <1>1, SameTasks, Zenon DEF Tick, Running, ProxyInv
    <2>3. AbortedOnlyAfterDrain'
      BY <1>1, ProxyConstants DEF Tick, TypeOK, ProxyInv, AbortedOnlyAfterDrain
    <2> QED BY <1>1, <2>1, <2>2, <2>3, Zenon DEF Tick, ProxyInv, AcceptedIsHeld, NoTaskLeftBehind, Ended
  <1>2. CASE UNCHANGED vars
    BY <1>2, Zenon DEF vars, ProxyInv, TypeOK, AcceptedIsHeld, PermitsBalance, NoTaskLeftBehind,
       AbortedOnlyAfterDrain, Ended, Running
  <1> QED BY <1>1, <1>2, LoopKeeps, TaskKeeps, Zenon DEF Next

\* The inductive invariant holds in every behaviour.
THEOREM ProxyInvariant == Spec => []ProxyInv
  BY ProxyInit, ProxyStep, PTL DEF Spec

\* The semaphore's account balances on every path.
THEOREM PermitsAreConserved == Spec => []PermitsBalance
  <1>1. ProxyInv => PermitsBalance
    BY Zenon DEF ProxyInv
  <1> QED BY <1>1, ProxyInvariant, PTL

\* Listening returns with no running task but the aborted ones.
THEOREM ReturnsClean == Spec => []NoTaskLeftBehind
  <1>1. ProxyInv => NoTaskLeftBehind
    BY Zenon DEF ProxyInv
  <1> QED BY <1>1, ProxyInvariant, PTL

\* Connections are cut off only after the drain timeout.
THEOREM DrainIsHonoured == Spec => []AbortedOnlyAfterDrain
  <1>1. ProxyInv => AbortedOnlyAfterDrain
    BY Zenon DEF ProxyInv
  <1> QED BY <1>1, ProxyInvariant, PTL

\* The accept loop with all its tasks implements module Listener: a caller sees it
\* listen, drain after the shutdown and return, or fail, and nothing else.
THEOREM ListenerImplemented == Spec => ImplementsListener
  <1>1. Init => AsListener!Init
    BY Zenon DEF Init, AsListener!Init
  <1>2. TypeOK /\ [Next]_vars => [AsListener!Next]_(AsListener!vars)
    <2> SUFFICES ASSUME TypeOK, [Next]_vars
                 PROVE  AsListener!Next \/ UNCHANGED AsListener!vars
      BY Zenon
    <2> USE DEF AsListener!Next, AsListener!vars
    <2>1. CASE Signal
      BY <2>1, Zenon DEF Signal, AsListener!Signal
    <2>2. CASE AcceptError
      BY <2>2, Zenon DEF AcceptError, AsListener!Fail
    <2>3. CASE ObserveShutdown
      BY <2>3, Zenon DEF ObserveShutdown, AsListener!Observe
    <2>4. CASE Drained \/ DrainExpired
      BY <2>4, Zenon DEF Drained, DrainExpired, AsListener!Return
    <2>5. CASE Acquire \/ \E c \in Conns : Accept(c)
      BY <2>5, Zenon DEF Acquire, Accept
    <2>6. CASE \E c \in Conns : Connect(c) \/ Task(c)
      BY <2>6, Zenon DEF Connect, Task, TlsAccepted, HandshakeDone, HandshakeExpired, Finish,
         ObserveClose, Reap, Upgrade, Upgraded, TunnelEnds, TunnelShutdown
    <2>7. CASE Tick \/ UNCHANGED vars
      BY <2>7, Zenon DEF Tick, vars
    <2> QED BY <2>1, <2>2, <2>3, <2>4, <2>5, <2>6, <2>7, Zenon DEF Next
  <1>3. ProxyInv => TypeOK
    BY Zenon DEF ProxyInv
  <1> QED BY <1>1, <1>2, <1>3, ProxyInvariant, PTL DEF Spec, ImplementsListener, AsListener!Spec

-------------------------------------------------------------------------------

\* What the stage of a handshake and its channel tell of the first request: a refusal
\* is sent before any later request can be granted.
OpenedInv ==
    /\ HandshakeTypeOK
    /\ \A c \in Conns :
         /\ oneshot[c] = "opened" => first[c] # None /\ Opens(first[c])
         /\ stage[c] = "http" => oneshot[c] # "opened"
         /\ stage[c] = "http" /\ first[c] # None => oneshot[c] = "refused"
         /\ stage[c] = "upgrading" =>
              first[c] # None /\ (oneshot[c] = "unsent" => Opens(first[c]))
         /\ stage[c] = "inner" => oneshot[c] = "opened"
         /\ Forward /\ conn[c] \in {"serving", "closing"} => oneshot[c] = "opened"

\* In forward mode a connection is served after its handshake and no other phase.
LEMMA ServedAfterHandshake ==
    ASSUME TypeOK, Next, Forward, NEW c \in Conns, conn'[c] \in {"serving", "closing"}
    PROVE  conn[c] \in {"serving", "closing"} \/ (conn[c] = "handshake" /\ conn'[c] = "serving")
  <1>1. CASE Signal \/ AcceptError \/ ObserveShutdown \/ Drained \/ DrainExpired \/ Tick
    BY <1>1, Zenon DEF Signal, AcceptError, ObserveShutdown, Drained, DrainExpired, Tick
  <1>2. CASE Acquire
    BY <1>2, Zenon DEF Acquire, FirstPhase, TypeOK
  <1>3. ASSUME NEW d \in Conns, Connect(d) \/ Accept(d)
        PROVE  conn[c] \in {"serving", "closing"}
    BY <1>3, Zenon DEF Connect, Accept, TypeOK
  <1>4. ASSUME NEW d \in Conns, Task(d)
        PROVE  conn[c] \in {"serving", "closing"} \/ (conn[c] = "handshake" /\ conn'[c] = "serving")
    BY <1>4, Zenon DEF Task, TlsAccepted, HandshakeDone, HandshakeExpired, Finish, ObserveClose,
       Reap, Upgrade, Upgraded, TunnelEnds, TunnelShutdown, Ends, TypeOK
  <1> QED BY <1>1, <1>2, <1>3, <1>4, Zenon DEF Next

\* Every step keeps what is known of the first request.
LEMMA OpenedKeeps ==
    ASSUME TypeOK, OpenedInv, [HandshakeNext]_<<vars, handshakeVars>>
    PROVE  OpenedInv'
  <1> USE DEF OpenedInv, HandshakeTypeOK
  <1>1. CASE ConnStep
    <2>1. HandshakeTypeOK'
      BY <1>1, Zenon DEF ConnStep
    <2>2. ASSUME NEW c \in Conns, Forward, conn'[c] \in {"serving", "closing"}
          PROVE  oneshot'[c] = "opened"
      <3>1. conn[c] \in {"serving", "closing"} \/ (conn[c] = "handshake" /\ conn'[c] = "serving")
        BY <1>1, <2>2, ServedAfterHandshake, Zenon DEF ConnStep
      <3>2. oneshot[c] = "opened"
        BY <1>1, <2>2, <3>1, Zenon DEF ConnStep
      <3> QED BY <1>1, <2>2, <3>2, Zenon DEF ConnStep, Afresh
    <2> QED BY <1>1, <2>1, <2>2, Zenon DEF ConnStep
  <1>2. ASSUME NEW c \in Conns, NEW r \in Openings, Request(c, r) PROVE OpenedInv'
    <2>1. UNCHANGED conn /\ r # None
      BY <1>2, HandshakeConstants, Zenon DEF Request, vars
    <2>2. CASE Opens(r)
      BY <1>2, <2>1, <2>2, Zenon DEF Request
    <2>3. CASE ~Opens(r)
      BY <1>2, <2>1, <2>3, Zenon DEF Request, Sent
    <2> QED BY <2>2, <2>3, Zenon
  <1>3. ASSUME NEW c \in Conns, NEW outcome \in {"opened", "refused"}, Resolve(c, outcome)
        PROVE  OpenedInv'
    BY <1>3, Zenon DEF Resolve, Sent, vars
  <1>4. ASSUME NEW c \in Conns, HangUp(c) \/ Receive(c) PROVE OpenedInv'
    BY <1>4, Zenon DEF HangUp, Receive, vars
  <1>5. CASE UNCHANGED <<vars, handshakeVars>>
    BY <1>5, Zenon DEF vars, handshakeVars
  <1> QED BY <1>1, <1>2, <1>3, <1>4, <1>5, Zenon DEF HandshakeNext, Open

\* The proxy with its handshake in detail is the proxy of module Proxy, of which
\* all of the above holds.
THEOREM HandshakeEmbedded == HandshakeSpec => Spec
  <1>1. HandshakeInit => Init
    BY Zenon DEF HandshakeInit
  <1>2. [HandshakeNext]_<<vars, handshakeVars>> => [Next]_vars
    BY Zenon DEF HandshakeNext, ConnStep, Open, Request, Resolve, HangUp, Receive
  <1> QED BY <1>1, <1>2, PTL DEF HandshakeSpec, Spec

\* The very first request on a served forward connection was a CONNECT that handshake()
\* accepts, credentials included, whatever the client sent after a refusal.
THEOREM OnlyFirstOpens == HandshakeSpec => []OpenedByFirst
  <1>1. HandshakeInit => OpenedInv
    BY Zenon DEF HandshakeInit, Init, OpenedInv, HandshakeTypeOK
  <1>2. TypeOK /\ OpenedInv /\ [HandshakeNext]_<<vars, handshakeVars>> => OpenedInv'
    BY OpenedKeeps, Zenon
  <1>3. Spec => []TypeOK
    <2>1. ProxyInv => TypeOK
      BY DEF ProxyInv
    <2> QED BY <2>1, ProxyInvariant, PTL
  <1>4. OpenedInv => OpenedByFirst
    BY Zenon DEF OpenedInv, OpenedByFirst
  <1> QED BY <1>1, <1>2, <1>3, <1>4, HandshakeEmbedded, PTL DEF HandshakeSpec

-------------------------------------------------------------------------------
(* The process around the listeners.                                       *)


\* Until the main task joins, nothing has been sent.
QuietStart ==
    /\ main \in {"health", "spawning"} =>
         sent = 0 /\ joined = {} /\ firstErr = NoError /\ signal = "none"
    /\ main = "health" => \A l \in Listeners : task[l] = "none"

\* A failed health endpoint ends the process before there are listeners.
HealthFirst == firstErr = "health" => main = "exited" /\ \A l \in Listeners : task[l] = "none"

\* What has been joined is over; the error kept is that of a broken listener, and
\* there is one if any broken listener has been joined.
JoinedAreOver ==
    /\ \A l \in joined : task[l] \in Over
    /\ firstErr \in Listeners => firstErr \in joined /\ Broken(firstErr)
    /\ firstErr = NoError => \A l \in joined : ~Broken(l)
    /\ main = "exited" /\ firstErr # "health" => joined = Listeners

\* Whatever is sent has a cause, and whoever drains has been sent something.
SentForCause ==
    /\ sent > 0 => signal = "done" \/ \E k \in joined : Broken(k)
    /\ \A l \in Listeners : task[l] \in {"draining", "returned"} => sent > 0

SupervisorInv == ProcessTypeOK /\ QuietStart /\ HealthFirst /\ JoinedAreOver /\ SentForCause

-------------------------------------------------------------------------------

\* The invariant holds when the process starts.
THEOREM SupervisorInit == ProcessInit => SupervisorInv
  BY SupervisorConstants DEF ProcessInit, SupervisorInv, ProcessTypeOK, QuietStart, HealthFirst, JoinedAreOver,
     SentForCause, Receivers, Listeners, Underway, Over, Broken

\* Starting, joining and ending, in the main task, keep it.
LEMMA MainKeeps ==
    ASSUME SupervisorInv,
           \/ StartHealth \/ HealthFails \/ SpawnSignal \/ Exit
           \/ \E l \in Listeners : SpawnListener(l)
    PROVE  SupervisorInv'
  <1> USE SupervisorConstants DEF SupervisorInv, ProcessTypeOK, QuietStart, HealthFirst, JoinedAreOver,
        SentForCause, Receivers, Underway, Over, Broken
  <1>1. CASE StartHealth
    BY <1>1 DEF StartHealth
  <1>2. CASE HealthFails
    <2>1. /\ main' = "exited" /\ firstErr' = "health" /\ "health" # NoError /\ "health" \notin Listeners
          /\ UNCHANGED <<task, rx, sent, signal, health, joined>> /\ joined = {} /\ sent = 0
          /\ \A l \in Listeners : task[l] = "none"
      BY <1>2, Zenon DEF HealthFails, Listeners
    <2> QED BY <2>1, Zenon
  <1>3. CASE SpawnSignal
    BY <1>3, Zenon DEF SpawnSignal
  <1>4. CASE Exit
    BY <1>4, Zenon DEF Exit
  <1>5. ASSUME NEW l \in Listeners, SpawnListener(l) PROVE SupervisorInv'
    BY <1>5 DEF SpawnListener
  <1> QED BY <1>1, <1>2, <1>3, <1>4, <1>5, Zenon

\* Joining a listener keeps it: an error that is broadcast is the error of one joined.
LEMMA JoinKeeps ==
    ASSUME SupervisorInv, NEW l \in Listeners, Join(l)
    PROVE  SupervisorInv'
  <1> USE SupervisorConstants DEF SupervisorInv, ProcessTypeOK, QuietStart, HealthFirst, JoinedAreOver,
        SentForCause, Receivers, Underway, Over, Broken
  <1>1. CASE task[l] = "returned"
    BY <1>1, Zenon DEF Join
  <1>2. CASE task[l] # "returned"
    <2>1. /\ sent' = sent + 1 /\ joined' = joined \cup {l} /\ UNCHANGED <<main, task, rx, signal, health>>
          /\ firstErr' = (IF firstErr = NoError THEN l ELSE firstErr)
          /\ main = "joining" /\ Broken(l)
      BY <1>2, Zenon DEF Join
    <2>2. ProcessTypeOK'
      BY <2>1
    <2>3. QuietStart' /\ SentForCause'
      BY <2>1
    <2>4. HealthFirst'
      <3>1. firstErr # "health" /\ l # "health"
        BY <2>1, Zenon DEF Listeners
      <3> QED BY <2>1, <3>1, Zenon
    <2>5. JoinedAreOver'
      BY <2>1, Zenon
    <2> QED BY <2>2, <2>3, <2>4, <2>5, Zenon
  <1> QED BY <1>1, <1>2, Zenon

\* The listeners' own steps, the signal and the health endpoint keep it.
LEMMA TasksKeep ==
    ASSUME SupervisorInv,
           \/ OsSignal \/ HealthStops
           \/ \E l \in Listeners : \/ Observe(l) \/ Return(l)
                                   \/ \E ok \in BOOLEAN : Bind(l, ok)
                                   \/ \E how \in {"failed", "panicked"} : Breaks(l, how)
    PROVE  SupervisorInv'
  <1> USE SupervisorConstants DEF SupervisorInv, ProcessTypeOK, QuietStart, HealthFirst, JoinedAreOver,
        SentForCause, Receivers, Underway, Over, Broken
  <1>1. CASE OsSignal
    BY <1>1 DEF OsSignal
  <1>2. CASE HealthStops
    BY <1>2, Zenon DEF HealthStops
  <1>3. ASSUME NEW l \in Listeners, Observe(l) PROVE SupervisorInv'
    BY <1>3 DEF Observe, Notified
  <1>4. ASSUME NEW l \in Listeners, Return(l) PROVE SupervisorInv'
    BY <1>4, Zenon DEF Return
  <1>5. ASSUME NEW l \in Listeners, NEW ok \in BOOLEAN, Bind(l, ok) PROVE SupervisorInv'
    <2>1. /\ task[l] = "binding" /\ task' = [task EXCEPT ![l] = IF ok THEN "listening" ELSE "failed"]
          /\ UNCHANGED <<main, rx, sent, signal, health, joined, firstErr>>
      BY <1>5, Zenon DEF Bind
    <2>2. \A k \in Listeners \ {l} : task'[k] = task[k]
      BY <2>1, Zenon
    <2>3. l \notin joined /\ task'[l] \in {"listening", "failed"}
      BY <2>1, Zenon
    <2> QED BY <2>1, <2>2, <2>3
  <1>6. ASSUME NEW l \in Listeners, NEW how \in {"failed", "panicked"}, Breaks(l, how)
        PROVE  SupervisorInv'
    <2>1. /\ task[l] = "listening" /\ task' = [task EXCEPT ![l] = how]
          /\ UNCHANGED <<main, rx, sent, signal, health, joined, firstErr>>
      BY <1>6, Zenon DEF Breaks
    <2>2. \A k \in Listeners \ {l} : task'[k] = task[k]
      BY <2>1, Zenon
    <2>3. l \notin joined /\ task'[l] \in {"failed", "panicked"}
      BY <2>1, Zenon
    <2> QED BY <2>1, <2>2, <2>3
  <1> HIDE SupervisorConstants DEF SupervisorInv
  <1> QED BY <1>1, <1>2, <1>3, <1>4, <1>5, <1>6, Zenon

\* Every step keeps it.
THEOREM SupervisorStep == SupervisorInv /\ [ProcessNext]_processVars => SupervisorInv'
  <1> SUFFICES ASSUME SupervisorInv, [ProcessNext]_processVars PROVE SupervisorInv'
    BY Zenon
  <1>1. CASE UNCHANGED processVars
    BY <1>1 DEF processVars, SupervisorInv, ProcessTypeOK, QuietStart, HealthFirst, JoinedAreOver,
       SentForCause, Broken
  <1> QED BY <1>1, MainKeeps, JoinKeeps, TasksKeep, Zenon DEF ProcessNext

\* The inductive invariant holds in every behaviour.
THEOREM SupervisorInvariant == ProcessSpec => []SupervisorInv
  BY SupervisorInit, SupervisorStep, PTL DEF ProcessSpec

\* The process ends only after every listener it started.
THEOREM NobodyCutOff == ProcessSpec => []NoListenerCutOff
  <1>1. SupervisorInv => NoListenerCutOff
    BY Zenon DEF SupervisorInv, JoinedAreOver, NoListenerCutOff
  <1> QED BY <1>1, SupervisorInvariant, PTL

\* The exit status reports an error exactly if a listener failed or panicked.
THEOREM TruthfulExit == ProcessSpec => []ExitTellsFailure
  <1>1. SupervisorInv => ExitTellsFailure
    BY SupervisorConstants, Zenon DEF SupervisorInv, JoinedAreOver, ExitTellsFailure
  <1> QED BY <1>1, SupervisorInvariant, PTL

\* A listener drains only after an OS signal or the failure of another.
THEOREM StopsForCause == ProcessSpec => []NoSpuriousStop
  <1>1. SupervisorInv => NoSpuriousStop
    BY Zenon DEF SupervisorInv, JoinedAreOver, SentForCause, NoSpuriousStop, Broken, Over
  <1> QED BY <1>1, SupervisorInvariant, PTL

\* Each listener's task, with its receiver as the shutdown, is a Listener.
THEOREM TasksAreListeners == ProcessSpec => RunsListeners
  <1>1. ProcessInit => \A l \in Listeners : Abstract(l)!Init
    BY DEF ProcessInit, Abstract!Init, Notified, Receivers
  <1>2. SupervisorInv /\ [ProcessNext]_processVars =>
          [\A l \in Listeners : Abstract(l)!Next \/ UNCHANGED Abstract(l)!vars]_processVars
    <2> SUFFICES ASSUME SupervisorInv, ProcessNext, NEW l \in Listeners
                 PROVE  Abstract(l)!Next \/ UNCHANGED Abstract(l)!vars
      BY Zenon
    <2> USE DEF Abstract!Next, Abstract!vars, Notified
    <2>1. /\ sent \in Nat /\ rx \in [Receivers -> 0..sent] /\ l \in Receivers /\ l # "health"
          /\ task \in [Listeners -> {"none"} \cup Underway \cup Over]
      BY SupervisorConstants, Zenon DEF SupervisorInv, ProcessTypeOK, Receivers, Listeners
    <2>2. CASE StartHealth \/ HealthFails \/ SpawnSignal \/ Exit \/ HealthStops
      BY <2>1, <2>2, Zenon DEF StartHealth, HealthFails, SpawnSignal, Exit, HealthStops
    <2>3. ASSUME NEW k \in Listeners, SpawnListener(k)
          PROVE  UNCHANGED Abstract(l)!vars
      BY <2>1, <2>3 DEF SpawnListener, SupervisorInv, QuietStart
    <2>4. CASE OsSignal \/ \E k \in Listeners : Join(k)
      <3>1. UNCHANGED <<task, rx>> /\ (sent' = sent \/ sent' = sent + 1)
        BY <2>4, Zenon DEF OsSignal, Join
      <3>2. sent > rx[l] => sent' > rx'[l]
        BY <2>1, <3>1
      <3>3. CASE sent' = sent
        BY <3>1, <3>3, Zenon
      <3>4. CASE sent' = sent + 1
        <4>1. sent' > rx'[l]
          BY <2>1, <3>1, <3>4
        <4> QED BY <3>1, <4>1, Zenon DEF Abstract!Signal
      <3> QED BY <3>1, <3>3, <3>4, Zenon
    <2>5. ASSUME NEW k \in Listeners, NEW ok \in BOOLEAN, Bind(k, ok)
          PROVE  Abstract(l)!Fail \/ UNCHANGED Abstract(l)!vars
      BY <2>1, <2>5 DEF Bind, Abstract!Fail
    <2>6. ASSUME NEW k \in Listeners, NEW how \in {"failed", "panicked"}, Breaks(k, how)
          PROVE  Abstract(l)!Fail \/ UNCHANGED Abstract(l)!vars
      BY <2>1, <2>6, Zenon DEF Breaks, Abstract!Fail
    <2>7. ASSUME NEW k \in Listeners, Observe(k)
          PROVE  Abstract(l)!Observe \/ UNCHANGED Abstract(l)!vars
      BY <2>1, <2>7 DEF Observe, Abstract!Observe
    <2>8. ASSUME NEW k \in Listeners, Return(k)
          PROVE  Abstract(l)!Return \/ UNCHANGED Abstract(l)!vars
      BY <2>1, <2>8 DEF Return, Abstract!Return
    <2> QED BY <2>2, <2>3, <2>4, <2>5, <2>6, <2>7, <2>8, Zenon DEF ProcessNext
  <1> QED BY <1>1, <1>2, SupervisorInvariant, PTL DEF ProcessSpec, RunsListeners

===============================================================================

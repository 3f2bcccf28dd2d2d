------------------------------ MODULE Supervisor ------------------------------
(***************************************************************************)
(* The process around the listeners: the second half of apply_cli_and_run  *)
(* in src/main.rs, os_shutdown_signal and serve_health.  The main task     *)
(* binds the health endpoint, spawns a task per listener, spawns the task  *)
(* that waits for an OS signal and then joins the listeners; the first     *)
(* signal or failure is broadcast to all of them.                          *)
(*                                                                         *)
(* The broadcast channel is tokio's with capacity 1: a receiver sees what  *)
(* is sent after it subscribed.  One that is overrun gets an error instead *)
(* of the value, and every caller ignores which of the two it was, so a    *)
(* position in the stream of values is all there is to a receiver.         *)
(***************************************************************************)
EXTENDS Naturals, FiniteSets

CONSTANTS
    Configured,  \* listeners of the configuration file
    FromCli,     \* the listener made from the command line if there are none
    HealthAddr,  \* health_addr is set
    NoError      \* first_err is None

ASSUME SupervisorConstants ==
    /\ IsFiniteSet(Configured) /\ FromCli \notin Configured /\ HealthAddr \in BOOLEAN
    /\ NoError \notin Configured \cup {FromCli, "health"}
    /\ "health" \notin Configured \cup {FromCli}

VARIABLES
    main,     \* where the main task stands
    task,     \* per listener: its task
    rx,       \* per receiver: its position in the channel
    sent,     \* values sent
    signal,   \* the task that waits for an OS signal
    health,   \* the task of the health endpoint
    joined,   \* listeners returned by join_next
    firstErr  \* first_err: whose error it is

processVars == <<main, task, rx, sent, signal, health, joined, firstErr>>

\* What is started: into_listeners refuses an empty configuration, so the command
\* line supplies a listener if the file has none.
Listeners == IF Configured = {} THEN {FromCli} ELSE Configured

Receivers == Listeners \cup {"health"}

Underway == {"binding", "listening", "draining"}

Over == {"returned", "failed", "panicked"}

ProcessTypeOK ==
    /\ main \in {"health", "spawning", "joining", "exited"}
    /\ task \in [Listeners -> {"none"} \cup Underway \cup Over]
    /\ sent \in Nat
    /\ rx \in [Receivers -> 0..sent]
    /\ signal \in {"none", "waiting", "done", "dropped"}
    /\ health \in {"none", "serving", "stopped", "dropped"}
    /\ joined \subseteq Listeners
    /\ firstErr \in Listeners \cup {NoError, "health"}

ProcessInit ==
    /\ main = "health"
    /\ task = [l \in Listeners |-> "none"]
    /\ rx = [r \in Receivers |-> 0]
    /\ sent = 0
    /\ signal = "none" /\ health = "none"
    /\ joined = {} /\ firstErr = NoError

\* recv() resolves for r.
Notified(r) == sent > rx[r]

-------------------------------------------------------------------------------
(* The main task.                                                          *)

\* The health endpoint is bound, if it is wanted, and its task subscribes.
StartHealth ==
    /\ main = "health"
    /\ main' = "spawning"
    /\ health' = IF HealthAddr THEN "serving" ELSE "none"
    /\ rx' = [rx EXCEPT !["health"] = sent]
    /\ UNCHANGED <<task, sent, signal, joined, firstErr>>

\* Its address does not parse or cannot be bound: nothing is started.
HealthFails ==
    /\ main = "health" /\ HealthAddr
    /\ main' = "exited"
    /\ firstErr' = "health"
    /\ UNCHANGED <<task, rx, sent, signal, health, joined>>

\* shutdown_tx.subscribe() before the task of l is spawned.
SpawnListener(l) ==
    /\ main = "spawning" /\ task[l] = "none"
    /\ rx' = [rx EXCEPT ![l] = sent]
    /\ task' = [task EXCEPT ![l] = "binding"]
    /\ UNCHANGED <<main, sent, signal, health, joined, firstErr>>

SpawnSignal ==
    /\ main = "spawning" /\ \A l \in Listeners : task[l] # "none"
    /\ signal' = "waiting"
    /\ main' = "joining"
    /\ UNCHANGED <<task, rx, sent, health, joined, firstErr>>

\* Mutants: the others are not told of a failure; a panic counts as a normal end.
JoinSilent(l) ==
    /\ main = "joining" /\ task[l] \in Over /\ l \notin joined
    /\ joined' = joined \cup {l}
    /\ firstErr' = IF task[l] # "returned" /\ firstErr = NoError THEN l ELSE firstErr
    /\ UNCHANGED <<main, task, rx, sent, signal, health>>

JoinPanicIsOk(l) ==
    /\ main = "joining" /\ task[l] \in Over /\ l \notin joined
    /\ joined' = joined \cup {l}
    /\ IF task[l] # "failed"
       THEN UNCHANGED <<firstErr, sent>>
       ELSE firstErr' = (IF firstErr = NoError THEN l ELSE firstErr) /\ sent' = sent + 1
    /\ UNCHANGED <<main, task, rx, signal, health>>

\* join_next returns l.  The first error is kept, and every error is broadcast.
Join(l) ==
    /\ main = "joining" /\ task[l] \in Over /\ l \notin joined
    /\ joined' = joined \cup {l}
    /\ IF task[l] = "returned"
       THEN UNCHANGED <<firstErr, sent>>
       ELSE firstErr' = (IF firstErr = NoError THEN l ELSE firstErr) /\ sent' = sent + 1
    /\ UNCHANGED <<main, task, rx, signal, health>>

\* join_next returns None: the process ends, and its detached tasks with it.
Exit ==
    /\ main = "joining" /\ joined = Listeners
    /\ main' = "exited"
    /\ signal' = IF signal = "waiting" THEN "dropped" ELSE signal
    /\ health' = IF health = "serving" THEN "dropped" ELSE health
    /\ UNCHANGED <<task, rx, sent, joined, firstErr>>

-------------------------------------------------------------------------------
(* The other tasks.                                                        *)

\* The first SIGINT or SIGTERM; nobody waits for a later one.
OsSignal ==
    /\ signal = "waiting"
    /\ signal' = "done"
    /\ sent' = sent + 1
    /\ UNCHANGED <<main, task, rx, health, joined, firstErr>>

\* Mutant: the listener's task subscribes itself, once it is bound.
BindSubscribes(l, ok) ==
    /\ task[l] = "binding"
    /\ task' = [task EXCEPT ![l] = IF ok THEN "listening" ELSE "failed"]
    /\ rx' = [rx EXCEPT ![l] = sent]
    /\ UNCHANGED <<main, sent, signal, health, joined, firstErr>>

Bind(l, ok) ==
    /\ task[l] = "binding"
    /\ task' = [task EXCEPT ![l] = IF ok THEN "listening" ELSE "failed"]
    /\ UNCHANGED <<main, rx, sent, signal, health, joined, firstErr>>

\* accept() fails, or the task panics.
Breaks(l, how) ==
    /\ task[l] = "listening"
    /\ task' = [task EXCEPT ![l] = how]
    /\ UNCHANGED <<main, rx, sent, signal, health, joined, firstErr>>

Observe(l) ==
    /\ task[l] = "listening" /\ Notified(l)
    /\ task' = [task EXCEPT ![l] = "draining"]
    /\ UNCHANGED <<main, rx, sent, signal, health, joined, firstErr>>

Return(l) ==
    /\ task[l] = "draining"
    /\ task' = [task EXCEPT ![l] = "returned"]
    /\ UNCHANGED <<main, rx, sent, signal, health, joined, firstErr>>

\* serve_health leaves its accept loop.
HealthStops ==
    /\ health = "serving" /\ Notified("health")
    /\ health' = "stopped"
    /\ UNCHANGED <<main, task, rx, sent, signal, joined, firstErr>>

ProcessNext ==
    \/ StartHealth \/ HealthFails \/ SpawnSignal \/ Exit \/ OsSignal \/ HealthStops
    \/ \E l \in Listeners :
         \/ SpawnListener(l) \/ Join(l) \/ Observe(l) \/ Return(l)
         \/ \E ok \in BOOLEAN : Bind(l, ok)
         \/ \E how \in {"failed", "panicked"} : Breaks(l, how)

ProcessSpec == ProcessInit /\ [][ProcessNext]_processVars

\* Tasks that can go on do.  Nothing is assumed of signals and failures, nor that a
\* listener observes a shutdown (its accept loop may wait for a permit) or returns
\* (without a drain timeout it waits for its connections).
ProcessFairness ==
    /\ WF_processVars(StartHealth \/ HealthFails) /\ WF_processVars(SpawnSignal)
    /\ WF_processVars(Exit) /\ WF_processVars(HealthStops)
    /\ \A l \in Listeners :
         /\ WF_processVars(SpawnListener(l)) /\ WF_processVars(Join(l))
         /\ WF_processVars(\E ok \in BOOLEAN : Bind(l, ok))

ProcessLiveSpec == ProcessSpec /\ ProcessFairness

-------------------------------------------------------------------------------

Broken(l) == task[l] \in {"failed", "panicked"}

\* The process does not end over the heads of its listeners: unless the health
\* endpoint kept them from starting, all have ended by themselves.
NoListenerCutOff ==
    main = "exited" /\ firstErr # "health" =>
        \A l \in Listeners : task[l] \in Over /\ l \in joined

\* The exit status tells the truth: an error is reported exactly if a listener
\* failed or panicked, and it is the error of such a listener.
ExitTellsFailure ==
    /\ firstErr \in Listeners => Broken(firstErr)
    /\ main = "exited" /\ firstErr = NoError => \A l \in Listeners : ~Broken(l)

\* No listener stops for nothing: one that drains was told to by an OS signal or by
\* the failure of another, and one that returned Ok has drained.
NoSpuriousStop ==
    \A l \in Listeners : task[l] \in {"draining", "returned"} =>
        signal = "done" \/ \E k \in joined \ {l} : Broken(k)

\* Each listener as the supervisor runs it is one that module Listener describes.
Abstract(l) ==
    INSTANCE Listener WITH
        state <- IF task[l] \in {"none", "binding"} THEN "listening"
                 ELSE IF task[l] = "panicked" THEN "failed" ELSE task[l],
        signalled <- Notified(l)

RunsListeners ==
    /\ \A l \in Listeners : Abstract(l)!Init
    /\ [][\A l \in Listeners : Abstract(l)!Next \/ UNCHANGED Abstract(l)!vars]_processVars

\* A listener does not stay for ever with a shutdown it was told of and has not seen, nor
\* with connections to wait for.  Of the accept loop ShutdownReturns shows this, with a
\* drain timeout and while permits come back.
Prompt(l) ==
    /\ []<>~(task[l] = "listening" /\ Notified(l))
    /\ []<>(task[l] # "draining")

\* A signal ends the process, and so does one listener that fails to bind, fails to
\* accept or panics: no other goes on serving, also if it was not bound yet, provided
\* that each of them stops once it is told.
AllEndTogether ==
    (\A l \in Listeners : Prompt(l)) =>
        ((signal = "done" \/ \E l \in Listeners : Broken(l)) ~> main = "exited")

===============================================================================

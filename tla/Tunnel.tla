-------------------------------- MODULE Tunnel --------------------------------
(***************************************************************************)
(* An upgraded (e.g. WebSocket) tunnel: relay_tunnel of src/lib.rs with    *)
(* its two copy_half loops, the idle watchdog that samples their shared    *)
(* activity counter, and the shutdown signal they are raced against.       *)
(*                                                                         *)
(* Only whether the counter moved since the watchdog's last sample counts, *)
(* which is the variable moved.  Time is in ticks; a due watchdog runs     *)
(* before time goes on.                                                    *)
(***************************************************************************)
EXTENDS Naturals

CONSTANTS
    Idle,     \* idle_timeout, in ticks
    MaxUnits, \* bound: pieces in which one chunk of copy_half may be written
    AgeCap    \* bound: ages beyond it are not told apart

ASSUME TunnelConstants ==
    /\ Idle \in Nat \ {0} /\ MaxUnits \in Nat \ {0}
    /\ AgeCap \in Nat /\ AgeCap > 2 * Idle

Directions == {"up", "down"}

VARIABLES
    half,      \* per direction: where its copy_half stands
    pending,   \* per direction: what write_all still has to write
    timer,     \* time left of the watchdog's sleep
    moved,     \* activity # last
    outcome,   \* "open", or why the relay ended
    sinceRead  \* history: time since a chunk was last read

vars == <<half, pending, timer, moved, outcome, sinceRead>>

TypeOK ==
    /\ half \in [Directions -> {"reading", "writing", "closing", "done"}]
    /\ pending \in [Directions -> 0..MaxUnits]
    /\ timer \in 0..Idle
    /\ moved \in BOOLEAN
    /\ outcome \in {"open", "Closed", "Idle", "Error", "shutdown"}
    /\ sinceRead \in 0..AgeCap

Init ==
    /\ half = [d \in Directions |-> "reading"]
    /\ pending = [d \in Directions |-> 0]
    /\ timer = Idle
    /\ moved = FALSE
    /\ outcome = "open"
    /\ sinceRead = 0

\* Mutant: the activity counter is not bumped.
ReadUncounted(d, n) ==
    /\ outcome = "open" /\ half[d] = "reading"
    /\ half' = [half EXCEPT ![d] = "writing"]
    /\ pending' = [pending EXCEPT ![d] = n]
    /\ sinceRead' = 0
    /\ UNCHANGED <<timer, moved, outcome>>

\* reader.read returns a chunk, which bumps activity.
Read(d, n) ==
    /\ outcome = "open" /\ half[d] = "reading"
    /\ half' = [half EXCEPT ![d] = "writing"]
    /\ pending' = [pending EXCEPT ![d] = n]
    /\ moved' = TRUE
    /\ sinceRead' = 0
    /\ UNCHANGED <<timer, outcome>>

\* write_all gets a piece out; after the last and the flush the loop reads again.
Write(d) ==
    /\ outcome = "open" /\ half[d] = "writing"
    /\ pending' = [pending EXCEPT ![d] = @ - 1]
    /\ half' = [half EXCEPT ![d] = IF pending[d] = 1 THEN "reading" ELSE "writing"]
    /\ UNCHANGED <<timer, moved, outcome, sinceRead>>

\* reader.read returns 0: the matching write half is shut down.
Eof(d) ==
    /\ outcome = "open" /\ half[d] = "reading"
    /\ half' = [half EXCEPT ![d] = "closing"]
    /\ UNCHANGED <<pending, timer, moved, outcome, sinceRead>>

\* writer.shutdown is through; try_join! resolves with the second direction.
CloseHalf(d) ==
    /\ outcome = "open" /\ half[d] = "closing"
    /\ half' = [half EXCEPT ![d] = "done"]
    /\ outcome' = IF \A e \in Directions \ {d} : half[e] = "done" THEN "Closed" ELSE "open"
    /\ UNCHANGED <<pending, timer, moved, sinceRead>>

\* A read, write or flush fails (the result of shutdown is ignored).
IoError(d) ==
    /\ outcome = "open" /\ half[d] \in {"reading", "writing"}
    /\ outcome' = "Error"
    /\ UNCHANGED <<half, pending, timer, moved, sinceRead>>

\* Mutant: the watchdog forgets to take a new sample.
WatchdogStale ==
    /\ outcome = "open" /\ timer = 0
    /\ timer' = IF moved THEN Idle ELSE 0
    /\ outcome' = IF moved THEN "open" ELSE "Idle"
    /\ UNCHANGED <<half, pending, moved, sinceRead>>

\* idle_watchdog wakes up and samples the counter.
Watchdog ==
    /\ outcome = "open" /\ timer = 0
    /\ IF moved
       THEN moved' = FALSE /\ timer' = Idle /\ UNCHANGED outcome
       ELSE outcome' = "Idle" /\ UNCHANGED <<moved, timer>>
    /\ UNCHANGED <<half, pending, sinceRead>>

\* wait_for_shutdown wins the select! around the relay.
Shutdown ==
    /\ outcome = "open"
    /\ outcome' = "shutdown"
    /\ UNCHANGED <<half, pending, timer, moved, sinceRead>>

Older(age) == IF age < AgeCap THEN age + 1 ELSE AgeCap

Tick ==
    /\ outcome = "open" /\ timer > 0
    /\ timer' = timer - 1
    /\ sinceRead' = Older(sinceRead)
    /\ UNCHANGED <<half, pending, moved, outcome>>

Next ==
    \/ \E d \in Directions :
         \/ \E n \in 1..MaxUnits : Read(d, n)
         \/ Write(d) \/ Eof(d) \/ CloseHalf(d) \/ IoError(d)
    \/ Watchdog \/ Shutdown \/ Tick

Spec == Init /\ [][Next]_vars

-------------------------------------------------------------------------------

\* A tunnel closed as idle has read nothing for a whole idle interval: a chunk
\* that arrives right before a sample still buys the tunnel a full interval.
NotBeforeIdle ==
    outcome = "Idle" => sinceRead >= Idle

\* A tunnel from which nothing is read is closed within two idle intervals.
ClosedWhenIdle ==
    sinceRead <= 2 * Idle

\* A half-closed tunnel keeps relaying: it closes cleanly only when both
\* directions have reached EOF with all they read written out.
HalfCloseKeepsFlowing ==
    outcome = "Closed" => \A d \in Directions : half[d] = "done" /\ pending[d] = 0

===============================================================================

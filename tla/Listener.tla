------------------------------- MODULE Listener -------------------------------
(***************************************************************************)
(* What Proxy::listen_with_shutdown promises its caller.  It listens until *)
(* the shutdown future completes, then drains and returns Ok; it returns   *)
(* Ok for no other reason, and an error ends it for good.  Module Proxy    *)
(* implements this, module Supervisor relies on it.                        *)
(***************************************************************************)

VARIABLES
    state,     \* "listening", "draining", "returned" (Ok) or "failed" (Err)
    signalled  \* the shutdown future is ready

vars == <<state, signalled>>

Init == state = "listening" /\ signalled = FALSE

Signal == ~signalled /\ signalled' = TRUE /\ UNCHANGED state

Observe == state = "listening" /\ signalled /\ state' = "draining" /\ UNCHANGED signalled

Return == state = "draining" /\ state' = "returned" /\ UNCHANGED signalled

Fail == state = "listening" /\ state' = "failed" /\ UNCHANGED signalled

Next == Signal \/ Observe \/ Return \/ Fail

Spec == Init /\ [][Next]_vars

===============================================================================

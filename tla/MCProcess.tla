------------------------------- MODULE MCProcess -------------------------------
(***************************************************************************)
(* One listener in detail (module Proxy with its handshake), and a process *)
(* of three listeners and a health endpoint (module Supervisor, for which  *)
(* a listener is what module Listener says).  They share no state: a       *)
(* behaviour is about one of them, and the other rests, the listener       *)
(* before its first client, the process after its end.                     *)
(***************************************************************************)
EXTENDS MCProxy, Supervisor

CONSTANTS l1, l2, l3, cli

VARIABLE subject

\* A process whose health endpoint could not be bound.
ProcessOver ==
    /\ main = "exited" /\ firstErr = "health"
    /\ task = [l \in Listeners |-> "none"] /\ rx = [r \in Receivers |-> 0] /\ sent = 0
    /\ signal = "none" /\ health = "none" /\ joined = {}

MCInit ==
    /\ HandshakeInit
    /\ \/ subject = "listener" /\ ProcessOver
       \/ subject = "process" /\ ProcessInit

MCNext ==
    /\ UNCHANGED subject
    /\ \/ subject = "listener" /\ HandshakeNext /\ UNCHANGED processVars
       \/ subject = "process" /\ ProcessNext /\ UNCHANGED <<vars, handshakeVars>>

MCSpec ==
    /\ MCInit /\ [][MCNext]_<<subject, vars, handshakeVars, processVars>>
    /\ Fairness /\ ProcessFairness

===============================================================================

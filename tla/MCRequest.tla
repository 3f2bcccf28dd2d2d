------------------------------- MODULE MCRequest -------------------------------
(***************************************************************************)
(* What happens to requests, in three parts that share no state: one       *)
(* exchange, two calls of the script layer on a thread whose channel holds *)
(* one request, and two requests at a time in the retry layer.  Each       *)
(* behaviour is about one of them; the others rest as they are before the  *)
(* first request or, the script layer, after the last.                     *)
(***************************************************************************)
EXTENDS MCExchange, Script, Retry

CONSTANTS c1, c2, r1, r2

VARIABLE subject

\* A thread whose script did not load, and whose callers were told so.
ScriptOver ==
    /\ awaits = TRUE /\ reading = FALSE
    /\ call = [c \in Calls |-> "failed"]
    /\ queue = <<>> /\ thread = "ended" /\ current = None /\ resBody = None
    /\ reqBodies = Calls /\ resBodies = {} /\ reqRead = {} /\ resRead = {}
    /\ respond = [c \in Calls |-> "no"] /\ supplied = {}
    /\ command = [c \in Calls |-> None] /\ forwarding = [c \in Calls |-> None]
    /\ result = [c \in Calls |-> NoAnswer]
    /\ sentUpstream = [c \in Calls |-> <<>>] /\ clientAnswer = [c \in Calls |-> NoAnswer]

MCInit ==
    /\ ExchangeInit /\ RetryInit
    /\ \/ subject \in {"exchange", "retry"} /\ ScriptOver
       \/ subject = "script" /\ ScriptInit

MCNext ==
    /\ UNCHANGED subject
    /\ \/ subject = "exchange" /\ ExchangeNext /\ UNCHANGED <<scriptVars, retryVars>>
       \/ subject = "script" /\ ScriptNext /\ UNCHANGED <<exchangeVars, retryVars>>
       \/ subject = "retry" /\ RetryNext /\ UNCHANGED <<exchangeVars, scriptVars>>

MCSpec == MCInit /\ [][MCNext]_<<subject, exchangeVars, scriptVars, retryVars>> /\ Fairness

===============================================================================

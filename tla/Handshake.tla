------------------------------- MODULE Handshake -------------------------------
(***************************************************************************)
(* Proxy::handshake in src/lib.rs, the "handshake" phase of a connection   *)
(* of Proxy in forward mode: an HTTP/1 connection whose service answers    *)
(* requests, the oneshot channel by which the service (or the task that    *)
(* awaits the upgrade) hands its outcome to the handshake, and the TLS     *)
(* accept inside the tunnel.                                               *)
(*                                                                         *)
(* hyper keeps the connection open after a refusal, so a client may send   *)
(* further requests; a request answered 200 to CONNECT is the last one.    *)
(* The channel takes one value.                                            *)
(***************************************************************************)
EXTENDS Proxy

CONSTANTS
    Credentials,  \* configured pairs of a user and a password; {} for no check
    Openings      \* requests that clients send to open a tunnel

\* connect: the method is CONNECT; authority: the URI has one; login: the pair of
\* the Proxy-Authorization header, if it decodes.
ASSUME HandshakeConstants ==
    /\ None \notin Openings
    /\ \A r \in Openings : r.connect \in BOOLEAN /\ r.authority \in BOOLEAN

VARIABLES
    stage,    \* per slot: where handshake() stands
    oneshot,  \* per slot: what was sent through connect_tx
    first     \* history, per slot: the first request of the connection

handshakeVars == <<stage, oneshot, first>>

HandshakeTypeOK ==
    /\ stage \in [Conns -> {"http", "upgrading", "receiving", "inner"}]
    /\ oneshot \in [Conns -> {"unsent", "refused", "opened"}]
    /\ first \in [Conns -> Openings \cup {None}]

HandshakeInit ==
    /\ Init
    /\ stage = [c \in Conns |-> "http"]
    /\ oneshot = [c \in Conns |-> "unsent"]
    /\ first = [c \in Conns |-> None]

-------------------------------------------------------------------------------

\* credentials_match: some configured pair equals the one supplied.
CredentialsMatch(login) == \E cred \in Credentials : cred = login

\* Without configured credentials nothing is checked.
Authenticated(r) == Credentials = {} \/ CredentialsMatch(r.login)

\* The service answers 200; otherwise 400 or 407.
Opens(r) == r.connect /\ r.authority /\ Authenticated(r)

\* Mutant: the last outcome is the one that counts.
SentLast(c, outcome) == outcome

\* The sender is taken out of its Option by the first who has an outcome.
Sent(c, outcome) == IF oneshot[c] = "unsent" THEN outcome ELSE oneshot[c]

\* The service on request r.  A 200 ends the HTTP connection and spawns the task
\* that awaits the upgrade; a refusal sends the error and leaves the connection open.
Request(c, r) ==
    /\ conn[c] = "handshake" /\ stage[c] = "http"
    /\ first' = [first EXCEPT ![c] = IF @ = None THEN r ELSE @]
    /\ \/ /\ Opens(r)
          /\ stage' = [stage EXCEPT ![c] = "upgrading"]
          /\ UNCHANGED oneshot
       \/ /\ ~Opens(r)
          /\ oneshot' = [oneshot EXCEPT ![c] = Sent(c, "refused")]
          /\ UNCHANGED stage
    /\ UNCHANGED vars

\* The upgrade completes, or fails, and the task sends the result; without a sender
\* it drops the stream.
Resolve(c, outcome) ==
    /\ conn[c] = "handshake" /\ stage[c] = "upgrading"
    /\ stage' = [stage EXCEPT ![c] = "receiving"]
    /\ oneshot' = [oneshot EXCEPT ![c] = Sent(c, outcome)]
    /\ UNCHANGED <<vars, first>>

\* The client closes its side instead of opening a tunnel: serve_connection is done.
HangUp(c) ==
    /\ conn[c] = "handshake" /\ stage[c] = "http"
    /\ stage' = [stage EXCEPT ![c] = "receiving"]
    /\ UNCHANGED <<vars, oneshot, first>>

\* connect_rx has the upgraded stream and its port parses: the inner TLS accept
\* begins.  In every other case the handshake returns an error (Finish).
Receive(c) ==
    /\ conn[c] = "handshake" /\ stage[c] = "receiving"
    /\ oneshot[c] = "opened"
    /\ stage' = [stage EXCEPT ![c] = "inner"]
    /\ UNCHANGED <<vars, oneshot, first>>

-------------------------------------------------------------------------------

\* A slot whose connection is over, or that enters the handshake, starts afresh.
Afresh(c) == conn'[c] = "none" \/ (conn[c] # "handshake" /\ conn'[c] = "handshake")

\* A step of the proxy; a handshake succeeds only from its last stage.
ConnStep ==
    /\ Next
    /\ \A c \in Conns :
         conn[c] = "handshake" /\ conn'[c] = "serving" => stage[c] = "inner"
    /\ stage' = [c \in Conns |-> IF Afresh(c) THEN "http" ELSE stage[c]]
    /\ oneshot' = [c \in Conns |-> IF Afresh(c) THEN "unsent" ELSE oneshot[c]]
    /\ first' = [c \in Conns |-> IF Afresh(c) THEN None ELSE first[c]]

Open(c) ==
    \/ \E r \in Openings : Request(c, r)
    \/ Resolve(c, "opened") \/ Resolve(c, "refused")
    \/ HangUp(c) \/ Receive(c)

HandshakeNext == ConnStep \/ \E c \in Conns : Open(c)

HandshakeSpec == HandshakeInit /\ [][HandshakeNext]_<<vars, handshakeVars>>

LiveHandshakeSpec == HandshakeSpec /\ Fairness

-------------------------------------------------------------------------------

\* A forward connection is served only if the very first request on it was a CONNECT
\* with an authority and, where credentials are configured, a pair that matches one
\* of them; no later request makes good for a refused one.
OpenedByFirst ==
    \A c \in Conns :
        Forward /\ conn[c] \in {"serving", "closing"} =>
            first[c] # None /\ Opens(first[c])

===============================================================================

-------------------------------- MODULE Script --------------------------------
(***************************************************************************)
(* Scripting middleware: src/middleware/script.rs with the JavaScript shim *)
(* script_runtime.js.  One V8 thread runs the user's handler for one       *)
(* request at a time; any number of ScriptService::call futures hand it    *)
(* their requests through a bounded channel, forward what the handler      *)
(* passes to respond() and return what it returns.                         *)
(*                                                                         *)
(* The handler is user code: it may read the request's body, call          *)
(* respond(), read the response's body, and return or throw, in any order  *)
(* the shim lets it.  It awaits the bodies it reads, which come at their   *)
(* sender's pace.  respond() is a lazy future that the thread's event loop *)
(* polls, and the loop only runs while a request is being handled: a       *)
(* handler that awaits it is suspended meanwhile; one that does not may    *)
(* return first, and the operation then goes on while a later request is   *)
(* handled.  Bodies are named after the call they belong to.               *)
(***************************************************************************)
EXTENDS Naturals, Sequences

CONSTANTS
    Calls,        \* calls of the services that share the thread
    None,         \* an Option that is None
    Capacity,     \* slots of the request channel (64)
    Styles        \* a subset of BOOLEAN: TRUE, the handler awaits respond()

ASSUME ScriptConstants ==
    /\ None \notin Calls
    /\ Capacity \in Nat \ {0}
    /\ Styles \subseteq BOOLEAN

VARIABLES
    awaits,      \* how the handler is written
    reading,     \* the handler waits for the rest of a body
    call,        \* per call: where its future stands
    queue,       \* the request channel
    thread,      \* "init", "idle", "running" or "ended"
    current,     \* the call whose RequestState is in the op state, or None
    resBody,     \* RequestState.response_body: whose response, or None
    reqBodies,   \* calls whose request body is still in its handle
    resBodies,   \* calls whose response body is still in its handle
    reqRead,     \* calls whose handler has called req.body()
    resRead,     \* calls whose handler has called res.body()
    respond,     \* per call: respond() of its handler
    supplied,    \* calls whose handler gave respond() a new body
    command,     \* per call: the respond command in its channel, by whose handler
    forwarding,  \* per call: the command its future is forwarding, by whose handler
    result,      \* per call: what its result channel holds
    sentUpstream,  \* history, per call: the requests its future sent upstream
    clientAnswer   \* history, per call: what its client was answered

handlerVars == <<awaits, reading>>
threadVars == <<handlerVars, thread, current>>
handleVars == <<reqBodies, resBodies, resBody>>
opVars == <<reqRead, resRead, respond, supplied>>
callVars == <<call, command, forwarding, sentUpstream, clientAnswer>>
scriptVars == <<threadVars, queue, handleVars, opVars, callVars, result>>

-------------------------------------------------------------------------------
(* ScriptService::call.                                                    *)

Ended == {"returned", "failed", "dropped"}

\* The future of c is in its select! loop or forwarding: its respond channel and
\* its result channel are open.
Listening(c) == call[c] \in {"waiting", "forwarding"}

NoAnswer == [kind |-> "none", body |-> None]

\* What the thread's end, or an error, leaves in a result channel.
Failure == [kind |-> "error", body |-> None]

ScriptInit ==
    /\ awaits \in Styles /\ reading = FALSE
    /\ call = [c \in Calls |-> "new"]
    /\ queue = <<>> /\ thread = "init" /\ current = None /\ resBody = None
    /\ reqBodies = Calls /\ resBodies = {}
    /\ reqRead = {} /\ resRead = {}
    /\ respond = [c \in Calls |-> "no"] /\ supplied = {}
    /\ command = [c \in Calls |-> None] /\ forwarding = [c \in Calls |-> None]
    /\ result = [c \in Calls |-> NoAnswer]
    /\ sentUpstream = [c \in Calls |-> <<>>] /\ clientAnswer = [c \in Calls |-> NoAnswer]

\* tx.send, which waits while the channel is full.
Send(c) ==
    /\ call[c] = "new" /\ thread # "ended" /\ Len(queue) < Capacity
    /\ call' = [call EXCEPT ![c] = "waiting"]
    /\ queue' = Append(queue, c)
    /\ UNCHANGED <<threadVars, handleVars, opVars, command, forwarding, sentUpstream,
                   clientAnswer, result>>

\* "V8 thread shut down"
SendFails(c) ==
    /\ call[c] = "new" /\ thread = "ended"
    /\ call' = [call EXCEPT ![c] = "failed"]
    /\ UNCHANGED <<threadVars, queue, handleVars, opVars, command, forwarding, sentUpstream,
                   clientAnswer, result>>

\* Mutant: a respond() whose call has ended goes on waiting.
CutNever(c) == respond

\* The operations that wait for an answer of c's future, which ends: their command
\* or their reply channel is dropped with it.
Cut(c) == [o \in Calls |-> IF o \in {command[c], forwarding[c]} THEN "rejected?" ELSE respond[o]]

\* cmd = respond_rx.recv(): the body is the one given to respond(), else what is left
\* of c's own, else empty.
ForwardedBody(c, o) ==
    IF o \in supplied THEN "supplied" ELSE IF c \in reqBodies THEN "original" ELSE "empty"

TakeCommand(c) ==
    /\ call[c] = "waiting" /\ command[c] # None
    /\ forwarding' = [forwarding EXCEPT ![c] = command[c]]
    /\ command' = [command EXCEPT ![c] = None]
    /\ call' = [call EXCEPT ![c] = "forwarding"]
    /\ reqBodies' = IF command[c] \in supplied THEN reqBodies ELSE reqBodies \ {c}
    /\ sentUpstream' = [sentUpstream EXCEPT ![c] =
           Append(@, [by |-> command[c], body |-> ForwardedBody(c, command[c])])]
    /\ UNCHANGED <<threadVars, queue, resBodies, resBody, opVars, clientAnswer, result>>

\* What respond() was given does not make a request: the reply is an error.
BadCommand(c) ==
    /\ call[c] = "waiting" /\ command[c] # None
    /\ respond' = [respond EXCEPT ![command[c]] = "rejected?"]
    /\ command' = [command EXCEPT ![c] = None]
    /\ reqBodies' = IF command[c] \in supplied THEN reqBodies ELSE reqBodies \ {c}
    /\ UNCHANGED <<threadVars, queue, resBodies, resBody, reqRead, resRead, supplied,
                   call, forwarding, sentUpstream, clientAnswer, result>>

\* inner.call returns a response: its body goes into a new handle.
UpstreamAnswers(c) ==
    /\ call[c] = "forwarding"
    /\ respond' = [respond EXCEPT ![forwarding[c]] = "resolved?"]
    /\ resBodies' = resBodies \cup {forwarding[c]}
    /\ forwarding' = [forwarding EXCEPT ![c] = None]
    /\ call' = [call EXCEPT ![c] = "waiting"]
    /\ UNCHANGED <<threadVars, queue, reqBodies, resBody, reqRead, resRead, supplied,
                   command, sentUpstream, clientAnswer, result>>

\* inner.call returns an error.
UpstreamFails(c) ==
    /\ call[c] = "forwarding"
    /\ respond' = [respond EXCEPT ![forwarding[c]] = "rejected?"]
    /\ forwarding' = [forwarding EXCEPT ![c] = None]
    /\ call' = [call EXCEPT ![c] = "waiting"]
    /\ UNCHANGED <<threadVars, queue, handleVars, reqRead, resRead, supplied, command,
                   sentUpstream, clientAnswer, result>>

\* The future of c ends as s; its channels are dropped with it.
EndCall(c, s) ==
    /\ call' = [call EXCEPT ![c] = s]
    /\ respond' = Cut(c)
    /\ command' = [command EXCEPT ![c] = None]
    /\ forwarding' = [forwarding EXCEPT ![c] = None]
    /\ result' = [result EXCEPT ![c] = NoAnswer]
    /\ UNCHANGED <<threadVars, queue, handleVars, reqRead, resRead, supplied, sentUpstream>>

\* poll_ready fails: `?` leaves call.
NotReady(c) == call[c] = "forwarding" /\ EndCall(c, "failed") /\ UNCHANGED clientAnswer

\* result = &mut result_rx
TakeResult(c) ==
    /\ call[c] = "waiting" /\ result[c] # NoAnswer
    /\ clientAnswer' = [clientAnswer EXCEPT ![c] = result[c]]
    /\ EndCall(c, IF result[c] = Failure THEN "failed" ELSE "returned")

\* The client goes away and hyper drops the future.
Drop(c) ==
    /\ call[c] \in {"new", "waiting", "forwarding"}
    /\ EndCall(c, "dropped") /\ UNCHANGED clientAnswer

-------------------------------------------------------------------------------
(* The V8 thread.                                                          *)

\* The runtime and the user's module are loaded.
Load ==
    /\ thread = "init" /\ thread' = "idle"
    /\ UNCHANGED <<handlerVars, current, queue, handleVars, opVars, callVars, result>>

\* The module does not load: expect() ends the thread, and with it the channel and
\* the envelopes in it.
LoadFails ==
    /\ thread = "init" /\ thread' = "ended"
    /\ result' = [c \in Calls |-> IF call[c] = "waiting" THEN Failure ELSE result[c]]
    /\ queue' = <<>>
    /\ UNCHANGED <<handlerVars, current, handleVars, opVars, callVars>>

\* rx.recv(), and handle_request up to its execute_script: a new RequestState.
Receive ==
    /\ thread = "idle" /\ queue # <<>>
    /\ thread' = "running"
    /\ current' = Head(queue) /\ resBody' = None
    /\ queue' = Tail(queue)
    /\ UNCHANGED <<handlerVars, reqBodies, resBodies, opVars, callVars, result>>

\* rx.recv() returns None: every service that held a sender is gone.
Close ==
    /\ thread = "idle" /\ queue = <<>> /\ \A c \in Calls : call[c] \in Ended
    /\ thread' = "ended"
    /\ UNCHANGED <<handlerVars, current, queue, handleVars, opVars, callVars, result>>

Pending(o) == respond[o] \in {"started", "sent", "resolved?", "rejected?"}

\* Mutant: the shim's respond() does not await the operation.
ScriptingOn(c) == thread = "running" /\ current = c /\ ~reading

\* The handler for the current request runs: it is not suspended.
Scripting(c) == thread = "running" /\ current = c /\ ~reading /\ (awaits => ~Pending(c))

\* req.body(), awaited: once ("Body already consumed"), op_noxy_req_body takes the body
\* out of the current RequestState's handle and collects it.  A handle that is empty
\* resolves at once.
ReadReqBody(c) ==
    /\ Scripting(c) /\ c \notin reqRead
    /\ reqRead' = reqRead \cup {c}
    /\ reqBodies' = reqBodies \ {current}
    /\ reading' = (current \in reqBodies)
    /\ UNCHANGED <<awaits, thread, current, queue, resBodies, resBody, resRead, respond,
                   supplied, callVars, result>>

\* res.body() of an upstream response, awaited: likewise with op_noxy_res_body.
ReadResBody(c) ==
    /\ Scripting(c) /\ respond[c] = "resolved" /\ c \notin resRead
    /\ resRead' = resRead \cup {c}
    /\ resBodies' = resBodies \ {resBody}
    /\ reading' = (resBody \in resBodies)
    /\ UNCHANGED <<awaits, thread, current, queue, reqBodies, resBody, reqRead, respond,
                   supplied, callVars, result>>

\* collect_limited is through: the body has ended or failed, or is too large.  No
\* timeout covers it.
BodyRead ==
    /\ reading /\ reading' = FALSE
    /\ UNCHANGED <<awaits, thread, current, queue, handleVars, opVars, callVars, result>>

\* Mutant: respond() does not test its flag.
MayRespondAgain(c) == respond[c] \in {"no", "resolved", "rejected"}

\* "respond() already called"
MayRespond(c) == respond[c] = "no"

CallRespond(c, newBody) ==
    /\ Scripting(c) /\ MayRespond(c)
    /\ respond' = [respond EXCEPT ![c] = "started"]
    /\ supplied' = IF newBody THEN supplied \cup {c} ELSE supplied
    /\ UNCHANGED <<threadVars, queue, handleVars, reqRead, resRead, callVars, result>>

\* op_noxy_respond up to its first await: the command goes to the channel, of one
\* slot, of the call whose RequestState is there.
PollRespond(o) ==
    /\ thread = "running" /\ respond[o] = "started"
    /\ IF Listening(current)
       THEN /\ command[current] = None
            /\ command' = [command EXCEPT ![current] = o]
            /\ respond' = [respond EXCEPT ![o] = "sent"]
       ELSE /\ respond' = [respond EXCEPT ![o] = "rejected"]
            /\ UNCHANGED command
    /\ UNCHANGED <<threadVars, queue, handleVars, reqRead, resRead, supplied, call,
                   forwarding, sentUpstream, clientAnswer, result>>

\* op_noxy_respond after its reply: the response's handle goes into the RequestState
\* that is there by now.
ResumeRespond(o) ==
    /\ thread = "running" /\ respond[o] \in {"resolved?", "rejected?"}
    /\ IF respond[o] = "resolved?"
       THEN respond' = [respond EXCEPT ![o] = "resolved"] /\ resBody' = o
       ELSE respond' = [respond EXCEPT ![o] = "rejected"] /\ UNCHANGED resBody
    /\ UNCHANGED <<threadVars, queue, reqBodies, resBodies, reqRead, resRead, supplied,
                   callVars, result>>

\* handle_request is done with c: result_tx.send(r), ignored if the future is gone.
Finish(c, r) ==
    /\ thread' = "idle"
    /\ result' = IF Listening(c) THEN [result EXCEPT ![c] = r] ELSE result

\* The handler returns the upstream response unread: op_noxy_finish with passthrough.
ReturnUpstream(c) ==
    /\ Scripting(c) /\ respond[c] = "resolved" /\ c \notin resRead
    /\ Finish(c, [kind |-> "upstream",
                  body |-> IF resBody \in resBodies THEN resBody ELSE None])
    /\ resBodies' = resBodies \ {resBody}
    /\ current' = None /\ resBody' = None
    /\ UNCHANGED <<handlerVars, queue, reqBodies, opVars, callVars>>

\* It returns a Response of its own, or the upstream one with its body read.
ReturnOwn(c) ==
    /\ Scripting(c)
    /\ Finish(c, [kind |-> "own", body |-> None])
    /\ current' = None /\ resBody' = None
    /\ UNCHANGED <<handlerVars, queue, reqBodies, resBodies, opVars, callVars>>

\* It throws, or returns something else: the promise rejects, and `?` leaves the
\* RequestState where it is.
Throw(c) ==
    /\ Scripting(c)
    /\ Finish(c, Failure)
    /\ UNCHANGED <<handlerVars, current, queue, handleVars, opVars, callVars>>

ScriptNext ==
    \/ Load \/ LoadFails \/ Receive \/ Close \/ BodyRead
    \/ \E c \in Calls :
         \/ Send(c) \/ SendFails(c) \/ TakeCommand(c) \/ BadCommand(c)
         \/ UpstreamAnswers(c) \/ UpstreamFails(c) \/ NotReady(c) \/ TakeResult(c) \/ Drop(c)
         \/ ReadReqBody(c) \/ ReadResBody(c) \/ \E newBody \in BOOLEAN : CallRespond(c, newBody)
         \/ PollRespond(c) \/ ResumeRespond(c)
         \/ ReturnUpstream(c) \/ ReturnOwn(c) \/ Throw(c)

ScriptSpec == ScriptInit /\ [][ScriptNext]_scriptVars

\* The thread and the futures are polled as long as they can go on, and the user's
\* handler returns or throws once it no longer waits.  Nothing is assumed of the
\* upstream service, nor of those who send the bodies it reads.
Fairness ==
    /\ WF_scriptVars(Load \/ LoadFails) /\ WF_scriptVars(Receive)
    /\ \A c \in Calls :
         /\ WF_scriptVars(Send(c)) /\ WF_scriptVars(SendFails(c)) /\ WF_scriptVars(TakeResult(c))
         /\ WF_scriptVars(TakeCommand(c) \/ BadCommand(c))
         /\ WF_scriptVars(PollRespond(c)) /\ WF_scriptVars(ResumeRespond(c))
         /\ WF_scriptVars(ReturnOwn(c) \/ Throw(c))

FairSpec == ScriptSpec /\ Fairness

-------------------------------------------------------------------------------
(* Properties.                                                             *)

AnswerType == [kind : {"none", "error", "upstream", "own"}, body : Calls \cup {None}]

ScriptTypeOK ==
    /\ awaits \in BOOLEAN /\ reading \in BOOLEAN
    /\ thread \in {"init", "idle", "running", "ended"}
    /\ call \in [Calls -> {"new", "waiting", "forwarding"} \cup Ended]
    /\ queue \in Seq(Calls)
    /\ current \in Calls \cup {None} /\ resBody \in Calls \cup {None}
    /\ reqBodies \subseteq Calls /\ resBodies \subseteq Calls /\ supplied \subseteq Calls
    /\ reqRead \subseteq Calls /\ resRead \subseteq Calls
    /\ respond \in [Calls -> {"no", "started", "sent", "resolved?", "rejected?",
                              "resolved", "rejected"}]
    /\ command \in [Calls -> Calls \cup {None}]
    /\ forwarding \in [Calls -> Calls \cup {None}]
    /\ result \in [Calls -> AnswerType] /\ clientAnswer \in [Calls -> AnswerType]
    /\ sentUpstream \in [Calls -> Seq([by : Calls, body : {"supplied", "original", "empty"}])]

\* A handler that awaits its operations and returns the response of respond() gives
\* each client the body that came back for that client's own request, whatever other
\* requests the thread handled before and whichever of their clients left.
OwnAnswer ==
    awaits => \A c \in Calls : clientAnswer[c].kind = "upstream" => clientAnswer[c].body = c

\* Such a handler sends at most one request upstream per call, its own, and with an
\* empty body in place of the client's only if it read the client's itself.
ForwardedOnce ==
    awaits =>
        \A c \in Calls :
            /\ Len(sentUpstream[c]) <= 1
            /\ \A i \in DOMAIN sentUpstream[c] :
                 /\ sentUpstream[c][i].by = c
                 /\ sentUpstream[c][i].body = "empty" => c \in reqRead

\* However the handler is written, and also when the script does not load, every
\* call ends, as long as no upstream exchange stays open for ever and every body that is
\* being read goes on to its end: the thread, which handles one request at a time, is
\* never stuck on one of them by itself.
CallsEnd ==
    []<>~reading /\ (\A c \in Calls : []<>(call[c] # "forwarding")) =>
        \A c \in Calls : <>(call[c] \in Ended)

===============================================================================

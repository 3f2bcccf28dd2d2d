---------------------------- MODULE ExchangeProofs ----------------------------
(***************************************************************************)
(* Proofs about one exchange, and about the script layer it passes through *)
(* (the two share no state).                                               *)
(*                                                                         *)
(* For every idle timeout: the watchdog never closes a tunnel early, and   *)
(* closes a silent one within two intervals; and so it is for the tunnel   *)
(* an exchange ends in.  For every rate, every size and number of frames   *)
(* and all timeouts: the throttle keeps the rate and the frames' order,    *)
(* and the client waits for a response no longer than the request timeout. *)
(*                                                                         *)
(* For any number of calls and any channel capacity, a handler that awaits *)
(* respond() never mixes up the requests of a thread.                      *)
(***************************************************************************)
EXTENDS Exchange, Script, TLAPS

-------------------------------------------------------------------------------
(* Tunnel and Exchange.                                                    *)

\* The age of the last chunk against the watchdog's sleep: a chunk seen since the
\* last sample is younger than the sleep, any other is older, by at most the
\* interval before.
WatchdogTracks ==
    /\ moved => sinceRead <= Idle - timer
    /\ ~moved => /\ sinceRead >= Idle - timer
                 /\ sinceRead <= 2 * Idle - timer
    /\ outcome = "Idle" => timer = 0 /\ ~moved

\* A direction holds unwritten bytes only while it writes.
PendingIsWriting ==
    \A d \in Directions : half[d] = "writing" <=> pending[d] > 0

\* A clean close follows both directions.
ClosedIsDone ==
    outcome = "Closed" => \A d \in Directions : half[d] = "done"

TunnelInv == TypeOK /\ WatchdogTracks /\ PendingIsWriting /\ ClosedIsDone

\* A fresh tunnel satisfies the invariant.
THEOREM TunnelInit == Init => TunnelInv
  <1> SUFFICES ASSUME Init PROVE TunnelInv
    BY Zenon
  <1>1. TypeOK
    <2>1. moved \in BOOLEAN
      BY Zenon DEF Init
    <2>2. timer \in 0..Idle /\ sinceRead \in 0..AgeCap
      BY TunnelConstants DEF Init
    <2> QED BY <2>1, <2>2, TunnelConstants DEF Init, TypeOK
  <1>2. WatchdogTracks
    BY TunnelConstants DEF Init, WatchdogTracks
  <1>3. PendingIsWriting /\ ClosedIsDone
    BY DEF Init, PendingIsWriting, ClosedIsDone
  <1> QED BY <1>1, <1>2, <1>3, Zenon DEF TunnelInv

\* Every step of the relay, the watchdog and time keeps it.
THEOREM TunnelStep == TunnelInv /\ [Next]_vars => TunnelInv'
  <1> SUFFICES ASSUME TunnelInv, [Next]_vars PROVE TunnelInv'
    BY Zenon
  <1> USE TunnelConstants DEF TunnelInv, TypeOK, WatchdogTracks, PendingIsWriting, ClosedIsDone
  <1>1. ASSUME NEW d \in Directions, NEW n \in 1..MaxUnits, Read(d, n) PROVE TunnelInv'
    BY <1>1 DEF Read
  <1>2. ASSUME NEW d \in Directions, Write(d) PROVE TunnelInv'
    BY <1>2 DEF Write
  <1>3. ASSUME NEW d \in Directions, Eof(d) PROVE TunnelInv'
    BY <1>3, Zenon DEF Eof
  <1>4. ASSUME NEW d \in Directions, CloseHalf(d) PROVE TunnelInv'
    BY <1>4, Zenon DEF CloseHalf
  <1>5. ASSUME NEW d \in Directions, IoError(d) PROVE TunnelInv'
    BY <1>5, Zenon DEF IoError
  <1>6. CASE Watchdog
    <2>1. CASE moved
      <3>1. ~moved' /\ moved' \in BOOLEAN
        BY <1>6, <2>1, Zenon DEF Watchdog
      <3>2. /\ timer' = Idle /\ outcome' = outcome /\ outcome = "open" /\ timer = 0
            /\ UNCHANGED <<half, pending, sinceRead>>
        BY <1>6, <2>1, Zenon DEF Watchdog
      <3> QED BY <2>1, <3>1, <3>2
    <2>2. CASE ~moved
      <3>1. /\ outcome' = "Idle" /\ timer = 0
            /\ UNCHANGED <<moved, timer, half, pending, sinceRead>>
        BY <1>6, <2>2, Zenon DEF Watchdog
      <3> QED BY <2>2, <3>1, Zenon
    <2> QED BY <2>1, <2>2, Zenon
  <1>7. CASE Shutdown
    BY <1>7, Zenon DEF Shutdown
  <1>8. CASE Tick
    BY <1>8 DEF Tick, Older
  <1>9. CASE UNCHANGED vars
    BY <1>9, Zenon DEF vars
  <1> QED BY <1>1, <1>2, <1>3, <1>4, <1>5, <1>6, <1>7, <1>8, <1>9, Zenon DEF Next

\* The inductive invariant holds in every behaviour.
THEOREM TunnelInvariant == Spec => []TunnelInv
  BY TunnelInit, TunnelStep, PTL DEF Spec

\* No tunnel is closed as idle before a whole interval without a read.
THEOREM NeverEarly == Spec => []NotBeforeIdle
  <1>1. TunnelInv => NotBeforeIdle
    BY TunnelConstants DEF TunnelInv, TypeOK, WatchdogTracks, NotBeforeIdle
  <1> QED BY <1>1, TunnelInvariant, PTL

\* A silent tunnel is closed within two intervals.
THEOREM NeverLate == Spec => []ClosedWhenIdle
  <1>1. TunnelInv => ClosedWhenIdle
    BY TunnelConstants DEF TunnelInv, TypeOK, WatchdogTracks, ClosedWhenIdle
  <1> QED BY <1>1, TunnelInvariant, PTL

\* A half-close never cuts the other direction.
THEOREM CleanClose == Spec => []HalfCloseKeepsFlowing
  <1>1. TunnelInv => HalfCloseKeepsFlowing
    BY DEF TunnelInv, TypeOK, ClosedIsDone, PendingIsWriting, HalfCloseKeepsFlowing
  <1> QED BY <1>1, TunnelInvariant, PTL

-------------------------------------------------------------------------------

\* The tunnel of an exchange is a tunnel: whatever else the exchange does leaves it
\* in its initial state.
THEOREM TunnelEmbedded == ExchangeSpec => Spec
  <1>1. ExchangeInit => Init
    BY Zenon DEF ExchangeInit
  <1>2. [ExchangeNext]_exchangeVars => [Next]_vars
    BY Zenon DEF ExchangeNext, exchangeVars, Call, Middleware, Forward, Connected, Reconnect, Fails,
           ConnectExpired, RequestExpired, Responds, Switches, Upgraded, UpgradeFails, Relay,
           PollFrame, PollPending, BodyEnds, BodyFails, Leave, Passes, EndsWith
  <1> QED BY <1>1, <1>2, PTL DEF ExchangeSpec, Spec

\* So the tunnel an exchange ends in is not closed early, not kept when silent, and
\* not cut by a half-close.
THEOREM TunnelKept == ExchangeSpec => [](NotBeforeIdle /\ ClosedWhenIdle /\ HalfCloseKeepsFlowing)
  BY TunnelEmbedded, NeverEarly, NeverLate, CleanClose, PTL

\* The types of what the body and the request's timeout use.
BodyTypeOK ==
    /\ age \in Nat /\ elapsed \in Nat /\ charged \in Nat /\ delivered \in Nat
    /\ held \in Seq(Nat) /\ arrived \in Seq(Nat) /\ out \in Seq(Nat)

\* At most one frame is held; it is charged for and not handed out.
HeldIsCharged ==
    \/ held = <<>> /\ charged = delivered
    \/ \E n \in Nat : held = <<n>> /\ charged = delivered + n

\* Only the body's phase holds a frame, and it ends well only without one.
HeldWhileRelaying ==
    /\ phase \notin {"relaying", "ended"} => held = <<>> /\ answer # "200"
    /\ phase = "ended" /\ answer = "200" => held = <<>>

BodyInv ==
    /\ BodyTypeOK /\ HeldIsCharged /\ HeldWhileRelaying
    /\ RateIsKept /\ out \o held = arrived /\ age <= RequestTimeout

\* Appending to a sequence, and joining what is held to it, in the three ways in which
\* poll_frame does.
LEMMA Joining ==
    ASSUME NEW s \in Seq(Nat), NEW n \in Nat
    PROVE  /\ s \o <<>> = s /\ s \o <<n>> \in Seq(Nat)
           /\ Append(s, n) \in Seq(Nat) /\ Append(s, n) = s \o <<n>>
           /\ Append(<<>>, n) = <<n>> /\ <<n>>[1] = n /\ <<n>> # <<>>
  OBVIOUS

\* What the rate allows grows with time.
LEMMA Growing ==
    ASSUME NEW b \in Nat, NEW e \in Nat, NEW d \in Nat, d <= b * e
    PROVE  d <= b * (e + 1)
  <1>1. b * (e + 1) = b * e + b /\ b * e \in Nat
    OBVIOUS
  <1> QED BY <1>1

\* The body has not begun when the exchange does.
LEMMA BodyInit == ExchangeInit => BodyInv
  BY ExchangeConstants DEF ExchangeInit, BodyInv, BodyTypeOK, HeldIsCharged, HeldWhileRelaying,
     RateIsKept

\* Every step of an exchange keeps the invariant.
LEMMA BodyStep == BodyInv /\ [ExchangeNext]_exchangeVars => BodyInv'
  <1> SUFFICES ASSUME BodyInv, [ExchangeNext]_exchangeVars PROVE BodyInv'
    OBVIOUS
  <1> USE ExchangeConstants DEF BodyInv, BodyTypeOK, HeldIsCharged, HeldWhileRelaying,
          RateIsKept, Waiting, bodyVars, timeVars, replyVars
  <1>1. ASSUME NEW hdr \in Headers, Call(hdr) PROVE BodyInv'
    BY <1>1, Zenon DEF Call
  <1>2. ASSUME NEW hdr, Middleware(hdr) PROVE BodyInv'
    BY <1>2, Zenon DEF Middleware
  <1>3. ASSUME NEW pooled \in BOOLEAN, Forward(pooled) PROVE BodyInv'
    BY <1>3, Zenon DEF Forward
  <1>4. CASE Connected \/ Reconnect \/ Upgraded
    BY <1>4, Zenon DEF Connected, Reconnect, Upgraded
  <1>5. CASE Fails \/ ConnectExpired \/ RequestExpired \/ BodyFails \/ Leave
    <2>1. phase' = "ended" /\ answer' # "200" /\ UNCHANGED <<timeVars, bodyVars>>
      BY <1>5, Zenon DEF Fails, ConnectExpired, RequestExpired, BodyFails, Leave, EndsWith
    <2> QED BY <2>1, Zenon
  <1>6. CASE UpgradeFails \/ BodyEnds
    BY <1>6, Zenon DEF UpgradeFails, BodyEnds, EndsWith, Ready
  <1>7. ASSUME NEW hdr \in Headers, Responds(hdr) \/ Switches(hdr) PROVE BodyInv'
    BY <1>7, Zenon DEF Responds, Switches
  <1>8. CASE Relay
    BY <1>8, Zenon DEF Relay
  <1>9. ASSUME NEW n \in 0..MaxFrame, PollFrame(n) PROVE BodyInv'
    <2>1. /\ phase = "relaying" /\ phase' = phase /\ held = <<>> /\ n \in Nat
          /\ arrived' = Append(arrived, n) /\ arrived = out /\ charged = delivered
          /\ age' = age /\ elapsed' = elapsed
      BY <1>9, Joining DEF PollFrame, Ready
    <2>2. CASE n = 0 \/ Due(Charged(n))
      <3>1. /\ out' = Append(out, n) /\ delivered' = delivered + n /\ held' = <<>>
            /\ charged' = charged + n
        BY <1>9, <2>1, <2>2 DEF PollFrame, Charged
      <3>2. delivered' <= BytesPerTick * elapsed
        BY <2>1, <2>2, <3>1 DEF Due, Charged
      <3>3. out' \in Seq(Nat) /\ out' \o held' = arrived'
        BY <2>1, <3>1, Joining, Zenon
      <3> QED BY <2>1, <3>1, <3>2, <3>3
    <2>3. CASE n # 0 /\ ~Due(Charged(n))
      <3>1. out' = out /\ delivered' = delivered /\ held' = <<n>> /\ charged' = charged + n
        BY <1>9, <2>1, <2>3, Joining, Zenon DEF PollFrame, Charged
      <3>2. held' \in Seq(Nat) /\ arrived' \in Seq(Nat) /\ out' \o held' = arrived'
        BY <2>1, <3>1, Joining
      <3> QED BY <2>1, <3>1, <3>2
    <2> QED BY <2>2, <2>3, Zenon
  <1>10. CASE PollPending
    <2>1. PICK n \in Nat : held = <<n>> /\ charged = delivered + n
      BY <1>10, Zenon DEF PollPending
    <2>2. /\ out' = out \o <<n>> /\ held' = <<>> /\ delivered' = delivered + n
          /\ phase = "relaying" /\ phase' = phase /\ charged' = charged /\ arrived' = arrived
          /\ age' = age /\ elapsed' = elapsed /\ delivered' <= BytesPerTick * elapsed
      BY <1>10, <2>1, Zenon DEF PollPending, Due
    <2>3. out' \in Seq(Nat) /\ out' \o held' = arrived'
      BY <2>1, <2>2, Joining, Zenon
    <2>4. HeldIsCharged'
      BY <2>1, <2>2, Zenon
    <2> QED BY <2>1, <2>2, <2>3, <2>4
  <1>11. CASE Passes
    <2>1. /\ age' \in Nat /\ age' <= RequestTimeout
          /\ elapsed' = elapsed \/ elapsed' = elapsed + 1
          /\ UNCHANGED <<phase, answer, held, arrived, out, delivered, charged>>
      <3>1. /\ ~(Waiting /\ age = RequestTimeout)
            /\ age' = IF Waiting THEN age + 1 ELSE age
            /\ elapsed' = IF started THEN elapsed + 1 ELSE elapsed
            /\ UNCHANGED <<phase, answer, held, arrived, out, delivered, charged>>
        BY <1>11, Zenon DEF Passes, RequestDue, replyVars
      <3>2. age' \in Nat /\ age' <= RequestTimeout
        BY <3>1
      <3> QED BY <3>1, <3>2, Zenon
    <2>2. delivered' <= BytesPerTick * elapsed' /\ elapsed' \in Nat
      <3>1. CASE elapsed' = elapsed BY <2>1, <3>1, Zenon
      <3>2. CASE elapsed' = elapsed + 1
        <4>1. elapsed + 1 \in Nat OBVIOUS
        <4> QED BY <2>1, <3>2, <4>1, Growing, Zenon
      <3> QED BY <2>1, <3>1, <3>2, Zenon
    <2> QED BY <2>1, <2>2, Zenon
  <1>12. CASE UNCHANGED exchangeVars
    BY <1>12, Zenon DEF exchangeVars
  <1> HIDE DEF BodyInv
  <1> QED BY <1>1, <1>2, <1>3, <1>4, <1>5, <1>6, <1>7, <1>8, <1>9, <1>10, <1>11, <1>12, Zenon
          DEF ExchangeNext

\* The inductive invariant holds in every behaviour.
THEOREM BodyInvariant == ExchangeSpec => []BodyInv
  BY BodyInit, BodyStep, PTL DEF ExchangeSpec

\* Whatever the frames and the client's pace, the client is never ahead of the rate.
THEOREM RateKept == ExchangeSpec => []RateIsKept
  <1>1. BodyInv => RateIsKept
    BY Zenon DEF BodyInv
  <1> QED BY <1>1, BodyInvariant, PTL

\* The client is handed the upstream's frames, in order and none left out.
THEOREM FramesKept == ExchangeSpec => []FramesInOrder
  <1>1. BodyInv => FramesInOrder
    BY Joining, Zenon DEF BodyInv, BodyTypeOK, HeldWhileRelaying, FramesInOrder
  <1> QED BY <1>1, BodyInvariant, PTL

\* The header of a response, a timeout or an error comes within the request timeout.
THEOREM AnswersInTime == ExchangeSpec => []AnsweredInTime
  <1>1. BodyInv => AnsweredInTime
    BY Zenon DEF BodyInv, AnsweredInTime
  <1> QED BY <1>1, BodyInvariant, PTL

-------------------------------------------------------------------------------
(* Script.                                                                 *)

\* An operation in flight belongs to the request being handled.
OpsAreCurrent == \A o \in Calls : Pending(o) => thread = "running" /\ current = o

\* A command is forwarded by the call of the handler that gave it, and once.
CommandedOnce(c) ==
    /\ command[c] # None => command[c] = c /\ respond[c] = "sent" /\ forwarding[c] = None
    /\ forwarding[c] # None => forwarding[c] = c /\ respond[c] = "sent"
    /\ respond[c] \in {"no", "started"} \/ command[c] # None => sentUpstream[c] = <<>>

Commanded == \A c \in Calls : CommandedOnce(c)

\* The thread meets a call once: until then its handler has done nothing.
Untouched(c) == respond[c] = "no" /\ c # current

ReceivedOnce ==
    /\ \A c \in Calls : call[c] = "new" => Untouched(c)
    /\ \A i \in 1..Len(queue) : Untouched(queue[i]) /\ call[queue[i]] # "new"
    /\ \A i, j \in 1..Len(queue) : i # j => queue[i] # queue[j]

\* The RequestState holds the response of its own request.
Responses ==
    \A c \in Calls :
        /\ respond[c] = "resolved?" => c \in resBodies /\ c \notin resRead
        /\ thread = "running" /\ current = c /\ respond[c] = "resolved" =>
             resBody = c /\ (c \notin resRead => c \in resBodies)
        /\ respond[c] \in {"no", "started", "sent"} => c \notin resRead

\* A request's body leaves its handle when its handler reads it or it is forwarded.
RequestBodies ==
    \A c \in Calls :
        respond[c] \in {"no", "started"} \/ command[c] # None => c \in reqBodies \cup reqRead

Own(a, c) == a.kind = "upstream" => a.body = c

OwnResults == \A c \in Calls : Own(result[c], c) /\ Own(clientAnswer[c], c)

Awaited ==
    /\ OpsAreCurrent /\ Commanded /\ ReceivedOnce /\ Responses /\ RequestBodies /\ OwnResults
    /\ ForwardedOnce

\* The types, and that what a step needs is there.
Base ==
    /\ ScriptTypeOK
    /\ thread = "running" => current \in Calls
    /\ \A c \in Calls : call[c] = "forwarding" => forwarding[c] \in Calls

IInv == Base /\ (awaits => Awaited)

\* An element appended to a sequence over a set, and one taken from it.
LEMMA Appending ==
    ASSUME NEW S, NEW s \in Seq(S)
    PROVE  /\ <<>> \in Seq(S)
           /\ \A e \in S : Append(s, e) \in Seq(S)
           /\ s # <<>> => Head(s) \in S /\ Tail(s) \in Seq(S)
  OBVIOUS

\* Every variable has its type initially.
LEMMA InitBase == ScriptInit => Base
<1> SUFFICES ASSUME ScriptInit PROVE Base
    BY Zenon
<1>1. awaits \in BOOLEAN /\ reading \in BOOLEAN
    BY ScriptConstants DEF ScriptInit
<1>2. NoAnswer \in AnswerType
    BY DEF NoAnswer, AnswerType
<1>3. <<>> \in Seq(Calls) /\ <<>> \in Seq([by : Calls, body : {"supplied", "original", "empty"}])
    OBVIOUS
<1> QED BY <1>1, <1>2, <1>3, Zenon DEF ScriptInit, Base, ScriptTypeOK

\* Every step keeps the types, however the handler is written.
LEMMA StepBase == Base /\ [ScriptNext]_scriptVars => Base'
<1> SUFFICES ASSUME Base, [ScriptNext]_scriptVars PROVE Base'
    BY Zenon
<1> USE ScriptConstants DEF Base, ScriptTypeOK, Ended, AnswerType, threadVars, handlerVars, handleVars,
        opVars, callVars
<1>1. CASE Load BY <1>1, Zenon DEF Load
<1>2. CASE LoadFails
  <2>1. Failure \in AnswerType BY Zenon DEF Failure
  <2>2. result' \in [Calls -> AnswerType] BY <1>2, <2>1, Zenon DEF LoadFails
  <2>3. queue' \in Seq(Calls) /\ thread' = "ended" BY <1>2, Appending, Zenon DEF LoadFails
  <2> QED BY <1>2, <2>2, <2>3, Zenon DEF LoadFails
<1>3. CASE Receive
  <2>1. Head(queue) \in Calls /\ Tail(queue) \in Seq(Calls) BY <1>3, Appending, Zenon DEF Receive
  <2> QED BY <1>3, <2>1, Zenon DEF Receive
<1>4. CASE Close BY <1>4, Zenon DEF Close
<1>5. ASSUME NEW c \in Calls, Send(c) PROVE Base' BY <1>5, Appending, Zenon DEF Send
<1>6. ASSUME NEW c \in Calls, SendFails(c) PROVE Base' BY <1>6, Zenon DEF SendFails
<1>7. ASSUME NEW c \in Calls, TakeCommand(c) PROVE Base'
  <2>1. command[c] \in Calls BY <1>7, Zenon DEF TakeCommand
  <2>2. [by |-> command[c], body |-> ForwardedBody(c, command[c])]
          \in [by : Calls, body : {"supplied", "original", "empty"}]
      BY <2>1, Zenon DEF ForwardedBody
  <2>3. sentUpstream' \in [Calls -> Seq([by : Calls, body : {"supplied", "original", "empty"}])]
    <3> DEFINE S == [by : Calls, body : {"supplied", "original", "empty"}]
    <3>1. sentUpstream[c] \in Seq(S) BY <1>7, Zenon
    <3>2. Append(sentUpstream[c], [by |-> command[c], body |-> ForwardedBody(c, command[c])])
            \in Seq(S)
      BY <2>2, <3>1, Appending, Zenon
    <3> QED BY <1>7, <3>2, Zenon DEF TakeCommand
  <2> QED BY <1>7, <2>1, <2>3, Zenon DEF TakeCommand
<1>8. ASSUME NEW c \in Calls, BadCommand(c) PROVE Base' BY <1>8, Zenon DEF BadCommand
<1>9. ASSUME NEW c \in Calls, UpstreamAnswers(c) PROVE Base'
  <2>1. forwarding[c] \in Calls BY <1>9, Zenon DEF UpstreamAnswers
  <2>2. resBodies' \subseteq Calls BY <1>9, <2>1, Zenon DEF UpstreamAnswers
  <2> QED BY <1>9, <2>1, <2>2, Zenon DEF UpstreamAnswers
<1>10. ASSUME NEW c \in Calls, UpstreamFails(c) PROVE Base' BY <1>10, Zenon DEF UpstreamFails
<1>11. ASSUME NEW c \in Calls, NEW s \in Ended, EndCall(c, s), clientAnswer' \in [Calls -> AnswerType]
       PROVE Base'
  <2>1. respond' \in [Calls -> {"no", "started", "sent", "resolved?", "rejected?", "resolved", "rejected"}]
      BY <1>11, Zenon DEF EndCall, Cut
  <2>2. result' \in [Calls -> AnswerType] BY <1>11, Zenon DEF EndCall, NoAnswer
  <2>3. call' \in [Calls -> {"new", "waiting", "forwarding"} \cup Ended] BY <1>11, Zenon DEF EndCall
  <2>4. command' \in [Calls -> Calls \cup {None}] /\ forwarding' \in [Calls -> Calls \cup {None}]
      BY <1>11, Zenon DEF EndCall
  <2>5. \A d \in Calls : call'[d] = "forwarding" => forwarding'[d] \in Calls BY <1>11, Zenon DEF EndCall
  <2> QED BY <1>11, <2>1, <2>2, <2>3, <2>4, <2>5, Zenon DEF EndCall
<1>12. ASSUME NEW c \in Calls, NotReady(c) \/ TakeResult(c) \/ Drop(c) PROVE Base'
  <2>1. clientAnswer' \in [Calls -> AnswerType]
    <3>1. CASE TakeResult(c) BY <3>1, Zenon DEF TakeResult
    <3>2. CASE NotReady(c) \/ Drop(c) BY <3>2, Zenon DEF NotReady, Drop
    <3> QED BY <1>12, <3>1, <3>2, Zenon
  <2>2. EndCall(c, "failed") \/ EndCall(c, "returned") \/ EndCall(c, "dropped")
      BY <1>12, Zenon DEF NotReady, TakeResult, Drop
  <2> QED BY <1>11, <2>1, <2>2, Zenon
<1>13. ASSUME NEW c \in Calls, ReadReqBody(c) \/ ReadResBody(c) PROVE Base'
  <2>1. CASE ReadReqBody(c)
    <3>1. reading' \in BOOLEAN BY <2>1 DEF ReadReqBody
    <3> QED BY <2>1, <3>1, Zenon DEF ReadReqBody
  <2>2. CASE ReadResBody(c)
    <3>1. reading' \in BOOLEAN BY <2>2 DEF ReadResBody
    <3> QED BY <2>2, <3>1, Zenon DEF ReadResBody
  <2> QED BY <1>13, <2>1, <2>2, Zenon
<1>14. ASSUME NEW c \in Calls, NEW newBody \in BOOLEAN, CallRespond(c, newBody) PROVE Base'
    BY <1>14, Zenon DEF CallRespond
<1>15. ASSUME NEW c \in Calls, PollRespond(c) PROVE Base'
  <2>1. CASE Listening(current)
    <3>1. current \in Calls BY <1>15, Zenon DEF PollRespond
    <3>2. command' = [command EXCEPT ![current] = c] BY <1>15, <2>1, Zenon DEF PollRespond
    <3>3. command' \in [Calls -> Calls \cup {None}] BY <3>1, <3>2, Zenon
    <3>4. respond' = [respond EXCEPT ![c] = "sent"] BY <1>15, <2>1, Zenon DEF PollRespond
    <3> QED BY <1>15, <3>1, <3>3, <3>4, Zenon DEF PollRespond
  <2>2. CASE ~Listening(current) BY <1>15, <2>2, Zenon DEF PollRespond
  <2> QED BY <2>1, <2>2, Zenon
<1>16. ASSUME NEW c \in Calls, ResumeRespond(c) PROVE Base' BY <1>16, Zenon DEF ResumeRespond
<1>17. ASSUME NEW c \in Calls, ReturnUpstream(c) PROVE Base' BY <1>17, Zenon DEF ReturnUpstream, Finish
<1>18. ASSUME NEW c \in Calls, ReturnOwn(c) PROVE Base' BY <1>18, Zenon DEF ReturnOwn, Finish
<1>19. ASSUME NEW c \in Calls, Throw(c) PROVE Base'
  <2>1. Failure \in AnswerType BY Zenon DEF Failure
  <2>2. result' \in [Calls -> AnswerType] BY <1>19, <2>1, Zenon DEF Throw, Finish
  <2> QED BY <1>19, <2>2, Zenon DEF Throw, Finish
<1>20. CASE BodyRead BY <1>20, Zenon DEF BodyRead
<1>21. CASE UNCHANGED scriptVars BY <1>21, Zenon DEF scriptVars
<1> HIDE DEF Base
<1> QED BY <1>1, <1>2, <1>3, <1>4, <1>5, <1>6, <1>7, <1>8, <1>9, <1>10, <1>12, <1>13, <1>14,
           <1>15, <1>16, <1>17, <1>18, <1>19, <1>20, <1>21, Zenon DEF ScriptNext

\* A sequence and what is appended to it.
LEMMA AppendFacts ==
    ASSUME NEW S, NEW q \in Seq(S), NEW e \in S
    PROVE  \A i \in 1..Len(Append(q, e)) :
               \/ i \in 1..Len(q) /\ Append(q, e)[i] = q[i]
               \/ i = Len(q) + 1 /\ Append(q, e)[i] = e
OBVIOUS

\* The parts of Awaited that a step leaves alone.
LEMMA Frames ==
    ASSUME Awaited
    PROVE  /\ UNCHANGED <<respond, thread, current>> => OpsAreCurrent'
           /\ UNCHANGED <<command, respond, forwarding, sentUpstream>> => Commanded'
           /\ UNCHANGED <<call, respond, current, queue>> => ReceivedOnce'
           /\ UNCHANGED <<respond, thread, current, resBodies, resRead, resBody>> => Responses'
           /\ UNCHANGED <<respond, command, reqBodies, reqRead>> => RequestBodies'
           /\ UNCHANGED <<result, clientAnswer>> => OwnResults'
           /\ UNCHANGED <<awaits, sentUpstream, reqRead>> => ForwardedOnce'
<1>1. UNCHANGED <<respond, thread, current>> => OpsAreCurrent'
    BY Zenon DEF Awaited, OpsAreCurrent, Pending
<1>2. UNCHANGED <<command, respond, forwarding, sentUpstream>> => Commanded'
    BY Zenon DEF Awaited, Commanded, CommandedOnce
<1>3. UNCHANGED <<call, respond, current, queue>> => ReceivedOnce'
    BY Zenon DEF Awaited, ReceivedOnce, Untouched
<1>4. UNCHANGED <<respond, thread, current, resBodies, resRead, resBody>> => Responses'
    BY Zenon DEF Awaited, Responses
<1>5. UNCHANGED <<respond, command, reqBodies, reqRead>> => RequestBodies'
    BY Zenon DEF Awaited, RequestBodies
<1>6. UNCHANGED <<result, clientAnswer>> => OwnResults'
    BY Zenon DEF Awaited, OwnResults, Own
<1>7. UNCHANGED <<awaits, sentUpstream, reqRead>> => ForwardedOnce'
    BY Zenon DEF Awaited, ForwardedOnce
<1> QED BY <1>1, <1>2, <1>3, <1>4, <1>5, <1>6, <1>7, Zenon

\* What the types say of functions and of the queue.
LEMMA Domains ==
    ASSUME Base
    PROVE  /\ DOMAIN call = Calls /\ DOMAIN respond = Calls /\ DOMAIN command = Calls
           /\ DOMAIN forwarding = Calls /\ DOMAIN result = Calls /\ DOMAIN clientAnswer = Calls
           /\ DOMAIN sentUpstream = Calls
           /\ \A c \in Calls : call[c] = "forwarding" => forwarding[c] \in Calls
BY Zenon DEF Base, ScriptTypeOK

\* The queue holds calls.
LEMMA Queued ==
    ASSUME Base
    PROVE  queue \in Seq(Calls) /\ \A i \in 1..Len(queue) : queue[i] \in Calls
<1>1. queue \in Seq(Calls) BY Zenon DEF Base, ScriptTypeOK
<1> QED BY <1>1

\* A step that leaves the queue alone, and what the thread has not met.
LEMMA QueueFrame ==
    ASSUME Base, ReceivedOnce, UNCHANGED queue,
           \A d \in Calls : call'[d] = "new" => call[d] = "new",
           \A d \in Calls : Untouched(d) => Untouched(d)'
    PROVE  ReceivedOnce'
<1>1. \A i \in 1..Len(queue) : queue[i] \in Calls BY Queued, Zenon
<1>2. \A c \in Calls : call'[c] = "new" => Untouched(c)' BY Zenon DEF ReceivedOnce
<1>3. \A i \in 1..Len(queue) : Untouched(queue[i])' /\ call'[queue[i]] # "new"
    BY <1>1, Zenon DEF ReceivedOnce
<1> QED BY <1>2, <1>3, Zenon DEF ReceivedOnce

\* The end of a call's future rejects the operation that waits for it, if there is one.
LEMMA EndedAwaited ==
    ASSUME Base, Awaited, NEW c \in Calls, NEW s \in Ended, EndCall(c, s),
           UNCHANGED clientAnswer \/ clientAnswer' = [clientAnswer EXCEPT ![c] = result[c]]
    PROVE  Awaited'
<1>1. /\ OpsAreCurrent /\ Commanded /\ ReceivedOnce /\ Responses /\ RequestBodies /\ OwnResults
    BY Zenon DEF Awaited
<1>2. /\ UNCHANGED <<awaits, thread, current, queue, reqBodies, resBodies, resBody>>
      /\ UNCHANGED <<reqRead, resRead, supplied, sentUpstream>>
      /\ call' = [call EXCEPT ![c] = s] /\ respond' = Cut(c)
      /\ command' = [command EXCEPT ![c] = None]
      /\ forwarding' = [forwarding EXCEPT ![c] = None]
      /\ result' = [result EXCEPT ![c] = NoAnswer]
    BY Zenon DEF EndCall, threadVars, handlerVars, handleVars
<1>3. ASSUME NEW o \in Calls
      PROVE  \/ respond'[o] = respond[o]
             \/ o = c /\ respond[o] = "sent" /\ respond'[o] = "rejected?"
  <2>1. CASE o \notin {command[c], forwarding[c]} BY <1>2, <2>1, Zenon DEF Cut
  <2>2. CASE o \in {command[c], forwarding[c]}
    <3>1. o # None BY ScriptConstants, Zenon
    <3>2. CommandedOnce(c) BY <1>1, Zenon DEF Commanded
    <3>3. o = c /\ respond[c] = "sent" BY <2>2, <3>1, <3>2 DEF CommandedOnce
    <3> QED BY <1>2, <2>2, <3>3, Zenon DEF Cut
  <2> QED BY <2>1, <2>2, Zenon
<1>4. OpsAreCurrent' BY <1>1, <1>2, <1>3, Zenon DEF OpsAreCurrent, Pending
<1>5. Commanded'
  <2> SUFFICES ASSUME NEW d \in Calls PROVE CommandedOnce(d)'
      BY Zenon DEF Commanded
  <2>1. CASE d = c
    <3>1. command'[d] = None /\ forwarding'[d] = None BY <1>2, <2>1, Domains, Zenon
    <3>2. respond'[d] \in {"no", "started"} => respond[d] \in {"no", "started"}
      BY <1>3, Zenon
    <3> QED BY <1>1, <1>2, <3>1, <3>2, Zenon DEF Commanded, CommandedOnce
  <2>2. CASE d # c
    <3>1. command'[d] = command[d] /\ forwarding'[d] = forwarding[d] BY <1>2, <2>2, Domains, Zenon
    <3>2. respond'[d] = respond[d] BY <1>3, <2>2, Zenon
    <3> QED BY <1>1, <1>2, <3>1, <3>2, Zenon DEF Commanded, CommandedOnce
  <2> QED BY <2>1, <2>2, Zenon
<1>6. ReceivedOnce'
  <2>1. \A d \in Calls : call'[d] = "new" => call[d] = "new" BY <1>2, Domains, Zenon DEF Ended
  <2>2. \A d \in Calls : Untouched(d) => Untouched(d)' BY <1>2, <1>3, Zenon DEF Untouched
  <2> QED BY <1>1, <1>2, <2>1, <2>2, QueueFrame, Zenon
<1>7. Responses' BY <1>1, <1>2, <1>3, Zenon DEF Responses
<1>8. RequestBodies'
  <2>1. \A d \in Calls : command'[d] # None => command[d] # None BY <1>2, Domains, Zenon
  <2> QED BY <1>1, <1>2, <1>3, <2>1, Zenon DEF RequestBodies
<1>9. OwnResults'
  <2>1. \A d \in Calls : result'[d] = result[d] \/ result'[d] = NoAnswer BY <1>2, Domains, Zenon
  <2>2. \A d \in Calls :
          clientAnswer'[d] = clientAnswer[d] \/ (d = c /\ clientAnswer'[d] = result[c])
    BY Domains, Zenon
  <2>3. \A d \in Calls : Own(NoAnswer, d) BY Zenon DEF NoAnswer, Own
  <2> QED BY <1>1, <2>1, <2>2, <2>3, Zenon DEF OwnResults
<1>10. ForwardedOnce' BY <1>2, Frames, Zenon
<1> QED BY <1>4, <1>5, <1>6, <1>7, <1>8, <1>9, <1>10, Zenon DEF Awaited

\* With a handler that awaits, every step of a call's future keeps the requests apart.
LEMMA FutureAwaited ==
    ASSUME Base, Awaited, awaits, NEW c \in Calls,
           \/ Send(c) \/ SendFails(c) \/ TakeCommand(c) \/ BadCommand(c)
           \/ UpstreamAnswers(c) \/ UpstreamFails(c) \/ NotReady(c) \/ TakeResult(c) \/ Drop(c)
    PROVE  Awaited'
<1>1. /\ OpsAreCurrent /\ Commanded /\ ReceivedOnce /\ Responses /\ RequestBodies /\ OwnResults
      /\ ForwardedOnce
    BY Zenon DEF Awaited
<1>2. CASE Send(c)
  <2>1. /\ UNCHANGED <<awaits, thread, current, reqBodies, resBodies, resBody>>
        /\ UNCHANGED <<reqRead, resRead, respond, command, forwarding, sentUpstream, clientAnswer, result>>
      BY <1>2, Zenon DEF Send, threadVars, handlerVars, handleVars, opVars
  <2>2. /\ call[c] = "new" /\ call' = [call EXCEPT ![c] = "waiting"] /\ queue' = Append(queue, c)
      BY <1>2, Zenon DEF Send
  <2>3. Untouched(c) BY <1>1, <2>2, Zenon DEF ReceivedOnce
  <2>4. \A i \in 1..Len(queue) : queue[i] \in Calls /\ queue[i] # c
      BY <1>1, <2>2, Queued, Zenon DEF ReceivedOnce
  <2>5. \A i \in 1..Len(queue') : \/ i \in 1..Len(queue) /\ queue'[i] = queue[i]
                                  \/ i = Len(queue) + 1 /\ queue'[i] = c
      BY <2>2, AppendFacts, Queued, Zenon
  <2>6. \A d \in Calls : Untouched(d)' <=> Untouched(d) BY <2>1, Zenon DEF Untouched
  <2>7. call'[c] = "waiting" /\ \A d \in Calls \ {c} : call'[d] = call[d] BY <2>2, Domains, Zenon
  <2>8. \A i \in 1..Len(queue') : Untouched(queue[i])' /\ (call[queue[i]] # "new")'
    <3> SUFFICES ASSUME NEW i \in 1..Len(queue') PROVE Untouched(queue[i])' /\ (call[queue[i]] # "new")'
        BY Zenon
    <3>1. CASE i \in 1..Len(queue) /\ queue'[i] = queue[i]
      <4>1. Untouched(queue[i]) /\ call[queue[i]] # "new" /\ queue[i] \in Calls \ {c}
          BY <1>1, <2>4, <3>1, Zenon DEF ReceivedOnce
      <4> QED BY <2>1, <2>7, <3>1, <4>1, Zenon DEF Untouched
    <3>2. CASE queue'[i] = c
      <4>1. "waiting" # "new" BY Zenon
      <4> QED BY <2>1, <2>3, <2>7, <3>2, <4>1, Zenon DEF Untouched
    <3> QED BY <2>5, <3>1, <3>2, Zenon
  <2>9. \A i, j \in 1..Len(queue') : i # j => queue'[i] # queue'[j]
    <3> SUFFICES ASSUME NEW i \in 1..Len(queue'), NEW j \in 1..Len(queue'), i # j, queue'[i] = queue'[j]
                 PROVE  FALSE
        BY Zenon
    <3>1. i \in 1..Len(queue) /\ j \in 1..Len(queue) /\ queue[i] = queue[j] BY <2>4, <2>5, Zenon
    <3> QED BY <1>1, <3>1, Zenon DEF ReceivedOnce
  <2>10. \A d \in Calls : call'[d] = "new" => Untouched(d)' BY <1>1, <2>6, <2>7, Zenon DEF ReceivedOnce
  <2>11. ReceivedOnce' BY <2>8, <2>9, <2>10, Zenon DEF ReceivedOnce
  <2> QED BY <2>1, <2>11, Frames, Zenon DEF Awaited
<1>3. CASE SendFails(c)
  <2>1. /\ UNCHANGED <<awaits, thread, current, queue, reqBodies, resBodies, resBody>>
        /\ UNCHANGED <<reqRead, resRead, respond, command, forwarding, sentUpstream, clientAnswer, result>>
      BY <1>3, Zenon DEF SendFails, threadVars, handlerVars, handleVars, opVars
  <2>2. \A d \in Calls : call'[d] = "new" => call[d] = "new" BY <1>3, Domains, Zenon DEF SendFails
  <2>3. \A d \in Calls : Untouched(d) => Untouched(d)' BY <2>1, Zenon DEF Untouched
  <2>4. ReceivedOnce' BY <1>1, <2>1, <2>2, <2>3, QueueFrame, Zenon
  <2> QED BY <2>1, <2>4, Frames, Zenon DEF Awaited
<1>4. CASE TakeCommand(c)
  <2>1. /\ UNCHANGED <<awaits, thread, current, queue, resBodies, resBody>>
        /\ UNCHANGED <<reqRead, resRead, respond, clientAnswer, result>>
      BY <1>4, Zenon DEF TakeCommand, threadVars, handlerVars, opVars
  <2>2. command[c] = c /\ respond[c] = "sent" /\ forwarding[c] = None /\ sentUpstream[c] = <<>>
      BY <1>1, <1>4, Zenon DEF TakeCommand, Commanded, CommandedOnce
  <2>3. /\ forwarding' = [forwarding EXCEPT ![c] = c]
        /\ command' = [command EXCEPT ![c] = None]
        /\ call' = [call EXCEPT ![c] = "forwarding"]
      BY <1>4, <2>2, Zenon DEF TakeCommand
  <2>4. /\ sentUpstream'[c] = Append(<<>>, [by |-> c, body |-> ForwardedBody(c, c)])
        /\ \A d \in Calls \ {c} : sentUpstream'[d] = sentUpstream[d]
      BY <1>4, <2>2, Domains, Zenon DEF TakeCommand
  <2>5. Commanded' BY <1>1, <2>1, <2>2, <2>3, <2>4, Domains, Zenon DEF Commanded, CommandedOnce
  <2>6. ReceivedOnce'
    <3>1. \A d \in Calls : call'[d] = "new" => call[d] = "new" BY <2>3, Domains, Zenon
    <3>2. \A d \in Calls : Untouched(d) => Untouched(d)' BY <2>1, Zenon DEF Untouched
    <3> QED BY <1>1, <2>1, <3>1, <3>2, QueueFrame, Zenon
  <2>7. RequestBodies'
    <3>1. \A d \in Calls \ {c} : d \in reqBodies' <=> d \in reqBodies BY <1>4, Zenon DEF TakeCommand
    <3>2. command'[c] = None /\ \A d \in Calls \ {c} : command'[d] = command[d] BY <2>3, Domains, Zenon
    <3> QED BY <1>1, <2>1, <2>2, <3>1, <3>2, Zenon DEF RequestBodies
  <2>8. ForwardedOnce'
    <3>1. c \in reqBodies \cup reqRead BY <1>1, <2>2, ScriptConstants, Zenon DEF RequestBodies
    <3>2. ForwardedBody(c, c) = "empty" => c \in reqRead BY <3>1, Zenon DEF ForwardedBody
    <3> DEFINE r == [by |-> c, body |-> ForwardedBody(c, c)]
    <3>3. r.by = c /\ r.body = ForwardedBody(c, c) BY Zenon
    <3> HIDE DEF r
    <3>4. Len(Append(<<>>, r)) = 1 /\ DOMAIN Append(<<>>, r) = {1} /\ Append(<<>>, r)[1] = r OBVIOUS
    <3>5. sentUpstream'[c] = Append(<<>>, r) BY <2>4, Zenon DEF r
    <3>6. ASSUME NEW d \in Calls
          PROVE  /\ Len(sentUpstream'[d]) <= 1
                 /\ \A i \in DOMAIN sentUpstream'[d] :
                      /\ sentUpstream'[d][i].by = d
                      /\ sentUpstream'[d][i].body = "empty" => d \in reqRead'
      <4>1. CASE d = c
        <5>1. sentUpstream'[d] = Append(<<>>, r) BY <3>5, <4>1, Zenon
        <5>2. \A i \in {1} : i = 1 BY Zenon
        <5>3. Len(Append(<<>>, r)) <= 1 BY <3>4
        <5>4. r.by = d /\ (r.body = "empty" => d \in reqRead') BY <2>1, <3>2, <3>3, <4>1, Zenon
        <5> QED BY <3>4, <5>1, <5>2, <5>3, <5>4, Zenon
      <4>2. CASE d # c
        <5>1. sentUpstream'[d] = sentUpstream[d] /\ reqRead' = reqRead BY <2>1, <2>4, <4>2, Zenon
        <5> QED BY <1>1, <5>1, Zenon DEF ForwardedOnce
      <4> QED BY <4>1, <4>2, Zenon
    <3> QED BY <3>6, Zenon DEF ForwardedOnce
  <2> QED BY <2>1, <2>5, <2>6, <2>7, <2>8, Frames, Zenon DEF Awaited
<1>5. CASE BadCommand(c)
  <2>1. /\ UNCHANGED <<awaits, thread, current, queue, resBodies, resBody, call, forwarding>>
        /\ UNCHANGED <<reqRead, resRead, sentUpstream, clientAnswer, result>>
      BY <1>5, Zenon DEF BadCommand, threadVars, handlerVars
  <2>2. command[c] = c /\ respond[c] = "sent" /\ forwarding[c] = None
      BY <1>1, <1>5, Zenon DEF BadCommand, Commanded, CommandedOnce
  <2>3. /\ respond'[c] = "rejected?" /\ \A d \in Calls \ {c} : respond'[d] = respond[d]
        /\ command'[c] = None /\ \A d \in Calls \ {c} : command'[d] = command[d]
      BY <1>5, <2>2, Domains, Zenon DEF BadCommand
  <2>4. OpsAreCurrent' BY <1>1, <2>1, <2>2, <2>3, Zenon DEF OpsAreCurrent, Pending
  <2>5. Commanded'
    <3>1. CommandedOnce(c)' BY <2>1, <2>2, <2>3, Zenon DEF CommandedOnce
    <3>2. ASSUME NEW d \in Calls \ {c} PROVE CommandedOnce(d)'
      <4>1. CommandedOnce(d) BY <1>1, Zenon DEF Commanded
      <4>2. command'[d] = command[d] /\ forwarding'[d] = forwarding[d] /\ respond'[d] = respond[d]
          BY <2>1, <2>3, Zenon
      <4> QED BY <2>1, <4>1, <4>2, Zenon DEF CommandedOnce
    <3> QED BY <3>1, <3>2, Zenon DEF Commanded
  <2>6. ReceivedOnce'
    <3>1. \A d \in Calls : Untouched(d) => Untouched(d)' BY <2>1, <2>2, <2>3, Zenon DEF Untouched
    <3>2. \A d \in Calls : call'[d] = "new" => call[d] = "new" BY <2>1, Zenon
    <3> QED BY <1>1, <2>1, <3>1, <3>2, QueueFrame, Zenon
  <2>7. Responses' BY <1>1, <2>1, <2>2, <2>3, Zenon DEF Responses
  <2>8. RequestBodies'
    <3>1. \A d \in Calls \ {c} : d \in reqBodies' <=> d \in reqBodies BY <1>5, Zenon DEF BadCommand
    <3> QED BY <1>1, <2>1, <2>3, <3>1, Zenon DEF RequestBodies
  <2> QED BY <2>1, <2>4, <2>5, <2>6, <2>7, <2>8, Frames, Zenon DEF Awaited
<1>6. CASE UpstreamAnswers(c) \/ UpstreamFails(c)
  <2>1. /\ UNCHANGED <<awaits, thread, current, queue, reqBodies, resBody>>
        /\ UNCHANGED <<reqRead, resRead, command, sentUpstream, clientAnswer, result>>
      BY <1>6, Zenon DEF UpstreamAnswers, UpstreamFails, threadVars, handlerVars, handleVars
  <2>2. forwarding[c] = c /\ respond[c] = "sent" /\ command[c] = None
    <3>1. call[c] = "forwarding" BY <1>6, Zenon DEF UpstreamAnswers, UpstreamFails
    <3>2. forwarding[c] # None BY <3>1, ScriptConstants, Zenon DEF Base
    <3> QED BY <1>1, <3>2, Zenon DEF Commanded, CommandedOnce
  <2>3. /\ \A d \in Calls \ {c} : respond'[d] = respond[d] /\ forwarding'[d] = forwarding[d]
        /\ forwarding'[c] = None /\ respond'[c] \in {"resolved?", "rejected?"}
        /\ \A d \in Calls : call'[d] = "new" => call[d] = "new"
    <3>1. /\ \/ respond' = [respond EXCEPT ![c] = "resolved?"]
             \/ respond' = [respond EXCEPT ![c] = "rejected?"]
          /\ forwarding' = [forwarding EXCEPT ![c] = None]
          /\ call' = [call EXCEPT ![c] = "waiting"]
        BY <1>6, <2>2, Zenon DEF UpstreamAnswers, UpstreamFails
    <3> QED BY <3>1, Domains, Zenon
  <2>4. /\ respond'[c] = "resolved?" => c \in resBodies'
        /\ \A d \in Calls \ {c} : d \in resBodies' <=> d \in resBodies
      BY <1>6, <2>2, Domains, Zenon DEF UpstreamAnswers, UpstreamFails, handleVars
  <2>5. OpsAreCurrent' BY <1>1, <2>1, <2>2, <2>3, Zenon DEF OpsAreCurrent, Pending
  <2>6. Commanded'
    <3>1. CommandedOnce(c)' BY <2>1, <2>2, <2>3, Zenon DEF CommandedOnce
    <3>2. ASSUME NEW d \in Calls \ {c} PROVE CommandedOnce(d)'
      <4>1. CommandedOnce(d) BY <1>1 DEF Commanded
      <4>2. command'[d] = command[d] /\ forwarding'[d] = forwarding[d] /\ respond'[d] = respond[d]
          BY <2>1, <2>3, Zenon
      <4> QED BY <2>1, <4>1, <4>2, Zenon DEF CommandedOnce
    <3> QED BY <3>1, <3>2 DEF Commanded
  <2>7. ReceivedOnce'
    <3>1. \A d \in Calls : Untouched(d) => Untouched(d)' BY <2>1, <2>2, <2>3, Zenon DEF Untouched
    <3> QED BY <1>1, <2>1, <2>3, <3>1, QueueFrame, Zenon
  <2>8. Responses' BY <1>1, <2>1, <2>2, <2>3, <2>4, Zenon DEF Responses
  <2>9. RequestBodies' BY <1>1, <2>1, <2>2, <2>3, Zenon DEF RequestBodies
  <2> QED BY <2>1, <2>5, <2>6, <2>7, <2>8, <2>9, Frames, Zenon DEF Awaited
<1>7. CASE NotReady(c) BY <1>7, EndedAwaited, Zenon DEF NotReady, Ended
<1>8. CASE TakeResult(c) BY <1>8, EndedAwaited, Zenon DEF TakeResult, Ended
<1>9. CASE Drop(c) BY <1>9, EndedAwaited, Zenon DEF Drop, Ended
<1> QED BY <1>2, <1>3, <1>4, <1>5, <1>6, <1>7, <1>8, <1>9, Zenon

\* So does every step of the thread between two requests.
LEMMA ThreadAwaited ==
    ASSUME Base, Awaited, Load \/ LoadFails \/ Receive \/ Close
    PROVE  Awaited'
<1>1. /\ OpsAreCurrent /\ Commanded /\ ReceivedOnce /\ Responses /\ RequestBodies /\ OwnResults
    BY Zenon DEF Awaited
<1>2. /\ UNCHANGED <<awaits, reqBodies, resBodies, reqRead, resRead, respond, call, command>>
      /\ UNCHANGED <<forwarding, sentUpstream, clientAnswer>>
    BY Zenon DEF Load, LoadFails, Receive, Close, handlerVars, handleVars, opVars, callVars
<1>3. OpsAreCurrent'
  <2>1. thread # "running" BY Zenon DEF Load, LoadFails, Receive, Close
  <2> QED BY <1>1, <1>2, <2>1, Zenon DEF OpsAreCurrent, Pending
<1>4. CASE Load \/ Close
  <2>1. UNCHANGED <<current, queue, result>> /\ thread' # "running" BY <1>4, Zenon DEF Load, Close
  <2>2. Responses' BY <1>1, <1>2, <2>1, Zenon DEF Responses
  <2> QED BY <1>2, <1>3, <2>1, <2>2, Frames, Zenon DEF Awaited
<1>5. CASE LoadFails
  <2>1. UNCHANGED current /\ thread' = "ended" /\ queue' = <<>> BY <1>5, Zenon DEF LoadFails
  <2>2. Responses' BY <1>1, <1>2, <2>1, Zenon DEF Responses
  <2>3. ReceivedOnce'
    <3>1. 1..Len(<<>>) = {} OBVIOUS
    <3>2. \A c \in Calls : call'[c] = "new" => Untouched(c)'
        BY <1>1, <1>2, <2>1, Zenon DEF ReceivedOnce, Untouched
    <3> QED BY <2>1, <3>1, <3>2, Zenon DEF ReceivedOnce
  <2>4. OwnResults'
    <3>1. \A c \in Calls : result'[c] = result[c] \/ result'[c] = Failure BY <1>5, Zenon DEF LoadFails
    <3>2. \A c \in Calls : Own(Failure, c) BY Zenon DEF Own, Failure
    <3> QED BY <1>1, <1>2, <3>1, <3>2, Zenon DEF OwnResults
  <2> QED BY <1>2, <1>3, <2>2, <2>3, <2>4, Frames, Zenon DEF Awaited
<1>6. CASE Receive
  <2>1. /\ queue \in Seq(Calls) /\ queue # <<>>
        /\ current' = Head(queue) /\ queue' = Tail(queue) /\ UNCHANGED result
      BY <1>6, Queued, Zenon DEF Receive
  <2>2. /\ 1 \in 1..Len(queue) /\ current' = queue[1] /\ queue[1] \in Calls
        /\ \A i \in 1..Len(queue') : i + 1 \in 1..Len(queue) /\ queue'[i] = queue[i + 1] /\ i + 1 # 1
        /\ \A i \in 1..Len(queue) : queue[i] \in Calls
      BY <2>1
  <2>3. /\ respond[current'] = "no" /\ call[current'] # "new"
      BY <1>1, <2>2, Zenon DEF ReceivedOnce, Untouched
  <2>4. ReceivedOnce'
    <3>1. \A c \in Calls : call'[c] = "new" => Untouched(c)'
        BY <1>1, <1>2, <2>3, Zenon DEF ReceivedOnce, Untouched
    <3>2. ASSUME NEW i \in 1..Len(queue') PROVE Untouched(queue[i])' /\ (call[queue[i]] # "new")'
      <4>1. i + 1 \in 1..Len(queue) /\ queue'[i] = queue[i + 1] /\ queue[i + 1] # queue[1]
          BY <1>1, <2>2, Zenon DEF ReceivedOnce
      <4>2. Untouched(queue[i + 1]) /\ call[queue[i + 1]] # "new" BY <1>1, <4>1, Zenon DEF ReceivedOnce
      <4> QED BY <1>2, <2>2, <4>1, <4>2, Zenon DEF Untouched
    <3>3. ASSUME NEW i \in 1..Len(queue'), NEW j \in 1..Len(queue'), i # j PROVE queue'[i] # queue'[j]
      <4>1. i \in Nat /\ j \in Nat BY Queued
      <4>2. i + 1 # j + 1 BY <3>3, <4>1
      <4>3. queue[i + 1] # queue[j + 1] BY <1>1, <2>2, <4>2, Zenon DEF ReceivedOnce
      <4> QED BY <2>2, <4>3, Zenon
    <3> QED BY <3>1, <3>2, <3>3, Zenon DEF ReceivedOnce
  <2>5. Responses' BY <1>1, <1>2, <2>3, Zenon DEF Responses
  <2> QED BY <1>2, <1>3, <2>1, <2>4, <2>5, Frames, Zenon DEF Awaited
<1> QED BY <1>4, <1>5, <1>6, Zenon

\* And every step of a handler that awaits.
LEMMA HandlerAwaited ==
    ASSUME Base, Awaited, awaits, NEW c \in Calls,
           \/ ReadReqBody(c) \/ ReadResBody(c) \/ \E newBody \in BOOLEAN : CallRespond(c, newBody)
           \/ PollRespond(c) \/ ResumeRespond(c)
           \/ ReturnUpstream(c) \/ ReturnOwn(c) \/ Throw(c)
    PROVE  Awaited'
<1>1. /\ OpsAreCurrent /\ Commanded /\ ReceivedOnce /\ Responses /\ RequestBodies /\ OwnResults
      /\ ForwardedOnce
    BY Zenon DEF Awaited
<1>2. CASE ReadReqBody(c)
  <2>1. /\ UNCHANGED <<awaits, thread, current, queue, resBodies, resBody, resRead, respond>>
        /\ UNCHANGED <<call, command, forwarding, sentUpstream, clientAnswer, result>>
      BY <1>2, Zenon DEF ReadReqBody, threadVars, handlerVars, callVars
  <2>2. reqRead' = reqRead \cup {c} /\ reqBodies' = reqBodies \ {c}
      BY <1>2, Zenon DEF ReadReqBody, Scripting
  <2>3. RequestBodies' BY <1>1, <2>1, <2>2, Zenon DEF RequestBodies
  <2>4. ForwardedOnce' BY <1>1, <2>1, <2>2, Zenon DEF ForwardedOnce
  <2> QED BY <2>1, <2>3, <2>4, Frames, Zenon DEF Awaited
<1>3. CASE ReadResBody(c)
  <2>1. /\ UNCHANGED <<awaits, thread, current, queue, reqBodies, resBody, reqRead, respond>>
        /\ UNCHANGED <<call, command, forwarding, sentUpstream, clientAnswer, result>>
      BY <1>3, Zenon DEF ReadResBody, threadVars, handlerVars, callVars
  <2>2. /\ thread = "running" /\ current = c /\ respond[c] = "resolved"
        /\ resRead' = resRead \cup {c} /\ resBodies' = resBodies \ {resBody}
      BY <1>3, Zenon DEF ReadResBody, Scripting
  <2>3. resBody = c BY <1>1, <2>2, Zenon DEF Responses
  <2>4. Responses' BY <1>1, <2>1, <2>2, <2>3, Zenon DEF Responses
  <2> QED BY <2>1, <2>4, Frames, Zenon DEF Awaited
<1>4. ASSUME NEW newBody \in BOOLEAN, CallRespond(c, newBody) PROVE Awaited'
  <2>1. /\ UNCHANGED <<awaits, thread, current, queue, reqBodies, resBodies, resBody>>
        /\ UNCHANGED <<reqRead, resRead, call, command, forwarding, sentUpstream, clientAnswer, result>>
      BY <1>4, Zenon DEF CallRespond, threadVars, handlerVars, handleVars, callVars
  <2>2. thread = "running" /\ current = c /\ respond[c] = "no"
      BY <1>4, Zenon DEF CallRespond, Scripting, MayRespond
  <2>3. respond'[c] = "started" /\ \A d \in Calls \ {c} : respond'[d] = respond[d]
      BY <1>4, Domains, Zenon DEF CallRespond
  <2>4. OpsAreCurrent' BY <1>1, <2>1, <2>2, <2>3, Zenon DEF OpsAreCurrent, Pending
  <2>5. Commanded' BY <1>1, <2>1, <2>2, <2>3, Zenon DEF Commanded, CommandedOnce
  <2>6. ReceivedOnce'
    <3>1. \A d \in Calls : Untouched(d) => Untouched(d)' BY <2>1, <2>2, <2>3, Zenon DEF Untouched
    <3>2. \A d \in Calls : call'[d] = "new" => call[d] = "new" BY <2>1, Zenon
    <3> QED BY <1>1, <2>1, <3>1, <3>2, QueueFrame, Zenon
  <2>7. Responses' BY <1>1, <2>1, <2>2, <2>3, Zenon DEF Responses
  <2>8. RequestBodies' BY <1>1, <2>1, <2>2, <2>3, Zenon DEF RequestBodies
  <2> QED BY <2>1, <2>4, <2>5, <2>6, <2>7, <2>8, Frames, Zenon DEF Awaited
<1>5. CASE PollRespond(c)
  <2>1. /\ UNCHANGED <<awaits, thread, current, queue, reqBodies, resBodies, resBody>>
        /\ UNCHANGED <<reqRead, resRead, call, forwarding, sentUpstream, clientAnswer, result>>
      BY <1>5, Zenon DEF PollRespond, threadVars, handlerVars, handleVars
  <2>2. thread = "running" /\ current = c /\ respond[c] = "started"
      BY <1>1, <1>5, Zenon DEF PollRespond, OpsAreCurrent, Pending
  <2>3. /\ \A d \in Calls \ {c} : respond'[d] = respond[d] /\ command'[d] = command[d]
        /\ \/ command'[c] = c /\ respond'[c] = "sent"
           \/ command'[c] = command[c] /\ respond'[c] = "rejected"
      BY <1>5, <2>2, Domains, Zenon DEF PollRespond
  <2>4. forwarding[c] = None /\ command[c] = None /\ sentUpstream[c] = <<>> /\ c \in reqBodies \cup reqRead
      BY <1>1, <2>2, Zenon DEF Commanded, CommandedOnce, RequestBodies
  <2>5. OpsAreCurrent' BY <1>1, <2>1, <2>2, <2>3, Zenon DEF OpsAreCurrent, Pending
  <2>6. Commanded'
    <3>1. CommandedOnce(c)' BY <2>1, <2>3, <2>4, Zenon DEF CommandedOnce
    <3>2. ASSUME NEW d \in Calls \ {c} PROVE CommandedOnce(d)'
      <4>1. CommandedOnce(d) BY <1>1, Zenon DEF Commanded
      <4>2. command'[d] = command[d] /\ forwarding'[d] = forwarding[d] /\ respond'[d] = respond[d]
          BY <2>1, <2>3, Zenon
      <4> QED BY <2>1, <4>1, <4>2, Zenon DEF CommandedOnce
    <3> QED BY <3>1, <3>2, Zenon DEF Commanded
  <2>7. ReceivedOnce'
    <3>1. \A d \in Calls : Untouched(d) => Untouched(d)' BY <2>1, <2>2, <2>3, Zenon DEF Untouched
    <3>2. \A d \in Calls : call'[d] = "new" => call[d] = "new" BY <2>1, Zenon
    <3> QED BY <1>1, <2>1, <3>1, <3>2, QueueFrame, Zenon
  <2>8. Responses' BY <1>1, <2>1, <2>2, <2>3, Zenon DEF Responses
  <2>9. RequestBodies' BY <1>1, <2>1, <2>3, <2>4, Zenon DEF RequestBodies
  <2> QED BY <2>1, <2>5, <2>6, <2>7, <2>8, <2>9, Frames, Zenon DEF Awaited
<1>6. CASE ResumeRespond(c)
  <2>1. /\ UNCHANGED <<awaits, thread, current, queue, reqBodies, resBodies>>
        /\ UNCHANGED <<reqRead, resRead, call, command, forwarding, sentUpstream, clientAnswer, result>>
      BY <1>6, Zenon DEF ResumeRespond, threadVars, handlerVars, callVars
  <2>2. thread = "running" /\ current = c /\ respond[c] \in {"resolved?", "rejected?"}
      BY <1>1, <1>6, Zenon DEF ResumeRespond, OpsAreCurrent, Pending
  <2>3. /\ \A d \in Calls \ {c} : respond'[d] = respond[d]
        /\ \/ respond[c] = "resolved?" /\ respond'[c] = "resolved" /\ resBody' = c
           \/ respond'[c] = "rejected" /\ resBody' = resBody
      BY <1>6, Domains, Zenon DEF ResumeRespond
  <2>4. OpsAreCurrent' BY <1>1, <2>1, <2>2, <2>3, Zenon DEF OpsAreCurrent, Pending
  <2>5. Commanded' BY <1>1, <2>1, <2>2, <2>3, Zenon DEF Commanded, CommandedOnce
  <2>6. ReceivedOnce'
    <3>1. \A d \in Calls : Untouched(d) => Untouched(d)' BY <2>1, <2>2, <2>3, Zenon DEF Untouched
    <3>2. \A d \in Calls : call'[d] = "new" => call[d] = "new" BY <2>1, Zenon
    <3> QED BY <1>1, <2>1, <3>1, <3>2, QueueFrame, Zenon
  <2>7. Responses' BY <1>1, <2>1, <2>2, <2>3, Zenon DEF Responses
  <2>8. RequestBodies' BY <1>1, <2>1, <2>2, <2>3, Zenon DEF RequestBodies
  <2> QED BY <2>1, <2>4, <2>5, <2>6, <2>7, <2>8, Frames, Zenon DEF Awaited
<1>7. CASE ReturnUpstream(c) \/ ReturnOwn(c) \/ Throw(c)
  <2>1. /\ UNCHANGED <<awaits, queue, reqBodies, reqRead, resRead, respond>>
        /\ UNCHANGED <<call, command, forwarding, sentUpstream, clientAnswer>>
      BY <1>7, Zenon DEF ReturnUpstream, ReturnOwn, Throw, handlerVars, handleVars, opVars, callVars
  <2>2. /\ thread = "running" /\ current = c /\ ~Pending(c)
        /\ thread' = "idle" /\ current' \in {None, current}
        /\ \A d \in Calls \ {c} : d \in resBodies => d \in resBodies' \/ d = resBody
      BY <1>7, Zenon DEF ReturnUpstream, ReturnOwn, Throw, Finish, Scripting, handleVars
  <2>3. ASSUME NEW d \in Calls PROVE ~Pending(d) BY <1>1, <2>2, Zenon DEF OpsAreCurrent
  <2>4. OpsAreCurrent' BY <2>1, <2>3, Zenon DEF OpsAreCurrent, Pending
  <2>5. ReceivedOnce'
    <3>1. \A d \in Calls : Untouched(d) => Untouched(d)' BY <2>1, <2>2, ScriptConstants, Zenon DEF Untouched
    <3>2. \A d \in Calls : call'[d] = "new" => call[d] = "new" BY <2>1, Zenon
    <3> QED BY <1>1, <2>1, <3>1, <3>2, QueueFrame, Zenon
  <2>6. Responses' BY <1>1, <2>1, <2>2, <2>3, Zenon DEF Responses, Pending
  <2>7. OwnResults'
    <3>1. \A d \in Calls : result'[d] = result[d] \/ (d = c /\ Own(result'[d], d))
      <4>1. CASE ReturnUpstream(c)
        <5>1. resBody = c BY <1>1, <2>2, <4>1, Zenon DEF Responses, ReturnUpstream
        <5>2. c \in resBodies BY <1>1, <2>2, <4>1, Zenon DEF Responses, ReturnUpstream
        <5>3. Finish(c, [kind |-> "upstream", body |-> c]) BY <4>1, <5>1, <5>2, Zenon DEF ReturnUpstream
        <5> QED BY <5>3, Domains, Zenon DEF Finish, Own
      <4>2. CASE ReturnOwn(c)
        <5>1. Finish(c, [kind |-> "own", body |-> None]) BY <4>2, Zenon DEF ReturnOwn
        <5> QED BY <5>1, Domains, Zenon DEF Finish, Own
      <4>3. CASE Throw(c)
        <5>1. Finish(c, Failure) BY <4>3, Zenon DEF Throw
        <5> QED BY <5>1, Domains, Zenon DEF Finish, Own, Failure
      <4> QED BY <1>7, <4>1, <4>2, <4>3, Zenon
    <3> QED BY <1>1, <2>1, <3>1, Zenon DEF OwnResults
  <2> QED BY <2>1, <2>4, <2>5, <2>6, <2>7, Frames, Zenon DEF Awaited
<1> QED BY <1>2, <1>3, <1>4, <1>5, <1>6, <1>7, Zenon

\* With a handler that awaits, every step keeps the requests apart.
LEMMA StepAwaited == IInv /\ awaits /\ [ScriptNext]_scriptVars => Awaited'
<1> SUFFICES ASSUME Base, Awaited, awaits, [ScriptNext]_scriptVars PROVE Awaited'
    BY Zenon DEF IInv
<1>1. CASE BodyRead \/ UNCHANGED scriptVars
  <2>1. /\ UNCHANGED <<awaits, thread, current, queue, reqBodies, resBodies, resBody, respond>>
        /\ UNCHANGED <<reqRead, resRead, call, command, forwarding, sentUpstream, clientAnswer, result>>
      BY <1>1, Zenon DEF BodyRead, scriptVars, threadVars, handlerVars, handleVars, opVars, callVars
  <2> QED BY <2>1, Frames, Zenon DEF Awaited
<1>2. CASE ScriptNext BY <1>1, <1>2, ThreadAwaited, FutureAwaited, HandlerAwaited, Zenon DEF ScriptNext
<1> QED BY <1>1, <1>2, Zenon

\* The inductive invariant holds in every reachable state.
THEOREM Inductive == ScriptSpec => []IInv
<1>1. ScriptInit => IInv
  <2> SUFFICES ASSUME ScriptInit PROVE IInv BY Zenon
  <2>1. Base BY InitBase, Zenon
  <2>2. OpsAreCurrent /\ Commanded BY Zenon DEF ScriptInit, OpsAreCurrent, Pending, Commanded, CommandedOnce
  <2>3. ReceivedOnce BY ScriptConstants DEF ScriptInit, ReceivedOnce, Untouched
  <2>4. Responses /\ RequestBodies BY Zenon DEF ScriptInit, Responses, RequestBodies
  <2>5. OwnResults BY Zenon DEF ScriptInit, OwnResults, Own, NoAnswer
  <2>6. ForwardedOnce
    <3>1. \A c \in Calls : sentUpstream[c] = <<>> BY Zenon DEF ScriptInit
    <3>2. Len(<<>>) <= 1 /\ DOMAIN <<>> = {} OBVIOUS
    <3> QED BY <3>1, <3>2, Zenon DEF ForwardedOnce
  <2> QED BY <2>1, <2>2, <2>3, <2>4, <2>5, <2>6, Zenon DEF IInv, Awaited
<1>2. IInv /\ [ScriptNext]_scriptVars => IInv'
  <2> SUFFICES ASSUME IInv, [ScriptNext]_scriptVars PROVE IInv' OBVIOUS
  <2>1. Base' BY StepBase, Zenon DEF IInv
  <2>2. awaits' = awaits
    <3>1. CASE Load \/ LoadFails \/ Receive \/ Close \/ BodyRead \/ UNCHANGED scriptVars
        BY <3>1, Zenon DEF Load, LoadFails, Receive, Close, BodyRead, scriptVars, threadVars, handlerVars
    <3>2. ASSUME NEW c \in Calls, Send(c) \/ SendFails(c) \/ TakeCommand(c) \/ BadCommand(c)
          PROVE  awaits' = awaits
        BY <3>2, Zenon DEF Send, SendFails, TakeCommand, BadCommand, threadVars, handlerVars
    <3>3. ASSUME NEW c \in Calls,
                 UpstreamAnswers(c) \/ UpstreamFails(c) \/ NotReady(c) \/ TakeResult(c) \/ Drop(c)
          PROVE  awaits' = awaits
        BY <3>3, Zenon DEF UpstreamAnswers, UpstreamFails, NotReady, TakeResult, Drop, EndCall, threadVars, handlerVars
    <3>4. ASSUME NEW c \in Calls,
                 ReadReqBody(c) \/ ReadResBody(c) \/ \E newBody \in BOOLEAN : CallRespond(c, newBody)
          PROVE  awaits' = awaits
        BY <3>4, Zenon DEF ReadReqBody, ReadResBody, CallRespond, threadVars, handlerVars
    <3>5. ASSUME NEW c \in Calls,
                 PollRespond(c) \/ ResumeRespond(c) \/ ReturnUpstream(c) \/ ReturnOwn(c) \/ Throw(c)
          PROVE  awaits' = awaits
        BY <3>5, Zenon DEF PollRespond, ResumeRespond, ReturnUpstream, ReturnOwn, Throw, threadVars, handlerVars
    <3> QED BY <3>1, <3>2, <3>3, <3>4, <3>5, Zenon DEF ScriptNext
  <2>3. awaits' => Awaited' BY <2>2, StepAwaited, Zenon
  <2> QED BY <2>1, <2>3, Zenon DEF IInv
<1> QED BY <1>1, <1>2, PTL DEF ScriptSpec

\* Type correctness of the scripting middleware.
THEOREM TypeCorrect == ScriptSpec => []ScriptTypeOK
BY Inductive, PTL DEF IInv, Base

\* With a handler that awaits respond(), every client gets the body that came back for
\* its own request.
THEOREM AnswersAreOwn == ScriptSpec => []OwnAnswer
<1>1. IInv => OwnAnswer BY Zenon DEF IInv, Awaited, OwnResults, Own, OwnAnswer
<1> QED BY <1>1, Inductive, PTL

\* With such a handler, every call sends at most one request upstream, its own, and
\* with the client's body unless the handler read or replaced it.
THEOREM ForwardsOnce == ScriptSpec => []ForwardedOnce
<1>1. IInv => ForwardedOnce BY Zenon DEF IInv, Awaited, ForwardedOnce
<1> QED BY <1>1, Inductive, PTL

===============================================================================

--------------------------------- MODULE Retry ---------------------------------
(***************************************************************************)
(* The retry middleware of src/middleware/retry.rs: the attempt loop of    *)
(* RetryService::call for concurrent requests, the capture of the request  *)
(* body on the first attempt, and the retry budget they share behind a     *)
(* mutex (allows_retry and record_retry happen under one lock and are one  *)
(* step).                                                                  *)
(*                                                                         *)
(* A body is a number of chunks.  The inner service polls it at its own    *)
(* pace during attempt 0 and may answer before it has seen the end.  The   *)
(* three policies (status list, headers, body) differ only in what they    *)
(* look at, so that the verdict is an input.                               *)
(***************************************************************************)
EXTENDS Naturals

CONSTANTS
    Slots,        \* slots for concurrently running request futures
    MaxRetries,   \* max_retries
    MaxReplay,    \* max_replay_body_bytes, in chunks
    RatioNum,     \* the budget ratio is RatioNum / RatioDen
    RatioDen,
    MinRetries,   \* budget_min_retries
    BudgetWindow, \* budget_window, in ticks
    MaxChunks,    \* bound: longest body
    MaxRequests,  \* bound: requests counted per budget window
    NoReplay      \* no replay bytes yet

ASSUME RetryConstants ==
    /\ MaxRetries \in Nat /\ MaxReplay \in Nat /\ MinRetries \in Nat
    /\ RatioNum \in Nat /\ RatioDen \in Nat \ {0} /\ RatioNum <= RatioDen
    /\ BudgetWindow \in Nat \ {0} /\ MaxChunks \in Nat /\ MaxRequests \in Nat
    /\ NoReplay \notin Nat

VARIABLES
    pc,         \* per request: where its future stands
    attempt,    \* per request: loop variable
    retryable,  \* per request: method_retryable
    length,     \* per request: chunks of its body
    knownEmpty, \* per request: body_known_empty
    polled,     \* per request: chunks the inner service has read on attempt 0
    capture,    \* per request: the ReplayCapture
    replay,     \* per request: replay_bytes
    requests,   \* BudgetState: requests in this window
    retries,    \* BudgetState: retries in this window
    windowLeft  \* BudgetState: time until window_start is a window ago

requestState == <<attempt, retryable, length, knownEmpty, polled, capture, replay>>
budget == <<requests, retries, windowLeft>>
retryVars == <<pc, requestState, budget>>

-------------------------------------------------------------------------------
(* BudgetState.                                                            *)

Expired == windowLeft = 0

CurrentRequests == IF Expired THEN 0 ELSE requests

CurrentRetries == IF Expired THEN 0 ELSE retries

CurrentLeft == IF Expired THEN BudgetWindow ELSE windowLeft

\* Mutant: the ratio may be reached before the retry that is asked for.
AllowsRetryInclusive ==
    \/ CurrentRetries < MinRetries
    \/ CurrentRequests + CurrentRetries = 0
    \/ CurrentRetries * RatioDen <= RatioNum * (CurrentRequests + CurrentRetries)

AllowsRetry ==
    \/ CurrentRetries < MinRetries
    \/ CurrentRequests + CurrentRetries = 0
    \/ CurrentRetries * RatioDen < RatioNum * (CurrentRequests + CurrentRetries)

-------------------------------------------------------------------------------
(* ReplayCapture and RecordingBody.                                        *)

Captures == [bytes : Nat, overflowed : BOOLEAN, complete : BOOLEAN]

NewCapture == [bytes |-> 0, overflowed |-> FALSE, complete |-> FALSE]

RecordChunk(c) ==
    IF c.overflowed THEN c
    ELSE IF c.bytes + 1 > MaxReplay
    THEN [bytes |-> 0, overflowed |-> TRUE, complete |-> c.complete]
    ELSE [c EXCEPT !.bytes = c.bytes + 1]

\* Mutant: a snapshot is taken of a body that is still being read.
SnapshotPartial(c) == IF ~c.overflowed THEN c.bytes ELSE NoReplay

Snapshot(c) == IF c.complete /\ ~c.overflowed THEN c.bytes ELSE NoReplay

\* The first attempt's body is wrapped in a RecordingBody.
Recording(r) == attempt[r] = 0 /\ retryable[r] /\ ~knownEmpty[r]

-------------------------------------------------------------------------------

RetryTypeOK ==
    /\ pc \in [Slots -> {"idle", "sending", "sleeping", "unreachable"}]
    /\ attempt \in [Slots -> 0..(MaxRetries + 1)]
    /\ retryable \in [Slots -> BOOLEAN]
    /\ length \in [Slots -> 0..MaxChunks]
    /\ knownEmpty \in [Slots -> BOOLEAN]
    /\ polled \in [Slots -> 0..MaxChunks]
    /\ capture \in [Slots -> Captures]
    /\ replay \in [Slots -> Nat \cup {NoReplay}]
    /\ requests \in 0..MaxRequests
    /\ retries \in Nat
    /\ windowLeft \in 0..BudgetWindow

RetryInit ==
    /\ pc = [r \in Slots |-> "idle"]
    /\ attempt = [r \in Slots |-> 0]
    /\ retryable = [r \in Slots |-> FALSE]
    /\ length = [r \in Slots |-> 0]
    /\ knownEmpty = [r \in Slots |-> FALSE]
    /\ polled = [r \in Slots |-> 0]
    /\ capture = [r \in Slots |-> NewCapture]
    /\ replay = [r \in Slots |-> NoReplay]
    /\ requests = 0 /\ retries = 0 /\ windowLeft = BudgetWindow

\* The future ends: with a response, an error, or because it is dropped.
Finished(r) ==
    /\ pc' = [pc EXCEPT ![r] = "idle"]
    /\ attempt' = [attempt EXCEPT ![r] = 0]
    /\ retryable' = [retryable EXCEPT ![r] = FALSE]
    /\ length' = [length EXCEPT ![r] = 0]
    /\ knownEmpty' = [knownEmpty EXCEPT ![r] = FALSE]
    /\ polled' = [polled EXCEPT ![r] = 0]
    /\ capture' = [capture EXCEPT ![r] = NewCapture]
    /\ replay' = [replay EXCEPT ![r] = NoReplay]

\* call() up to the first inner.call: a request with a body of n chunks, empty
\* for certain when its size hint says so.
Start(r, allowed, n, empty) ==
    /\ pc[r] = "idle"
    /\ empty => n = 0
    /\ CurrentRequests < MaxRequests
    /\ pc' = [pc EXCEPT ![r] = "sending"]
    /\ retryable' = [retryable EXCEPT ![r] = allowed]
    /\ length' = [length EXCEPT ![r] = n]
    /\ knownEmpty' = [knownEmpty EXCEPT ![r] = empty]
    /\ replay' = [replay EXCEPT ![r] = IF empty THEN 0 ELSE NoReplay]
    /\ requests' = CurrentRequests + 1
    /\ retries' = CurrentRetries
    /\ windowLeft' = CurrentLeft
    /\ UNCHANGED <<attempt, polled, capture>>

\* RecordingBody::poll_frame yields a data frame.
PollData(r) ==
    /\ pc[r] = "sending" /\ Recording(r) /\ polled[r] < length[r]
    /\ polled' = [polled EXCEPT ![r] = @ + 1]
    /\ capture' = [capture EXCEPT ![r] = RecordChunk(@)]
    /\ UNCHANGED <<pc, attempt, retryable, length, knownEmpty, replay, budget>>

\* RecordingBody::poll_frame yields an error of the client's stream.
PollError(r) ==
    /\ pc[r] = "sending" /\ Recording(r) /\ ~capture[r].complete
    /\ capture' = [capture EXCEPT ![r].overflowed = TRUE]
    /\ UNCHANGED <<pc, attempt, retryable, length, knownEmpty, polled, replay, budget>>

\* RecordingBody::poll_frame yields None; a service may also stop polling early.
PollEnd(r) ==
    /\ pc[r] = "sending" /\ Recording(r) /\ polled[r] = length[r]
    /\ capture' = [capture EXCEPT ![r].complete = TRUE]
    /\ UNCHANGED <<pc, attempt, retryable, length, knownEmpty, polled, replay, budget>>

\* poll_ready, inner.call or collecting the response body fails: `?` returns.
Fail(r) ==
    /\ pc[r] = "sending"
    /\ Finished(r)
    /\ UNCHANGED budget

EffectiveMax(r) == IF retryable[r] THEN MaxRetries ELSE 0

MayRetry(r) == attempt[r] < EffectiveMax(r)

Replayable(r) == IF replay[r] # NoReplay THEN replay[r] ELSE Snapshot(capture[r])

\* An answer the policy accepts, or that may not be retried: it is returned.
Return(r, again) ==
    /\ pc[r] = "sending"
    /\ ~again \/ ~MayRetry(r) \/ Replayable(r) = NoReplay
    /\ Finished(r)
    /\ UNCHANGED budget

\* The policy asks for another attempt and everything is there for it: the
\* budget decides.
AskBudget(r) ==
    /\ pc[r] = "sending"
    /\ MayRetry(r) /\ Replayable(r) # NoReplay
    /\ requests' = CurrentRequests
    /\ windowLeft' = CurrentLeft
    /\ IF AllowsRetry
       THEN /\ retries' = CurrentRetries + 1
            /\ pc' = [pc EXCEPT ![r] = "sleeping"]
            /\ replay' = [replay EXCEPT ![r] = Replayable(r)]
            /\ UNCHANGED <<attempt, retryable, length, knownEmpty, polled, capture>>
       ELSE /\ retries' = CurrentRetries
            /\ Finished(r)

\* The delay is over: the next turn of `for attempt in 0..=max_retries`.
Resend(r) ==
    /\ pc[r] = "sleeping"
    /\ attempt' = [attempt EXCEPT ![r] = @ + 1]
    /\ pc' = [pc EXCEPT ![r] = IF attempt[r] + 1 > EffectiveMax(r)
                               THEN "unreachable" ELSE "sending"]
    /\ UNCHANGED <<retryable, length, knownEmpty, polled, capture, replay, budget>>

\* The client goes away and the future is dropped.
Cancel(r) ==
    /\ pc[r] # "idle"
    /\ Finished(r)
    /\ UNCHANGED budget

RetryTick ==
    /\ windowLeft > 0
    /\ windowLeft' = windowLeft - 1
    /\ UNCHANGED <<pc, requestState, requests, retries>>

RetryNext ==
    \/ \E r \in Slots, n \in 0..MaxChunks, allowed, empty \in BOOLEAN :
         Start(r, allowed, n, empty)
    \/ \E r \in Slots :
         \/ PollData(r) \/ PollError(r) \/ PollEnd(r)
         \/ Fail(r) \/ AskBudget(r) \/ Resend(r) \/ Cancel(r)
         \/ \E again \in BOOLEAN : Return(r, again)
    \/ RetryTick

RetrySpec == RetryInit /\ [][RetryNext]_retryVars

-------------------------------------------------------------------------------

\* Whatever the inner service read, and in which order, before it answered: a
\* resent request carries the whole body of the original, never a prefix.
ReplayIsExact ==
    \A r \in Slots : attempt[r] > 0 => replay[r] = length[r]

\* The capture never holds more than max_replay_body_bytes.
CaptureIsBounded ==
    \A r \in Slots : capture[r].bytes <= MaxReplay

\* A request whose method is not on the allowlist is sent once.
OnlyAllowedAreResent ==
    \A r \in Slots : attempt[r] > 0 => retryable[r]

\* The `unreachable!()` after the attempt loop is.
LoopReturns ==
    \A r \in Slots : pc[r] # "unreachable"

\* What the budget guarantees within a window, however requests interleave: but
\* for one retry, retries beyond the floor stay below ratio of the total.
BudgetHolds ==
    \/ retries <= MinRetries \/ retries <= 1
    \/ (retries - 1) * RatioDen < RatioNum * (requests + retries - 1)

===============================================================================

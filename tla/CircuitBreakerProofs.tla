------------------------- MODULE CircuitBreakerProofs -------------------------
(***************************************************************************)
(* Proofs about the two layers that decide whether the upstream is asked   *)
(* at all and whether it is asked again (they share no state).             *)
(*                                                                         *)
(* CircuitBreaker, for any keys, any number of concurrent requests and any *)
(* threshold, recovery, probe and capacity settings: an open circuit keeps *)
(* its recovery, only consecutive failures open one, and the probes of a   *)
(* half-open one are counted.                                              *)
(*                                                                         *)
(* Retry, for every number of concurrent requests, every body length and   *)
(* every budget: a resent request carries the original body, the attempt   *)
(* loop returns, and the budget bounds the retries of a window.            *)
(***************************************************************************)
EXTENDS CircuitBreaker, Retry, TLAPS

-------------------------------------------------------------------------------
(* CircuitBreaker.                                                         *)

\* The history of admitted probes agrees with the counter of the circuit.
ProbesAreCounted ==
    \A k \in Keys :
        /\ circuits[k].kind = "open" => probed[k] = 0
        /\ circuits[k].kind = "halfopen" =>
             probed[k] = circuits[k].n /\ circuits[k].n \in 1..MaxProbes

\* The inductive invariant behind the safety properties.
BreakerInv ==
    /\ TypeOK
    /\ RecoveryIsKept
    /\ FailuresAreConsecutive
    /\ ProbesAreCounted

-------------------------------------------------------------------------------

\* Cleanup and eviction never drop a circuit that still has to wait.
LEMMA SurvivorsKeepWaiting ==
    ASSUME TypeOK, NEW k \in Keys, NEW S \in Survivors(k)
    PROVE  /\ S \subseteq Tracked
           /\ \A j \in Keys : circuits[j].kind = "open" /\ circuits[j].wait > 0
                                => j \in S
<1>1. Cleaned \subseteq Tracked
  BY Zenon DEF Cleaned
<1>2. \A j \in Keys : circuits[j].kind = "open" /\ circuits[j].wait > 0
                        => j \in Cleaned /\ ~CanEvict(circuits[j])
  BY Zenon DEF Cleaned, Tracked, Retained, CanEvict
<1>3. \A j \in Victims(k) : CanEvict(circuits[j])
  BY Zenon DEF Victims, Oldest
<1> QED
  BY <1>1, <1>2, <1>3, Zenon DEF Survivors

\* What check() and record() find for a key is a well-formed entry.
LEMMA TouchedType ==
    ASSUME BreakerConstants, TypeOK, NEW k \in Keys, NEW S \in Survivors(k)
    PROVE  Touched(k, S) \in Entry /\ Touched(k, S).kind # "absent"
<1>1. S \subseteq Tracked
  BY SurvivorsKeepWaiting, Zenon
<1>2. CASE k \in S
  <2>1. Touched(k, S) = [circuits[k] EXCEPT !.idle = 0]
    BY <1>2, Zenon DEF Touched
  <2>2. circuits[k] \in Entry /\ circuits[k].kind # "absent"
    BY <1>1, <1>2, Zenon DEF TypeOK, Tracked
  <2> QED
    BY <2>1, <2>2 DEF Entry, BreakerConstants
<1>3. CASE k \notin S
  BY <1>3 DEF Touched, Closed, Entry, Kinds, Counts, MaxProbes, BreakerConstants
<1> QED
  BY <1>2, <1>3, Zenon

\* The timers keep their range.
LEMMA CleanupTimerType ==
    ASSUME BreakerConstants, TypeOK
    PROVE  CleanupTimer \in 0..CleanupInterval
BY DEF CleanupTimer, TypeOK, BreakerConstants

\* What check() leaves of a well-formed entry is well formed.
LEMMA CheckedType ==
    ASSUME BreakerConstants, NEW e \in Entry
    PROVE  Checked(e) \in Entry
<1>1. CASE e.kind = "open" /\ e.wait = 0
  BY <1>1 DEF Checked, HalfOpen, Entry, Kinds, Counts, MaxProbes, BreakerConstants
<1>2. CASE e.kind = "halfopen" /\ e.n < HalfOpenProbes
  <2>1. Checked(e) = HalfOpen(e.n + 1)
    BY <1>2, Zenon DEF Checked
  <2>2. e.n \in Nat /\ e.n + 1 \in Counts
    BY <1>2 DEF Entry, Counts, MaxProbes, BreakerConstants
  <2> QED
    BY <2>1, <2>2 DEF HalfOpen, Entry, Kinds, BreakerConstants
<1>3. CASE ~(e.kind = "open" /\ e.wait = 0) /\ ~(e.kind = "halfopen" /\ e.n < HalfOpenProbes)
  BY <1>3, Zenon DEF Checked
<1> QED
  BY <1>1, <1>2, <1>3, Zenon

\* What record() leaves of a well-formed entry is well formed.
LEMMA RecordedType ==
    ASSUME BreakerConstants, NEW e \in Entry, NEW success \in BOOLEAN
    PROVE  Recorded(e, success) \in Entry
<1>1. Open \in Entry
  BY DEF Open, Entry, Kinds, Counts, MaxProbes, BreakerConstants
<1>2. Closed(0) \in Entry
  BY DEF Closed, Entry, Kinds, Counts, MaxProbes, BreakerConstants
<1>3. FailedOnce(e) \in Entry
  <2>1. CASE e.n + 1 >= Threshold
    BY <1>1, <2>1, Zenon DEF FailedOnce
  <2>2. CASE ~(e.n + 1 >= Threshold)
    <3>1. e.n + 1 \in Counts
      BY <2>2 DEF Entry, Counts, MaxProbes, BreakerConstants
    <3> QED
      BY <2>2, <3>1 DEF FailedOnce, Closed, Entry, Kinds, BreakerConstants
  <2> QED
    BY <2>1, <2>2, Zenon
<1> QED
  BY <1>1, <1>2, <1>3, Zenon DEF Recorded

-------------------------------------------------------------------------------

\* A fresh store, with no circuit in its map, satisfies the invariant.
THEOREM BreakerInit == BreakerConstants /\ Init => BreakerInv
<1> SUFFICES ASSUME BreakerConstants, Init PROVE BreakerInv
  BY Zenon
<1> USE DEF Init, Absent, MaxProbes, BreakerConstants
<1>1. TypeOK
  BY DEF TypeOK, Entry, Kinds, Counts
<1>2. RecoveryIsKept /\ FailuresAreConsecutive /\ ProbesAreCounted
  BY DEF RecoveryIsKept, FailuresAreConsecutive, ProbesAreCounted
<1> QED
  BY <1>1, <1>2, Zenon DEF BreakerInv

\* A check: an untouched entry stays or is forgotten, k's entry is Checked.
LEMMA CallKeepsInv ==
    ASSUME BreakerConstants, BreakerInv, NEW r \in Requests, NEW k \in Keys, Call(r, k)
    PROVE  BreakerInv'
<1>1. PICK S \in Survivors(k) :
        /\ circuits' = Updated(k, S, Checked(Touched(k, S)))
        /\ serving' = IF Allows(Touched(k, S)) THEN [serving EXCEPT ![r] = k] ELSE serving
        /\ probed' = IF Allows(Touched(k, S)) /\ Touched(k, S).kind # "closed"
                     THEN [probed EXCEPT ![k] =
                             IF probed[k] > MaxProbes THEN probed[k] ELSE probed[k] + 1]
                     ELSE probed
  BY Zenon DEF Call
<1> DEFINE e == Touched(k, S)
<1>2. TypeOK
  BY Zenon DEF BreakerInv
<1>3. S \subseteq Tracked /\ \A j \in Keys : circuits[j].kind = "open" /\ circuits[j].wait > 0
                                                => j \in S
  BY <1>2, SurvivorsKeepWaiting, Zenon
<1>4. e \in Entry /\ e.kind # "absent" /\ Checked(e) \in Entry
  BY <1>2, TouchedType, CheckedType, Zenon
<1>5. cleanupIn' = CleanupTimer /\ tripWait' = tripWait /\ streak' = streak
  BY Zenon DEF Call
<1>6. /\ circuits'[k] = Checked(e)
      /\ \A j \in Keys \ {k} : circuits'[j] = IF j \in S THEN circuits[j] ELSE Absent
  BY <1>1, Zenon DEF Updated
<1>7. k \in S => /\ e.kind = circuits[k].kind /\ e.n = circuits[k].n
                 /\ e.wait = circuits[k].wait
  BY <1>2 DEF Touched, TypeOK, Entry
<1>8. k \notin S => e.kind = "closed" /\ e.n = 0
  BY Zenon DEF Touched, Closed
<1>9. TypeOK'
  <2>1. Absent \in Entry
    BY DEF Absent, Entry, Kinds, Counts, MaxProbes, BreakerConstants
  <2>2. circuits' \in [Keys -> Entry]
    BY <1>1, <1>2, <1>4, <2>1, Zenon DEF Updated, TypeOK
  <2>3. serving' \in [Requests -> Keys \cup {None}]
    BY <1>1, <1>2, Zenon DEF TypeOK
  <2>4. probed' \in [Keys -> 0..(MaxProbes + 1)]
    BY <1>1, <1>2 DEF TypeOK, MaxProbes, BreakerConstants
  <2>5. lost' \subseteq Keys
    BY <1>2, Zenon DEF Call, TypeOK
  <2> QED
    BY <1>2, <1>5, <2>2, <2>3, <2>4, <2>5, CleanupTimerType, Zenon DEF TypeOK
<1>10. RecoveryIsKept'
  <2> SUFFICES ASSUME NEW j \in Keys, tripWait[j] > 0
               PROVE  circuits'[j].kind = "open" /\ circuits'[j].wait = tripWait[j]
    BY <1>5, Zenon DEF RecoveryIsKept
  <2>1. circuits[j].kind = "open" /\ circuits[j].wait = tripWait[j] /\ j \in S
    BY <1>3, Zenon DEF BreakerInv, RecoveryIsKept
  <2>2. CASE j = k
    <3>1. e.kind = "open" /\ e.wait = tripWait[j]
      BY <1>7, <2>1, <2>2, Zenon
    <3>2. Checked(e) = e
      BY <3>1 DEF Checked
    <3> QED
      BY <1>6, <2>2, <3>1, <3>2, Zenon
  <2> QED
    BY <1>6, <2>1, <2>2, Zenon
<1>11. FailuresAreConsecutive'
  <2> SUFFICES ASSUME NEW j \in Keys, circuits'[j].kind = "closed"
               PROVE  circuits'[j].n <= streak[j]
    BY <1>5, Zenon DEF FailuresAreConsecutive
  <2>1. circuits[j].kind = "closed" => circuits[j].n <= streak[j]
    BY Zenon DEF BreakerInv, FailuresAreConsecutive
  <2>2. streak[j] \in Nat
    BY <1>2 DEF TypeOK, BreakerConstants
  <2>3. CASE j = k
    <3>1. Checked(e) = e
      BY <1>6, <2>3 DEF Checked, HalfOpen
    <3> QED
      BY <1>6, <1>7, <1>8, <2>1, <2>2, <2>3, <3>1
  <2>4. CASE j # k
    BY <1>6, <2>1, <2>4 DEF Absent
  <2> QED
    BY <2>3, <2>4, Zenon
<1>12. ProbesAreCounted'
  <2> SUFFICES ASSUME NEW j \in Keys
               PROVE  /\ circuits'[j].kind = "open" => probed'[j] = 0
                      /\ circuits'[j].kind = "halfopen" =>
                           probed'[j] = circuits'[j].n /\ circuits'[j].n \in 1..MaxProbes
    BY Zenon DEF ProbesAreCounted, MaxProbes
  <2>1. /\ circuits[j].kind = "open" => probed[j] = 0
        /\ circuits[j].kind = "halfopen" =>
             probed[j] = circuits[j].n /\ circuits[j].n \in 1..MaxProbes
    BY Zenon DEF BreakerInv, ProbesAreCounted
  <2>2. CASE j # k
    <3>1. probed'[j] = probed[j]
      BY <1>1, <1>2, <2>2, Zenon DEF TypeOK
    <3> QED
      BY <1>6, <2>1, <2>2, <3>1 DEF Absent
  <2>3. CASE j = k /\ e.kind = "closed"
    <3>1. Checked(e) = e
      BY <2>3, Zenon DEF Checked
    <3> QED
      BY <1>6, <2>3, <3>1, Zenon
  <2>4. CASE j = k /\ e.kind = "open" /\ e.wait = 0
    <3>1. Checked(e) = HalfOpen(1) /\ Allows(e)
      BY <2>4, Zenon DEF Checked, Allows
    <3>2. probed[j] = 0
      BY <1>7, <1>8, <2>1, <2>4, Zenon
    <3>3. probed'[j] = 1
      BY <1>1, <1>2, <2>4, <3>1, <3>2 DEF TypeOK, MaxProbes, BreakerConstants
    <3> QED
      BY <1>6, <2>4, <3>1, <3>3 DEF HalfOpen, MaxProbes, BreakerConstants
  <2>5. CASE j = k /\ e.kind = "open" /\ e.wait # 0
    <3>1. Checked(e) = e /\ ~Allows(e)
      BY <2>5, Zenon DEF Checked, Allows
    <3>2. probed'[j] = 0
      BY <1>1, <1>7, <1>8, <2>1, <2>5, <3>1, Zenon
    <3> QED
      BY <1>6, <2>5, <3>1, <3>2, Zenon
  <2>6. CASE j = k /\ e.kind = "halfopen"
    <3>1. probed[j] = e.n /\ e.n \in 1..MaxProbes
      BY <1>7, <1>8, <2>1, <2>6, Zenon
    <3>2. CASE e.n < HalfOpenProbes
      <4>1. Checked(e) = HalfOpen(e.n + 1) /\ Allows(e)
        BY <2>6, <3>2, Zenon DEF Checked, Allows
      <4>2. probed'[j] = e.n + 1
        BY <1>1, <1>2, <2>6, <3>1, <3>2, <4>1 DEF TypeOK, MaxProbes, BreakerConstants
      <4> QED
        BY <1>6, <2>6, <3>1, <3>2, <4>1, <4>2 DEF HalfOpen, MaxProbes, BreakerConstants
    <3>3. CASE ~(e.n < HalfOpenProbes)
      <4>1. Checked(e) = e /\ ~Allows(e)
        BY <2>6, <3>3, Zenon DEF Checked, Allows
      <4> QED
        BY <1>1, <1>6, <2>6, <3>1, <4>1, Zenon
    <3> QED
      BY <3>2, <3>3, Zenon
  <2> QED
    BY <1>4, <2>2, <2>3, <2>4, <2>5, <2>6, Zenon DEF Entry, Kinds
<1> QED
  BY <1>9, <1>10, <1>11, <1>12, Zenon DEF BreakerInv

\* A record: as for a check, k's entry is Recorded and the histories follow.
LEMMA RespondKeepsInv ==
    ASSUME BreakerConstants, BreakerInv, NEW r \in Requests, NEW success \in BOOLEAN,
           Respond(r, success)
    PROVE  BreakerInv'
<1> DEFINE k == serving[r]
<1>0. TypeOK /\ k \in Keys
  BY Zenon DEF BreakerInv, TypeOK, Respond
<1>1. PICK S \in Survivors(k) :
        LET e == Touched(k, S)
            f == Recorded(e, success)
            trips == e.kind # "open" /\ f.kind = "open"
        IN  /\ circuits' = Updated(k, S, f)
            /\ tripWait' = IF trips THEN [tripWait EXCEPT ![k] = Recovery] ELSE tripWait
            /\ probed' = IF trips THEN [probed EXCEPT ![k] = 0] ELSE probed
  BY Zenon DEF Respond
<1> DEFINE e == Touched(k, S)
           f == Recorded(e, success)
           trips == e.kind # "open" /\ f.kind = "open"
<1>2. S \subseteq Tracked /\ \A j \in Keys : circuits[j].kind = "open" /\ circuits[j].wait > 0
                                                => j \in S
  BY <1>0, SurvivorsKeepWaiting, Zenon
<1>3. e \in Entry /\ e.kind # "absent" /\ f \in Entry
  BY <1>0, TouchedType, RecordedType, Zenon
<1>4. /\ cleanupIn' = CleanupTimer
      /\ streak' = [streak EXCEPT ![k] = IF success THEN 0
                                         ELSE IF streak[k] < Threshold THEN streak[k] + 1
                                         ELSE streak[k]]
      /\ serving' = [serving EXCEPT ![r] = None]
  BY Zenon DEF Respond
<1>5. /\ circuits'[k] = f
      /\ \A j \in Keys \ {k} : circuits'[j] = IF j \in S THEN circuits[j] ELSE Absent
  BY <1>0, <1>1, Zenon DEF Updated
<1>6. k \in S => /\ e.kind = circuits[k].kind /\ e.n = circuits[k].n
                 /\ e.wait = circuits[k].wait
  BY <1>0 DEF Touched, TypeOK, Entry
<1>7. k \notin S => e.kind = "closed" /\ e.n = 0
  BY Zenon DEF Touched, Closed
<1>8. \A j \in Keys \ {k} : tripWait'[j] = tripWait[j] /\ probed'[j] = probed[j]
                           /\ streak'[j] = streak[j]
  BY <1>0, <1>1, <1>4, Zenon DEF TypeOK
<1>9. /\ trips => tripWait'[k] = Recovery /\ probed'[k] = 0
      /\ ~trips => tripWait'[k] = tripWait[k] /\ probed'[k] = probed[k]
  BY <1>0, <1>1, Zenon DEF TypeOK
<1>10. streak'[k] = IF success THEN 0
                   ELSE IF streak[k] < Threshold THEN streak[k] + 1 ELSE streak[k]
  BY <1>0, <1>4, Zenon DEF TypeOK
<1> HIDE DEF k, e, f, trips
<1>11. TypeOK'
  <2>1. Absent \in Entry
    BY DEF Absent, Entry, Kinds, Counts, MaxProbes, BreakerConstants
  <2>2. circuits' \in [Keys -> Entry]
    BY <1>0, <1>1, <1>3, <2>1, Zenon DEF Updated, TypeOK, e, f
  <2>3. serving' \in [Requests -> Keys \cup {None}]
    BY <1>0, <1>4, Zenon DEF TypeOK
  <2>4. probed' \in [Keys -> 0..(MaxProbes + 1)] /\ tripWait' \in [Keys -> 0..Recovery]
    BY <1>0, <1>1 DEF TypeOK, MaxProbes, BreakerConstants
  <2>5. streak' \in [Keys -> 0..Threshold]
    BY <1>0, <1>4 DEF TypeOK, BreakerConstants
  <2>6. lost' \subseteq Keys
    BY <1>0, Zenon DEF Respond, TypeOK
  <2> QED
    BY <1>0, <1>4, <2>2, <2>3, <2>4, <2>5, <2>6, CleanupTimerType, Zenon DEF TypeOK
<1>12. RecoveryIsKept'
  <2> SUFFICES ASSUME NEW j \in Keys, tripWait'[j] > 0
               PROVE  circuits'[j].kind = "open" /\ circuits'[j].wait = tripWait'[j]
    BY Zenon DEF RecoveryIsKept
  <2>1. tripWait[j] > 0 => circuits[j].kind = "open" /\ circuits[j].wait = tripWait[j]
                           /\ j \in S
    BY <1>2, Zenon DEF BreakerInv, RecoveryIsKept
  <2>2. CASE j # k
    BY <1>5, <1>8, <2>1, <2>2, Zenon
  <2>3. CASE j = k /\ trips
    <3>1. f = Open
      BY <1>3, <2>3, Zenon DEF Recorded, FailedOnce, Closed, trips, f
    <3> QED
      BY <1>5, <1>9, <2>3, <3>1 DEF Open
  <2>4. CASE j = k /\ ~trips
    <3>1. e.kind = "open" /\ e.wait = tripWait[j]
      BY <1>6, <1>9, <2>1, <2>4, Zenon
    <3>2. f = e
      BY <3>1, Zenon DEF f, Recorded
    <3> QED
      BY <1>5, <1>9, <2>4, <3>1, <3>2, Zenon
  <2> QED
    BY <2>2, <2>3, <2>4, Zenon
<1>13. FailuresAreConsecutive'
  <2> SUFFICES ASSUME NEW j \in Keys, circuits'[j].kind = "closed"
               PROVE  circuits'[j].n <= streak'[j]
    BY Zenon DEF FailuresAreConsecutive
  <2>1. circuits[j].kind = "closed" => circuits[j].n <= streak[j]
    BY Zenon DEF BreakerInv, FailuresAreConsecutive
  <2>2. streak[j] \in 0..Threshold
    BY <1>0, Zenon DEF TypeOK
  <2>3. CASE j # k
    BY <1>5, <1>8, <2>1, <2>3 DEF Absent
  <2>4. CASE j = k /\ success
    <3>1. f = Closed(0)
      BY <1>3, <1>5, <2>4, Zenon DEF f, Recorded, Entry, Kinds
    <3> QED
      BY <1>5, <1>10, <2>4, <3>1 DEF Closed
  <2>5. CASE j = k /\ ~success
    <3>1. e.kind = "closed" /\ f = Closed(e.n + 1) /\ ~(e.n + 1 >= Threshold)
      BY <1>3, <1>5, <2>5, Zenon DEF f, Recorded, FailedOnce, Open, Entry, Kinds
    <3>2. e.n \in Nat /\ e.n <= streak[j]
      BY <1>3, <1>6, <1>7, <2>1, <2>2, <2>5, <3>1 DEF Entry, Counts, MaxProbes, BreakerConstants
    <3>3. f.n = e.n + 1
      BY <3>1, Zenon DEF Closed
    <3> QED
      BY <1>5, <1>10, <2>2, <2>5, <3>1, <3>2, <3>3 DEF BreakerConstants
  <2> QED
    BY <2>3, <2>4, <2>5, Zenon
<1>14. ProbesAreCounted'
  <2> SUFFICES ASSUME NEW j \in Keys
               PROVE  /\ circuits'[j].kind = "open" => probed'[j] = 0
                      /\ circuits'[j].kind = "halfopen" =>
                           probed'[j] = circuits'[j].n /\ circuits'[j].n \in 1..MaxProbes
    BY Zenon DEF ProbesAreCounted, MaxProbes
  <2>1. /\ circuits[j].kind = "open" => probed[j] = 0
        /\ circuits[j].kind = "halfopen" =>
             probed[j] = circuits[j].n /\ circuits[j].n \in 1..MaxProbes
    BY Zenon DEF BreakerInv, ProbesAreCounted
  <2>2. CASE j # k
    BY <1>5, <1>8, <2>1, <2>2 DEF Absent
  <2>3. CASE j = k
    <3>1. f.kind # "halfopen"
      BY <1>3, Zenon DEF f, Recorded, FailedOnce, Open, Closed, Entry, Kinds
    <3>2. f.kind = "open" => trips \/ e.kind = "open"
      BY Zenon DEF trips
    <3>3. e.kind = "open" /\ ~trips => probed'[k] = 0
      BY <1>6, <1>7, <1>9, <2>1, <2>3, Zenon
    <3> QED
      BY <1>5, <1>9, <2>3, <3>1, <3>2, <3>3, Zenon DEF trips
  <2> QED
    BY <2>2, <2>3, Zenon
<1> QED
  BY <1>11, <1>12, <1>13, <1>14, Zenon DEF BreakerInv

\* The passage of time.
LEMMA TickKeepsInv ==
    ASSUME BreakerConstants, BreakerInv, Tick
    PROVE  BreakerInv'
<1>0. TypeOK
  BY Zenon DEF BreakerInv
<1>1. \A k \in Keys : /\ circuits'[k] = Aged(circuits[k])
                      /\ tripWait'[k] = Down(tripWait[k])
  BY Zenon DEF Tick
<1>2. \A k \in Keys : circuits[k] \in Entry /\ tripWait[k] \in 0..Recovery
  BY <1>0, Zenon DEF TypeOK
<1>3. \A k \in Keys : /\ Aged(circuits[k]).kind = circuits[k].kind
                      /\ Aged(circuits[k]).n = circuits[k].n
                      /\ circuits[k].kind # "absent" =>
                           Aged(circuits[k]).wait = Down(circuits[k].wait)
                      /\ Aged(circuits[k]) \in Entry
  BY <1>2 DEF Aged, Entry, Down, BreakerConstants
<1>4. TypeOK'
  BY <1>0, <1>1, <1>2, <1>3 DEF TypeOK, Tick, Down, BreakerConstants
<1>5. RecoveryIsKept'
  BY <1>1, <1>2, <1>3 DEF BreakerInv, RecoveryIsKept, Down
<1>6. FailuresAreConsecutive' /\ ProbesAreCounted'
  <2>1. streak' = streak /\ probed' = probed
    BY Zenon DEF Tick
  <2> QED
    BY <1>1, <1>3, <2>1 DEF BreakerInv, FailuresAreConsecutive, ProbesAreCounted
<1> QED
  BY <1>4, <1>5, <1>6, Zenon DEF BreakerInv

\* Every check, record, dropped request and tick keeps it.
THEOREM BreakerStep ==
    BreakerConstants /\ BreakerInv /\ [Next]_vars => BreakerInv'
<1> SUFFICES ASSUME BreakerConstants, BreakerInv, [Next]_vars
             PROVE  BreakerInv'
  BY Zenon
<1>1. CASE \E r \in Requests, k \in Keys : Call(r, k)
  BY <1>1, CallKeepsInv, Zenon
<1>2. CASE \E r \in Requests, success \in BOOLEAN : Respond(r, success)
  BY <1>2, RespondKeepsInv, Zenon
<1>3. CASE \E r \in Requests : Abandon(r)
  <2>1. /\ circuits' = circuits /\ cleanupIn' = cleanupIn /\ tripWait' = tripWait
        /\ streak' = streak /\ probed' = probed
        /\ serving' \in [Requests -> Keys \cup {None}]
        /\ lost' \subseteq Keys
    BY <1>3, Zenon DEF Abandon, BreakerInv, TypeOK
  <2> QED
    BY <2>1, Zenon DEF BreakerInv, TypeOK, RecoveryIsKept, FailuresAreConsecutive, ProbesAreCounted
<1>4. CASE Tick
  BY <1>4, TickKeepsInv, Zenon
<1>5. CASE UNCHANGED vars
  BY <1>5, Zenon DEF vars, BreakerInv, TypeOK, RecoveryIsKept, FailuresAreConsecutive,
     ProbesAreCounted
<1> QED
  BY <1>1, <1>2, <1>3, <1>4, <1>5, Zenon DEF Next

-------------------------------------------------------------------------------

\* The map, the timers and the counters keep their types; in particular neither
\* consecutive_failures nor in_flight passes its configured limit.
THEOREM BreakerTypeOK == Spec => []TypeOK
<1>1. Init => BreakerInv
  BY BreakerConstants, BreakerInit, Zenon
<1>2. BreakerInv /\ [Next]_vars => BreakerInv'
  BY BreakerConstants, BreakerStep, Zenon
<1>3. BreakerInv => TypeOK
  BY Zenon DEF BreakerInv
<1> QED
  BY <1>1, <1>2, <1>3, PTL DEF Spec

\* A recovery period, once begun, is neither cut short, extended nor forgotten.
THEOREM RecoveryKept == Spec => []RecoveryIsKept
<1>1. Init => BreakerInv
  BY BreakerConstants, BreakerInit
<1>2. BreakerInv /\ [Next]_vars => BreakerInv'
  BY BreakerConstants, BreakerStep
<1>3. BreakerInv => RecoveryIsKept
  BY Zenon DEF BreakerInv
<1> QED
  BY <1>1, <1>2, <1>3, PTL DEF Spec

\* Only failures in a row trip a closed circuit.
THEOREM ConsecutiveFailures == Spec => []FailuresAreConsecutive
<1>1. Init => BreakerInv
  BY BreakerConstants, BreakerInit
<1>2. BreakerInv /\ [Next]_vars => BreakerInv'
  BY BreakerConstants, BreakerStep
<1>3. BreakerInv => FailuresAreConsecutive
  BY Zenon DEF BreakerInv
<1> QED
  BY <1>1, <1>2, <1>3, PTL DEF Spec

\* At most MaxProbes requests reach the upstream between opening and closing.
THEOREM BoundedProbes == Spec => []ProbesAreBounded
<1>1. Init => BreakerInv
  BY BreakerConstants, BreakerInit
<1>2. BreakerInv /\ [Next]_vars => BreakerInv'
  BY BreakerConstants, BreakerStep
<1>3. BreakerInv => ProbesAreBounded
  BY BreakerConstants
     DEF BreakerInv, TypeOK, ProbesAreCounted, ProbesAreBounded, MaxProbes, BreakerConstants
<1> QED
  BY <1>1, <1>2, <1>3, PTL DEF Spec

\* check() admits nothing to a key while its recovery period runs.
THEOREM RecoveryAdmitsNothing == Spec => NoAdmissionInRecovery
<1> DEFINE Quiet == \A r \in Requests, k \in Keys :
                      serving[r] = None /\ serving'[r] = k => tripWait[k] = 0
<1>1. Init => BreakerInv
  BY BreakerConstants, BreakerInit
<1>2. BreakerInv /\ [Next]_vars => BreakerInv'
  BY BreakerConstants, BreakerStep
<1>3. BreakerInv /\ [Next]_vars => [Quiet]_vars
  <2> SUFFICES ASSUME BreakerInv, Next, NEW r \in Requests, NEW k \in Keys,
                      serving[r] = None, serving'[r] = k
               PROVE  tripWait[k] = 0
    BY Zenon DEF Quiet
  <2>1. TypeOK /\ RecoveryIsKept /\ None \notin Keys
    BY BreakerConstants, Zenon DEF BreakerInv, BreakerConstants
  <2>2. Call(r, k)
    <3>1. CASE \E q \in Requests, j \in Keys : Call(q, j)
      <4>1. PICK q \in Requests, j \in Keys : Call(q, j)
        BY <3>1, Zenon
      <4>2. serving' = [serving EXCEPT ![q] = j] \/ serving' = serving
        BY <4>1, Zenon DEF Call
      <4> QED
        BY <2>1, <4>1, <4>2, Zenon DEF TypeOK
    <3>2. CASE \E q \in Requests, success \in BOOLEAN : Respond(q, success)
      <4>1. PICK q \in Requests : serving' = [serving EXCEPT ![q] = None]
        BY <3>2, Zenon DEF Respond
      <4> QED
        BY <2>1, <4>1, Zenon DEF TypeOK
    <3>3. CASE \E q \in Requests : Abandon(q)
      BY <2>1, <3>3, Zenon DEF Abandon, TypeOK
    <3>4. CASE Tick
      BY <2>1, <3>4, Zenon DEF Tick
    <3> QED
      BY <3>1, <3>2, <3>3, <3>4, Zenon DEF Next
  <2>3. PICK S \in Survivors(k) :
          serving' = IF Allows(Touched(k, S)) THEN [serving EXCEPT ![r] = k] ELSE serving
    BY <2>2, Zenon DEF Call
  <2>4. Allows(Touched(k, S))
    BY <2>1, <2>3, Zenon
  <2>5. ASSUME tripWait[k] # 0 PROVE FALSE
    <3>1. circuits[k].kind = "open" /\ circuits[k].wait > 0
      BY <2>1, <2>5 DEF RecoveryIsKept, TypeOK
    <3>2. k \in S
      BY <2>1, <3>1, SurvivorsKeepWaiting, Zenon
    <3>3. Touched(k, S).kind = "open" /\ Touched(k, S).wait = circuits[k].wait
      BY <2>1, <3>1, <3>2 DEF Touched, TypeOK, Entry
    <3> QED
      BY <2>4, <3>1, <3>3 DEF Allows
  <2> QED
    BY <2>5, Zenon
<1> QED
  BY <1>1, <1>2, <1>3, PTL DEF Spec, NoAdmissionInRecovery

\* A half-open circuit has the request in flight that will resolve it, or has lost
\* one to an inner error or to a client that went away.
THEOREM HalfOpenProbed == Spec => []HalfOpenIsProbed
<1> DEFINE Inv == BreakerInv /\ HalfOpenIsProbed
<1>1. Init => Inv
  <2>1. Init => BreakerInv
    BY BreakerConstants, BreakerInit
  <2> QED
    BY <2>1 DEF Init, Absent, HalfOpenIsProbed
<1>2. Inv /\ [Next]_vars => Inv'
  <2> SUFFICES ASSUME Inv, [Next]_vars PROVE Inv'
    BY Zenon
  <2>1. BreakerInv'
    BY BreakerConstants, BreakerStep, Zenon
  <2>2. TypeOK /\ None \notin Keys
    BY BreakerConstants, Zenon DEF BreakerInv, BreakerConstants
  <2> SUFFICES ASSUME NEW j \in Keys, circuits'[j].kind = "halfopen"
               PROVE  j \in lost' \/ \E q \in Requests : serving'[q] = j
    BY <2>1, Zenon DEF HalfOpenIsProbed
  <2>3. circuits[j].kind = "halfopen" => j \in lost \/ \E q \in Requests : serving[q] = j
    BY Zenon DEF HalfOpenIsProbed
  <2>4. CASE \E r \in Requests, k \in Keys : Call(r, k)
    <3>1. PICK r \in Requests, k \in Keys : Call(r, k)
      BY <2>4, Zenon
    <3>2. PICK S \in Survivors(k) :
            /\ circuits' = Updated(k, S, Checked(Touched(k, S)))
            /\ serving' = IF Allows(Touched(k, S)) THEN [serving EXCEPT ![r] = k] ELSE serving
      BY <3>1, Zenon DEF Call
    <3>3. serving[r] = None /\ r \in DOMAIN serving /\ lost' = lost
      BY <2>2, <3>1, Zenon DEF Call, TypeOK
    <3>4. circuits[j].kind = "halfopen" => j \in lost' \/ \E q \in Requests : serving'[q] = j
      BY <2>2, <2>3, <3>2, <3>3
    <3>5. CASE j # k
      BY <3>2, <3>4, <3>5, Zenon DEF Updated, Absent
    <3>6. CASE j = k /\ Allows(Touched(k, S))
      BY <3>2, <3>3, <3>6, Zenon
    <3>7. CASE j = k /\ ~Allows(Touched(k, S))
      <4>1. Touched(k, S).kind = "halfopen"
        BY <3>2, <3>7, Zenon DEF Updated, Checked, Allows
      <4>2. circuits[j].kind = "halfopen"
        BY <2>2, <3>7, <4>1 DEF Touched, Closed, TypeOK, Entry
      <4> QED
        BY <3>4, <4>2, Zenon
    <3> QED
      BY <3>5, <3>6, <3>7, Zenon
  <2>5. CASE \E r \in Requests, success \in BOOLEAN : Respond(r, success)
    <3>1. PICK r \in Requests, success \in BOOLEAN : Respond(r, success)
      BY <2>5, Zenon
    <3>2. /\ serving[r] \in Keys /\ serving' = [serving EXCEPT ![r] = None]
          /\ lost' = lost \ {serving[r]}
      BY <2>2, <3>1, Zenon DEF Respond, TypeOK
    <3>3. PICK S \in Survivors(serving[r]) :
            circuits' = Updated(serving[r], S, Recorded(Touched(serving[r], S), success))
      BY <3>1, Zenon DEF Respond
    <3>4. CASE j # serving[r]
      <4>1. circuits[j].kind = "halfopen"
        BY <3>3, <3>4, Zenon DEF Updated, Absent
      <4> QED
        BY <2>2, <2>3, <3>2, <3>4, <4>1, Zenon DEF TypeOK
    <3>5. CASE j = serving[r]
      <4>1. circuits'[j] = Recorded(Touched(j, S), success)
        BY <3>3, <3>5, Zenon DEF Updated
      <4> QED
        BY <4>1 DEF Recorded, FailedOnce, Open, Closed
    <3> QED
      BY <3>4, <3>5, Zenon
  <2>6. CASE Tick
    <3>1. circuits[j].kind = "halfopen" /\ serving' = serving /\ lost' = lost
      BY <2>6, Zenon DEF Tick, Aged
    <3> QED
      BY <2>3, <3>1, Zenon
  <2>7. CASE UNCHANGED vars
    BY <2>3, <2>7, Zenon DEF vars
  <2>8. CASE \E r \in Requests : Abandon(r)
    <3>1. PICK r \in Requests : Abandon(r)
      BY <2>8, Zenon
    <3>2. circuits[j].kind = "halfopen"
      BY <3>1, Zenon DEF Abandon
    <3>3. CASE serving[r] = j
      BY <3>1, <3>2, <3>3, Zenon DEF Abandon
    <3>4. CASE serving[r] # j
      BY <2>2, <2>3, <3>1, <3>2, <3>4, Zenon DEF Abandon, TypeOK
    <3> QED
      BY <3>3, <3>4, Zenon
  <2> QED
    BY <2>4, <2>5, <2>6, <2>7, <2>8, Zenon DEF Next
<1>3. Inv => HalfOpenIsProbed
  BY Zenon
<1> QED
  BY <1>1, <1>2, <1>3, PTL DEF Spec

-------------------------------------------------------------------------------
(* Retry.                                                                  *)

\* The capture of a request mirrors what has been polled of its body.
CaptureMirrors(r) ==
    /\ polled[r] <= length[r]
    /\ ~capture[r].overflowed => capture[r].bytes = polled[r]
    /\ capture[r].bytes <= MaxReplay
    /\ capture[r].complete => polled[r] = length[r]

\* Bytes to replay, once there, are the body; without them nothing is resent.
ReplayReady(r) ==
    /\ replay[r] # NoReplay => replay[r] = length[r]
    /\ attempt[r] > 0 \/ pc[r] = "sleeping" => replay[r] # NoReplay

\* Where a request stands in the attempt loop.
LoopBounds(r) ==
    /\ pc[r] # "unreachable"
    /\ attempt[r] <= EffectiveMax(r)
    /\ pc[r] = "sleeping" => attempt[r] < EffectiveMax(r)
    /\ pc[r] = "idle" => /\ attempt[r] = 0 /\ polled[r] = 0
                         /\ capture[r] = NewCapture /\ replay[r] = NoReplay

RequestInv(r) == CaptureMirrors(r) /\ ReplayReady(r) /\ LoopBounds(r)

RetryInv == RetryTypeOK /\ BudgetHolds /\ \A r \in Slots : RequestInv(r)

-------------------------------------------------------------------------------

\* A slot whose future has ended satisfies the invariant again.
LEMMA FinishedKeeps ==
    ASSUME RetryInv, NEW r \in Slots, Finished(r),
           requests' \in 0..MaxRequests, retries' \in Nat, windowLeft' \in 0..BudgetWindow
    PROVE  RetryTypeOK' /\ \A q \in Slots : RequestInv(q)'
  <1>1. RetryTypeOK'
    BY RetryConstants DEF RetryInv, RetryTypeOK, Finished, Captures, NewCapture
  <1>2. ASSUME NEW q \in Slots PROVE RequestInv(q)'
    <2>1. CASE q = r
      <3>1. /\ pc'[r] = "idle" /\ attempt'[r] = 0 /\ ~retryable'[r] /\ length'[r] = 0
            /\ polled'[r] = 0 /\ capture'[r] = NewCapture /\ replay'[r] = NoReplay
        BY Zenon DEF RetryInv, RetryTypeOK, Finished
      <3> QED BY <2>1, <3>1, RetryConstants DEF RequestInv, CaptureMirrors, ReplayReady,
                 LoopBounds, EffectiveMax, NewCapture
    <2>2. CASE q # r
      BY <2>2, Zenon DEF RetryInv, RetryTypeOK, Finished, RequestInv, CaptureMirrors,
         ReplayReady, LoopBounds, EffectiveMax
    <2> QED BY <2>1, <2>2, Zenon
  <1> QED BY <1>1, <1>2, Zenon

\* The budget of an expired window starts again, any other is as it was.
LEMMA CurrentBudget ==
    ASSUME RetryInv
    PROVE  /\ CurrentRequests \in 0..MaxRequests
           /\ CurrentRetries \in Nat
           /\ CurrentLeft \in 0..BudgetWindow
           /\ \/ CurrentRetries <= MinRetries \/ CurrentRetries <= 1
              \/ (CurrentRetries - 1) * RatioDen
                    < RatioNum * (CurrentRequests + CurrentRetries - 1)
  BY RetryConstants DEF RetryInv, RetryTypeOK, BudgetHolds, CurrentRequests, CurrentRetries,
     CurrentLeft, Expired

\* Another request only loosens the bound of the budget.
LEMMA MoreRequestsLoosen ==
    ASSUME NEW a \in Nat, NEW n \in Nat, NEW t \in Nat, a < n * t
    PROVE  a < n * (t + 1)
  <1>1. n * (t + 1) = n * t + n
    OBVIOUS
  <1>2. n * t \in Nat
    OBVIOUS
  <1> QED BY <1>1, <1>2

\* A new request keeps the invariant: an empty body known in advance is its own
\* replay.
LEMMA StartKeeps ==
    ASSUME RetryInv, NEW r \in Slots, NEW n \in 0..MaxChunks,
           NEW allowed \in BOOLEAN, NEW empty \in BOOLEAN, Start(r, allowed, n, empty)
    PROVE  RetryInv'
  <1>1. RetryTypeOK'
    <2>1. /\ (IF empty THEN 0 ELSE NoReplay) \in Nat \cup {NoReplay}
          /\ requests' \in 0..MaxRequests
      BY CurrentBudget, RetryConstants DEF Start
    <2> QED BY <2>1, CurrentBudget, Zenon DEF RetryInv, RetryTypeOK, Start
  <1>2. ASSUME NEW q \in Slots PROVE RequestInv(q)'
    <2>1. CASE q = r
      <3>1. /\ pc'[r] = "sending" /\ attempt'[r] = 0 /\ polled'[r] = 0 /\ length'[r] = n
            /\ capture'[r] = NewCapture /\ replay'[r] = IF empty THEN 0 ELSE NoReplay
            /\ empty => n = 0
        BY Zenon DEF RetryInv, RetryTypeOK, Start, RequestInv, LoopBounds
      <3>2. n \in Nat /\ retryable'[r] \in BOOLEAN
        BY <1>1, RetryConstants DEF RetryTypeOK
      <3> QED BY <2>1, <3>1, <3>2, RetryConstants DEF RequestInv, CaptureMirrors,
                 ReplayReady, LoopBounds, EffectiveMax, NewCapture
    <2>2. CASE q # r
      BY <2>2, Zenon DEF RetryInv, RetryTypeOK, Start, RequestInv, CaptureMirrors,
         ReplayReady, LoopBounds, EffectiveMax
    <2> QED BY <2>1, <2>2, Zenon
  <1>3. BudgetHolds'
    <2>1. /\ retries' = CurrentRetries /\ requests' = CurrentRequests + 1
          /\ CurrentRetries \in Nat /\ CurrentRequests \in Nat
      BY CurrentBudget, RetryConstants DEF Start
    <2>2. CASE CurrentRetries <= MinRetries \/ CurrentRetries <= 1
      BY <2>1, <2>2, Zenon DEF BudgetHolds
    <2>3. CASE /\ CurrentRetries > 1
               /\ (CurrentRetries - 1) * RatioDen
                     < RatioNum * (CurrentRequests + CurrentRetries - 1)
      <3>1. /\ (CurrentRetries - 1) * RatioDen \in Nat
            /\ CurrentRequests + CurrentRetries - 1 \in Nat
        BY <2>1, <2>3, RetryConstants
      <3>2. (CurrentRetries - 1) * RatioDen
               < RatioNum * (CurrentRequests + CurrentRetries - 1 + 1)
        BY <3>1, <2>3, MoreRequestsLoosen, RetryConstants, Zenon
      <3>3. CurrentRequests + CurrentRetries - 1 + 1
               = (CurrentRequests + 1) + CurrentRetries - 1
        BY <2>1
      <3> QED BY <2>1, <3>2, <3>3, Zenon DEF BudgetHolds
    <2> QED BY <2>1, <2>2, <2>3, CurrentBudget
  <1> QED BY <1>1, <1>2, <1>3, Zenon DEF RetryInv

\* The three outcomes of polling the recorded body keep the invariant.
LEMMA PollKeeps ==
    ASSUME RetryInv, NEW r \in Slots, PollData(r) \/ PollError(r) \/ PollEnd(r)
    PROVE  RetryInv'
  <1>1. BudgetHolds'
    BY Zenon DEF RetryInv, BudgetHolds, PollData, PollError, PollEnd, budget
  <1>2. CASE PollData(r)
    <2>1. capture[r] \in Captures /\ polled[r] \in Nat /\ length[r] \in 0..MaxChunks
      BY DEF RetryInv, RetryTypeOK
    <2>2. RecordChunk(capture[r]) \in Captures
      <3>1. [capture[r] EXCEPT !.bytes = capture[r].bytes + 1] \in Captures
        BY <2>1 DEF Captures
      <3>2. [bytes |-> 0, overflowed |-> TRUE, complete |-> capture[r].complete] \in Captures
        BY <2>1, Zenon DEF Captures
      <3> QED BY <2>1, <3>1, <3>2, Zenon DEF RecordChunk
    <2>3. RetryTypeOK'
      <3>1. polled[r] + 1 \in 0..MaxChunks
        BY <1>2, <2>1, RetryConstants DEF PollData
      <3> QED BY <1>2, <2>2, <3>1, Zenon DEF RetryInv, RetryTypeOK, PollData, budget
    <2>4. ASSUME NEW q \in Slots PROVE RequestInv(q)'
      <3>1. CASE q = r
        BY <1>2, <2>1, <3>1, RetryConstants, SMTT(30) DEF RetryInv, RetryTypeOK,
           PollData, RequestInv,
           CaptureMirrors, ReplayReady, LoopBounds, EffectiveMax, RecordChunk, Captures
      <3>2. CASE q # r
        BY <1>2, <3>2, Zenon DEF RetryInv, RetryTypeOK, PollData, RequestInv, CaptureMirrors,
           ReplayReady, LoopBounds, EffectiveMax
      <3> QED BY <3>1, <3>2, Zenon
    <2> QED BY <1>1, <2>3, <2>4, Zenon DEF RetryInv
  <1>3. CASE PollError(r) \/ PollEnd(r)
    <2>1. RetryTypeOK'
      <3>1. capture[r] \in Captures
        BY Zenon DEF RetryInv, RetryTypeOK
      <3>2. /\ [capture[r] EXCEPT !.overflowed = TRUE] \in Captures
            /\ [capture[r] EXCEPT !.complete = TRUE] \in Captures
        BY <3>1, Zenon DEF Captures
      <3>3. capture' \in [Slots -> Captures]
        BY <1>3, <3>2, Zenon DEF RetryInv, RetryTypeOK, PollError, PollEnd
      <3> QED BY <1>3, <3>3, Zenon DEF RetryInv, RetryTypeOK, PollError, PollEnd, budget
    <2>2. ASSUME NEW q \in Slots PROVE RequestInv(q)'
      BY <1>3, RetryConstants DEF RetryInv, RetryTypeOK, PollError, PollEnd, RequestInv,
         CaptureMirrors, ReplayReady, LoopBounds, EffectiveMax, Captures
    <2> QED BY <1>1, <2>1, <2>2 DEF RetryInv
  <1> QED BY <1>2, <1>3, Zenon

\* A granted retry keeps the invariant: the complete capture becomes the replay
\* and the budget had room before it.
LEMMA AskBudgetKeeps ==
    ASSUME RetryInv, NEW r \in Slots, AskBudget(r)
    PROVE  RetryInv'
  <1>1. /\ requests' = CurrentRequests /\ CurrentRequests \in 0..MaxRequests
        /\ windowLeft' \in 0..BudgetWindow /\ CurrentRetries \in Nat
    BY CurrentBudget, Zenon DEF AskBudget
  <1>2. CASE AllowsRetry
    <2>1. retries' = CurrentRetries + 1
      BY <1>2, Zenon DEF AskBudget
    <2>2. BudgetHolds'
      <3>1. /\ retries' - 1 = CurrentRetries
            /\ requests' + retries' - 1 = CurrentRequests + CurrentRetries
        BY <1>1, <2>1, RetryConstants
      <3>2. CASE CurrentRetries < MinRetries \/ CurrentRequests + CurrentRetries = 0
        BY <1>1, <2>1, <3>2, RetryConstants DEF BudgetHolds
      <3>3. CASE CurrentRetries * RatioDen < RatioNum * (CurrentRequests + CurrentRetries)
        BY <3>1, <3>3, Zenon DEF BudgetHolds
      <3> QED BY <1>2, <3>2, <3>3, Zenon DEF AllowsRetry
    <2>3. Replayable(r) = length[r] /\ Replayable(r) \in Nat
      <3>1. /\ length[r] \in Nat /\ CaptureMirrors(r) /\ ReplayReady(r)
            /\ Replayable(r) # NoReplay
        BY RetryConstants DEF AskBudget, RetryInv, RetryTypeOK, RequestInv
      <3> QED BY <3>1, RetryConstants DEF CaptureMirrors, ReplayReady, Replayable, Snapshot
    <2>4. RetryTypeOK'
      BY <1>1, <1>2, <2>1, <2>3, RetryConstants DEF RetryInv, RetryTypeOK, AskBudget
    <2>5. ASSUME NEW q \in Slots PROVE RequestInv(q)'
      <3>1. CASE q = r
        <4>1. /\ pc'[r] = "sleeping" /\ replay'[r] = length[r] /\ attempt[r] < EffectiveMax(r)
              /\ length[r] # NoReplay
          BY <1>2, <2>3, RetryConstants, Zenon
             DEF RetryInv, RetryTypeOK, AskBudget, MayRetry
        <4> QED BY <1>2, <3>1, <4>1, Zenon DEF AskBudget, RetryInv, RequestInv,
                   CaptureMirrors, ReplayReady, LoopBounds, EffectiveMax
      <3>2. CASE q # r
        <4>1. /\ pc'[q] = pc[q] /\ replay'[q] = replay[q]
              /\ UNCHANGED <<attempt, retryable, length, polled, capture>>
          BY <1>2, <3>2, Zenon DEF RetryInv, RetryTypeOK, AskBudget
        <4> QED BY <4>1, Zenon DEF RetryInv, RequestInv, CaptureMirrors, ReplayReady,
                   LoopBounds, EffectiveMax
      <3> QED BY <3>1, <3>2, Zenon
    <2> QED BY <2>2, <2>4, <2>5, Zenon DEF RetryInv
  <1>3. CASE ~AllowsRetry
    <2>1. retries' = CurrentRetries /\ Finished(r)
      BY <1>3, Zenon DEF AskBudget
    <2>2. BudgetHolds'
      BY <1>1, <2>1, CurrentBudget, Zenon DEF BudgetHolds
    <2> QED BY <1>1, <2>1, <2>2, FinishedKeeps, Zenon DEF RetryInv
  <1> QED BY <1>2, <1>3, Zenon

\* The next turn of the loop keeps the invariant.
LEMMA ResendKeeps ==
    ASSUME RetryInv, NEW r \in Slots, Resend(r)
    PROVE  RetryInv'
  <1>1. BudgetHolds'
    BY Zenon DEF RetryInv, BudgetHolds, Resend, budget
  <1>0. /\ attempt[r] + 1 \in 0..(MaxRetries + 1) /\ attempt[r] + 1 <= EffectiveMax(r)
        /\ ~(attempt[r] + 1 > EffectiveMax(r))
    <2>1. attempt[r] \in Nat /\ attempt[r] < EffectiveMax(r) /\ retryable[r] \in BOOLEAN
      BY RetryConstants DEF RetryInv, RetryTypeOK, Resend, RequestInv, LoopBounds
    <2> QED BY <2>1, RetryConstants DEF EffectiveMax
  <1>2. RetryTypeOK'
    BY <1>0, Zenon DEF RetryInv, RetryTypeOK, Resend, budget
  <1>3. ASSUME NEW q \in Slots PROVE RequestInv(q)'
    <2>1. CASE q = r
      <3>1. /\ pc'[r] = "sending" /\ attempt'[r] = attempt[r] + 1
            /\ replay[r] # NoReplay
            /\ CaptureMirrors(r) /\ ReplayReady(r)
        BY <1>0, Zenon DEF RetryInv, RetryTypeOK, Resend, RequestInv, ReplayReady
      <3> QED BY <1>0, <2>1, <3>1, Zenon DEF Resend, RequestInv, CaptureMirrors,
                 ReplayReady, LoopBounds, EffectiveMax
    <2>2. CASE q # r
      BY <2>2, Zenon DEF RetryInv, RetryTypeOK, Resend, RequestInv, CaptureMirrors,
         ReplayReady, LoopBounds, EffectiveMax
    <2> QED BY <2>1, <2>2, Zenon
  <1> QED BY <1>1, <1>2, <1>3 DEF RetryInv

\* The invariant holds before the first request.
THEOREM RetryStart == RetryInit => RetryInv
  <1> SUFFICES ASSUME RetryInit PROVE RetryInv
    BY Zenon
  <1>1. RetryTypeOK
    <2>1. /\ NewCapture \in Captures /\ 0 \in 0..(MaxRetries + 1) /\ 0 \in 0..MaxChunks
          /\ 0 \in 0..MaxRequests /\ 0 \in Nat /\ BudgetWindow \in 0..BudgetWindow
      BY RetryConstants DEF NewCapture, Captures
    <2> QED BY <2>1, Zenon DEF RetryInit, RetryTypeOK
  <1>2. BudgetHolds
    BY RetryConstants DEF RetryInit, BudgetHolds
  <1>3. ASSUME NEW r \in Slots PROVE RequestInv(r)
    <2>1. /\ pc[r] = "idle" /\ attempt[r] = 0 /\ ~retryable[r] /\ length[r] = 0
          /\ polled[r] = 0 /\ capture[r] = NewCapture /\ replay[r] = NoReplay
      BY Zenon DEF RetryInit
    <2> QED BY <2>1, RetryConstants DEF RequestInv, CaptureMirrors, ReplayReady, LoopBounds,
               EffectiveMax, NewCapture
  <1> QED BY <1>1, <1>2, <1>3, Zenon DEF RetryInv

\* Every step of every request keeps it.
THEOREM RetryStep == RetryInv /\ [RetryNext]_retryVars => RetryInv'
  <1> SUFFICES ASSUME RetryInv, [RetryNext]_retryVars PROVE RetryInv'
    BY Zenon
  <1>1. ASSUME NEW r \in Slots, NEW n \in 0..MaxChunks, NEW allowed \in BOOLEAN,
               NEW empty \in BOOLEAN, Start(r, allowed, n, empty)
        PROVE  RetryInv'
    BY <1>1, StartKeeps, Zenon
  <1>2. ASSUME NEW r \in Slots, Fail(r) \/ Cancel(r) \/ \E again \in BOOLEAN : Return(r, again)
        PROVE  RetryInv'
    <2>1. Finished(r) /\ UNCHANGED budget
      BY <1>2, Zenon DEF Fail, Cancel, Return
    <2>2. /\ requests' \in 0..MaxRequests /\ retries' \in Nat
          /\ windowLeft' \in 0..BudgetWindow /\ BudgetHolds'
      BY <2>1, Zenon DEF RetryInv, RetryTypeOK, BudgetHolds, budget
    <2> QED BY <2>1, <2>2, FinishedKeeps, Zenon DEF RetryInv
  <1>3. CASE RetryTick \/ UNCHANGED retryVars
    <2>1. RetryTypeOK'
      <3>1. windowLeft' \in 0..BudgetWindow
        BY <1>3, RetryConstants DEF RetryInv, RetryTypeOK, RetryTick, retryVars, budget
      <3> QED BY <1>3, <3>1, Zenon DEF RetryInv, RetryTypeOK, RetryTick, retryVars,
                 requestState, budget
    <2>2. BudgetHolds' /\ \A r \in Slots : RequestInv(r)'
      BY <1>3, Zenon DEF RetryInv, BudgetHolds, RetryTick, retryVars, requestState, budget,
         RequestInv,
         CaptureMirrors, ReplayReady, LoopBounds, EffectiveMax
    <2> QED BY <2>1, <2>2, Zenon DEF RetryInv
  <1> QED BY <1>1, <1>2, <1>3, PollKeeps, AskBudgetKeeps, ResendKeeps, Zenon DEF RetryNext

\* The inductive invariant holds in every behaviour.
THEOREM RetryInvariant == RetrySpec => []RetryInv
  BY RetryStart, RetryStep, PTL DEF RetrySpec

\* Every resent request carries the whole original body.
THEOREM ExactReplay == RetrySpec => []ReplayIsExact
  <1>1. RetryInv => ReplayIsExact
    BY Zenon DEF RetryInv, ReplayIsExact, RequestInv, ReplayReady
  <1> QED BY <1>1, RetryInvariant, PTL

\* The `unreachable!()` that ends RetryService::call is never reached.
THEOREM LoopAlwaysReturns == RetrySpec => []LoopReturns
  <1>1. RetryInv => LoopReturns
    BY Zenon DEF RetryInv, LoopReturns, RequestInv, LoopBounds
  <1> QED BY <1>1, RetryInvariant, PTL

\* The budget's bound holds for every ratio, floor and number of requests.
THEOREM BudgetBound == RetrySpec => []BudgetHolds
  <1>1. RetryInv => BudgetHolds
    BY Zenon DEF RetryInv
  <1> QED BY <1>1, RetryInvariant, PTL

\* The capture of ReplayCapture never holds more than max_replay_body_bytes.
THEOREM BoundedCapture == RetrySpec => []CaptureIsBounded
  <1>1. RetryInv => CaptureIsBounded
    BY Zenon DEF RetryInv, CaptureIsBounded, RequestInv, CaptureMirrors
  <1> QED BY <1>1, RetryInvariant, PTL

\* A request whose method is not on the allowlist is never sent again.
THEOREM AllowedResent == RetrySpec => []OnlyAllowedAreResent
  <1>1. RetryInv => OnlyAllowedAreResent
    BY DEF RetryInv, RetryTypeOK, OnlyAllowedAreResent, RequestInv, LoopBounds, EffectiveMax
  <1> QED BY <1>1, RetryInvariant, PTL

===============================================================================

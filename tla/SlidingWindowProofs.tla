-------------------------- MODULE SlidingWindowProofs --------------------------
(***************************************************************************)
(* Proofs about the deque of SlidingWindow and about the sorted set in     *)
(* Redis, for any keys, requests, count, window and capacity settings: the *)
(* deque stays ordered, a delay is at most a window, an admission without  *)
(* one finds room in the window that has passed, and the set outlives the  *)
(* reservations in it.                                                     *)
(***************************************************************************)
EXTENDS RedisSlidingWindow, FiniteSetTheorems, TLAPS

Entries == 0..(2 * Window)

\* What every deque looks like: ordered, its front not ahead of now, nothing
\* reserved more than a window after the front, and reservations still ahead only
\* while the window is full.
WellFormed(q) ==
    /\ \A i, j \in DOMAIN q : i < j => q[i] <= q[j]
    /\ \A i \in DOMAIN q : q[1] <= Window /\ q[i] <= q[1] + Window
    /\ (\E i \in DOMAIN q : q[i] > Window) => Len(q) >= Count

\* The inductive invariant.
WindowInv ==
    /\ TypeOK
    /\ \A k \in Keys : WellFormed(log[k])
    /\ WaitIsBounded

-------------------------------------------------------------------------------

\* A deque with a live entry has a first one.
LEMMA FirstLive ==
    ASSUME NEW q \in Seq(Entries), ~(\A i \in DOMAIN q : q[i] = 0)
    PROVE  \E i \in DOMAIN q : q[i] > 0 /\ \A j \in 1..(i - 1) : q[j] = 0
<1> DEFINE T == {i \in DOMAIN q : q[i] > 0}
<1>1. Len(q) \in Nat /\ DOMAIN q = 1..Len(q) /\ \A i \in DOMAIN q : q[i] \in Nat
  BY WindowConstants DEF Entries, WindowConstants
<1>2. T \subseteq Nat /\ T # {}
  BY <1>1
<1>3. PICK i \in T : \A y \in T : ~(<<y, i>> \in OpToRel(<, Nat))
  <2> HIDE DEF T
  <2> QED
    BY <1>2, NatLessThanWellFounded, WFMin, Zenon
<1>4. \A y \in T : ~(y < i)
  BY <1>2, <1>3, Zenon DEF OpToRel
<1>5. i \in DOMAIN q /\ q[i] > 0
  BY Zenon
<1>6. ASSUME NEW j \in 1..(i - 1) PROVE q[j] = 0
  <2>1. j \in DOMAIN q /\ j < i
    BY <1>1, <1>5
  <2>2. ~(q[j] > 0) /\ q[j] \in Nat
    BY <1>1, <1>4, <2>1, Zenon
  <2> QED
    BY <2>2
<1> QED
  BY <1>5, <1>6, Zenon

\* Histories stay histories.
LEMMA Histories ==
    ASSUME NEW h \in [0..(Window - 1) -> Nat]
    PROVE  Counted(h) \in [0..(Window - 1) -> Nat] /\ Older(h) \in [0..(Window - 1) -> Nat]
<1>1. \A L \in 0..(Window - 1) : h[L] + 1 \in Nat
  OBVIOUS
<1>2. \A L \in 0..(Window - 1) : (IF L = 0 THEN 0 ELSE h[L - 1]) \in Nat
  BY WindowConstants
<1> QED
  BY <1>1, <1>2, Zenon DEF Counted, Older

\* The pop_front loop takes expired entries off the front, and nothing else.
LEMMA DrainedShape ==
    ASSUME NEW q \in Seq(Entries), ~(\A i \in DOMAIN q : q[i] = 0)
    PROVE  \E f \in DOMAIN q :
             /\ q[f] > 0 /\ \A j \in 1..(f - 1) : q[j] = 0
             /\ Drained(q) \in Seq(Entries) /\ Len(Drained(q)) = Len(q) - f + 1
             /\ \A i \in 1..(Len(q) - f + 1) : Drained(q)[i] = q[f + i - 1]
<1> DEFINE f == CHOOSE i \in DOMAIN q : q[i] > 0 /\ \A j \in 1..(i - 1) : q[j] = 0
<1>1. f \in DOMAIN q /\ q[f] > 0 /\ \A j \in 1..(f - 1) : q[j] = 0
  BY FirstLive, Zenon
<1>2. Drained(q) = SubSeq(q, f, Len(q))
  BY Zenon DEF Drained
<1> HIDE DEF f
<1>3. Len(q) \in Nat /\ DOMAIN q = 1..Len(q) /\ \A i \in DOMAIN q : q[i] \in Entries
  OBVIOUS
<1>4. f \in Int /\ Len(q) \in Int /\ f <= Len(q) /\ f >= 1
  BY <1>1, <1>3
<1>5. \A i \in f..Len(q) : q[i] \in Entries
  BY <1>3, <1>4
<1>6. /\ SubSeq(q, f, Len(q)) \in Seq(Entries) /\ Len(SubSeq(q, f, Len(q))) = Len(q) - f + 1
      /\ \A i \in 1..(Len(q) - f + 1) : SubSeq(q, f, Len(q))[i] = q[f + i - 1]
  BY <1>4, <1>5
<1> QED
  BY <1>1, <1>2, <1>6, Zenon

\* It keeps a deque well formed and leaves no expired front.
LEMMA DrainedIsWellFormed ==
    ASSUME NEW q \in Seq(Entries), WellFormed(q)
    PROVE  /\ Drained(q) \in Seq(Entries)
           /\ WellFormed(Drained(q))
<1>1. Len(q) \in Nat /\ DOMAIN q = 1..Len(q) /\ \A i \in DOMAIN q : q[i] \in Entries
  OBVIOUS
<1>2. CASE \A i \in DOMAIN q : q[i] = 0
  <2>1. Drained(q) = <<>>
    BY <1>2, Zenon DEF Drained
  <2> QED
    BY <2>1 DEF WellFormed
<1>3. CASE ~(\A i \in DOMAIN q : q[i] = 0)
  <2> DEFINE p == Drained(q)
  <2>1. PICK f \in DOMAIN q :
          /\ q[f] > 0 /\ \A j \in 1..(f - 1) : q[j] = 0
          /\ p \in Seq(Entries) /\ Len(p) = Len(q) - f + 1
          /\ \A i \in 1..(Len(q) - f + 1) : p[i] = q[f + i - 1]
    BY <1>3, DrainedShape, Zenon
  <2>2. Drained(q) = p
    BY Zenon
  <2> HIDE DEF p
  <2>3. f \in Int /\ Len(q) \in Int /\ f <= Len(q) /\ f >= 1
    BY <1>1, <2>1
  <2>5. /\ p \in Seq(Entries) /\ Len(p) = Len(q) - f + 1
        /\ \A i \in 1..(Len(q) - f + 1) : p[i] = q[f + i - 1]
    BY <2>1, Zenon
  <2>6. DOMAIN p = 1..(Len(q) - f + 1)
    BY <2>5
  <2>7. ASSUME NEW i \in DOMAIN p
         PROVE  i \in Int /\ p[i] = q[f + i - 1] /\ f + i - 1 \in DOMAIN q
    <3>1. i \in 1..(Len(q) - f + 1)
      BY <2>6, Zenon
    <3>2. p[i] = q[f + i - 1]
      BY <2>5, <3>1, Zenon
    <3>3. i \in Int /\ f + i - 1 \in 1..Len(q)
      BY <2>3, <3>1
    <3> QED
      BY <1>1, <3>2, <3>3, Zenon
  <2>8. \A i, j \in DOMAIN p : i < j => p[i] <= p[j]
    <3> SUFFICES ASSUME NEW i \in DOMAIN p, NEW j \in DOMAIN p, i < j
                 PROVE  p[i] <= p[j]
      BY Zenon
    <3>1. /\ p[i] = q[f + i - 1] /\ p[j] = q[f + j - 1]
          /\ f + i - 1 \in DOMAIN q /\ f + j - 1 \in DOMAIN q
          /\ f + i - 1 < f + j - 1
      BY <2>3, <2>7
    <3> QED
      BY <3>1, Zenon DEF WellFormed
  <2>9. CASE f = 1
    <3>1. \A i \in DOMAIN p : p[i] = q[i] /\ i \in DOMAIN q
      BY <1>1, <2>5, <2>6, <2>9
    <3>2. Len(p) = Len(q)
      BY <1>1, <2>5, <2>9
    <3> QED
      BY <1>1, <2>2, <2>5, <2>6, <2>8, <2>9, <3>1, <3>2, Zenon DEF WellFormed
  <2>10. CASE f # 1
    <3>1. q[1] = 0
      BY <1>1, <2>1, <2>3, <2>10
    <3>2. \A i \in DOMAIN q : q[i] <= Window
      BY <1>1, <3>1, WindowConstants DEF WellFormed, Entries, WindowConstants
    <3>3. ASSUME NEW i \in DOMAIN p PROVE p[i] <= Window /\ p[i] \in Nat
      <4>1. p[i] = q[f + i - 1] /\ f + i - 1 \in DOMAIN q
        BY <2>7, Zenon
      <4> QED
        BY <1>1, <3>2, <4>1, WindowConstants DEF Entries, WindowConstants
    <3>4. 1 \in DOMAIN p
      BY <2>3, <2>6
    <3>5. \A i \in DOMAIN p : p[1] <= Window /\ p[i] <= p[1] + Window
      BY <3>3, <3>4, WindowConstants DEF WindowConstants
    <3>6. ~(\E i \in DOMAIN p : p[i] > Window)
      BY <3>3, WindowConstants DEF WindowConstants
    <3> QED
      BY <2>2, <2>5, <2>8, <3>5, <3>6, Zenon DEF WellFormed
  <2> QED
    BY <2>9, <2>10, Zenon
<1> QED
  BY <1>2, <1>3, Zenon

\* Pushing now, or the reservation, keeps it well formed; the delay is bounded.
LEMMA PushedIsWellFormed ==
    ASSUME NEW q \in Seq(Entries), WellFormed(q)
    PROVE  /\ DelayOf(q) \in 0..Window
           /\ Pushed(q) \in Seq(Entries)
           /\ WellFormed(Pushed(q))
<1>1. Len(q) \in Nat /\ DOMAIN q = 1..Len(q) /\ \A i \in DOMAIN q : q[i] \in Entries
  OBVIOUS
<1>2. Window \in Nat \ {0} /\ Count \in Nat \ {0}
  BY WindowConstants, Zenon DEF WindowConstants
<1>3. DelayOf(q) \in 0..Window
  BY <1>1, <1>2 DEF DelayOf, HasRoom, WellFormed, Entries
<1> DEFINE x == DelayOf(q) + Window
<1>4. x \in Entries
  BY <1>2, <1>3 DEF Entries
<1>5. /\ Pushed(q) \in Seq(Entries) /\ Len(Pushed(q)) = Len(q) + 1
      /\ DOMAIN Pushed(q) = 1..(Len(q) + 1)
      /\ \A i \in 1..Len(q) : Pushed(q)[i] = q[i]
      /\ Pushed(q)[Len(q) + 1] = x
  BY <1>1, <1>4 DEF Pushed
<1>6. \A i \in DOMAIN q : q[i] <= x
  <2>1. CASE HasRoom(q)
    BY <1>1, <1>2, <2>1 DEF HasRoom, DelayOf, WellFormed, Entries
  <2>2. CASE ~HasRoom(q)
    BY <1>1, <1>2, <2>2, Zenon DEF DelayOf, WellFormed, Entries
  <2> QED
    BY <2>1, <2>2, Zenon
<1>7. \A i, j \in DOMAIN Pushed(q) : i < j => Pushed(q)[i] <= Pushed(q)[j]
  BY <1>1, <1>5, <1>6 DEF WellFormed
<1>8. \A i \in DOMAIN Pushed(q) :
        Pushed(q)[1] <= Window /\ Pushed(q)[i] <= Pushed(q)[1] + Window
  <2>1. CASE q = <<>>
    <3>1. x = Window /\ Len(q) = 0
      BY <1>2, <2>1 DEF DelayOf, HasRoom
    <3> QED
      BY <1>2, <1>5, <3>1
  <2>2. CASE q # <<>>
    <3>1. 1 \in DOMAIN q /\ q[1] \in Nat /\ q[1] <= Window
      BY <1>1, <1>2, <2>2 DEF WellFormed, Entries
    <3>2. x <= q[1] + Window
      BY <1>2, <1>3, <3>1 DEF DelayOf
    <3> QED
      BY <1>1, <1>5, <3>1, <3>2 DEF WellFormed
  <2> QED
    BY <2>1, <2>2, Zenon
<1>9. (\E i \in DOMAIN Pushed(q) : Pushed(q)[i] > Window) => Len(Pushed(q)) >= Count
  <2>1. x > Window => ~HasRoom(q)
    BY <1>2 DEF DelayOf
  <2> QED
    BY <1>1, <1>2, <1>5, <2>1 DEF HasRoom, WellFormed
<1> QED
  BY <1>3, <1>5, <1>7, <1>8, <1>9, Zenon DEF WellFormed

\* The passage of time.
LEMMA AgedIsWellFormed ==
    ASSUME NEW q \in Seq(Entries), WellFormed(q)
    PROVE  /\ [i \in DOMAIN q |-> Down(q[i])] \in Seq(Entries)
           /\ WellFormed([i \in DOMAIN q |-> Down(q[i])])
<1> DEFINE p == [i \in DOMAIN q |-> Down(q[i])]
<1>1. Len(q) \in Nat /\ DOMAIN q = 1..Len(q) /\ \A i \in DOMAIN q : q[i] \in Entries
  OBVIOUS
<1>2. Window \in Nat \ {0} /\ Count \in Nat \ {0}
  BY WindowConstants DEF WindowConstants
<1>3. p \in Seq(Entries) /\ Len(p) = Len(q) /\ DOMAIN p = DOMAIN q
  BY <1>1, <1>2 DEF Down, Entries
<1>4. \A i \in DOMAIN q : p[i] = Down(q[i])
  BY Zenon
<1> HIDE DEF p
<1>5. ASSUME NEW i \in DOMAIN p, NEW j \in DOMAIN p, i < j PROVE p[i] <= p[j]
  <2>1. q[i] \in Nat /\ q[j] \in Nat /\ q[i] <= q[j]
    BY <1>1, <1>2, <1>3, <1>5 DEF WellFormed, Entries
  <2> QED
    BY <1>3, <1>4, <2>1 DEF Down
<1>6. ASSUME NEW i \in DOMAIN p PROVE p[1] <= Window /\ p[i] <= p[1] + Window
  <2>1. 1 \in DOMAIN q /\ q[1] \in Nat /\ q[i] \in Nat
    BY <1>1, <1>2, <1>3 DEF Entries
  <2>2. q[1] <= Window /\ q[i] <= q[1] + Window
    BY <1>3, Zenon DEF WellFormed
  <2> QED
    BY <1>2, <1>3, <1>4, <2>1, <2>2 DEF Down
<1>7. (\E i \in DOMAIN p : p[i] > Window) => Len(p) >= Count
  <2> SUFFICES ASSUME NEW i \in DOMAIN p, p[i] > Window PROVE Len(p) >= Count
    BY Zenon
  <2>1. q[i] \in Nat /\ p[i] = Down(q[i])
    BY <1>1, <1>2, <1>3, <1>4 DEF Entries
  <2>2. q[i] > Window
    BY <1>2, <2>1 DEF Down
  <2> QED
    BY <1>3, <2>2, Zenon DEF WellFormed
<1>8. p \in Seq(Entries) /\ WellFormed(p)
  BY <1>3, <1>5, <1>6, <1>7, Zenon DEF WellFormed
<1> QED
  BY <1>8, Zenon DEF p

-------------------------------------------------------------------------------

\* The deque of a key that is new to the map.
LEMMA EmptyIsWellFormed == <<>> \in Seq(Entries) /\ WellFormed(<<>>)
BY DEF WellFormed

\* take(), its immediate admissions and its reservations.
LEMMA TakeKeepsInv ==
    ASSUME WindowInv, NEW r \in Requests, NEW k \in Keys, Take(r, k)
    PROVE  WindowInv'
<1>1. TypeOK /\ \A j \in Keys : log[j] \in Seq(Entries) /\ WellFormed(log[j])
  BY Zenon DEF WindowInv, TypeOK, Entries
<1>2. Window \in Nat \ {0}
  BY WindowConstants, Zenon DEF WindowConstants
<1> DEFINE kept(S) == IF k \in S THEN log[k] ELSE <<>>
<1>3. PICK S \in Survivors(k) :
        /\ tracked' = S \cup {k}
        /\ log' = [j \in Keys |-> IF j = k THEN Pushed(Drained(kept(S)))
                                 ELSE IF j \in S THEN log[j] ELSE <<>>]
        /\ IF DelayOf(Drained(kept(S))) = 0
           THEN sent' = Sent(k) /\ UNCHANGED <<waiting, delay>>
           ELSE /\ waiting' = [waiting EXCEPT ![r] = k]
                /\ delay' = [delay EXCEPT ![r] = DelayOf(Drained(kept(S)))]
                /\ UNCHANGED sent
  BY Zenon DEF Take
<1> DEFINE q == Drained(kept(S))
<1>4. q \in Seq(Entries) /\ WellFormed(q)
  BY <1>1, EmptyIsWellFormed, DrainedIsWellFormed, Zenon
<1>5. DelayOf(q) \in 0..Window /\ Pushed(q) \in Seq(Entries) /\ WellFormed(Pushed(q))
  BY <1>4, PushedIsWellFormed, Zenon
<1>6. \A j \in Keys : log'[j] \in Seq(Entries) /\ WellFormed(log'[j])
  BY <1>1, <1>3, <1>5, EmptyIsWellFormed, Zenon
<1>7. log' \in [Keys -> Seq(Entries)]
  BY <1>1, <1>3, <1>5, EmptyIsWellFormed, Zenon
<1>8. S \subseteq Keys
  BY <1>1 DEF Survivors, Cleaned, TypeOK
<1>9. sent' \in [Keys -> [0..(Window - 1) -> Nat]]
  <2>1. CASE sent' = sent
    BY <1>1, <2>1, Zenon DEF TypeOK
  <2>2. CASE sent' = Sent(k)
    <3>1. Counted(sent[k]) \in [0..(Window - 1) -> Nat]
      BY <1>1, Histories, Zenon DEF TypeOK
    <3> QED
      BY <1>1, <2>2, <3>1, Zenon DEF Sent, TypeOK
  <2> QED
    BY <1>3, <2>1, <2>2, Zenon
<1>10. \/ waiting' = waiting /\ delay' = delay
       \/ \E d \in 0..Window : /\ waiting' = [waiting EXCEPT ![r] = k]
                               /\ delay' = [delay EXCEPT ![r] = d]
  BY <1>3, <1>5, Zenon
<1>11. /\ waiting' \in [Requests -> Keys \cup {None}]
       /\ delay' \in [Requests -> 0..(2 * Window)]
       /\ WaitIsBounded'
  <2>0. /\ waiting \in [Requests -> Keys \cup {None}]
        /\ delay \in [Requests -> 0..(2 * Window)]
        /\ \A s \in Requests : delay[s] <= Window
    BY <1>1, Zenon DEF WindowInv, WaitIsBounded, TypeOK
  <2>1. CASE waiting' = waiting /\ delay' = delay
    BY <2>0, <2>1, Zenon DEF WaitIsBounded
  <2>2. ASSUME NEW d \in 0..Window, waiting' = [waiting EXCEPT ![r] = k],
               delay' = [delay EXCEPT ![r] = d]
        PROVE  /\ waiting' \in [Requests -> Keys \cup {None}]
               /\ delay' \in [Requests -> 0..(2 * Window)]
               /\ WaitIsBounded'
    <3>1. d \in 0..(2 * Window) /\ d <= Window
      BY <1>2
    <3> QED
      BY <2>0, <2>2, <3>1, Zenon DEF WaitIsBounded
  <2> QED
    BY <1>10, <2>1, <2>2, Zenon
<1>12. idle' \in [Keys -> 0..IdleCap] /\ cleanupIn' \in 0..CleanupInterval
  BY <1>1, WindowConstants DEF Take, TypeOK, WindowConstants
<1>13. TypeOK'
  BY <1>3, <1>7, <1>8, <1>9, <1>11, <1>12, Zenon DEF TypeOK, Entries
<1> QED
  BY <1>6, <1>13, <1>11, Zenon DEF WindowInv

\* Time passing brings every timestamp and every sleep closer.
LEMMA TickKeepsInv ==
    ASSUME WindowInv, Tick
    PROVE  WindowInv'
<1>1. TypeOK /\ \A j \in Keys : log[j] \in Seq(Entries) /\ WellFormed(log[j])
  BY Zenon DEF WindowInv, TypeOK, Entries
<1>2. Window \in Nat \ {0}
  BY WindowConstants, Zenon DEF WindowConstants
<1>3. log' = [k \in Keys |-> [i \in DOMAIN log[k] |-> Down(log[k][i])]]
  BY Zenon DEF Tick
<1>4. \A k \in Keys : /\ [i \in DOMAIN log[k] |-> Down(log[k][i])] \in Seq(Entries)
                      /\ WellFormed([i \in DOMAIN log[k] |-> Down(log[k][i])])
  BY <1>1, AgedIsWellFormed, Zenon
<1>5. log' \in [Keys -> Seq(Entries)] /\ \A k \in Keys : WellFormed(log'[k])
  BY <1>3, <1>4, Zenon
<1>6. delay' \in [Requests -> 0..(2 * Window)] /\ WaitIsBounded'
  BY <1>1, <1>2 DEF Tick, TypeOK, WindowInv, WaitIsBounded, Down
<1>7. sent' \in [Keys -> [0..(Window - 1) -> Nat]]
  <2>1. \A k \in Keys : Older(sent[k]) \in [0..(Window - 1) -> Nat]
    BY <1>1, Histories, Zenon DEF TypeOK
  <2> QED
    BY <2>1, Zenon DEF Tick
<1>8. idle' \in [Keys -> 0..IdleCap] /\ cleanupIn' \in 0..CleanupInterval
  BY <1>1, WindowConstants DEF Tick, TypeOK, Down, WindowConstants
<1>9. tracked' = tracked /\ waiting' = waiting
  BY Zenon DEF Tick
<1>10. TypeOK'
  BY <1>1, <1>5, <1>6, <1>7, <1>8, <1>9, Zenon DEF TypeOK, Entries
<1> QED
  BY <1>5, <1>6, <1>10, Zenon DEF WindowInv

\* Every take(), wake-up, dropped wait and tick keeps the invariant.
THEOREM WindowStep == WindowInv /\ [Next]_vars => WindowInv'
<1> SUFFICES ASSUME WindowInv, [Next]_vars PROVE WindowInv'
  BY Zenon
<1>1. TypeOK
  BY Zenon DEF WindowInv
<1>2. Window \in Nat \ {0}
  BY WindowConstants, Zenon DEF WindowConstants
<1>3. CASE \E r \in Requests, k \in Keys : Take(r, k)
  BY <1>3, TakeKeepsInv, Zenon
<1>4. CASE \E r \in Requests : Wake(r)
  <2>1. PICK r \in Requests : Wake(r)
    BY <1>4, Zenon
  <2>2. waiting[r] \in Keys
    BY <1>1, <2>1, Zenon DEF Wake, TypeOK
  <2>3. Counted(sent[waiting[r]]) \in [0..(Window - 1) -> Nat]
    BY <1>1, <2>2, Histories, Zenon DEF TypeOK
  <2>4. sent' \in [Keys -> [0..(Window - 1) -> Nat]]
    BY <1>1, <2>1, <2>2, <2>3, Zenon DEF Wake, Sent, TypeOK
  <2>5. /\ waiting' \in [Requests -> Keys \cup {None}]
        /\ log' = log /\ tracked' = tracked /\ idle' = idle /\ cleanupIn' = cleanupIn
        /\ delay' = delay
    BY <1>1, <2>1, Zenon DEF Wake, TypeOK
  <2> QED
    BY <2>4, <2>5, Zenon DEF WindowInv, TypeOK, WaitIsBounded
<1>5. CASE \E r \in Requests : Cancel(r)
  <2>1. /\ waiting' \in [Requests -> Keys \cup {None}]
        /\ delay' \in [Requests -> 0..(2 * Window)]
        /\ log' = log /\ tracked' = tracked /\ idle' = idle /\ cleanupIn' = cleanupIn
        /\ sent' = sent
    BY <1>1, <1>2, <1>5 DEF Cancel, TypeOK
  <2>2. WaitIsBounded'
    BY <1>1, <1>2, <1>5 DEF WindowInv, WaitIsBounded, Cancel, TypeOK
  <2> QED
    BY <2>1, <2>2, Zenon DEF WindowInv, TypeOK
<1>6. CASE Tick
  BY <1>6, TickKeepsInv, Zenon
<1>7. CASE UNCHANGED vars
  BY <1>7, Zenon DEF vars, WindowInv, TypeOK, WaitIsBounded
<1> QED
  BY <1>3, <1>4, <1>5, <1>6, <1>7, Zenon DEF Next

\* A fresh store, with no key in its map, satisfies the invariant.
THEOREM WindowInit == Init => WindowInv
<1> SUFFICES ASSUME Init PROVE WindowInv
  BY Zenon
<1>1. TypeOK
  BY WindowConstants, EmptyIsWellFormed DEF Init, TypeOK, WindowConstants, Entries
<1> QED
  BY <1>1, EmptyIsWellFormed, WindowConstants
     DEF Init, WindowInv, WaitIsBounded, WindowConstants

\* The inductive invariant holds throughout.
THEOREM WindowInvariant == Spec => []WindowInv
BY WindowInit, WindowStep, PTL DEF Spec

\* The deque stays ordered, so that draining its front drains every expired entry.
THEOREM SortedLog == Spec => []LogIsSorted
<1>1. WindowInv => LogIsSorted
  BY Zenon DEF WindowInv, WellFormed, LogIsSorted
<1> QED
  BY <1>1, WindowInvariant, PTL

\* take() never asks a request to wait for more than one window.
THEOREM BoundedWait == Spec => []WaitIsBounded
<1>1. WindowInv => WaitIsBounded
  BY Zenon DEF WindowInv
<1> QED
  BY <1>1, WindowInvariant, PTL

-------------------------------------------------------------------------------
(* The cap on immediate admissions: every request let through during the   *)
(* last window, and every one asleep, has an entry in the deque.           *)

\* The entries of a deque that leave the window in x ticks or later.
Ahead(q, x) == {i \in DOMAIN q : q[i] >= x}

\* One more on either side of a bound.
LEMMA OneMore ==
    ASSUME NEW a \in Nat, NEW b \in Nat, NEW c \in Nat, a + b <= c
    PROVE  (a + 1) + b <= c + 1 /\ a + (b + 1) <= c + 1
  OBVIOUS

\* The requests that sleep for a key, for d ticks or more.
Sleepers(k, d) == {r \in Requests : waiting[r] = k /\ delay[r] >= d}

\* A one-to-one correspondence between two sets.
Corresponds(f, S, T) ==
    /\ f \in [S -> T]
    /\ \A a, b \in S : f[a] = f[b] => a = b
    /\ \A u \in T : \E s \in S : f[s] = u

\* Two sets with a one-to-one correspondence have as many elements.
LEMMA SameSize ==
    ASSUME NEW S, NEW T, NEW f, Corresponds(f, S, T), IsFiniteSet(S)
    PROVE  IsFiniteSet(T) /\ Cardinality(T) = Cardinality(S)
<1>1. f \in Injection(S, T) /\ f \in Surjection(S, T)
  BY Zenon DEF Corresponds, Injection, IsInjective, Surjection
<1>2. ExistsBijection(S, T)
  BY <1>1, Zenon DEF Bijection, ExistsBijection
<1> QED
  BY <1>2, FS_Bijection, Zenon

\* A set that maps one to one into a finite one has no more elements.
LEMMA NotMore ==
    ASSUME NEW S, NEW T, NEW f \in [S -> T], IsFiniteSet(T),
           \A a, b \in S : f[a] = f[b] => a = b
    PROVE  Cardinality(S) <= Cardinality(T)
<1>1. f \in Injection(S, T)
  BY Zenon DEF Injection, IsInjective
<1> QED
  BY <1>1, FS_Injection, Zenon

\* There are n numbers from 1 to n.
LEMMA UpTo ==
    ASSUME NEW n \in Nat
    PROVE  IsFiniteSet(1..n) /\ Cardinality(1..n) = n
<1>1. 1 \in Int /\ n \in Int
  OBVIOUS
<1>2. IsFiniteSet(1..n) /\ Cardinality(1..n) = IF 1 > n THEN 0 ELSE n - 1 + 1
  BY <1>1, FS_Interval, Zenon
<1> QED
  BY <1>2

\* The entries ahead are finitely many, no more than the deque has.
LEMMA AheadSize ==
    ASSUME NEW q \in Seq(Entries), NEW x
    PROVE  /\ IsFiniteSet(Ahead(q, x)) /\ Cardinality(Ahead(q, x)) \in Nat
           /\ Cardinality(Ahead(q, x)) <= Len(q)
<1>1. Len(q) \in Nat /\ DOMAIN q = 1..Len(q)
  OBVIOUS
<1>2. IsFiniteSet(1..Len(q)) /\ Cardinality(1..Len(q)) = Len(q)
  BY <1>1, UpTo, Zenon
<1>3. Ahead(q, x) \in SUBSET (1..Len(q))
  BY <1>1, Zenon DEF Ahead
<1>4. IsFiniteSet(Ahead(q, x)) /\ Cardinality(Ahead(q, x)) <= Cardinality(1..Len(q))
  BY <1>2, <1>3, FS_Subset, Zenon
<1> QED
  BY <1>2, <1>4, FS_CardinalityType, Zenon

\* Expired entries are not ahead: dropping them from the front changes no count.
LEMMA DrainedAhead ==
    ASSUME NEW q \in Seq(Entries), NEW x \in Nat \ {0}
    PROVE  Cardinality(Ahead(Drained(q), x)) = Cardinality(Ahead(q, x))
<1>1. Len(q) \in Nat /\ DOMAIN q = 1..Len(q)
  OBVIOUS
<1>2. CASE \A i \in DOMAIN q : q[i] = 0
  <2>1. Drained(q) = <<>>
    BY <1>2, Zenon DEF Drained
  <2>2. Ahead(q, x) = {}
    BY <1>2 DEF Ahead
  <2>3. Ahead(<<>>, x) = {}
    BY DEF Ahead
  <2> QED
    BY <2>1, <2>2, <2>3, Zenon
<1>3. CASE ~(\A i \in DOMAIN q : q[i] = 0)
  <2> DEFINE p == Drained(q)
  <2>1. PICK f \in DOMAIN q :
          /\ q[f] > 0 /\ \A j \in 1..(f - 1) : q[j] = 0
          /\ p \in Seq(Entries) /\ Len(p) = Len(q) - f + 1
          /\ \A i \in 1..(Len(q) - f + 1) : p[i] = q[f + i - 1]
    BY <1>3, DrainedShape, Zenon
  <2> HIDE DEF p
  <2>2. DOMAIN p = 1..(Len(q) - f + 1) /\ f \in 1..Len(q)
    BY <1>1, <2>1
  <2> DEFINE g == [i \in Ahead(p, x) |-> f + i - 1]
  <2>3. \A i \in Ahead(p, x) : f + i - 1 \in Ahead(q, x)
    BY <1>1, <2>1, <2>2 DEF Ahead
  <2>4. g \in [Ahead(p, x) -> Ahead(q, x)]
    BY <2>3, Zenon
  <2>5. \A a, b \in Ahead(p, x) : g[a] = g[b] => a = b
    BY <1>1, <2>2 DEF Ahead
  <2>6. \A u \in Ahead(q, x) : \E s \in Ahead(p, x) : g[s] = u
    <3> SUFFICES ASSUME NEW u \in Ahead(q, x) PROVE \E s \in Ahead(p, x) : g[s] = u
      BY Zenon
    <3>1. u \in 1..Len(q) /\ q[u] >= x
      BY <1>1, Zenon DEF Ahead
    <3>2. u >= f
      <4> SUFFICES ASSUME ~(u >= f) PROVE FALSE
        BY Zenon
      <4>1. u \in 1..(f - 1)
        BY <1>1, <2>2, <3>1
      <4>2. q[u] = 0
        BY <2>1, <4>1, Zenon
      <4> QED
        BY <3>1, <4>2
    <3> DEFINE s == u - f + 1
    <3>3. s \in 1..(Len(q) - f + 1) /\ f + s - 1 = u
      BY <1>1, <2>2, <3>1, <3>2
    <3> HIDE DEF s
    <3>4. s \in Ahead(p, x)
      BY <2>1, <2>2, <3>1, <3>3, Zenon DEF Ahead
    <3> QED
      BY <3>3, <3>4, Zenon
  <2>7. IsFiniteSet(Ahead(p, x))
    BY <2>1, AheadSize, Zenon
  <2> HIDE DEF g
  <2>8. Corresponds(g, Ahead(p, x), Ahead(q, x))
    BY <2>4, <2>5, <2>6, Zenon DEF Corresponds
  <2>9. Cardinality(Ahead(q, x)) = Cardinality(Ahead(p, x))
    BY <2>7, <2>8, SameSize, Zenon
  <2> QED
    BY <2>9, Zenon DEF p
<1> QED
  BY <1>2, <1>3, Zenon

\* take() answers with no delay only where there is room: no expired entry is left at
\* the front of a full deque.
LEMMA ImmediateHasRoom ==
    ASSUME NEW q \in Seq(Entries)
    PROVE  DelayOf(Drained(q)) = 0 => Len(Drained(q)) < Count
<1> SUFFICES ASSUME ~HasRoom(Drained(q)) PROVE Drained(q)[1] # 0
  BY Zenon DEF DelayOf, HasRoom
<1>1. CASE \A i \in DOMAIN q : q[i] = 0
  <2>1. Drained(q) = <<>>
    BY <1>1, Zenon DEF Drained
  <2> QED
    BY <2>1, WindowConstants DEF HasRoom
<1>2. CASE ~(\A i \in DOMAIN q : q[i] = 0)
  <2>1. PICK f \in DOMAIN q :
          q[f] > 0 /\ \A i \in 1..(Len(q) - f + 1) : Drained(q)[i] = q[f + i - 1]
    BY <1>2, DrainedShape, Zenon
  <2>2. Len(q) \in Nat /\ f \in 1..Len(q) /\ q[f] \in Nat
    BY WindowConstants DEF Entries
  <2>3. 1 \in 1..(Len(q) - f + 1) /\ f + 1 - 1 = f
    BY <2>2
  <2>4. Drained(q)[1] = q[f]
    BY <2>1, <2>3, Zenon
  <2> QED
    BY <2>1, <2>2, <2>4
<1> QED
  BY <1>1, <1>2, Zenon

\* A pushed entry is one more ahead, unless it leaves the window sooner.
LEMMA PushedAhead ==
    ASSUME NEW q \in Seq(Entries), NEW e \in Entries, NEW x
    PROVE  /\ e >= x => Cardinality(Ahead(Append(q, e), x)) = Cardinality(Ahead(q, x)) + 1
           /\ ~(e >= x) => Cardinality(Ahead(Append(q, e), x)) = Cardinality(Ahead(q, x))
<1>1. Len(q) \in Nat /\ DOMAIN q = 1..Len(q)
  OBVIOUS
<1>2. /\ DOMAIN Append(q, e) = 1..(Len(q) + 1)
      /\ \A i \in 1..Len(q) : Append(q, e)[i] = q[i]
      /\ Append(q, e)[Len(q) + 1] = e
  BY <1>1
<1>3. 1..(Len(q) + 1) = (1..Len(q)) \cup {Len(q) + 1} /\ Len(q) + 1 \notin 1..Len(q)
  BY <1>1
<1>4. e >= x => Ahead(Append(q, e), x) = Ahead(q, x) \cup {Len(q) + 1}
  BY <1>1, <1>2, <1>3, Zenon DEF Ahead
<1>5. ~(e >= x) => Ahead(Append(q, e), x) = Ahead(q, x)
  BY <1>1, <1>2, <1>3, Zenon DEF Ahead
<1>6. Len(q) + 1 \notin Ahead(q, x) /\ IsFiniteSet(Ahead(q, x))
  BY <1>1, <1>3, AheadSize, Zenon DEF Ahead
<1> QED
  BY <1>4, <1>5, <1>6, FS_AddElement, Zenon

\* A tick brings every entry one nearer.
LEMMA AgedAhead ==
    ASSUME NEW q \in Seq(Entries), NEW x \in Nat \ {0}
    PROVE  Ahead([i \in DOMAIN q |-> Down(q[i])], x) = Ahead(q, x + 1)
<1>1. \A i \in DOMAIN q : q[i] \in Nat
  BY WindowConstants DEF Entries
<1>2. \A n \in Nat : Down(n) >= x <=> n >= x + 1
  BY DEF Down
<1> QED
  BY <1>1, <1>2, Zenon DEF Ahead

\* Every sleeping request has an entry at least as far ahead of now as its sleep is long.
Reserved(k) ==
    \A d \in Nat \ {0} : Cardinality(Sleepers(k, d)) <= Cardinality(Ahead(log[k], Window + d))

\* Every request let through in the last L ticks, and every one asleep, has an entry
\* no older than that.
Recorded(k) ==
    \A L \in 0..(Window - 1) :
        sent[k][L] + Cardinality(Sleepers(k, 0)) <= Cardinality(Ahead(log[k], Window - L))

\* The entries of a key that is not in the map, or idle for two windows, have expired.
Expiring(k) ==
    \A i \in DOMAIN log[k] :
        log[k][i] > 0 => k \in tracked /\ log[k][i] + idle[k] <= 2 * Window

\* What the cap rests on.
CapInv == \A k \in Keys : Reserved(k) /\ Recorded(k) /\ Expiring(k)

\* The requests asleep are finitely many, and fewer when some are left out.
LEMMA SleepersSize ==
    ASSUME NEW S \in SUBSET Requests, NEW R \in SUBSET S
    PROVE  /\ IsFiniteSet(R) /\ Cardinality(R) \in Nat /\ Cardinality(S) \in Nat
           /\ Cardinality(R) <= Cardinality(S)
<1>1. IsFiniteSet(Requests)
  BY WindowConstants, Zenon
<1>2. IsFiniteSet(S)
  BY <1>1, FS_Subset, Zenon
<1> QED
  BY <1>2, FS_Subset, FS_CardinalityType, Zenon

\* With a long enough idle_ttl, no key that is dropped from the map had a live entry.
LEMMA DroppedAreExpired ==
    ASSUME WindowInv, CapInv, IdleTtl >= 2 * Window,
           NEW k \in Keys, NEW S \in Survivors(k), NEW j \in Keys \ S
    PROVE  \A x \in Nat \ {0} : Ahead(log[j], x) = {}
<1>1. log[j] \in Seq(Entries) /\ idle[j] \in Nat /\ Window \in Nat /\ EffectiveTtl \in Nat
      /\ EffectiveTtl >= 2 * Window
  BY WindowConstants DEF WindowInv, TypeOK, Entries, EffectiveTtl
<1>2. j \notin tracked \/ idle[j] > EffectiveTtl
  <2>1. CASE j \notin Cleaned
    BY <1>1, <2>1 DEF Cleaned
  <2>2. CASE j \in Cleaned
    <3>1. j \in Victims(k)
      BY <2>2, Zenon DEF Survivors
    <3> QED
      BY <3>1, Zenon DEF Victims, Oldest
  <2> QED
    BY <2>1, <2>2, Zenon
<1>3. \A i \in DOMAIN log[j] : log[j][i] \in Nat /\ ~(log[j][i] > 0)
  <2> SUFFICES ASSUME NEW i \in DOMAIN log[j] PROVE log[j][i] \in Nat /\ ~(log[j][i] > 0)
    BY Zenon
  <2>1. log[j][i] \in Nat
    BY <1>1 DEF Entries
  <2>2. log[j][i] > 0 => j \in tracked /\ log[j][i] + idle[j] <= 2 * Window
    BY Zenon DEF CapInv, Expiring
  <2> QED
    BY <1>1, <1>2, <2>1, <2>2
<1> QED
  BY <1>3 DEF Ahead

\* What take() does to the deques, q being the drained one it pushes to: none loses an
\* entry ahead, and the key's own gains the one that is pushed.
TakesFrom(q, r, k) ==
    /\ DelayOf(q) \in 0..Window /\ (DelayOf(q) = 0 => Len(q) < Count)
    /\ log'[k] = Append(q, DelayOf(q) + Window) /\ DelayOf(q) + Window \in Entries
    /\ \A x \in Nat \ {0} : Cardinality(Ahead(q, x)) = Cardinality(Ahead(log[k], x))
    /\ \A j \in Keys \ {k} : \A x \in Nat \ {0} : Ahead(log'[j], x) = Ahead(log[j], x)
    /\ \A j \in Keys \ {k} : log'[j] = log[j] \/ log'[j] = <<>>
    /\ \A j \in Keys \ {k} : log'[j] # <<>> => (j \in tracked' <=> j \in tracked)
    /\ IF DelayOf(q) = 0
       THEN sent' = Sent(k) /\ UNCHANGED <<waiting, delay>>
       ELSE /\ waiting' = [waiting EXCEPT ![r] = k]
            /\ delay' = [delay EXCEPT ![r] = DelayOf(q)]
            /\ UNCHANGED sent

\* Every take() is of that form.
LEMMA TakeAhead ==
    ASSUME WindowInv, CapInv, IdleTtl >= 2 * Window,
           NEW r \in Requests, NEW k \in Keys, Take(r, k)
    PROVE  \E q \in Seq(Entries) : TakesFrom(q, r, k)
<1> DEFINE kept(S) == IF k \in S THEN log[k] ELSE <<>>
<1>1. PICK S \in Survivors(k) :
        /\ tracked' = S \cup {k}
        /\ log' = [j \in Keys |-> IF j = k THEN Pushed(Drained(kept(S)))
                                 ELSE IF j \in S THEN log[j] ELSE <<>>]
        /\ IF DelayOf(Drained(kept(S))) = 0
           THEN sent' = Sent(k) /\ UNCHANGED <<waiting, delay>>
           ELSE /\ waiting' = [waiting EXCEPT ![r] = k]
                /\ delay' = [delay EXCEPT ![r] = DelayOf(Drained(kept(S)))]
                /\ UNCHANGED sent
  BY Zenon DEF Take
<1> DEFINE q == Drained(kept(S))
<1>2. \A j \in Keys : log[j] \in Seq(Entries) /\ WellFormed(log[j])
  BY Zenon DEF WindowInv, TypeOK, Entries
<1>3. kept(S) \in Seq(Entries) /\ WellFormed(kept(S))
  BY <1>2, EmptyIsWellFormed, Zenon
<1>4. q \in Seq(Entries) /\ WellFormed(q)
  BY <1>3, DrainedIsWellFormed, Zenon
<1>5. DelayOf(q) \in 0..Window /\ (DelayOf(q) = 0 => Len(q) < Count)
  BY <1>3, <1>4, PushedIsWellFormed, ImmediateHasRoom, Zenon
<1>6. DelayOf(q) + Window \in Entries
  <2> HIDE DEF q
  <2> QED
    BY <1>5, WindowConstants DEF Entries
<1>7. \A x : Ahead(<<>>, x) = {}
  BY DEF Ahead
<1>8. \A j \in Keys \ S : \A x \in Nat \ {0} : Ahead(log[j], x) = {}
  BY DroppedAreExpired, Zenon
<1>9. \A x \in Nat \ {0} : Cardinality(Ahead(q, x)) = Cardinality(Ahead(log[k], x))
  <2>1. \A x \in Nat \ {0} : Cardinality(Ahead(q, x)) = Cardinality(Ahead(kept(S), x))
    BY <1>3, DrainedAhead, Zenon
  <2>2. \A x \in Nat \ {0} : Ahead(kept(S), x) = Ahead(log[k], x)
    BY <1>7, <1>8, Zenon
  <2> QED
    BY <2>1, <2>2, Zenon
<1>10. log'[k] = Append(q, DelayOf(q) + Window)
  BY <1>1, Zenon DEF Pushed
<1>11. \A j \in Keys \ {k} : log'[j] = IF j \in S THEN log[j] ELSE <<>>
  BY <1>1, Zenon
<1>12. S \subseteq tracked
  BY Zenon DEF Survivors, Cleaned
<1>13. /\ \A j \in Keys \ {k} : \A x \in Nat \ {0} : Ahead(log'[j], x) = Ahead(log[j], x)
       /\ \A j \in Keys \ {k} : log'[j] = log[j] \/ log'[j] = <<>>
       /\ \A j \in Keys \ {k} : log'[j] # <<>> => (j \in tracked' <=> j \in tracked)
  BY <1>1, <1>7, <1>8, <1>11, <1>12, Zenon
<1>14. IF DelayOf(q) = 0
       THEN sent' = Sent(k) /\ UNCHANGED <<waiting, delay>>
       ELSE /\ waiting' = [waiting EXCEPT ![r] = k]
            /\ delay' = [delay EXCEPT ![r] = DelayOf(q)]
            /\ UNCHANGED sent
  BY <1>1, Zenon
<1> HIDE DEF q
<1>15. TakesFrom(q, r, k)
  BY <1>5, <1>6, <1>9, <1>10, <1>13, <1>14, Zenon DEF TakesFrom
<1> QED
  BY <1>4, <1>15, Zenon

\* take() keeps the cap's invariant.
LEMMA TakeKeepsCap ==
    ASSUME WindowInv, CapInv, IdleTtl >= 2 * Window,
           NEW r \in Requests, NEW k \in Keys, Take(r, k)
    PROVE  CapInv'
<1>0. PICK q \in Seq(Entries) : TakesFrom(q, r, k)
  BY TakeAhead, Zenon
<1>1. /\ DelayOf(q) \in 0..Window
      /\ log'[k] = Append(q, DelayOf(q) + Window) /\ DelayOf(q) + Window \in Entries
      /\ \A x \in Nat \ {0} : Cardinality(Ahead(q, x)) = Cardinality(Ahead(log[k], x))
      /\ \A j \in Keys \ {k} : \A x \in Nat \ {0} : Ahead(log'[j], x) = Ahead(log[j], x)
      /\ \A j \in Keys \ {k} : log'[j] = log[j] \/ log'[j] = <<>>
      /\ \A j \in Keys \ {k} : log'[j] # <<>> => (j \in tracked' <=> j \in tracked)
      /\ IF DelayOf(q) = 0
         THEN sent' = Sent(k) /\ UNCHANGED <<waiting, delay>>
         ELSE /\ waiting' = [waiting EXCEPT ![r] = k]
              /\ delay' = [delay EXCEPT ![r] = DelayOf(q)]
              /\ UNCHANGED sent
  BY <1>0, Zenon DEF TakesFrom
<1>2. /\ waiting[r] = None /\ None \notin Keys
      /\ waiting \in [Requests -> Keys \cup {None}] /\ DOMAIN delay = Requests
      /\ sent \in [Keys -> [0..(Window - 1) -> Nat]]
      /\ idle' = [idle EXCEPT ![k] = 0] /\ idle \in [Keys -> 0..IdleCap] /\ k \in tracked'
  BY WindowConstants, Zenon DEF WindowInv, TypeOK, Take
<1>3. Window \in Nat \ {0}
  BY WindowConstants, Zenon
<1>4. /\ \A L \in 0..(Window - 1) : Window - L \in Nat \ {0} /\ Window >= Window - L
      /\ \A d \in Nat \ {0} : Window + d \in Nat \ {0}
  BY <1>3
<1>5. \A d : /\ r \notin Sleepers(k, d)
             /\ IsFiniteSet(Sleepers(k, d)) /\ Cardinality(Sleepers(k, d)) \in Nat
  BY <1>2, SleepersSize, Zenon DEF Sleepers
<1>6. \A x \in Nat \ {0} :
        /\ Cardinality(Ahead(log[k], x)) \in Nat
        /\ DelayOf(q) + Window >= x
             => Cardinality(Ahead(log'[k], x)) = Cardinality(Ahead(log[k], x)) + 1
        /\ ~(DelayOf(q) + Window >= x)
             => Cardinality(Ahead(log'[k], x)) = Cardinality(Ahead(log[k], x))
  <2>1. log[k] \in Seq(Entries)
    BY Zenon DEF WindowInv, TypeOK, Entries
  <2>2. \A x : Cardinality(Ahead(log[k], x)) \in Nat
    BY <2>1, AheadSize, Zenon
  <2> DEFINE e == DelayOf(q) + Window
  <2>3. e \in Entries /\ log'[k] = Append(q, e)
    BY <1>1, Zenon
  <2> HIDE DEF e
  <2>4. ASSUME NEW x
        PROVE  /\ e >= x => Cardinality(Ahead(log'[k], x)) = Cardinality(Ahead(q, x)) + 1
               /\ ~(e >= x) => Cardinality(Ahead(log'[k], x)) = Cardinality(Ahead(q, x))
    <3>1. /\ e >= x => Cardinality(Ahead(Append(q, e), x)) = Cardinality(Ahead(q, x)) + 1
          /\ ~(e >= x) => Cardinality(Ahead(Append(q, e), x)) = Cardinality(Ahead(q, x))
      BY <2>3, PushedAhead, Zenon
    <3> QED
      BY <2>3, <3>1, Zenon
  <2>5. \A x \in Nat \ {0} : Cardinality(Ahead(q, x)) = Cardinality(Ahead(log[k], x))
    BY <1>1, Zenon
  <2> QED
    BY <2>2, <2>4, <2>5, Zenon DEF e
<1>7. ASSUME NEW j \in Keys \ {k} PROVE Reserved(j)' /\ Recorded(j)' /\ Expiring(j)'
  <2>1. \A d : Sleepers(j, d)' = Sleepers(j, d)
    BY <1>1, <1>2, Zenon DEF Sleepers
  <2>2. sent'[j] = sent[j] /\ idle'[j] = idle[j]
    BY <1>1, <1>2, Zenon DEF Sent
  <2>3. Reserved(j) /\ Recorded(j) /\ Expiring(j)
    BY Zenon DEF CapInv
  <2>4. Reserved(j)'
    BY <1>1, <1>4, <2>1, <2>3, Zenon DEF Reserved
  <2>5. Recorded(j)'
    BY <1>1, <1>4, <2>1, <2>2, <2>3, Zenon DEF Recorded
  <2>6. Expiring(j)'
    <3>1. CASE log'[j] = <<>>
      BY <3>1 DEF Expiring
    <3>2. CASE log'[j] # <<>>
      BY <1>1, <2>2, <2>3, <3>2, Zenon DEF Expiring
    <3> QED
      BY <3>1, <3>2, Zenon
  <2> QED
    BY <2>4, <2>5, <2>6, Zenon
<1>8. Reserved(k) /\ Recorded(k)
  BY Zenon DEF CapInv
<1>9. Expiring(k)'
  <2>1. WindowInv'
    BY TakeKeepsInv, Zenon
  <2>2. log'[k] \in Seq(Entries) /\ idle'[k] = 0
    BY <1>2, <2>1, Zenon DEF WindowInv, TypeOK, Entries
  <2>3. \A i \in DOMAIN log'[k] : log'[k][i] + 0 <= 2 * Window
    BY <1>3, <2>2 DEF Entries
  <2> QED
    BY <1>2, <2>2, <2>3, Zenon DEF Expiring
<1>10. CASE DelayOf(q) = 0
  <2>1. \A d : Sleepers(k, d)' = Sleepers(k, d)
    BY <1>1, <1>10, Zenon DEF Sleepers
  <2>2. sent'[k] = Counted(sent[k])
    BY <1>1, <1>2, <1>10, Zenon DEF Sent
  <2>3. Reserved(k)'
    <3> SUFFICES ASSUME NEW d \in Nat \ {0}
                 PROVE  Cardinality(Sleepers(k, d)) <= Cardinality(Ahead(log'[k], Window + d))
      BY <2>1, Zenon DEF Reserved
    <3>1. Cardinality(Sleepers(k, d)) <= Cardinality(Ahead(log[k], Window + d))
      BY <1>8, Zenon DEF Reserved
    <3>2. Window + d \in Nat \ {0}
      BY <1>4, Zenon
    <3>3. \/ Cardinality(Ahead(log'[k], Window + d)) = Cardinality(Ahead(log[k], Window + d)) + 1
          \/ Cardinality(Ahead(log'[k], Window + d)) = Cardinality(Ahead(log[k], Window + d))
      BY <1>6, <3>2, Zenon
    <3>4. Cardinality(Ahead(log[k], Window + d)) \in Nat /\ Cardinality(Sleepers(k, d)) \in Nat
      BY <1>5, <1>6, <3>2, Zenon
    <3> QED
      BY <3>1, <3>3, <3>4
  <2>4. Recorded(k)'
    <3> SUFFICES ASSUME NEW L \in 0..(Window - 1)
                 PROVE  sent'[k][L] + Cardinality(Sleepers(k, 0))
                          <= Cardinality(Ahead(log'[k], Window - L))
      BY <2>1, Zenon DEF Recorded
    <3>1. sent[k][L] + Cardinality(Sleepers(k, 0)) <= Cardinality(Ahead(log[k], Window - L))
      BY <1>8, Zenon DEF Recorded
    <3>2. sent'[k][L] = sent[k][L] + 1 /\ sent[k][L] \in Nat
      <4>1. sent[k] \in [0..(Window - 1) -> Nat]
        BY <1>2, Zenon
      <4> QED
        BY <2>2, <4>1, Zenon DEF Counted
    <3>3. DelayOf(q) + Window >= Window - L
      BY <1>3, <1>10
    <3>4. /\ Cardinality(Ahead(log'[k], Window - L)) = Cardinality(Ahead(log[k], Window - L)) + 1
          /\ Cardinality(Ahead(log[k], Window - L)) \in Nat
      BY <1>4, <1>6, <3>3, Zenon
    <3>5. Cardinality(Sleepers(k, 0)) \in Nat
      BY <1>5, Zenon
    <3> QED
      BY <3>1, <3>2, <3>4, <3>5, OneMore, Zenon
  <2> QED
    BY <1>7, <1>9, <2>3, <2>4, Zenon DEF CapInv
<1>11. CASE DelayOf(q) # 0
  <2>1. \A d \in Nat : /\ DelayOf(q) >= d => Sleepers(k, d)' = Sleepers(k, d) \cup {r}
                       /\ ~(DelayOf(q) >= d) => Sleepers(k, d)' = Sleepers(k, d)
    <3>1. /\ waiting'[r] = k /\ delay'[r] = DelayOf(q)
          /\ \A s \in Requests \ {r} : waiting'[s] = waiting[s] /\ delay'[s] = delay[s]
      BY <1>1, <1>2, <1>11, Zenon
    <3>2. ASSUME NEW d \in Nat, DelayOf(q) >= d PROVE Sleepers(k, d)' = Sleepers(k, d) \cup {r}
      <4>1. \A s \in Requests : waiting'[s] = k /\ delay'[s] >= d
                                  <=> (waiting[s] = k /\ delay[s] >= d) \/ s = r
        BY <3>1, <3>2, Zenon
      <4> QED
        BY <4>1, Zenon DEF Sleepers
    <3>3. ASSUME NEW d \in Nat, ~(DelayOf(q) >= d) PROVE Sleepers(k, d)' = Sleepers(k, d)
      <4>1. \A s \in Requests : waiting'[s] = k /\ delay'[s] >= d
                                  <=> waiting[s] = k /\ delay[s] >= d
        BY <1>2, <3>1, <3>3, Zenon
      <4> QED
        BY <4>1, Zenon DEF Sleepers
    <3> QED
      BY <3>2, <3>3, Zenon
  <2>2. \A d \in Nat :
          /\ DelayOf(q) >= d => Cardinality(Sleepers(k, d)') = Cardinality(Sleepers(k, d)) + 1
          /\ ~(DelayOf(q) >= d) => Cardinality(Sleepers(k, d)') = Cardinality(Sleepers(k, d))
    <3>1. \A d : Cardinality(Sleepers(k, d) \cup {r}) = Cardinality(Sleepers(k, d)) + 1
      BY <1>5, FS_AddElement, Zenon
    <3> QED
      BY <2>1, <3>1, Zenon
  <2>3. sent'[k] = sent[k]
    BY <1>1, <1>11, Zenon
  <2>4. DelayOf(q) \in Nat
    BY <1>1
  <2>5. Reserved(k)'
    <3> SUFFICES ASSUME NEW d \in Nat \ {0}
                 PROVE  Cardinality(Sleepers(k, d)') <= Cardinality(Ahead(log'[k], Window + d))
      BY Zenon DEF Reserved
    <3>1. Cardinality(Sleepers(k, d)) <= Cardinality(Ahead(log[k], Window + d))
      BY <1>8, Zenon DEF Reserved
    <3>2. Window + d \in Nat \ {0} /\ d \in Nat
      BY <1>4, Zenon
    <3>3. DelayOf(q) + Window >= Window + d <=> DelayOf(q) >= d
      BY <1>3, <2>4
    <3>4. Cardinality(Ahead(log[k], Window + d)) \in Nat /\ Cardinality(Sleepers(k, d)) \in Nat
      BY <1>5, <1>6, <3>2, Zenon
    <3>5. CASE DelayOf(q) >= d
      <4>1. /\ Cardinality(Sleepers(k, d)') = Cardinality(Sleepers(k, d)) + 1
            /\ Cardinality(Ahead(log'[k], Window + d)) = Cardinality(Ahead(log[k], Window + d)) + 1
        BY <1>6, <2>2, <3>2, <3>3, <3>5, Zenon
      <4> QED
        BY <3>1, <3>4, <4>1
    <3>6. CASE ~(DelayOf(q) >= d)
      BY <1>6, <2>2, <3>1, <3>2, <3>3, <3>6, Zenon
    <3> QED
      BY <3>5, <3>6, Zenon
  <2>6. Recorded(k)'
    <3> SUFFICES ASSUME NEW L \in 0..(Window - 1)
                 PROVE  sent[k][L] + Cardinality(Sleepers(k, 0)')
                          <= Cardinality(Ahead(log'[k], Window - L))
      BY <2>3, Zenon DEF Recorded
    <3>1. sent[k][L] + Cardinality(Sleepers(k, 0)) <= Cardinality(Ahead(log[k], Window - L))
      BY <1>8, Zenon DEF Recorded
    <3>2. sent[k][L] \in Nat
      <4>1. sent[k] \in [0..(Window - 1) -> Nat]
        BY <1>2, Zenon
      <4> QED
        BY <4>1, Zenon
    <3>3. DelayOf(q) + Window >= Window - L /\ DelayOf(q) >= 0 /\ 0 \in Nat
      BY <1>3, <2>4
    <3>4. /\ Cardinality(Ahead(log'[k], Window - L)) = Cardinality(Ahead(log[k], Window - L)) + 1
          /\ Cardinality(Ahead(log[k], Window - L)) \in Nat
      BY <1>4, <1>6, <3>3, Zenon
    <3>5. /\ Cardinality(Sleepers(k, 0)') = Cardinality(Sleepers(k, 0)) + 1
          /\ Cardinality(Sleepers(k, 0)) \in Nat
      BY <1>5, <2>2, <3>3, Zenon
    <3> QED
      BY <3>1, <3>2, <3>4, <3>5, OneMore, Zenon
  <2> QED
    BY <1>7, <1>9, <2>5, <2>6, Zenon DEF CapInv
<1> QED
  BY <1>10, <1>11, Zenon

\* So do the end of a sleep, which turns a sleeping request into one let through, and
\* a sleep that is given up.
LEMMA WakeKeepsCap ==
    ASSUME WindowInv, CapInv, NEW r \in Requests, Wake(r) \/ Cancel(r)
    PROVE  CapInv'
<1> SUFFICES ASSUME NEW k \in Keys PROVE Reserved(k)' /\ Recorded(k)' /\ Expiring(k)'
  BY Zenon DEF CapInv
<1>1. Reserved(k) /\ Recorded(k) /\ Expiring(k)
  BY Zenon DEF CapInv
<1>2. /\ waiting[r] # None /\ waiting' = [waiting EXCEPT ![r] = None]
      /\ log' = log /\ tracked' = tracked /\ idle' = idle
      /\ \A s \in Requests \ {r} : delay'[s] = delay[s]
      /\ waiting \in [Requests -> Keys \cup {None}] /\ None \notin Keys
      /\ sent \in [Keys -> [0..(Window - 1) -> Nat]] /\ log[k] \in Seq(Entries)
  BY WindowConstants, Zenon DEF Wake, Cancel, WindowInv, TypeOK, Entries
<1>3. \A d : Sleepers(k, d)' = Sleepers(k, d) \ {r}
  BY <1>2, Zenon DEF Sleepers
<1>4. \A d : /\ Cardinality(Sleepers(k, d)') <= Cardinality(Sleepers(k, d))
             /\ Cardinality(Sleepers(k, d)) \in Nat /\ Cardinality(Sleepers(k, d)') \in Nat
             /\ IsFiniteSet(Sleepers(k, d))
  <2>1. \A d : Sleepers(k, d) \in SUBSET Requests
    BY Zenon DEF Sleepers
  <2> QED
    BY <1>3, <2>1, SleepersSize, Zenon
<1>5. \A x : Cardinality(Ahead(log[k], x)) \in Nat
  BY <1>2, AheadSize, Zenon
<1>6. Expiring(k)'
  BY <1>1, <1>2, Zenon DEF Expiring
<1>7. Reserved(k)'
  <2> SUFFICES ASSUME NEW d \in Nat \ {0}
               PROVE  Cardinality(Sleepers(k, d)') <= Cardinality(Ahead(log[k], Window + d))
    BY <1>2, Zenon DEF Reserved
  <2>1. Cardinality(Sleepers(k, d)) <= Cardinality(Ahead(log[k], Window + d))
    BY <1>1, Zenon DEF Reserved
  <2> QED
    BY <1>4, <1>5, <2>1
<1>8. Recorded(k)'
  <2> SUFFICES ASSUME NEW L \in 0..(Window - 1)
               PROVE  sent'[k][L] + Cardinality(Sleepers(k, 0)')
                        <= Cardinality(Ahead(log[k], Window - L))
    BY <1>2, Zenon DEF Recorded
  <2>1. sent[k][L] + Cardinality(Sleepers(k, 0)) <= Cardinality(Ahead(log[k], Window - L))
    BY <1>1, Zenon DEF Recorded
  <2>2. sent[k][L] \in Nat
    BY <1>2, Zenon
  <2>3. CASE Wake(r) /\ waiting[r] = k
    <3>1. sent'[k][L] = sent[k][L] + 1 /\ delay[r] = 0
      BY <1>2, <2>3, Zenon DEF Wake, Sent, Counted
    <3>2. r \in Sleepers(k, 0)
      BY <2>3, <3>1 DEF Sleepers
    <3>3. Cardinality(Sleepers(k, 0)') = Cardinality(Sleepers(k, 0)) - 1
      BY <1>3, <1>4, <3>2, FS_RemoveElement, Zenon
    <3>4. Cardinality(Sleepers(k, 0)) \in Nat /\ Cardinality(Ahead(log[k], Window - L)) \in Nat
      BY <1>4, <1>5, Zenon
    <3> QED
      BY <2>1, <2>2, <3>1, <3>3, <3>4
  <2>4. CASE ~(Wake(r) /\ waiting[r] = k)
    <3>1. sent'[k] = sent[k]
      BY <1>2, <2>4, Zenon DEF Wake, Cancel, Sent
    <3>2. /\ Cardinality(Sleepers(k, 0)') <= Cardinality(Sleepers(k, 0))
          /\ Cardinality(Sleepers(k, 0)) \in Nat /\ Cardinality(Sleepers(k, 0)') \in Nat
          /\ Cardinality(Ahead(log[k], Window - L)) \in Nat
      BY <1>4, <1>5, Zenon
    <3> QED
      BY <2>1, <2>2, <3>1, <3>2
  <2> QED
    BY <2>3, <2>4, Zenon
<1> QED
  BY <1>6, <1>7, <1>8, Zenon

\* And time: sleeps and entries come nearer together, and what was let through grows older
\* with its entry.
LEMMA TickKeepsCap ==
    ASSUME WindowInv, CapInv, Tick
    PROVE  CapInv'
<1> SUFFICES ASSUME NEW k \in Keys PROVE Reserved(k)' /\ Recorded(k)' /\ Expiring(k)'
  BY Zenon DEF CapInv
<1>1. Reserved(k) /\ Recorded(k) /\ Expiring(k)
  BY Zenon DEF CapInv
<1>2. /\ log[k] \in Seq(Entries) /\ log'[k] = [i \in DOMAIN log[k] |-> Down(log[k][i])]
      /\ sent \in [Keys -> [0..(Window - 1) -> Nat]] /\ sent'[k] = Older(sent[k])
      /\ waiting' = waiting /\ None \notin Keys /\ tracked' = tracked
      /\ \A r \in Requests : delay[r] \in 0..(2 * Window) /\ delay'[r] = Down(delay[r])
      /\ \A r \in Requests : waiting[r] # None => delay[r] > 0
      /\ idle'[k] = (IF idle[k] < IdleCap THEN idle[k] + 1 ELSE idle[k])
  BY WindowConstants, Zenon DEF Tick, WindowInv, TypeOK, Entries
<1>3. Window \in Nat \ {0} /\ idle[k] \in Nat /\ \A i \in DOMAIN log[k] : log[k][i] \in Nat
  BY <1>2, WindowConstants DEF WindowInv, TypeOK, Entries
<1>4. \A d \in Nat : Sleepers(k, d)' = Sleepers(k, d + 1)
  <2> SUFFICES ASSUME NEW d \in Nat PROVE Sleepers(k, d)' = Sleepers(k, d + 1)
    BY Zenon
  <2>1. ASSUME NEW r \in Requests, waiting[r] = k PROVE delay'[r] >= d <=> delay[r] >= d + 1
    <3>1. delay[r] \in 0..(2 * Window) /\ delay[r] > 0 /\ delay'[r] = Down(delay[r])
      BY <1>2, <2>1, Zenon
    <3> QED
      BY <1>3, <3>1 DEF Down
  <2> QED
    BY <1>2, <2>1, Zenon DEF Sleepers
<1>5. \A x \in Nat \ {0} : Ahead(log'[k], x) = Ahead(log[k], x + 1)
  BY <1>2, AgedAhead, Zenon
<1>6. Reserved(k)'
  <2> SUFFICES ASSUME NEW d \in Nat \ {0}
               PROVE  Cardinality(Sleepers(k, d)') <= Cardinality(Ahead(log'[k], Window + d))
    BY Zenon DEF Reserved
  <2>1. Sleepers(k, d)' = Sleepers(k, d + 1)
    BY <1>4, Zenon
  <2>2. Window + d \in Nat \ {0} /\ (Window + d) + 1 = Window + (d + 1) /\ d + 1 \in Nat \ {0}
    BY <1>3
  <2>3. Ahead(log'[k], Window + d) = Ahead(log[k], Window + (d + 1))
    BY <1>5, <2>2, Zenon
  <2> QED
    BY <1>1, <2>1, <2>2, <2>3, Zenon DEF Reserved
<1>7. Recorded(k)'
  <2> SUFFICES ASSUME NEW L \in 0..(Window - 1)
               PROVE  sent'[k][L] + Cardinality(Sleepers(k, 0)')
                        <= Cardinality(Ahead(log'[k], Window - L))
    BY Zenon DEF Recorded
  <2>1. Sleepers(k, 0)' = Sleepers(k, 1) /\ Sleepers(k, 1) \in SUBSET Sleepers(k, 0)
    <3>1. 0 \in Nat /\ 0 + 1 = 1 /\ \A n \in 0..(2 * Window) : n >= 1 => n >= 0
      BY <1>3
    <3> QED
      BY <1>2, <1>4, <3>1, Zenon DEF Sleepers
  <2>2. /\ Cardinality(Sleepers(k, 1)) \in Nat /\ Cardinality(Sleepers(k, 0)) \in Nat
        /\ Cardinality(Sleepers(k, 1)) <= Cardinality(Sleepers(k, 0))
    <3>1. Sleepers(k, 0) \in SUBSET Requests
      BY Zenon DEF Sleepers
    <3> QED
      BY <2>1, <3>1, SleepersSize, Zenon
  <2>3. \A x : Cardinality(Ahead(log[k], x)) \in Nat
    BY <1>2, AheadSize, Zenon
  <2>4. Window - L \in Nat \ {0} /\ Ahead(log'[k], Window - L) = Ahead(log[k], (Window - L) + 1)
    <3>1. Window - L \in Nat \ {0}
      BY <1>3
    <3> QED
      BY <1>5, <3>1, Zenon
  <2>5. CASE L = 0
    <3>1. sent'[k][L] = 0
      BY <1>2, <2>5, Zenon DEF Older
    <3>2. (Window - L) + 1 = Window + 1 /\ 1 \in Nat \ {0}
      BY <1>3, <2>5
    <3>3. Cardinality(Sleepers(k, 1)) <= Cardinality(Ahead(log[k], Window + 1))
      BY <1>1, <3>2, Zenon DEF Reserved
    <3>4. Cardinality(Sleepers(k, 0)') <= Cardinality(Ahead(log'[k], Window - L))
      BY <2>1, <2>4, <3>2, <3>3, Zenon
    <3> QED
      BY <2>1, <2>2, <3>1, <3>4
  <2>6. CASE L # 0
    <3>1. L - 1 \in 0..(Window - 1) /\ (Window - L) + 1 = Window - (L - 1)
      BY <1>3, <2>6
    <3>2. sent'[k][L] = sent[k][L - 1] /\ sent[k][L - 1] \in Nat
      <4>1. Older(sent[k])[L] = sent[k][L - 1]
        BY <2>6, Zenon DEF Older
      <4> QED
        BY <1>2, <3>1, <4>1, Zenon
    <3>3. sent[k][L - 1] + Cardinality(Sleepers(k, 0))
            <= Cardinality(Ahead(log'[k], Window - L))
      BY <1>1, <2>4, <3>1, Zenon DEF Recorded
    <3>4. Cardinality(Ahead(log'[k], Window - L)) \in Nat
      BY <2>3, <2>4, Zenon
    <3> QED
      BY <2>1, <2>2, <3>2, <3>3, <3>4
  <2> QED
    BY <2>5, <2>6, Zenon
<1>8. Expiring(k)'
  <2> SUFFICES ASSUME NEW i \in DOMAIN log[k], Down(log[k][i]) > 0
               PROVE  k \in tracked /\ Down(log[k][i]) + idle'[k] <= 2 * Window
    BY <1>2, Zenon DEF Expiring
  <2>1. log[k][i] \in Nat /\ log[k][i] > 0
    BY <1>3 DEF Down
  <2>2. k \in tracked /\ log[k][i] + idle[k] <= 2 * Window
    BY <1>1, <2>1, Zenon DEF Expiring
  <2> QED
    <3>1. idle'[k] <= idle[k] + 1 /\ idle'[k] \in Nat
      BY <1>2, <1>3, WindowConstants
    <3>2. Down(log[k][i]) = log[k][i] - 1
      BY <2>1 DEF Down
    <3> QED
      BY <1>3, <2>1, <2>2, <3>1, <3>2
<1> QED
  BY <1>6, <1>7, <1>8, Zenon

\* With a long enough idle_ttl the invariant holds in every behaviour.
LEMMA CapInvariant ==
    ASSUME IdleTtl >= 2 * Window
    PROVE  Spec => []CapInv
<1>1. Init => CapInv
  <2> SUFFICES ASSUME Init, NEW k \in Keys PROVE Reserved(k) /\ Recorded(k) /\ Expiring(k)
    BY Zenon DEF CapInv
  <2>1. /\ log[k] = <<>> /\ \A L \in 0..(Window - 1) : sent[k][L] = 0
        /\ \A r \in Requests : waiting[r] = None
    BY Zenon DEF Init
  <2>2. \A d : Sleepers(k, d) = {}
    BY <2>1, WindowConstants, Zenon DEF Sleepers
  <2>3. \A x : Ahead(log[k], x) = {}
    BY <2>1 DEF Ahead
  <2>4. Cardinality({}) = 0
    BY FS_EmptySet, Zenon
  <2>5. Reserved(k) /\ Recorded(k)
    <3>1. 0 + 0 <= 0 /\ 0 <= 0
      OBVIOUS
    <3> QED
      BY <2>1, <2>2, <2>3, <2>4, <3>1, Zenon DEF Reserved, Recorded
  <2>6. Expiring(k)
    BY <2>1 DEF Expiring
  <2> QED
    BY <2>5, <2>6, Zenon
<1>2. WindowInv /\ CapInv /\ [Next]_vars => CapInv'
  <2> SUFFICES ASSUME WindowInv, CapInv, [Next]_vars PROVE CapInv'
    BY Zenon
  <2>1. CASE UNCHANGED vars
    BY <2>1, Zenon DEF vars, CapInv, Reserved, Recorded, Expiring, Sleepers
  <2> QED
    BY <2>1, TakeKeepsCap, WakeKeepsCap, TickKeepsCap, Zenon DEF Next
<1> QED
  BY <1>1, <1>2, WindowInvariant, PTL DEF Spec

\* With an idle_ttl of at least two windows, a request that take() lets through at once
\* finds fewer than count requests of its key let through during the last window,
\* whatever was reserved, woken or given up meanwhile.
THEOREM WithinCap ==
    ASSUME IdleTtl >= 2 * Window
    PROVE  Spec => ImmediateWithinCap
<1>1. WindowInv /\ CapInv /\ [Next]_vars
        => [\A k \in Keys : sent'[k][0] > sent[k][0] /\ waiting' = waiting
              => sent[k][Window - 1] < Count]_vars
  <2> SUFFICES ASSUME WindowInv, CapInv, Next, NEW k \in Keys,
                      sent'[k][0] > sent[k][0], waiting' = waiting
               PROVE  sent[k][Window - 1] < Count
    BY Zenon
  <2>1. /\ Window \in Nat \ {0} /\ Count \in Nat /\ 0 \in 0..(Window - 1)
        /\ Window - 1 \in 0..(Window - 1) /\ Window - (Window - 1) = 1 /\ 1 \in Nat \ {0}
    BY WindowConstants
  <2>2. /\ sent \in [Keys -> [0..(Window - 1) -> Nat]]
        /\ waiting \in [Requests -> Keys \cup {None}] /\ None \notin Keys
    BY WindowConstants, Zenon DEF WindowInv, TypeOK
  <2>3. \A n \in Nat : ~(n > n) /\ ~(0 > n)
    OBVIOUS
  <2>4. sent[k][0] \in Nat /\ sent[k][Window - 1] \in Nat
    <3>1. sent[k] \in [0..(Window - 1) -> Nat]
      BY <2>2, Zenon
    <3> QED
      BY <2>1, <3>1, Zenon
  <2>5. ~Tick
    <3> SUFFICES ASSUME Tick PROVE FALSE
      BY Zenon
    <3>1. sent'[k][0] = 0
      <4>1. DOMAIN sent[k] = 0..(Window - 1)
        BY <2>2, Zenon
      <4> QED
        BY <2>1, <4>1, Zenon DEF Tick, Older
    <3> QED
      BY <2>3, <2>4, <3>1, Zenon
  <2>6. ~ \E r \in Requests : Wake(r) \/ Cancel(r)
    BY <2>2, Zenon DEF Wake, Cancel
  <2>7. PICK r \in Requests, j \in Keys : Take(r, j)
    BY <2>5, <2>6, Zenon DEF Next
  <2>8. PICK q \in Seq(Entries) : TakesFrom(q, r, j)
    BY <2>7, TakeAhead, Zenon
  <2>9. DelayOf(q) = 0 /\ j = k
    <3>1. sent' # sent
      BY <2>3, <2>4, Zenon
    <3>2. DelayOf(q) = 0 /\ sent' = Sent(j)
      BY <2>8, <3>1, Zenon DEF TakesFrom
    <3>3. sent'[k] # sent[k]
      BY <2>3, <2>4, Zenon
    <3> QED
      BY <2>2, <3>2, <3>3, Zenon DEF Sent
  <2>10. sent[k][Window - 1] + Cardinality(Sleepers(k, 0)) <= Cardinality(Ahead(log[k], 1))
    BY <2>1, Zenon DEF CapInv, Recorded
  <2>11. Cardinality(Ahead(log[k], 1)) <= Len(q) /\ Len(q) < Count
    BY <2>1, <2>8, <2>9, AheadSize, Zenon DEF TakesFrom
  <2>12. /\ sent[k][Window - 1] \in Nat /\ Cardinality(Sleepers(k, 0)) \in Nat
         /\ Cardinality(Ahead(log[k], 1)) \in Nat /\ Len(q) \in Nat
    <3>1. Sleepers(k, 0) \in SUBSET Requests /\ log[k] \in Seq(Entries)
      BY Zenon DEF Sleepers, WindowInv, TypeOK, Entries
    <3>2. Len(q) \in Nat
      OBVIOUS
    <3>3. Cardinality(Sleepers(k, 0)) \in Nat
      BY <3>1, SleepersSize, Zenon
    <3>4. Cardinality(Ahead(log[k], 1)) \in Nat
      BY <3>1, AheadSize, Zenon
    <3> QED
      BY <2>4, <3>2, <3>3, <3>4, Zenon
  <2>13. Count \in Nat
    BY <2>1, Zenon
  <2> QED
    BY <2>10, <2>11, <2>12, <2>13
<1> QED
  BY <1>1, CapInvariant, WindowInvariant, PTL DEF Spec, ImmediateWithinCap

\* Whichever store the layer has, its in-memory store (the fallback of the Redis one)
\* behaves as module SlidingWindow says: what is proved above holds of it too.
THEOREM WindowEmbedded == RedisSpec => Spec
<1>1. RedisInit => Init
  BY Zenon DEF RedisInit
<1>2. [RedisNext]_allVars => [Next]_vars
  <2> SUFFICES ASSUME [RedisNext]_allVars PROVE [Next]_vars
    BY Zenon
  <2>1. ASSUME NEW r \in Requests, NEW k \in Keys, MemoryTake(r, k) PROVE Next
    BY <2>1, Zenon DEF MemoryTake, Next
  <2>2. ASSUME NEW r \in Requests, Wake(r) \/ Cancel(r) PROVE Next
    BY <2>2, Zenon DEF Next
  <2>3. ASSUME NEW r \in Requests, FallBack(r) PROVE Next
    BY <2>3, RedisWindowConstants, Zenon DEF FallBack, Next
  <2>4. ASSUME NEW c \in Callers, RunScript(c) \/ Answer(c) \/ RedisWake(c) \/ RedisCancel(c)
        PROVE  UNCHANGED vars
    BY <2>4, Zenon DEF RunScript, Answer, RedisWake, RedisCancel
  <2>5. CASE RedisTick
    BY <2>5, Zenon DEF RedisTick, Next
  <2>6. CASE UNCHANGED allVars
    BY <2>6, Zenon DEF allVars
  <2> QED
    BY <2>1, <2>2, <2>3, <2>4, <2>5, <2>6, Zenon DEF RedisNext
<1> QED
  BY <1>1, <1>2, PTL DEF RedisSpec, Spec

-------------------------------------------------------------------------------
(* The sorted set in Redis.                                                *)

\* What the script keeps of the set: no two scores more than a window apart, something
\* ahead of now only while the window is full, the oldest never ahead of now, and
\* nothing that outlives the set.
SetInv ==
    /\ zset \in [Scores -> 0..MaxMembers] /\ life \in Nat
    /\ \A s, t \in Present : t <= s + Window
    /\ (\E s \in Present : s > Window) => Cardinality(Members) >= Count
    /\ Present # {} => \E s \in Present : s <= Window
    /\ \A s \in Present : s < life

\* The set has finitely many members.
LEMMA MembersFinite ==
    /\ IsFiniteSet(Members) /\ Cardinality(Members) \in Nat
    /\ IsFiniteSet(Members') /\ Cardinality(Members') \in Nat
<1>1. Window \in Nat /\ MaxMembers \in Nat
  BY WindowConstants, RedisWindowConstants
<1>2. IsFiniteSet(1..(2 * Window)) /\ IsFiniteSet(1..MaxMembers)
  BY <1>1, FS_Interval
<1>3. IsFiniteSet(Scores \X (1..MaxMembers))
  BY <1>2, FS_Product, Zenon DEF Scores
<1>4. /\ Members \in SUBSET (Scores \X (1..MaxMembers))
      /\ Members' \in SUBSET (Scores \X (1..MaxMembers))
  BY Zenon DEF Members
<1> QED
  BY <1>3, <1>4, FS_Subset, FS_CardinalityType, Zenon

\* A set with a member has an oldest one.
LEMMA OldestIsFirst ==
    ASSUME Present # {}
    PROVE  OldestScore \in Present /\ \A s \in Present : OldestScore <= s
<1>1. Present \subseteq Nat
  BY WindowConstants DEF Present, Scores
<1>2. PICK s \in Present : \A u \in Present : ~(<<u, s>> \in OpToRel(<, Nat))
  BY <1>1, NatLessThanWellFounded, WFMin
<1>3. \A u \in Present : ~(u < s)
  BY <1>1, <1>2 DEF OpToRel
<1>4. \A u \in Present : s <= u
  BY <1>1, <1>3
<1> QED
  BY <1>4, Zenon DEF OldestScore

\* ZADD: one member more, with the score it is given.
LEMMA AddedMember ==
    ASSUME zset \in [Scores -> 0..MaxMembers], Cardinality(Members) < MaxMembers,
           NEW x \in Scores, zset' = [zset EXCEPT ![x] = @ + 1]
    PROVE  /\ zset' \in [Scores -> 0..MaxMembers]
           /\ Present' = Present \cup {x}
           /\ Cardinality(Members') = Cardinality(Members) + 1
<1>1. MaxMembers \in Nat /\ zset[x] \in 0..MaxMembers
  BY RedisWindowConstants
<1>2. zset[x] < MaxMembers
  <2> SUFFICES ASSUME zset[x] = MaxMembers PROVE FALSE
    BY <1>1
  <2> DEFINE I == 1..MaxMembers
             f == [n \in I |-> <<x, n>>]
             T == {<<x, n>> : n \in I}
  <2>1. T \in SUBSET Members
    BY <1>1 DEF Members
  <2>2. IsFiniteSet(I) /\ Cardinality(I) = MaxMembers
    BY <1>1, UpTo, Zenon
  <2> HIDE DEF I
  <2>3. Corresponds(f, I, T)
    BY DEF Corresponds
  <2> HIDE DEF f, T
  <2>4. Cardinality(T) = MaxMembers
    BY <2>2, <2>3, SameSize, Zenon
  <2>5. Cardinality(T) <= Cardinality(Members)
    BY <2>1, MembersFinite, FS_Subset, Zenon
  <2> QED
    BY <1>1, <2>4, <2>5, MembersFinite
<1>3. /\ zset'[x] = zset[x] + 1 /\ \A s \in Scores \ {x} : zset'[s] = zset[s]
      /\ DOMAIN zset' = Scores
  BY Zenon
<1>4. zset[x] + 1 \in 0..MaxMembers /\ zset[x] + 1 > 0 /\ zset[x] + 1 \in 1..MaxMembers
  BY <1>1, <1>2
<1>5. zset' \in [Scores -> 0..MaxMembers]
  BY <1>4, Zenon
<1>6. Present' = Present \cup {x}
  BY <1>3, <1>4, Zenon DEF Present
<1> DEFINE m == <<x, zset[x] + 1>>
<1>7. Members' = Members \cup {m} /\ m \notin Members
  <2>1. \A n \in 1..MaxMembers : /\ n <= zset[x] + 1 <=> n <= zset[x] \/ n = zset[x] + 1
                                /\ ~(zset[x] + 1 <= zset[x])
    BY <1>1
  <2>2. \A s \in Scores, n \in 1..MaxMembers :
          <<s, n>> \in Members' <=> <<s, n>> \in Members \/ <<s, n>> = m
    BY <1>3, <2>1 DEF Members
  <2>3. /\ \A u \in Members : \E s \in Scores, n \in 1..MaxMembers : u = <<s, n>>
        /\ \A u \in Members' : \E s \in Scores, n \in 1..MaxMembers : u = <<s, n>>
    BY DEF Members
  <2>4. m \notin Members
    BY <1>1 DEF Members
  <2>5. m \in Members'
    BY <1>4, <2>2, Zenon
  <2> HIDE DEF m
  <2>6. \A u \in Members' : u \in Members \/ u = m
    <3> SUFFICES ASSUME NEW u \in Members' PROVE u \in Members \/ u = m
      BY Zenon
    <3>1. PICK s \in Scores, n \in 1..MaxMembers : u = <<s, n>>
      BY <2>3, Zenon
    <3> QED
      BY <2>2, <3>1, Zenon
  <2>7. \A u \in Members : u \in Members'
    <3> SUFFICES ASSUME NEW u \in Members PROVE u \in Members'
      BY Zenon
    <3>1. PICK s \in Scores, n \in 1..MaxMembers : u = <<s, n>>
      BY <2>3, Zenon
    <3> QED
      BY <2>2, <3>1, Zenon
  <2> QED
    BY <2>4, <2>5, <2>6, <2>7, Zenon
<1> HIDE DEF m
<1>8. Cardinality(Members') = Cardinality(Members) + 1
  BY <1>7, MembersFinite, FS_AddElement, Zenon
<1> QED
  BY <1>5, <1>6, <1>8, Zenon

\* The script keeps the set as described.
LEMMA ScriptKeepsSet ==
    ASSUME SetInv, NEW c \in Callers, RunScript(c)
    PROVE  SetInv'
<1> DEFINE x == ScriptDelay + Window
<1>1. /\ Window \in Nat \ {0} /\ Count \in Nat \ {0} /\ Slack \in Nat \ {0}
      /\ Present \subseteq 1..(2 * Window)
  BY WindowConstants, RedisWindowConstants DEF Present, Scores
<1>2. Cardinality(Members) >= Count => Present # {}
  <2> SUFFICES ASSUME Present = {} PROVE ~(Cardinality(Members) >= Count)
    BY Zenon
  <2>1. Members = {}
    BY RedisWindowConstants DEF Members, Present, SetInv
  <2>2. Cardinality(Members) = 0
    BY <2>1, FS_EmptySet, Zenon
  <2> QED
    BY <1>1, <2>2
<1>3. /\ Cardinality(Members) < MaxMembers /\ zset' = [zset EXCEPT ![x] = @ + 1]
      /\ life' = Lifetime(ScriptDelay)
  BY Zenon DEF RunScript
<1>4. CASE Cardinality(Members) < Count
  <2>1. ScriptDelay = 0 /\ x = Window /\ x \in Scores
    BY <1>1, <1>4 DEF ScriptDelay, Scores
  <2> HIDE DEF x
  <2>2. \A s \in Present : s <= Window
    <3>1. ~(Cardinality(Members) >= Count)
      BY <1>1, <1>4, MembersFinite
    <3>2. ~ \E s \in Present : s > Window
      BY <3>1, Zenon DEF SetInv
    <3> QED
      BY <1>1, <3>2
  <2>3. /\ zset' \in [Scores -> 0..MaxMembers] /\ Present' = Present \cup {x}
    BY <1>3, <2>1, AddedMember, Zenon DEF SetInv
  <2>4. life' = Window + Slack /\ life' \in Nat
    BY <1>1, <1>3, <2>1 DEF Lifetime
  <2>5. \A s \in Present' : s \in 1..Window
    BY <1>1, <2>1, <2>2, <2>3
  <2>6. \A s, t \in 1..Window : t <= s + Window /\ ~(s > Window) /\ s < Window + Slack
    BY <1>1
  <2>7. \A s, t \in Present' : t <= s + Window
    BY <2>5, <2>6, Zenon
  <2>8. ~ \E s \in Present' : s > Window
    BY <2>5, <2>6, Zenon
  <2>9. \E s \in Present' : s <= Window
    BY <1>1, <2>1, <2>3
  <2>10. \A s \in Present' : s < life'
    BY <2>4, <2>5, <2>6, Zenon
  <2> QED
    BY <2>3, <2>4, <2>7, <2>8, <2>9, <2>10, Zenon DEF SetInv
<1>5. CASE ~(Cardinality(Members) < Count)
  <2> DEFINE o == OldestScore
  <2>1. ScriptDelay = o /\ Present # {}
    BY <1>1, <1>2, <1>5, MembersFinite DEF ScriptDelay
  <2>2. o \in Present /\ \A s \in Present : o <= s
    BY <2>1, OldestIsFirst, Zenon
  <2> HIDE DEF o
  <2>3. o <= Window /\ o \in 1..(2 * Window)
    <3>1. PICK s \in Present : s <= Window
      BY <2>1, Zenon DEF SetInv
    <3> QED
      BY <1>1, <2>2, <3>1
  <2>4. x = o + Window /\ x \in Scores
    BY <1>1, <2>1, <2>3 DEF Scores
  <2> HIDE DEF x
  <2>5. /\ zset' \in [Scores -> 0..MaxMembers] /\ Present' = Present \cup {x}
        /\ Cardinality(Members') = Cardinality(Members) + 1
    BY <1>3, <2>4, AddedMember, Zenon DEF SetInv
  <2>6. life' = Window + o + Slack /\ life' \in Nat
    BY <1>1, <1>3, <2>1, <2>3 DEF Lifetime
  <2>7. \A s \in Present : s \in 1..(2 * Window) /\ o <= s /\ s <= o + Window
    BY <1>1, <2>2, Zenon DEF SetInv
  <2>8. \A s \in Present' : s \in Nat /\ o <= s /\ s <= o + Window
    BY <1>1, <2>3, <2>4, <2>5, <2>7
  <2>9. \A s, t \in Nat : o <= s /\ t <= o + Window => t <= s + Window /\ t < Window + o + Slack
    BY <1>1, <2>3
  <2>10. \A s, t \in Present' : t <= s + Window
    BY <2>8, <2>9, Zenon
  <2>11. \A s \in Present' : s < life'
    BY <2>6, <2>8, <2>9, Zenon
  <2>12. Cardinality(Members') >= Count
    BY <1>1, <1>5, <2>5, MembersFinite
  <2>13. \E s \in Present' : s <= Window
    BY <2>2, <2>3, <2>5, Zenon
  <2> QED
    BY <2>5, <2>6, <2>10, <2>11, <2>12, <2>13, Zenon DEF SetInv
<1> QED
  BY <1>4, <1>5, Zenon

\* Time keeps it: if the oldest member leaves, nothing is ahead of now any more.
LEMMA TickKeepsSet ==
    ASSUME SetInv, RedisTick
    PROVE  SetInv'
<1>1. /\ Window \in Nat \ {0} /\ MaxMembers \in Nat /\ Present \subseteq 1..(2 * Window)
      /\ Scores = 1..(2 * Window)
  BY WindowConstants, RedisWindowConstants DEF Present, Scores
<1>2. /\ zset \in [Scores -> 0..MaxMembers] /\ life \in Nat
      /\ \A s, t \in Present : t <= s + Window
      /\ (\E s \in Present : s > Window) => Cardinality(Members) >= Count
      /\ Present # {} => \E s \in Present : s <= Window
      /\ \A s \in Present : s < life
  BY Zenon DEF SetInv
<1>3. /\ life' = Down(life)
      /\ zset' = IF life <= 1 THEN NoMembers
                 ELSE [s \in Scores |-> IF s = 2 * Window THEN 0 ELSE zset[s + 1]]
  BY Zenon DEF RedisTick
<1>4. life' \in Nat /\ 0 \in 0..MaxMembers
  BY <1>1, <1>2, <1>3 DEF Down
<1>5. CASE life <= 1
  <2>1. zset' \in [Scores -> 0..MaxMembers] /\ \A s \in Scores : zset'[s] = 0
    BY <1>3, <1>4, <1>5, Zenon DEF NoMembers
  <2>2. Present' = {}
    BY <2>1 DEF Present
  <2> QED
    BY <1>4, <2>1, <2>2, Zenon DEF SetInv
<1>6. CASE ~(life <= 1)
  <2>1. /\ zset' \in [Scores -> 0..MaxMembers]
        /\ \A s \in Scores : zset'[s] = IF s = 2 * Window THEN 0 ELSE zset[s + 1]
    <3>1. \A s \in Scores : s # 2 * Window => s + 1 \in Scores
      BY <1>1
    <3> QED
      BY <1>2, <1>3, <1>4, <1>6, <3>1, Zenon
  <2>2. \A s \in Present' : s \in 1..(2 * Window) /\ s + 1 \in Present /\ s + 1 < life
    BY <1>1, <1>2, <2>1 DEF Present
  <2>3. \A s \in Present : s > 1 => s - 1 \in Present'
    BY <1>1, <1>2, <2>1 DEF Present
  <2>4. life' = life - 1
    BY <1>2, <1>3, <1>6 DEF Down
  <2>5. \A s, t \in Present' : t <= s + Window
    <3> SUFFICES ASSUME NEW s \in Present', NEW t \in Present' PROVE t <= s + Window
      BY Zenon
    <3>1. t + 1 <= (s + 1) + Window /\ s \in 1..(2 * Window) /\ t \in 1..(2 * Window)
      BY <1>2, <2>2, Zenon
    <3> QED
      BY <1>1, <3>1
  <2>6. \A s \in Present' : s < life'
    BY <1>2, <2>2, <2>4
  <2>7. Present' # {} => \E s \in Present' : s <= Window
    <3> SUFFICES ASSUME NEW t \in Present' PROVE \E s \in Present' : s <= Window
      BY Zenon
    <3>1. t + 1 \in Present /\ t \in 1..(2 * Window)
      BY <2>2, Zenon
    <3>2. PICK s \in Present : s <= Window
      BY <1>2, <3>1, Zenon
    <3>3. s \in 1..(2 * Window) /\ t + 1 <= s + Window
      BY <1>1, <1>2, <3>1, Zenon
    <3>4. CASE s > 1
      BY <1>1, <2>3, <3>2, <3>3, <3>4
    <3>5. CASE ~(s > 1)
      BY <1>1, <3>1, <3>3, <3>5
    <3> QED
      BY <3>4, <3>5, Zenon
  <2>8. (\E s \in Present' : s > Window) => Cardinality(Members') >= Count
    <3> SUFFICES ASSUME NEW t \in Present', t > Window PROVE Cardinality(Members') >= Count
      BY Zenon
    <3>1. t + 1 \in Present /\ t \in 1..(2 * Window)
      BY <2>2, Zenon
    <3>2. t + 1 > Window
      BY <1>1, <3>1
    <3>3. Cardinality(Members) >= Count
      BY <1>2, <3>1, <3>2, Zenon
    <3>4. zset[1] = 0
      <4> SUFFICES ASSUME zset[1] # 0 PROVE FALSE
        BY Zenon
      <4>1. 1 \in Present
        BY <1>1, <1>2 DEF Present
      <4>2. t + 1 <= 1 + Window
        BY <1>2, <3>1, <4>1, Zenon
      <4> QED
        BY <1>1, <3>1, <4>2
    <3> DEFINE f == [u \in Members |-> <<u[1] - 1, u[2]>>]
    <3>5. ASSUME NEW s \in Scores, NEW n \in 1..MaxMembers, <<s, n>> \in Members
          PROVE  s - 1 \in Scores /\ <<s - 1, n>> \in Members'
      <4>1. n <= zset[s] /\ s \in 1..(2 * Window)
        BY <1>1, <3>5 DEF Members
      <4>2. s # 1
        BY <3>4, <4>1
      <4>3. s - 1 \in Scores /\ s - 1 # 2 * Window /\ (s - 1) + 1 = s
        BY <1>1, <4>1, <4>2
      <4>4. zset'[s - 1] = zset[s]
        BY <2>1, <4>3, Zenon
      <4> QED
        BY <4>1, <4>3, <4>4 DEF Members
    <3>6. \A u \in Members : u \in Scores \X (1..MaxMembers)
      BY Zenon DEF Members
    <3>7. f \in [Members -> Members']
      <4> SUFFICES ASSUME NEW u \in Members PROVE <<u[1] - 1, u[2]>> \in Members'
        BY Zenon
      <4>1. u[1] \in Scores /\ u[2] \in 1..MaxMembers /\ u = <<u[1], u[2]>>
        BY <3>6
      <4> QED
        BY <3>5, <4>1, Zenon
    <3>8. \A a, b \in Members : f[a] = f[b] => a = b
      BY <1>1, <3>6
    <3> HIDE DEF f
    <3>9. IsFiniteSet(Members')
      BY MembersFinite, Zenon
    <3>10. Cardinality(Members) <= Cardinality(Members')
      BY <3>7, <3>8, <3>9, NotMore, Zenon
    <3> QED
      BY <3>3, <3>10, MembersFinite, WindowConstants
  <2> QED
    BY <1>4, <2>1, <2>5, <2>6, <2>7, <2>8, Zenon DEF SetInv
<1> QED
  BY <1>5, <1>6, Zenon

\* Whatever the instances ask of the script, the sorted set never expires before its last
\* member, a reservation included, has left the window.
THEOREM ReservationsKept == RedisSpec => []ReservationsOutliveExpiry
<1>1. RedisInit => SetInv
  <2> SUFFICES ASSUME RedisInit PROVE SetInv
    BY Zenon
  <2>1. zset = NoMembers /\ life = 0 /\ 0 \in Nat /\ 0 \in 0..MaxMembers
    BY RedisWindowConstants DEF RedisInit
  <2>2. zset \in [Scores -> 0..MaxMembers] /\ \A s \in Scores : zset[s] = 0
    BY <2>1, Zenon DEF NoMembers
  <2>3. Present = {}
    BY <2>2 DEF Present
  <2> QED
    BY <2>1, <2>2, <2>3, Zenon DEF SetInv
<1>2. SetInv /\ [RedisNext]_allVars => SetInv'
  <2> SUFFICES ASSUME SetInv, [RedisNext]_allVars PROVE SetInv'
    BY Zenon
  <2>1. CASE UNCHANGED shared
    BY <2>1, Zenon DEF shared, SetInv, Present, Members
  <2>2. ASSUME NEW c \in Callers, Answer(c) \/ RedisWake(c) \/ RedisCancel(c) PROVE UNCHANGED shared
    BY <2>2, Zenon DEF Answer, RedisWake, RedisCancel
  <2>3. ASSUME NEW r \in Requests, FallBack(r) PROVE UNCHANGED shared
    BY <2>3, Zenon DEF FallBack, shared
  <2>4. CASE UNCHANGED redisVars
    BY <2>1, <2>4, Zenon DEF redisVars
  <2>5. ASSUME NEW r \in Requests, NEW k \in Keys, MemoryTake(r, k) PROVE UNCHANGED redisVars
    BY <2>5, Zenon DEF MemoryTake
  <2>6. CASE UNCHANGED allVars
    BY <2>4, <2>6, Zenon DEF allVars
  <2> QED
    BY <2>1, <2>2, <2>3, <2>4, <2>5, <2>6, ScriptKeepsSet, TickKeepsSet, Zenon DEF RedisNext
<1>3. SetInv => ReservationsOutliveExpiry
  BY Zenon DEF SetInv, Present, ReservationsOutliveExpiry
<1> QED
  BY <1>1, <1>2, <1>3, PTL DEF RedisSpec

===============================================================================

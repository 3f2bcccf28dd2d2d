--------------------------- MODULE RateLimiterProofs ---------------------------
(***************************************************************************)
(* For every number of keys, requests and instances, every rate and burst: *)
(* what a bucket lets through in any interval conforms to them, in memory  *)
(* and shared through Redis, up to the latency of replies; and requests of *)
(* a key that have to wait are let through in the order they came, a       *)
(* token's refill time apart.  Both need a key in debt not to be idle long *)
(* enough to be forgotten, which a bucket in Redis never is.               *)
(*                                                                         *)
(* Counting requests of an interval is not inductive.  The invariant       *)
(* speaks of a schedule instead: those let through and those that still    *)
(* wait, each at the tick it is due.                                       *)
(***************************************************************************)
EXTENDS RedisRateLimiter, FiniteSetTheorems, TLAPS

-------------------------------------------------------------------------------
(* The schedule of a bucket, in memory or in Redis: its pending requests,  *)
(* when they are due, and what it let through before.                      *)

\* What n requests cost, in units of a tick's refill.
Price(n) == Cost * n

\* Of the pending requests P, n[c] being the ticks until c is due: those due within d
\* ticks, those due at most x ticks ago, those due between e and d ticks from now.
Soon(P, n, d)      == {c \in P : n[c] <= d}
Since(P, n, x)     == {c \in P : n[c] >= -x}
Within(P, n, e, d) == {c \in P : e <= n[c] /\ n[c] <= d}

\* The pending requests, and those let through in the last L ticks (each at most late
\* ticks after it was due), took their tokens from a burst and the refill since.
PaidFor(P, tokens, history, late) ==
    \A L \in 0..Horizon : Price(history[L] + Cardinality(P)) + tokens <= Burst + L + late

\* The same of the pending requests that were not due x ticks ago.
PaidSince(P, n, tokens) ==
    \A x \in Nat : Price(Cardinality(Since(P, n, x))) + tokens <= Burst + x

\* The interval from L ticks ago to d ticks from now conforms if every pending request
\* is let through as soon as it can be.
Conforming(P, n, history, late) ==
    \A L \in 0..Horizon, d \in Nat :
        Price(history[L] + Cardinality(Soon(P, n, d))) <= Burst + L + late + d

\* The times pending requests are due conform themselves.
ConformingDue(P, n) ==
    \A x, d \in Nat : Price(Cardinality(Within(P, n, -x, d))) <= Burst + x + d

\* Those due in the future are a token's refill time apart.
Spaced(P, n) ==
    \A e, d \in Nat :
        1 <= e /\ e <= d => Price(Cardinality(Within(P, n, e, d))) <= Cost + d - e

\* Nobody is due after the debt is refilled.
Covered(P, n, tokens) == \A c \in P : n[c] <= 0 \/ n[c] <= -tokens

\* What a bucket of `tokens' owes its pending requests, given what it let through.
Schedule(P, n, tokens, history, late) ==
    /\ PaidFor(P, tokens, history, late)
    /\ PaidSince(P, n, tokens)
    /\ Conforming(P, n, history, late)
    /\ ConformingDue(P, n)
    /\ Spaced(P, n)
    /\ Covered(P, n, tokens)

\* The constants the schedules are about.
LEMMA Amounts ==
    Cost \in Nat /\ Cost > 0 /\ Burst \in Nat /\ Cost <= Burst /\ Horizon \in Nat /\ MaxDebt \in Nat
  BY LimiterConstants

\* The arithmetic of buckets and of sleeps: a caller with d ticks to sleep, whose reply
\* is a ticks old, is a tick later due a tick earlier.
LEMMA Arithmetic ==
    /\ \A n \in Int : Taken(n) \in Int /\ DelayOf(Taken(n)) \in Int /\ n - 0 = n
    /\ \A n \in Int : n <= Burst => Refilled(n) \in Int /\ n <= Refilled(n) /\ Refilled(n) <= n + 1
    /\ \A n \in Nat : n > 0 => Down(n) = n - 1
  BY Amounts DEF Taken, DelayOf, Refilled, Down

\* A tick brings a reply one tick nearer to being due: one still on its way
\* grows older, one that arrived with delay left waits a tick of it.
LEMMA Lateness ==
    ASSUME NEW d \in Nat, NEW a \in Nat, NEW l \in Nat
    PROVE  /\ d - a \in Int
           /\ a < l => d - a >= 1 - l /\ d - (a + 1) = (d - a) - 1
           /\ d > 0 /\ a <= l => d - a >= 1 - l /\ (d - 1) - a = (d - a) - 1
  OBVIOUS

\* Histories stay histories.
LEMMA Histories ==
    ASSUME NEW h \in [0..Horizon -> Nat]
    PROVE  Counted(h) \in [0..Horizon -> Nat] /\ Older(h) \in [0..Horizon -> Nat]
  <1>1. \A L \in 0..Horizon : h[L] + 1 \in Nat
    OBVIOUS
  <1>2. \A L \in 0..Horizon : (IF L = 0 THEN 0 ELSE h[L - 1]) \in Nat
    BY Amounts
  <1> QED BY <1>1, <1>2, Zenon DEF Counted, Older

\* Prices add up.
LEMMA Prices ==
    /\ Price(0) = 0
    /\ \A m \in Nat : Price(m) \in Nat /\ Price(m + 1) = Price(m) + Cost
    /\ \A m, n \in Nat : m <= n => Price(m) <= Price(n)
  BY Amounts DEF Price

\* A part of a finite set costs no more than the whole.
LEMMA PartPrice ==
    ASSUME NEW S, IsFiniteSet(S), NEW T \in SUBSET S
    PROVE  /\ IsFiniteSet(T) /\ Cardinality(T) \in Nat /\ Cardinality(S) \in Nat
           /\ Cardinality(T) <= Cardinality(S)
           /\ Price(Cardinality(T)) <= Price(Cardinality(S))
           /\ Price(Cardinality(T)) \in Nat
  BY FS_Subset, FS_CardinalityType, Prices, Zenon

\* One more pending request costs one more token.
LEMMA OneMorePrice ==
    ASSUME NEW S, IsFiniteSet(S), NEW c, c \notin S
    PROVE  /\ IsFiniteSet(S \cup {c}) /\ Cardinality(S) \in Nat
           /\ Cardinality(S \cup {c}) = Cardinality(S) + 1
           /\ Price(Cardinality(S \cup {c})) = Price(Cardinality(S)) + Cost
  BY FS_AddElement, FS_CardinalityType, Prices, Zenon

\* Fewer pending requests never cost more.
LEMMA FewerDue ==
    ASSUME NEW P, IsFiniteSet(P), NEW n, NEW tokens \in Int, \A c \in P : n[c] \in Int,
           NEW R \in SUBSET P,
           PaidSince(P, n, tokens), ConformingDue(P, n), Spaced(P, n), Covered(P, n, tokens)
    PROVE  PaidSince(R, n, tokens) /\ ConformingDue(R, n) /\ Spaced(R, n) /\ Covered(R, n, tokens)
  <1>1. ASSUME NEW x \in Nat
        PROVE  Price(Cardinality(Since(R, n, x))) + tokens <= Burst + x
    <2>1. Since(P, n, x) \in SUBSET P /\ Since(R, n, x) \in SUBSET Since(P, n, x)
      BY Zenon DEF Since
    <2>2. IsFiniteSet(Since(P, n, x))
      BY <2>1, FS_Subset, Zenon
    <2>3. /\ Price(Cardinality(Since(R, n, x))) <= Price(Cardinality(Since(P, n, x)))
          /\ Price(Cardinality(Since(R, n, x))) \in Nat
          /\ Price(Cardinality(Since(P, n, x))) \in Nat
      BY <2>1, <2>2, PartPrice, Zenon
    <2>4. Price(Cardinality(Since(P, n, x))) + tokens <= Burst + x
      BY Zenon DEF PaidSince
    <2> QED BY <2>3, <2>4, Amounts
  <1>2. ASSUME NEW e \in Int, NEW d \in Int
        PROVE  /\ Price(Cardinality(Within(R, n, e, d))) <= Price(Cardinality(Within(P, n, e, d)))
               /\ Price(Cardinality(Within(R, n, e, d))) \in Nat
               /\ Price(Cardinality(Within(P, n, e, d))) \in Nat
    <2>1. Within(P, n, e, d) \in SUBSET P /\ Within(R, n, e, d) \in SUBSET Within(P, n, e, d)
      BY Zenon DEF Within
    <2>2. IsFiniteSet(Within(P, n, e, d))
      BY <2>1, FS_Subset, Zenon
    <2> QED BY <2>1, <2>2, PartPrice, Zenon
  <1>3. ConformingDue(R, n)
    <2> SUFFICES ASSUME NEW x \in Nat, NEW d \in Nat
                 PROVE  Price(Cardinality(Within(R, n, -x, d))) <= Burst + x + d
      BY Zenon DEF ConformingDue
    <2>1. Price(Cardinality(Within(P, n, -x, d))) <= Burst + x + d
      BY Zenon DEF ConformingDue
    <2>2. -x \in Int /\ d \in Int
      OBVIOUS
    <2>3. /\ Price(Cardinality(Within(R, n, -x, d))) <= Price(Cardinality(Within(P, n, -x, d)))
          /\ Price(Cardinality(Within(R, n, -x, d))) \in Nat
          /\ Price(Cardinality(Within(P, n, -x, d))) \in Nat
      BY <1>2, <2>2, Zenon
    <2> QED BY <2>1, <2>3, Amounts
  <1>4. Spaced(R, n)
    <2> SUFFICES ASSUME NEW e \in Nat, NEW d \in Nat, 1 <= e, e <= d
                 PROVE  Price(Cardinality(Within(R, n, e, d))) <= Cost + d - e
      BY Zenon DEF Spaced
    <2>1. Price(Cardinality(Within(P, n, e, d))) <= Cost + d - e
      BY Zenon DEF Spaced
    <2> QED BY <2>1, <1>2, Amounts
  <1> QED BY <1>1, <1>3, <1>4, Zenon DEF PaidSince, Covered

\* A request that is due is let through.
LEMMA Serving ==
    ASSUME NEW P, IsFiniteSet(P), NEW n, NEW tokens \in Int, NEW late \in Nat,
           NEW h \in [0..Horizon -> Nat], \A c \in P : n[c] \in Int,
           Schedule(P, n, tokens, h, late), NEW c \in P, n[c] <= 0
    PROVE  Schedule(P \ {c}, n, tokens, Counted(h), late)
  <1> DEFINE R == P \ {c}
  <1>0. ASSUME NEW S \in SUBSET P, c \in S
        PROVE  Cardinality(S) \in Nat /\ Cardinality(S \ {c}) \in Nat
               /\ Cardinality(S) = Cardinality(S \ {c}) + 1
    <2>1. IsFiniteSet(S)
      BY FS_Subset, Zenon
    <2>2. IsFiniteSet(S \ {c}) /\ Cardinality(S \ {c}) = Cardinality(S) - 1
      BY <1>0, <2>1, FS_RemoveElement, Zenon
    <2> QED BY <2>1, <2>2, FS_CardinalityType
  <1>1. PaidFor(R, tokens, Counted(h), late)
    <2> SUFFICES ASSUME NEW L \in 0..Horizon
                 PROVE  Price(Counted(h)[L] + Cardinality(R)) + tokens <= Burst + L + late
      BY Zenon DEF PaidFor
    <2>1. Counted(h)[L] = h[L] + 1 /\ h[L] \in Nat
      BY Zenon DEF Counted
    <2>2. Counted(h)[L] + Cardinality(R) = h[L] + Cardinality(P)
      <3>1. P \in SUBSET P
        BY Zenon
      <3>2. Cardinality(P) \in Nat /\ Cardinality(R) \in Nat /\ Cardinality(P) = Cardinality(R) + 1
        BY <1>0, <3>1, Zenon
      <3> QED BY <2>1, <3>2
    <2> QED BY <2>2, Zenon DEF Schedule, PaidFor
  <1>2. Conforming(R, n, Counted(h), late)
    <2> SUFFICES ASSUME NEW L \in 0..Horizon, NEW d \in Nat
                 PROVE  Price(Counted(h)[L] + Cardinality(Soon(R, n, d))) <= Burst + L + late + d
      BY Zenon DEF Conforming
    <2>1. Counted(h)[L] = h[L] + 1 /\ h[L] \in Nat
      BY Zenon DEF Counted
    <2>2. c \in Soon(P, n, d) /\ Soon(R, n, d) = Soon(P, n, d) \ {c} /\ Soon(P, n, d) \in SUBSET P
      <3>1. n[c] \in Int /\ n[c] <= d
        OBVIOUS
      <3> QED BY <3>1, Zenon DEF Soon
    <2>3. Counted(h)[L] + Cardinality(Soon(R, n, d)) = h[L] + Cardinality(Soon(P, n, d))
      <3> DEFINE S == Soon(P, n, d)
      <3>1. /\ Cardinality(S) \in Nat /\ Cardinality(S \ {c}) \in Nat
            /\ Cardinality(S) = Cardinality(S \ {c}) + 1
        BY <1>0, <2>2, Zenon
      <3>2. Cardinality(Soon(R, n, d)) = Cardinality(S \ {c})
        BY <2>2, Zenon
      <3> HIDE DEF R
      <3> QED BY <2>1, <3>1, <3>2
    <2> QED BY <2>3, Zenon DEF Schedule, Conforming
  <1>3. PaidSince(R, n, tokens) /\ ConformingDue(R, n) /\ Spaced(R, n) /\ Covered(R, n, tokens)
    <2>1. R \in SUBSET P
      BY Zenon
    <2> QED BY <2>1, FewerDue, Zenon DEF Schedule
  <1> QED BY <1>1, <1>2, <1>3, Zenon DEF Schedule

\* Pending requests go away; their tokens stay taken.
LEMMA Dropping ==
    ASSUME NEW P, IsFiniteSet(P), NEW n, NEW tokens \in Int, NEW late \in Nat,
           NEW h \in [0..Horizon -> Nat], \A c \in P : n[c] \in Int,
           Schedule(P, n, tokens, h, late), NEW R \in SUBSET P
    PROVE  Schedule(R, n, tokens, h, late)
  <1>1. ASSUME NEW S, IsFiniteSet(S), NEW T \in SUBSET S, NEW L \in 0..Horizon
        PROVE  /\ Price(h[L] + Cardinality(T)) <= Price(h[L] + Cardinality(S))
               /\ Price(h[L] + Cardinality(T)) \in Nat /\ Price(h[L] + Cardinality(S)) \in Nat
    <2>1. Cardinality(T) \in Nat /\ Cardinality(S) \in Nat /\ Cardinality(T) <= Cardinality(S)
      BY <1>1, PartPrice, Zenon
    <2>2. h[L] \in Nat
      BY Zenon
    <2>3. /\ h[L] + Cardinality(T) \in Nat /\ h[L] + Cardinality(S) \in Nat
          /\ h[L] + Cardinality(T) <= h[L] + Cardinality(S)
      BY <2>1, <2>2
    <2> QED BY <2>3, Prices, Zenon
  <1>2. PaidFor(R, tokens, h, late)
    <2> SUFFICES ASSUME NEW L \in 0..Horizon
                 PROVE  Price(h[L] + Cardinality(R)) + tokens <= Burst + L + late
      BY Zenon DEF PaidFor
    <2>1. Price(h[L] + Cardinality(P)) + tokens <= Burst + L + late
      BY Zenon DEF Schedule, PaidFor
    <2>2. /\ Price(h[L] + Cardinality(R)) <= Price(h[L] + Cardinality(P))
          /\ Price(h[L] + Cardinality(R)) \in Nat /\ Price(h[L] + Cardinality(P)) \in Nat
      BY <1>1, Zenon
    <2> QED BY <2>1, <2>2, Amounts
  <1>3. Conforming(R, n, h, late)
    <2> SUFFICES ASSUME NEW L \in 0..Horizon, NEW d \in Nat
                 PROVE  Price(h[L] + Cardinality(Soon(R, n, d))) <= Burst + L + late + d
      BY Zenon DEF Conforming
    <2>1. Soon(P, n, d) \in SUBSET P /\ Soon(R, n, d) \in SUBSET Soon(P, n, d)
      BY Zenon DEF Soon
    <2>2. IsFiniteSet(Soon(P, n, d))
      BY <2>1, FS_Subset, Zenon
    <2>3. Price(h[L] + Cardinality(Soon(P, n, d))) <= Burst + L + late + d
      BY Zenon DEF Schedule, Conforming
    <2>4. /\ Price(h[L] + Cardinality(Soon(R, n, d))) <= Price(h[L] + Cardinality(Soon(P, n, d)))
          /\ Price(h[L] + Cardinality(Soon(R, n, d))) \in Nat
          /\ Price(h[L] + Cardinality(Soon(P, n, d))) \in Nat
      BY <1>1, <2>1, <2>2, Zenon
    <2> QED BY <2>3, <2>4, Amounts
  <1>4. PaidSince(R, n, tokens) /\ ConformingDue(R, n) /\ Spaced(R, n) /\ Covered(R, n, tokens)
    BY FewerDue, Zenon DEF Schedule
  <1> QED BY <1>2, <1>3, <1>4, Zenon DEF Schedule

\* The schedule looks at pending requests only.
LEMMA SameDue ==
    ASSUME NEW P, NEW n, NEW m, NEW tokens, NEW h, NEW late, \A c \in P : n[c] = m[c],
           Schedule(P, n, tokens, h, late)
    PROVE  Schedule(P, m, tokens, h, late)
  <1>1. /\ \A d : Soon(P, m, d) = Soon(P, n, d)
        /\ \A x : Since(P, m, x) = Since(P, n, x)
        /\ \A e, d : Within(P, m, e, d) = Within(P, n, e, d)
    BY Zenon DEF Soon, Since, Within
  <1>2. Covered(P, m, tokens)
    BY Zenon DEF Schedule, Covered
  <1>3. PaidSince(P, m, tokens)
    BY <1>1, Zenon DEF Schedule, PaidSince
  <1>4. Conforming(P, m, h, late)
    BY <1>1, Zenon DEF Schedule, Conforming
  <1>5. ConformingDue(P, m)
    BY <1>1, Zenon DEF Schedule, ConformingDue
  <1>6. Spaced(P, m)
    BY <1>1, Zenon DEF Schedule, Spaced
  <1> QED BY <1>2, <1>3, <1>4, <1>5, <1>6, Zenon DEF Schedule
\* A request takes a token: it is due when the debt it leaves is refilled.
LEMMA Taking ==
    ASSUME NEW P, IsFiniteSet(P), NEW n, NEW m, NEW c, c \notin P,
           NEW tokens \in Int, NEW late \in Nat, NEW h \in [0..Horizon -> Nat],
           \A d \in P : n[d] \in Int /\ m[d] = n[d],
           Schedule(P, n, tokens, h, late), m[c] = DelayOf(Taken(tokens))
    PROVE  Schedule(P \cup {c}, m, Taken(tokens), h, late)
  <1> DEFINE Q == P \cup {c}
             left == tokens - Cost
             D == m[c]
  <1>1. /\ left \in Int /\ Taken(tokens) = left /\ D \in Nat /\ -left <= D
        /\ (D = 0 \/ (D = -left /\ left < 0)) /\ Cost \in Nat \ {0} /\ Burst \in Nat
    BY Amounts DEF DelayOf, Taken
  <1>2. Schedule(P, m, tokens, h, late) /\ \A d \in P : m[d] \in Int
    BY SameDue, Zenon
  <1>3. IsFiniteSet(Q) /\ Cardinality(P) \in Nat /\ Cardinality(Q) = Cardinality(P) + 1
    BY OneMorePrice, Zenon
  <1>4. PaidFor(Q, left, h, late)
    <2> SUFFICES ASSUME NEW L \in 0..Horizon
                 PROVE  Price(h[L] + Cardinality(Q)) + left <= Burst + L + late
      BY Zenon DEF PaidFor
    <2>1. h[L] \in Nat /\ h[L] + Cardinality(P) \in Nat
          /\ h[L] + Cardinality(Q) = (h[L] + Cardinality(P)) + 1
      BY <1>3
    <2>2. /\ Price(h[L] + Cardinality(Q)) = Price(h[L] + Cardinality(P)) + Cost
          /\ Price(h[L] + Cardinality(P)) \in Nat
      BY <2>1, Prices, Zenon
    <2>3. Price(h[L] + Cardinality(P)) + tokens <= Burst + L + late
      BY <1>2, Zenon DEF Schedule, PaidFor
    <2> HIDE DEF Q, D
    <2> QED BY <1>1, <2>2, <2>3
  <1>5. PaidSince(Q, m, left)
    <2> SUFFICES ASSUME NEW x \in Nat
                 PROVE  Price(Cardinality(Since(Q, m, x))) + left <= Burst + x
      BY Zenon DEF PaidSince
    <2> DEFINE S == Since(P, m, x)
    <2>1. c \notin S /\ S \in SUBSET P /\ Since(Q, m, x) = S \cup {c}
      <3>1. m[c] >= -x
        BY <1>1
      <3> QED BY <3>1, Zenon DEF Since
    <2>2. IsFiniteSet(S)
      BY <2>1, FS_Subset, Zenon
    <2>3. Price(Cardinality(Since(Q, m, x))) = Price(Cardinality(S)) + Cost /\ Price(Cardinality(S)) \in Nat
      BY <2>1, <2>2, OneMorePrice, Prices, Zenon
    <2>4. Price(Cardinality(S)) + tokens <= Burst + x
      BY <1>2, Zenon DEF Schedule, PaidSince
    <2> HIDE DEF Q, D, S
    <2> QED BY <1>1, <2>3, <2>4
  <1>6. Conforming(Q, m, h, late)
    <2> SUFFICES ASSUME NEW L \in 0..Horizon, NEW d \in Nat
                 PROVE  Price(h[L] + Cardinality(Soon(Q, m, d))) <= Burst + L + late + d
      BY Zenon DEF Conforming
    <2>1. CASE d < D
      <3>1. Soon(Q, m, d) = Soon(P, m, d)
        <4>1. ~(m[c] <= d)
          BY <2>1, <1>1
        <4> QED BY <4>1, Zenon DEF Soon
      <3> QED BY <3>1, <1>2, Zenon DEF Schedule, Conforming
    <2>2. CASE D <= d
      <3>1. Soon(Q, m, d) \in SUBSET Q
        BY Zenon DEF Soon
      <3>2. /\ Cardinality(Soon(Q, m, d)) \in Nat /\ Cardinality(Q) \in Nat
            /\ Cardinality(Soon(Q, m, d)) <= Cardinality(Q)
        BY <1>3, <3>1, PartPrice, Zenon
      <3>3. /\ h[L] + Cardinality(Soon(Q, m, d)) \in Nat /\ h[L] + Cardinality(Q) \in Nat
            /\ h[L] + Cardinality(Soon(Q, m, d)) <= h[L] + Cardinality(Q)
        <4>1. h[L] \in Nat
          BY Zenon
        <4> HIDE DEF Q
        <4> QED BY <3>2, <4>1
      <3>4. /\ Price(h[L] + Cardinality(Soon(Q, m, d))) <= Price(h[L] + Cardinality(Q))
            /\ Price(h[L] + Cardinality(Soon(Q, m, d))) \in Nat
            /\ Price(h[L] + Cardinality(Q)) \in Nat
        BY <3>3, Prices, Zenon
      <3>5. Price(h[L] + Cardinality(Q)) + left <= Burst + L + late
        BY <1>4, Zenon DEF PaidFor
      <3> HIDE DEF Q, D, left
      <3> QED BY <1>1, <2>2, <3>4, <3>5
    <2> QED BY <1>1, <2>1, <2>2
  <1>7. ConformingDue(Q, m)
    <2> SUFFICES ASSUME NEW x \in Nat, NEW d \in Nat
                 PROVE  Price(Cardinality(Within(Q, m, -x, d))) <= Burst + x + d
      BY Zenon DEF ConformingDue
    <2>1. CASE d < D
      <3>1. Within(Q, m, -x, d) = Within(P, m, -x, d)
        <4>1. ~(m[c] <= d)
          BY <2>1, <1>1
        <4> QED BY <4>1, Zenon DEF Within
      <3> QED BY <3>1, <1>2, Zenon DEF Schedule, ConformingDue
    <2>2. CASE D <= d
      <3>1. Within(Q, m, -x, d) \in SUBSET Since(Q, m, x) /\ Since(Q, m, x) \in SUBSET Q
        <4>1. \A b \in Q : m[b] \in Int
          BY <1>1, <1>2
        <4> QED BY <4>1, Zenon DEF Within, Since
      <3>2. /\ Price(Cardinality(Within(Q, m, -x, d))) <= Price(Cardinality(Since(Q, m, x)))
            /\ Price(Cardinality(Within(Q, m, -x, d))) \in Nat
            /\ Price(Cardinality(Since(Q, m, x))) \in Nat
        <4>1. IsFiniteSet(Since(Q, m, x))
          BY <1>3, <3>1, FS_Subset, Zenon
        <4>2. Since(Q, m, x) \in SUBSET Since(Q, m, x)
          BY Zenon
        <4> HIDE DEF Q
        <4> QED BY <3>1, <4>1, <4>2, PartPrice, Zenon
      <3>3. Price(Cardinality(Since(Q, m, x))) + left <= Burst + x
        BY <1>5, Zenon DEF PaidSince
      <3> HIDE DEF Q, D, left
      <3> QED BY <1>1, <2>2, <3>2, <3>3
    <2> QED BY <1>1, <2>1, <2>2
  <1>8. Spaced(Q, m)
    <2> SUFFICES ASSUME NEW e \in Nat, NEW d \in Nat, 1 <= e, e <= d
                 PROVE  Price(Cardinality(Within(Q, m, e, d))) <= Cost + d - e
      BY Zenon DEF Spaced
    <2> DEFINE S == Within(P, m, e, d)
    <2>0. S \in SUBSET P /\ c \notin S
      BY Zenon DEF Within
    <2>1. CASE ~(e <= D /\ D <= d)
      <3>1. Within(Q, m, e, d) = S
        BY <2>1, Zenon DEF Within
      <3> QED BY <3>1, <1>2, Zenon DEF Schedule, Spaced
    <2>2. CASE e <= D /\ D <= d
      <3>1. D = -left /\ left < 0 /\ D >= 1
        BY <1>1, <2>2
      <3>2. Within(Q, m, e, d) = S \cup {c}
        BY <2>2, Zenon DEF Within
      <3>3. \A b \in S : m[b] <= D - Cost
        <4> SUFFICES ASSUME NEW b \in S PROVE m[b] <= D - Cost
          BY Zenon
        <4>1. b \in P /\ m[b] \in Int /\ m[b] >= 1
          BY <1>2 DEF Within
        <4>2. m[b] <= -tokens
          BY <4>1, <1>2 DEF Schedule, Covered
        <4> HIDE DEF S, D
        <4> QED BY <1>1, <3>1, <4>1, <4>2
      <3>4. Price(Cardinality(S)) \in Nat /\ Price(Cardinality(S)) <= D - e
        <4>1. IsFiniteSet(S) /\ Cardinality(S) \in Nat /\ Price(Cardinality(S)) \in Nat
          BY <2>0, PartPrice, Zenon
        <4>2. CASE e <= D - Cost
          <5>1. D - Cost \in Nat
            BY <1>1, <4>2
          <5>2. D - Cost <= d
            BY <1>1, <2>2
          <5>3. S = Within(P, m, e, D - Cost)
            <6>1. \A b \in P : m[b] \in Int
              BY <1>2, Zenon
            <6>2. S \subseteq Within(P, m, e, D - Cost)
              BY <3>3, Zenon DEF Within
            <6>3. Within(P, m, e, D - Cost) \subseteq S
              BY <5>1, <5>2, <6>1 DEF Within
            <6> QED BY <6>2, <6>3, Zenon
          <5>4. Price(Cardinality(Within(P, m, e, D - Cost))) <= Cost + (D - Cost) - e
            BY <4>2, <5>1, <1>2, Zenon DEF Schedule, Spaced
          <5> QED BY <1>1, <4>1, <5>3, <5>4
        <4>3. CASE ~(e <= D - Cost)
          <5>1. \A b \in S : FALSE
            <6> SUFFICES ASSUME NEW b \in S PROVE FALSE
              BY Zenon
            <6>1. e <= m[b] /\ m[b] \in Int
              BY <1>2, Zenon DEF Within
            <6>2. m[b] <= D - Cost
              BY <3>3, Zenon
            <6> HIDE DEF S, D
            <6> QED BY <1>1, <4>3, <6>1, <6>2
          <5>2. S = {}
            BY <5>1, Zenon
          <5>3. Price(Cardinality(S)) = 0
            BY <5>2, FS_EmptySet, Prices, Zenon
          <5> HIDE DEF S, D
          <5> QED BY <1>1, <2>2, <5>3
        <4> QED BY <4>2, <4>3, Zenon
      <3>5. Price(Cardinality(S \cup {c})) = Price(Cardinality(S)) + Cost
        <4>1. IsFiniteSet(S)
          BY <2>0, FS_Subset, Zenon
        <4> QED BY <2>0, <4>1, OneMorePrice, Zenon
      <3> HIDE DEF S, D, Q
      <3> QED BY <1>1, <2>2, <3>2, <3>4, <3>5
    <2> QED BY <2>1, <2>2, Zenon
  <1>9. Covered(Q, m, left)
    BY <1>1, <1>2 DEF Schedule, Covered
  <1> QED BY <1>1, <1>4, <1>5, <1>6, <1>7, <1>8, <1>9, Zenon DEF Schedule
\* A tick passes, which it does only while nobody is late by more than `late'.
LEMMA Ticking ==
    ASSUME NEW P, IsFiniteSet(P), NEW n, NEW m, NEW tokens \in Int, NEW late \in Nat,
           NEW h \in [0..Horizon -> Nat], tokens <= Burst,
           \A c \in P : n[c] \in Int /\ n[c] >= 1 - late /\ m[c] = n[c] - 1,
           Schedule(P, n, tokens, h, late)
    PROVE  Schedule(P, m, Refilled(tokens), Older(h), late)
  <1> DEFINE left == Refilled(tokens)
  <1>1. /\ left \in Int /\ left <= Burst /\ left <= tokens + 1
        /\ left = tokens + 1 \/ tokens = Burst
        /\ Cost \in Nat \ {0} /\ Burst \in Nat /\ Cost <= Burst
    BY Amounts DEF Refilled
  <1>2. /\ \A d \in Int : Soon(P, m, d) = Soon(P, n, d + 1)
        /\ \A x \in Int : Since(P, m, x) = Since(P, n, x - 1)
        /\ \A e, d \in Int : Within(P, m, e, d) = Within(P, n, e + 1, d + 1)
    <2>1. \A d \in Int : Soon(P, m, d) = Soon(P, n, d + 1)
      BY DEF Soon
    <2>2. \A x \in Int : Since(P, m, x) = Since(P, n, x - 1)
      BY DEF Since
    <2>3. \A e, d \in Int : Within(P, m, e, d) = Within(P, n, e + 1, d + 1)
      BY DEF Within
    <2> QED BY <2>1, <2>2, <2>3, Zenon
  <1>3. ASSUME NEW S \in SUBSET P
        PROVE  IsFiniteSet(S) /\ Cardinality(S) \in Nat /\ Price(Cardinality(S)) \in Nat
    BY PartPrice, Zenon
  <1>4. ASSUME NEW S \in SUBSET P, \A c \in S : n[c] >= 1
        PROVE  Price(Cardinality(S)) + left <= Burst
    <2>1. CASE S = {}
      <3>1. Price(Cardinality(S)) = 0
        BY <2>1, FS_EmptySet, Prices, Zenon
      <3> QED BY <3>1, <1>1
    <2>2. CASE S # {}
      <3>1. PICK b \in S : TRUE
        BY <2>2, Zenon
      <3>2. tokens <= -1
        <4>1. n[b] \in Int /\ n[b] >= 1
          BY <1>4, Zenon
        <4>2. n[b] <= 0 \/ n[b] <= -tokens
          BY Zenon DEF Schedule, Covered
        <4> QED BY <4>1, <4>2
      <3>3. S \in SUBSET Within(P, n, 1, -tokens)
        <4> SUFFICES ASSUME NEW a \in S PROVE a \in Within(P, n, 1, -tokens)
          BY Zenon
        <4>1. n[a] \in Int /\ n[a] >= 1
          BY <1>4, Zenon
        <4>2. n[a] <= 0 \/ n[a] <= -tokens
          BY Zenon DEF Schedule, Covered
        <4> QED BY <4>1, <4>2 DEF Within
      <3>4. IsFiniteSet(Within(P, n, 1, -tokens))
        BY FS_Subset, Zenon DEF Within
      <3>5. Price(Cardinality(S)) <= Price(Cardinality(Within(P, n, 1, -tokens)))
            /\ Price(Cardinality(Within(P, n, 1, -tokens))) \in Nat
        BY <3>3, <3>4, PartPrice, FS_CardinalityType, Prices, Zenon
      <3>6. Price(Cardinality(Within(P, n, 1, -tokens))) <= Cost + (-tokens) - 1
        <4>1. -tokens \in Nat /\ 1 <= -tokens
          BY <3>2
        <4> QED BY <4>1 DEF Schedule, Spaced
      <3> QED BY <1>1, <1>3, <3>5, <3>6
    <2> QED BY <2>1, <2>2, Zenon
  <1>5. PaidFor(P, left, Older(h), late)
    <2> SUFFICES ASSUME NEW L \in 0..Horizon
                 PROVE  Price(Older(h)[L] + Cardinality(P)) + left <= Burst + L + late
      BY Zenon DEF PaidFor
    <2>1. CASE L = 0
      <3>1. Older(h)[L] + Cardinality(P) = Cardinality(P)
        BY <1>3, <2>1, Amounts DEF Older
      <3>2. Price(Cardinality(P)) + left <= Burst + late
        <4>1. CASE late = 0
          <5>1. \A c \in P : n[c] >= 1
            BY <4>1
          <5> QED BY <1>4, <5>1, <4>1, <1>1, <1>3
        <4>2. CASE late # 0
          <5>1. late - 1 \in Nat
            BY <4>2
          <5>2. Since(P, n, late - 1) = P
            BY DEF Since
          <5>3. Price(Cardinality(P)) + tokens <= Burst + (late - 1)
            BY <5>1, <5>2, Zenon DEF Schedule, PaidSince
          <5> HIDE DEF left
          <5> QED BY <5>3, <1>1, <1>3
        <4> QED BY <4>1, <4>2, Zenon
      <3> QED BY <2>1, <3>1, <3>2, <1>1
    <2>2. CASE L # 0
      <3>1. L - 1 \in 0..Horizon /\ Older(h)[L] = h[L - 1] /\ h[L - 1] \in Nat
        BY <2>2, Amounts DEF Older
      <3>2. Price(h[L - 1] + Cardinality(P)) + tokens <= Burst + (L - 1) + late
        BY <3>1, Zenon DEF Schedule, PaidFor
      <3>3. Price(h[L - 1] + Cardinality(P)) \in Nat
        <4>1. h[L - 1] + Cardinality(P) \in Nat
          BY <3>1, <1>3
        <4> QED BY <4>1, Prices, Zenon
      <3> HIDE DEF left
      <3> QED BY <3>1, <3>2, <3>3, <1>1
    <2> QED BY <2>1, <2>2, Zenon
  <1>6. PaidSince(P, m, left)
    <2> SUFFICES ASSUME NEW x \in Nat
                 PROVE  Price(Cardinality(Since(P, m, x))) + left <= Burst + x
      BY Zenon DEF PaidSince
    <2>1. Since(P, m, x) = Since(P, n, x - 1) /\ Since(P, m, x) \in SUBSET P
      <3>1. Since(P, m, x) \in SUBSET P
        BY Zenon DEF Since
      <3>2. x \in Int
        OBVIOUS
      <3> QED BY <1>2, <3>1, <3>2, Zenon
    <2>2. CASE x = 0
      <3>1. \A c \in Since(P, m, x) : n[c] >= 1
        BY <2>2 DEF Since
      <3> QED BY <1>4, <2>1, <2>2, <3>1, <1>1, <1>3
    <2>3. CASE x # 0
      <3>1. x - 1 \in Nat
        BY <2>3
      <3>2. Price(Cardinality(Since(P, n, x - 1))) + tokens <= Burst + (x - 1)
        BY <3>1, Zenon DEF Schedule, PaidSince
      <3>3. Price(Cardinality(Since(P, m, x))) \in Nat
        BY <2>1, <1>3, Zenon
      <3> HIDE DEF left
      <3> QED BY <2>1, <3>2, <3>3, <1>1
    <2> QED BY <2>2, <2>3, Zenon
  <1>7. ASSUME NEW e \in Nat, NEW d \in Nat
        PROVE  /\ Price(Cardinality(Within(P, n, 1, d + 1))) <= Burst + d
               /\ Price(Cardinality(Within(P, n, 1 - late, d + 1))) <= Burst + late + d
    <2>1. Within(P, n, 1, d + 1) \in SUBSET P
      BY Zenon DEF Within
    <2>2. Price(Cardinality(Within(P, n, 1, d + 1))) <= Cost + (d + 1) - 1
      <3> DEFINE g == d + 1
      <3>1. g \in Nat /\ 1 <= g /\ 1 \in Nat /\ 1 <= 1
        OBVIOUS
      <3> HIDE DEF g
      <3>2. Price(Cardinality(Within(P, n, 1, g))) <= Cost + g - 1
        BY <3>1, Zenon DEF Schedule, Spaced
      <3> QED BY <3>2, Zenon DEF g
    <2>3. Price(Cardinality(Within(P, n, 1, d + 1))) <= Burst + d
      BY <1>1, <1>3, <2>1, <2>2
    <2>4. CASE late = 0
      BY <2>3, <2>4, <1>1
    <2>5. CASE late # 0
      <3>1. late - 1 \in Nat /\ d + 1 \in Nat /\ -(late - 1) = 1 - late
        BY <2>5
      <3>2. Price(Cardinality(Within(P, n, -(late - 1), d + 1))) <= Burst + (late - 1) + (d + 1)
        BY <3>1, Zenon DEF Schedule, ConformingDue
      <3> QED BY <2>3, <3>1, <3>2, <1>1
    <2> QED BY <2>3, <2>4, <2>5, Zenon
  <1>8. Conforming(P, m, Older(h), late)
    <2> SUFFICES ASSUME NEW L \in 0..Horizon, NEW d \in Nat
                 PROVE  Price(Older(h)[L] + Cardinality(Soon(P, m, d))) <= Burst + L + late + d
      BY Zenon DEF Conforming
    <2>0. Soon(P, m, d) = Soon(P, n, d + 1) /\ Soon(P, m, d) \in SUBSET P
      <3>1. Soon(P, m, d) \in SUBSET P
        BY Zenon DEF Soon
      <3>2. d \in Int
        OBVIOUS
      <3> QED BY <1>2, <3>1, <3>2, Zenon
    <2>1. CASE L = 0
      <3>1. Older(h)[L] + Cardinality(Soon(P, m, d)) = Cardinality(Soon(P, n, d + 1))
        <4>1. Older(h)[L] = 0
          BY <2>1, Amounts, Zenon DEF Older
        <4>2. Cardinality(Soon(P, m, d)) \in Nat
          BY <1>3, <2>0, Zenon
        <4>3. Older(h)[L] + Cardinality(Soon(P, m, d)) = Cardinality(Soon(P, m, d))
          BY <4>1, <4>2
        <4> QED BY <2>0, <4>3, Zenon
      <3>2. Soon(P, n, d + 1) = Within(P, n, 1 - late, d + 1)
        BY Zenon DEF Soon, Within
      <3> QED BY <1>7, <2>1, <3>1, <3>2, <1>1
    <2>2. CASE L # 0
      <3>1. L - 1 \in 0..Horizon /\ Older(h)[L] = h[L - 1] /\ d + 1 \in Nat
        BY <2>2, Amounts DEF Older
      <3>2. Price(h[L - 1] + Cardinality(Soon(P, n, d + 1))) <= Burst + (L - 1) + late + (d + 1)
        BY <3>1, Zenon DEF Schedule, Conforming
      <3> QED BY <3>1, <3>2, <2>0, <1>1
    <2> QED BY <2>1, <2>2, Zenon
  <1>9. ConformingDue(P, m)
    <2> SUFFICES ASSUME NEW x \in Nat, NEW d \in Nat
                 PROVE  Price(Cardinality(Within(P, m, -x, d))) <= Burst + x + d
      BY Zenon DEF ConformingDue
    <2>1. Within(P, m, -x, d) = Within(P, n, 1 - x, d + 1)
      <3>1. -x \in Int /\ d \in Int /\ -x + 1 = 1 - x
        OBVIOUS
      <3> QED BY <1>2, <3>1, Zenon
    <2>2. CASE x = 0
      <3>1. 1 - x = 1 /\ Burst + x + d = Burst + d
        BY <1>1, <2>2
      <3> QED BY <1>7, <2>1, <3>1, Zenon
    <2>3. CASE x # 0
      <3>1. x - 1 \in Nat /\ d + 1 \in Nat /\ -(x - 1) = 1 - x
        BY <2>3
      <3>2. Price(Cardinality(Within(P, n, -(x - 1), d + 1))) <= Burst + (x - 1) + (d + 1)
        BY <3>1, Zenon DEF Schedule, ConformingDue
      <3>3. Within(P, m, -x, d) = Within(P, n, -(x - 1), d + 1)
        BY <2>1, <3>1, Zenon
      <3>4. Burst + (x - 1) + (d + 1) = Burst + x + d
        BY <1>1
      <3> QED BY <3>2, <3>3, <3>4, Zenon
    <2> QED BY <2>2, <2>3, Zenon
  <1>10. Spaced(P, m)
    <2> SUFFICES ASSUME NEW e \in Nat, NEW d \in Nat, 1 <= e, e <= d
                 PROVE  Price(Cardinality(Within(P, m, e, d))) <= Cost + d - e
      BY Zenon DEF Spaced
    <2>1. Within(P, m, e, d) = Within(P, n, e + 1, d + 1)
      BY <1>2
    <2>2. e + 1 \in Nat /\ d + 1 \in Nat /\ 1 <= e + 1 /\ e + 1 <= d + 1
      OBVIOUS
    <2>3. Price(Cardinality(Within(P, n, e + 1, d + 1))) <= Cost + (d + 1) - (e + 1)
      BY <2>2, Zenon DEF Schedule, Spaced
    <2> QED BY <2>1, <2>3, <1>1
  <1>11. Covered(P, m, left)
    BY <1>1 DEF Schedule, Covered
  <1> QED BY <1>5, <1>6, <1>8, <1>9, <1>10, <1>11, Zenon DEF Schedule

\* A bucket that keeps its schedule conforms to burst and rate.
LEMMA Conformance ==
    ASSUME NEW P, IsFiniteSet(P), NEW n, NEW tokens, NEW late \in Nat,
           NEW h \in [0..Horizon -> Nat], Schedule(P, n, tokens, h, late)
    PROVE  \A L \in 0..Horizon : h[L] <= (Burst + L + late) \div Cost
  <1> SUFFICES ASSUME NEW L \in 0..Horizon PROVE h[L] <= (Burst + L + late) \div Cost
    BY Zenon
  <1> DEFINE q == Cardinality(Soon(P, n, 0))
  <1>1. h[L] \in Nat /\ q \in Nat
    BY FS_Subset, FS_CardinalityType, Zenon DEF Soon
  <1>2. Price(h[L] + q) <= Burst + L + late + 0
    BY Zenon DEF Schedule, Conforming
  <1> HIDE DEF q
  <1>3. Price(h[L]) <= Price(h[L] + q) /\ Price(h[L]) \in Nat /\ Price(h[L] + q) \in Nat
    <2>1. h[L] + q \in Nat /\ h[L] <= h[L] + q
      BY <1>1
    <2> QED BY <1>1, <2>1, Prices, Zenon
  <1>4. Cost * h[L] <= Burst + L + late
    BY <1>2, <1>3, Amounts DEF Price
  <1> DEFINE b == Burst + L + late
             whole == b \div Cost
  <1>5. b \in Nat /\ whole \in Nat /\ b < Cost * whole + Cost
    BY Amounts
  <1> HIDE DEF b, whole
  <1>6. b < Price(whole + 1) /\ Price(whole + 1) \in Nat
    <2>1. Price(whole + 1) = Cost * whole + Cost
      BY <1>5, Amounts, Prices, Zenon DEF Price
    <2>2. whole + 1 \in Nat
      BY <1>5
    <2> QED BY <1>5, <2>1, <2>2, Prices, Zenon
  <1>7. ~(whole + 1 <= h[L])
    <2> SUFFICES ASSUME whole + 1 <= h[L] PROVE FALSE
      BY Zenon
    <2>1. Price(whole + 1) <= Price(h[L])
      BY <1>1, <1>5, Prices
    <2>2. Price(h[L]) <= b
      BY <1>4, Zenon DEF Price, b
    <2> QED BY <1>3, <1>5, <1>6, <2>1, <2>2
  <1> QED BY <1>1, <1>5, <1>7 DEF whole, b
-------------------------------------------------------------------------------
(* The in-memory store.                                                    *)

\* A sleeping request's key is in the map, with a debt its sleep is covered by.
Queued ==
    \A r \in Requests : waiting[r] # None =>
        waiting[r] \in tracked /\ delay[r] <= -level[waiting[r]]

\* A bucket is full, or in the map and refilled since its key was last seen.
RefilledSinceSeen ==
    \A k \in Keys : level[k] = Burst \/ (k \in tracked /\ level[k] >= idle[k] - MaxDebt)

LimiterInv == TypeOK /\ Queued /\ RefilledSinceSeen

-------------------------------------------------------------------------------

\* Neither cleanup nor eviction forgets a key somebody waits for.
LEMMA WaitersKeepTheirKey ==
    ASSUME LimiterInv, NEW k \in Keys, NEW S \in Survivors(k),
           NEW r \in Requests, waiting[r] # None
    PROVE  waiting[r] \in S
  <1> DEFINE w == waiting[r]
  <1>1. w \in tracked /\ w \in Keys /\ level[w] \in Int /\ delay[r] \in Nat /\ level[w] <= 0
    <2>1. /\ w \in tracked /\ w \in Keys /\ level[w] \in (-MaxDebt)..Burst
          /\ delay[r] \in 0..MaxDebt /\ delay[r] <= -level[w]
      BY Zenon DEF LimiterInv, TypeOK, Queued
    <2> HIDE DEF w
    <2> QED BY <2>1, Amounts
  <1>2. idle[w] <= EffectiveTtl
    <2>1. EffectiveTtl \in Nat /\ idle[w] \in Nat /\ MaxDebt \in Nat
      BY <1>1, LimiterConstants DEF EffectiveTtl, LimiterInv, TypeOK
    <2>2. level[w] >= idle[w] - MaxDebt
      BY <1>1, LimiterConstants DEF LimiterInv, RefilledSinceSeen
    <2> QED BY <1>1, <2>1, <2>2, DebtIsKept
  <1>3. w \in Cleaned
    BY <1>1, <1>2, Zenon DEF Cleaned
  <1>4. w \notin Victims(k)
    <2>1. EffectiveTtl \in Nat /\ idle[w] \in Nat
      BY <1>1, LimiterConstants DEF EffectiveTtl, LimiterInv, TypeOK
    <2>2. ~(idle[w] > EffectiveTtl)
      BY <1>2, <2>1
    <2> QED BY <2>2, Zenon DEF Victims, Oldest
  <1> QED BY <1>3, <1>4, Zenon DEF Survivors

\* The keys that survive are keys of the map.
LEMMA SurvivorsAreTracked ==
    ASSUME NEW k \in Keys, NEW S \in Survivors(k)
    PROVE  S \subseteq tracked
  BY Zenon DEF Survivors, Cleaned

\* take() keeps the invariant.
LEMMA TakeKeeps ==
    ASSUME LimiterInv, NEW r \in Requests, NEW k \in Keys, Take(r, k)
    PROVE  LimiterInv'
  <1> PICK S \in Survivors(k) :
        LET tokens == Taken(IF k \in S THEN level[k] ELSE Burst) IN
        /\ tracked' = S \cup {k}
        /\ level' = [j \in Keys |-> IF j = k THEN tokens ELSE IF j \in S THEN level[j] ELSE Burst]
        /\ IF DelayOf(tokens) = 0
           THEN sent' = Sent(k) /\ UNCHANGED <<waiting, delay>>
           ELSE /\ waiting' = [waiting EXCEPT ![r] = k]
                /\ delay' = [delay EXCEPT ![r] = DelayOf(tokens)]
                /\ UNCHANGED sent
    BY Zenon DEF Take
  <1> DEFINE tokens == Taken(IF k \in S THEN level[k] ELSE Burst)
  <1>1. tokens \in (-MaxDebt)..Burst /\ DelayOf(tokens) \in 0..MaxDebt
    <2>1. level[k] \in (-MaxDebt)..Burst /\ level[k] - Cost >= -MaxDebt
      BY Zenon DEF LimiterInv, TypeOK, Take
    <2>2. tokens = level[k] - Cost \/ tokens = Burst - Cost
      BY Zenon DEF Taken
    <2>3. tokens \in (-MaxDebt)..Burst
      BY <2>1, <2>2, LimiterConstants
    <2> QED BY <2>3, LimiterConstants DEF DelayOf
  <1>2. S \subseteq tracked
    BY SurvivorsAreTracked, Zenon
  <1>3. sent' \in [Keys -> [0..Horizon -> Nat]]
    <2>1. Counted(sent[k]) \in [0..Horizon -> Nat]
      <3>1. sent[k] \in [0..Horizon -> Nat]
        BY Zenon DEF LimiterInv, TypeOK
      <3> QED BY <3>1, Histories, Zenon
    <2>2. Sent(k) \in [Keys -> [0..Horizon -> Nat]]
      BY <2>1, Zenon DEF LimiterInv, TypeOK, Sent
    <2> QED BY <2>2, Zenon DEF LimiterInv, TypeOK
  <1>4. TypeOK'
    <2>1. level' \in [Keys -> (-MaxDebt)..Burst]
      <3>1. Burst \in (-MaxDebt)..Burst
        BY LimiterConstants
      <3> QED BY <1>1, <3>1, Zenon DEF LimiterInv, TypeOK
    <2>2. tracked' \subseteq Keys
      BY <1>2, Zenon DEF LimiterInv, TypeOK
    <2>3. idle' \in [Keys -> 0..IdleCap] /\ cleanupIn' \in 0..CleanupInterval
      <3>0. 0 \in 0..IdleCap /\ CleanupInterval \in 0..CleanupInterval
        BY LimiterConstants
      <3>1. idle \in [Keys -> 0..IdleCap] /\ idle' = [idle EXCEPT ![k] = 0]
        BY Zenon DEF LimiterInv, TypeOK, Take
      <3>2. cleanupIn \in 0..CleanupInterval /\ cleanupIn' \in {cleanupIn, CleanupInterval}
        BY Zenon DEF LimiterInv, TypeOK, Take
      <3> QED BY <3>0, <3>1, <3>2, Zenon
    <2>4. waiting' \in [Requests -> Keys \cup {None}] /\ delay' \in [Requests -> 0..MaxDebt]
      BY <1>1, Zenon DEF LimiterInv, TypeOK
    <2> QED BY <1>3, <2>1, <2>2, <2>3, <2>4, Zenon DEF TypeOK
  <1>5. Queued'
    <2> SUFFICES ASSUME NEW s \in Requests, waiting'[s] # None
                 PROVE  waiting'[s] \in tracked' /\ delay'[s] <= -level'[waiting'[s]]
      BY Zenon DEF Queued
    <2>1. CASE waiting'[s] = waiting[s] /\ delay'[s] = delay[s]
      <3>1. waiting[s] \in S /\ waiting[s] \in Keys
        BY <2>1, WaitersKeepTheirKey, <1>2, Zenon DEF LimiterInv, TypeOK
      <3>2. level'[waiting[s]] <= level[waiting[s]]
        <4>1. \A n \in Int : n <= n /\ Taken(n) <= n
          BY Amounts DEF Taken
        <4>2. level[waiting[s]] \in Int
          BY <3>1, Amounts DEF LimiterInv, TypeOK
        <4>3. level'[waiting[s]] \in {level[waiting[s]], Taken(level[waiting[s]])}
          BY <3>1, Zenon
        <4> QED BY <4>1, <4>2, <4>3, Zenon
      <3>3. level'[waiting[s]] \in Int /\ level[waiting[s]] \in Int /\ delay[s] \in Int
        <4>1. level' \in [Keys -> (-MaxDebt)..Burst] /\ level \in [Keys -> (-MaxDebt)..Burst]
          BY <1>4, Zenon DEF LimiterInv, TypeOK
        <4>2. delay \in [Requests -> 0..MaxDebt]
          BY Zenon DEF LimiterInv, TypeOK
        <4> QED BY <3>1, <4>1, <4>2, Amounts
      <3>4. delay[s] <= -level[waiting[s]]
        BY <2>1, Zenon DEF LimiterInv, Queued
      <3>5. delay[s] <= -level'[waiting[s]] /\ waiting[s] \in tracked'
        BY <3>1, <3>2, <3>3, <3>4
      <3> QED BY <2>1, <3>5
    <2>2. CASE s = r /\ DelayOf(tokens) # 0
      <3>1. waiting'[s] = k /\ delay'[s] = DelayOf(tokens)
        BY <2>2, Zenon DEF LimiterInv, TypeOK
      <3>2. level'[k] = tokens /\ k \in tracked'
        BY Zenon
      <3>3. tokens \in Int /\ DelayOf(tokens) <= -tokens
        BY <1>1, <2>2, Amounts DEF DelayOf
      <3> QED BY <3>1, <3>2, <3>3, Zenon
    <2> QED BY <2>1, <2>2, Zenon DEF LimiterInv, TypeOK
  <1>6. RefilledSinceSeen'
    <2> SUFFICES ASSUME NEW j \in Keys
                 PROVE  level'[j] = Burst \/ (j \in tracked' /\ level'[j] >= idle'[j] - MaxDebt)
      BY Zenon DEF RefilledSinceSeen
    <2>1. CASE j = k
      <3>1. level'[k] = tokens /\ k \in tracked' /\ idle'[k] = 0
        BY Zenon DEF Take, LimiterInv, TypeOK
      <3>2. tokens >= 0 - MaxDebt
        BY <1>1, Amounts
      <3> QED BY <2>1, <3>1, <3>2, Zenon
    <2>2. CASE j # k /\ j \in S
      BY <2>2, <1>2, Zenon DEF Take, LimiterInv, TypeOK, RefilledSinceSeen
    <2>3. CASE j # k /\ j \notin S
      BY <2>3, Zenon
    <2> QED BY <2>1, <2>2, <2>3, Zenon
  <1> QED BY <1>4, <1>5, <1>6, Zenon DEF LimiterInv

\* The end of a sleep, a dropped one and the passing of time keep it.
LEMMA WaitKeeps ==
    ASSUME LimiterInv, Tick \/ \E r \in Requests : Wake(r) \/ Cancel(r)
    PROVE  LimiterInv'
  <1>1. CASE Tick
    <2>1. sent' \in [Keys -> [0..Horizon -> Nat]]
      <3>1. \A k \in Keys : Older(sent[k]) \in [0..Horizon -> Nat]
        BY Histories, Zenon DEF LimiterInv, TypeOK
      <3> QED BY <1>1, <3>1, Zenon DEF Tick
    <2>2. TypeOK'
      <3>1. level' \in [Keys -> (-MaxDebt)..Burst]
        <4>1. \A n \in (-MaxDebt)..Burst : Refilled(n) \in (-MaxDebt)..Burst
          BY Amounts DEF Refilled
        <4> QED BY <1>1, <4>1, Zenon DEF LimiterInv, TypeOK, Tick
      <3>2. idle' \in [Keys -> 0..IdleCap] /\ cleanupIn' \in 0..CleanupInterval
        <4>1. \A n \in 0..IdleCap : (IF n < IdleCap THEN n + 1 ELSE n) \in 0..IdleCap
          BY LimiterConstants
        <4>2. \A n \in 0..CleanupInterval : Down(n) \in 0..CleanupInterval
          BY LimiterConstants DEF Down
        <4> QED BY <1>1, <4>1, <4>2, Zenon DEF LimiterInv, TypeOK, Tick
      <3>3. delay' \in [Requests -> 0..MaxDebt]
        <4>1. \A n \in 0..MaxDebt : Down(n) \in 0..MaxDebt
          BY Amounts DEF Down
        <4> QED BY <1>1, <4>1, Zenon DEF LimiterInv, TypeOK, Tick
      <3> QED BY <1>1, <2>1, <3>1, <3>2, <3>3, Zenon DEF LimiterInv, TypeOK, Tick
    <2>3. Queued'
      <3> SUFFICES ASSUME NEW r \in Requests, waiting[r] # None
                   PROVE  waiting[r] \in tracked /\ delay'[r] <= -level'[waiting[r]]
        BY <1>1, Zenon DEF Queued, Tick
      <3> DEFINE w == waiting[r]
      <3>1. w \in tracked /\ w \in Keys /\ level[w] \in (-MaxDebt)..Burst /\ delay[r] \in 0..MaxDebt
        BY Zenon DEF LimiterInv, TypeOK, Queued
      <3>2. /\ level'[w] = Refilled(level[w]) /\ delay'[r] = Down(delay[r])
            /\ delay[r] > 0 /\ delay[r] <= -level[w]
        BY <1>1, <3>1, Zenon DEF Tick, LimiterInv, Queued
      <3> HIDE DEF w
      <3>3. Down(delay[r]) <= -Refilled(level[w])
        BY <3>1, <3>2, Amounts DEF Refilled, Down
      <3> QED BY <3>1, <3>2, <3>3 DEF w
    <2>4. RefilledSinceSeen'
      <3> SUFFICES ASSUME NEW k \in Keys
                   PROVE  level'[k] = Burst \/ (k \in tracked /\ level'[k] >= idle'[k] - MaxDebt)
        BY <1>1, Zenon DEF RefilledSinceSeen, Tick
      <3>1. /\ level[k] \in (-MaxDebt)..Burst /\ idle[k] \in 0..IdleCap
            /\ level[k] = Burst \/ (k \in tracked /\ level[k] >= idle[k] - MaxDebt)
        BY Zenon DEF LimiterInv, TypeOK, RefilledSinceSeen
      <3>2. /\ level'[k] = IF k \in tracked THEN Refilled(level[k]) ELSE level[k]
            /\ idle'[k] = IF idle[k] < IdleCap THEN idle[k] + 1 ELSE idle[k]
        BY <1>1, Zenon DEF Tick
      <3>3. IdleCap \in Nat
        BY LimiterConstants
      <3> QED BY <3>1, <3>2, <3>3, Amounts DEF Refilled
    <2> QED BY <2>2, <2>3, <2>4, Zenon DEF LimiterInv
  <1>2. ASSUME NEW r \in Requests, Wake(r) PROVE LimiterInv'
    <2>1. sent' \in [Keys -> [0..Horizon -> Nat]]
      <3>1. waiting[r] \in Keys /\ Counted(sent[waiting[r]]) \in [0..Horizon -> Nat]
        BY <1>2, Histories, Zenon DEF LimiterInv, TypeOK, Wake
      <3> QED BY <1>2, <3>1, Zenon DEF LimiterInv, TypeOK, Wake, Sent
    <2> QED BY <1>2, <2>1, LimiterConstants, Zenon DEF LimiterInv, TypeOK, Queued,
            RefilledSinceSeen, Wake
  <1>3. ASSUME NEW r \in Requests, Cancel(r) PROVE LimiterInv'
    <2>1. TypeOK'
      <3>1. 0 \in 0..MaxDebt
        BY Amounts
      <3> QED BY <1>3, <3>1, Zenon DEF LimiterInv, TypeOK, Cancel
    <2>2. Queued'
      BY <1>3, Zenon DEF LimiterInv, TypeOK, Queued, Cancel
    <2>3. RefilledSinceSeen'
      BY <1>3, Zenon DEF LimiterInv, RefilledSinceSeen, Cancel
    <2> QED BY <2>1, <2>2, <2>3, Zenon DEF LimiterInv
  <1> QED BY <1>1, <1>2, <1>3, Zenon

\* The invariant holds before the first request.
THEOREM LimiterInit == Init => LimiterInv
  BY LimiterConstants DEF Init, LimiterInv, TypeOK, Queued, RefilledSinceSeen

\* Every step keeps it.
THEOREM LimiterStep == LimiterInv /\ [Next]_vars => LimiterInv'
  <1> SUFFICES ASSUME LimiterInv, [Next]_vars PROVE LimiterInv'
    BY Zenon
  <1>1. CASE UNCHANGED vars
    BY <1>1, Zenon DEF vars, LimiterInv, TypeOK, Queued, RefilledSinceSeen
  <1> QED BY <1>1, TakeKeeps, WaitKeeps, Zenon DEF Next

\* The inductive invariant holds in every behaviour.
THEOREM LimiterInvariant == Spec => []LimiterInv
  BY LimiterInit, LimiterStep, PTL DEF Spec

\* Buckets stay between the debt followed and burst, delays within that debt.
THEOREM LimiterTypeOK == Spec => []TypeOK
  <1>1. LimiterInv => TypeOK
    BY Zenon DEF LimiterInv
  <1> QED BY <1>1, LimiterInvariant, PTL

\* No request overtakes one of its key that is already waiting in take()'s debt.
THEOREM InOrder == Spec => NoOvertaking
  <1>1. LimiterInv /\ [Next]_vars =>
          [\A k \in Keys :
             LET ahead == {s \in Requests : waiting[s] = k /\ waiting'[s] = k} IN
             /\ sent'[k][0] > sent[k][0] /\ waiting' = waiting => ahead = {}
             /\ \A r \in Requests : waiting[r] = None /\ waiting'[r] = k =>
                  \A s \in ahead : delay[s] + Cost <= delay'[r]]_vars
    <2> SUFFICES ASSUME LimiterInv, Next, NEW k \in Keys
                 PROVE
             LET ahead == {s \in Requests : waiting[s] = k /\ waiting'[s] = k} IN
             /\ sent'[k][0] > sent[k][0] /\ waiting' = waiting => ahead = {}
             /\ \A r \in Requests : waiting[r] = None /\ waiting'[r] = k =>
                  \A s \in ahead : delay[s] + Cost <= delay'[r]
      BY Zenon
    <2>1. ASSUME NEW q \in Requests, NEW j \in Keys, Take(q, j),
                 NEW s \in Requests, waiting[s] = k, waiting'[s] = k
          PROVE  /\ ~(sent'[k][0] > sent[k][0] /\ waiting' = waiting)
                 /\ \A r \in Requests : waiting[r] = None /\ waiting'[r] = k =>
                      delay[s] + Cost <= delay'[r]
      <3> PICK S \in Survivors(j) :
            LET tokens == Taken(IF j \in S THEN level[j] ELSE Burst) IN
            IF DelayOf(tokens) = 0
            THEN sent' = Sent(j) /\ UNCHANGED <<waiting, delay>>
            ELSE /\ waiting' = [waiting EXCEPT ![q] = j]
                 /\ delay' = [delay EXCEPT ![q] = DelayOf(tokens)]
                 /\ UNCHANGED sent
        BY <2>1, Zenon DEF Take
      <3>1. k \in S /\ k # None
        BY <2>1, WaitersKeepTheirKey, LimiterConstants
      <3>2. level[k] \in Int /\ delay[s] \in Nat /\ delay[s] <= -level[k]
        BY <2>1, <3>1, LimiterConstants DEF LimiterInv, TypeOK, Queued
      <3>3. CASE j = k
        <4>1. DelayOf(Taken(level[k])) = Cost - level[k] /\ DelayOf(Taken(level[k])) # 0
          BY <3>2, LimiterConstants DEF DelayOf, Taken
        <4>2. /\ waiting' = [waiting EXCEPT ![q] = k] /\ UNCHANGED sent
              /\ delay' = [delay EXCEPT ![q] = Cost - level[k]]
          BY <3>1, <3>3, <4>1, Zenon
        <4>3. ~(sent'[k][0] > sent[k][0])
          <5>1. sent[k][0] \in Nat
            BY Amounts DEF LimiterInv, TypeOK
          <5>2. \A n \in Nat : ~(n > n)
            OBVIOUS
          <5> QED BY <4>2, <5>1, <5>2, Zenon
        <4>4. ASSUME NEW r \in Requests, waiting[r] = None, waiting'[r] = k
              PROVE  delay[s] + Cost <= delay'[r]
          <5>1. r = q
            BY <3>1, <4>2, <4>4, Zenon DEF LimiterInv, TypeOK
          <5> QED BY <3>2, <4>2, <5>1, LimiterConstants DEF LimiterInv, TypeOK
        <4> QED BY <4>3, <4>4, Zenon
      <3>4. CASE j # k
        <4>1. sent'[k] = sent[k]
          BY <3>4, Zenon DEF Sent, LimiterInv, TypeOK
        <4>2. ~(sent'[k][0] > sent[k][0])
          BY <4>1, LimiterConstants DEF LimiterInv, TypeOK
        <4>3. \A r \in Requests : waiting[r] = None => waiting'[r] # k
          BY <3>1, <3>4, Zenon DEF LimiterInv, TypeOK
        <4> QED BY <4>2, <4>3, Zenon
      <3> QED BY <3>3, <3>4, Zenon
    <2>2. ASSUME Tick \/ \E q \in Requests : Wake(q) \/ Cancel(q)
          PROVE  /\ ~(sent'[k][0] > sent[k][0] /\ waiting' = waiting)
                 /\ \A r \in Requests : waiting[r] = None => waiting'[r] # k
      <3>1. sent[k][0] \in Nat /\ k # None
        BY LimiterConstants DEF LimiterInv, TypeOK
      <3>2. CASE Tick
        <4>1. sent'[k][0] = 0 /\ waiting' = waiting
          BY <3>2, Amounts DEF Tick, Older
        <4> QED BY <3>1, <4>1
      <3>3. CASE \E q \in Requests : Wake(q)
        BY <3>1, <3>3, Zenon DEF Wake, LimiterInv, TypeOK
      <3>4. CASE \E q \in Requests : Cancel(q)
        BY <3>1, <3>4, Zenon DEF Cancel, LimiterInv, TypeOK
      <3> QED BY <2>2, <3>2, <3>3, <3>4, Zenon
    <2> QED BY <2>1, <2>2, Zenon DEF Next
  <1> QED BY <1>1, LimiterInvariant, PTL DEF Spec, NoOvertaking

\* The requests that sleep for a key.
Waiters(k) == {r \in Requests : waiting[r] = k}

\* Every bucket keeps its schedule; a sleep ends in the tick it is due.
Scheduled == \A k \in Keys : Schedule(Waiters(k), delay, level[k], sent[k], 0)

\* What the schedules are made of.
LEMMA ScheduleTypes ==
    ASSUME LimiterInv, NEW k \in Keys
    PROVE  /\ IsFiniteSet(Waiters(k)) /\ k # None
           /\ level[k] \in Int /\ level[k] <= Burst
           /\ sent[k] \in [0..Horizon -> Nat]
           /\ \A r \in Requests : delay[r] \in Int /\ delay[r] >= 0
           /\ \A r \in Waiters(k) : delay[r] \in Int /\ delay[r] >= 0
  <1>1. Waiters(k) \in SUBSET Requests
    BY Zenon DEF Waiters
  <1>2. IsFiniteSet(Waiters(k))
    BY <1>1, LimiterConstants, FS_Subset, Zenon
  <1>3. level[k] \in (-MaxDebt)..Burst /\ \A r \in Requests : delay[r] \in 0..MaxDebt
    BY Zenon DEF LimiterInv, TypeOK
  <1>4. k # None /\ sent[k] \in [0..Horizon -> Nat]
    BY LimiterConstants, Zenon DEF LimiterInv, TypeOK
  <1>5. level[k] \in Int /\ level[k] <= Burst /\ \A r \in Requests : delay[r] \in Int /\ delay[r] >= 0
    BY <1>3, Amounts
  <1> QED BY <1>1, <1>2, <1>4, <1>5, Zenon

\* Cleanup and eviction forget full buckets only, if the deepest debt and a whole bucket
\* are refilled by the time a key counts as idle.
LEMMA ForgottenAreFull ==
    ASSUME LimiterInv, MaxDebt + Burst <= EffectiveTtl + 1,
           NEW k \in Keys, NEW S \in Survivors(k), NEW j \in Keys, j \notin S
    PROVE  level[j] = Burst
  <1>1. level[j] \in Int /\ level[j] <= Burst /\ idle[j] \in Nat /\ EffectiveTtl \in Nat /\ MaxDebt \in Nat
        /\ Burst \in Nat
    BY LimiterConstants DEF LimiterInv, TypeOK, EffectiveTtl
  <1>2. CASE j \notin tracked
    BY <1>2, Zenon DEF LimiterInv, RefilledSinceSeen
  <1>3. CASE j \in tracked
    <2>1. idle[j] > EffectiveTtl
      <3>1. CASE j \notin Cleaned
        BY <1>1, <1>3, <3>1 DEF Cleaned
      <3>2. CASE j \in Cleaned
        <4>1. j \in Victims(k)
          BY <3>2, Zenon DEF Survivors
        <4> QED BY <4>1, Zenon DEF Victims, Oldest
      <3> QED BY <3>1, <3>2, Zenon
    <2>2. level[j] = Burst \/ level[j] >= idle[j] - MaxDebt
      BY Zenon DEF LimiterInv, RefilledSinceSeen
    <2> QED BY <1>1, <2>1, <2>2
  <1> QED BY <1>2, <1>3, Zenon

\* take() keeps the schedule of its key and of the others.
LEMMA TakeScheduled ==
    ASSUME LimiterInv, Scheduled, MaxDebt + Burst <= EffectiveTtl + 1,
           NEW r \in Requests, NEW k \in Keys, Take(r, k)
    PROVE  Scheduled'
  <1> PICK S \in Survivors(k) :
        LET tokens == Taken(IF k \in S THEN level[k] ELSE Burst) IN
        /\ level' = [j \in Keys |-> IF j = k THEN tokens ELSE IF j \in S THEN level[j] ELSE Burst]
        /\ IF DelayOf(tokens) = 0
           THEN sent' = Sent(k) /\ UNCHANGED <<waiting, delay>>
           ELSE /\ waiting' = [waiting EXCEPT ![r] = k]
                /\ delay' = [delay EXCEPT ![r] = DelayOf(tokens)]
                /\ UNCHANGED sent
    BY Zenon DEF Take
  <1> DEFINE tokens == Taken(level[k])
  <1>1. level' = [level EXCEPT ![k] = tokens]
    <2>1. \A j \in Keys : j \notin S => level[j] = Burst
      BY ForgottenAreFull, Zenon
    <2>2. level = [j \in Keys |-> level[j]]
      BY Zenon DEF LimiterInv, TypeOK
    <2> QED BY <2>1, <2>2, Zenon
  <1>2. IF DelayOf(tokens) = 0
        THEN sent' = Sent(k) /\ UNCHANGED <<waiting, delay>>
        ELSE /\ waiting' = [waiting EXCEPT ![r] = k]
             /\ delay' = [delay EXCEPT ![r] = DelayOf(tokens)]
             /\ UNCHANGED sent
    BY ForgottenAreFull, Zenon
  <1>3. /\ waiting[r] = None /\ k # None /\ DOMAIN level = Keys /\ DOMAIN sent = Keys
        /\ DOMAIN waiting = Requests /\ DOMAIN delay = Requests
    BY LimiterConstants, Zenon DEF Take, LimiterInv, TypeOK
  <1>4. ASSUME NEW j \in Keys, j # k
        PROVE  Schedule(Waiters(j), delay, level[j], sent[j], 0)'
    <2>1. Waiters(j)' = Waiters(j) /\ r \notin Waiters(j) /\ j # None
      BY <1>2, <1>3, <1>4, LimiterConstants, Zenon DEF Waiters
    <2>2. level'[j] = level[j] /\ sent'[j] = sent[j]
      BY <1>1, <1>2, <1>3, <1>4, Zenon DEF Sent
    <2>3. \A c \in Waiters(j) : delay[c] = delay'[c]
      BY <1>2, <1>3, <2>1, Zenon DEF Waiters
    <2>4. Schedule(Waiters(j), delay, level[j], sent[j], 0)
      BY Zenon DEF Scheduled
    <2>5. Schedule(Waiters(j), delay', level[j], sent[j], 0)
      BY <2>3, <2>4, SameDue, Zenon
    <2> QED BY <2>1, <2>2, <2>5, Zenon
  <1>5. Schedule(Waiters(k), delay, level[k], sent[k], 0)'
    <2> DEFINE W == Waiters(k)
               m == [delay EXCEPT ![r] = DelayOf(tokens)]
    <2>1. r \notin W /\ m[r] = DelayOf(tokens) /\ \A c \in W : m[c] = delay[c]
      BY <1>3, Zenon DEF Waiters
    <2>2. /\ IsFiniteSet(W) /\ level[k] \in Int /\ sent[k] \in [0..Horizon -> Nat]
          /\ \A c \in W : delay[c] \in Int
      BY ScheduleTypes, Zenon
    <2>3. Schedule(W, delay, level[k], sent[k], 0)
      BY Zenon DEF Scheduled
    <2>4. Schedule(W \cup {r}, m, tokens, sent[k], 0)
      <3> HIDE DEF W, m
      <3>1. \A c \in W : delay[c] \in Int /\ m[c] = delay[c]
        BY <2>1, <2>2, Zenon
      <3>2. m[r] = DelayOf(Taken(level[k])) /\ 0 \in Nat
        BY <2>1, Zenon
      <3> QED BY <2>1, <2>2, <2>3, <3>1, <3>2, Taking, Zenon
    <2>5. level'[k] = tokens
      BY <1>1, <1>3, Zenon
    <2>6. CASE DelayOf(tokens) # 0
      <3>1. Waiters(k)' = W \cup {r} /\ delay' = m /\ sent'[k] = sent[k]
        BY <1>2, <1>3, <2>6, Zenon DEF Waiters
      <3> QED BY <2>4, <2>5, <3>1, Zenon
    <2>7. CASE DelayOf(tokens) = 0
      <3>1. Waiters(k)' = W /\ delay' = delay /\ sent'[k] = Counted(sent[k])
        BY <1>2, <1>3, <2>7, Zenon DEF Waiters, Sent
      <3>2. Schedule((W \cup {r}) \ {r}, m, tokens, Counted(sent[k]), 0)
        <4>1. IsFiniteSet(W \cup {r}) /\ r \in W \cup {r}
          BY <2>2, FS_AddElement, Zenon
        <4>2. tokens \in Int /\ 0 \in Nat /\ m[r] <= 0 /\ \A c \in W \cup {r} : m[c] \in Int
          <5>1. tokens \in Int
            BY <2>2, Arithmetic, Zenon
          <5>2. m[r] = 0
            BY <2>1, <2>7, Zenon
          <5>3. 0 \in Nat /\ 0 \in Int /\ 0 <= 0
            OBVIOUS
          <5> HIDE DEF W, m, tokens
          <5> QED BY <2>1, <2>2, <5>1, <5>2, <5>3, Zenon
        <4> HIDE DEF W, m, tokens
        <4> QED BY <2>2, <2>4, <4>1, <4>2, Serving, Zenon
      <3>3. (W \cup {r}) \ {r} = W
        BY <2>1, Zenon
      <3>4. Schedule(W, m, tokens, Counted(sent[k]), 0)
        BY <3>2, <3>3, Zenon
      <3>5. Schedule(W, delay, tokens, Counted(sent[k]), 0)
        <4> HIDE DEF W, m, tokens
        <4> QED BY <2>1, <3>4, SameDue, Zenon
      <3> QED BY <2>5, <3>1, <3>5, Zenon
    <2> QED BY <2>6, <2>7, Zenon
  <1> QED BY <1>4, <1>5, Zenon DEF Scheduled

\* So do the end of a sleep and a dropped one.
LEMMA WakeScheduled ==
    ASSUME LimiterInv, Scheduled, NEW r \in Requests, Wake(r) \/ Cancel(r)
    PROVE  Scheduled'
  <1> SUFFICES ASSUME NEW k \in Keys
               PROVE  Schedule(Waiters(k), delay, level[k], sent[k], 0)'
    BY Zenon DEF Scheduled
  <1> DEFINE W == Waiters(k)
  <1>1. /\ IsFiniteSet(W) /\ level[k] \in Int /\ sent[k] \in [0..Horizon -> Nat] /\ k # None
        /\ 0 \in Nat /\ \A c \in W : delay[c] \in Int
    BY ScheduleTypes, Zenon
  <1>2. DOMAIN waiting = Requests /\ DOMAIN delay = Requests /\ DOMAIN sent = Keys
    BY Zenon DEF LimiterInv, TypeOK
  <1>3. Schedule(W, delay, level[k], sent[k], 0)
    BY Zenon DEF Scheduled
  <1>4. Waiters(k)' = W \ {r} /\ level' = level /\ W \ {r} \in SUBSET W
    BY <1>1, <1>2, Zenon DEF Waiters, Wake, Cancel
  <1>5. CASE Wake(r) /\ waiting[r] = k
    <2>1. sent'[k] = Counted(sent[k]) /\ delay' = delay /\ r \in W /\ delay[r] <= 0
      <3>1. sent'[k] = Counted(sent[k]) /\ delay' = delay /\ r \in W /\ delay[r] = 0
        BY <1>2, <1>5, Zenon DEF Wake, Sent, Waiters
      <3> QED BY <3>1
    <2>2. Schedule(W \ {r}, delay, level[k], Counted(sent[k]), 0)
      <3> HIDE DEF W
      <3> QED BY <1>1, <1>3, <2>1, Serving, Zenon
    <2> QED BY <1>4, <2>1, <2>2, Zenon
  <1>6. CASE Wake(r) /\ waiting[r] # k
    <2>1. sent'[k] = sent[k] /\ delay' = delay /\ W \ {r} = W
      BY <1>2, <1>6, Zenon DEF Wake, Sent, Waiters
    <2> QED BY <1>3, <1>4, <2>1, Zenon
  <1>7. CASE Cancel(r)
    <2>1. sent' = sent /\ \A c \in W \ {r} : delay[c] = delay'[c]
      BY <1>2, <1>7, Zenon DEF Cancel, Waiters
    <2>2. Schedule(W \ {r}, delay, level[k], sent[k], 0)
      <3> HIDE DEF W
      <3> QED BY <1>1, <1>3, <1>4, Dropping, Zenon
    <2>3. Schedule(W \ {r}, delay', level[k], sent[k], 0)
      <3> HIDE DEF W
      <3> QED BY <2>1, <2>2, SameDue, Zenon
    <2> QED BY <1>4, <2>1, <2>3, Zenon
  <1> QED BY <1>5, <1>6, <1>7, Zenon

\* So does the passing of time.
LEMMA TickScheduled ==
    ASSUME LimiterInv, Scheduled, Tick
    PROVE  Scheduled'
  <1> SUFFICES ASSUME NEW k \in Keys
               PROVE  Schedule(Waiters(k), delay, level[k], sent[k], 0)'
    BY Zenon DEF Scheduled
  <1> DEFINE W == Waiters(k)
  <1>1. /\ IsFiniteSet(W) /\ level[k] \in Int /\ level[k] <= Burst
        /\ sent[k] \in [0..Horizon -> Nat] /\ 0 \in Nat /\ k # None
    BY ScheduleTypes, Zenon
  <1>2. W' = W /\ sent'[k] = Older(sent[k])
    BY Zenon DEF Tick, Waiters
  <1>3. level'[k] = Refilled(level[k])
    <2>1. k \notin tracked => level[k] = Burst
      BY Zenon DEF LimiterInv, RefilledSinceSeen
    <2>2. level'[k] = IF k \in tracked THEN Refilled(level[k]) ELSE level[k]
      BY Zenon DEF Tick
    <2>3. Burst = Refilled(Burst)
      BY Amounts DEF Refilled
    <2> QED BY <2>1, <2>2, <2>3, Zenon
  <1>4. \A c \in W : delay[c] \in Int /\ delay[c] >= 1 - 0 /\ delay'[c] = delay[c] - 1
    <2> SUFFICES ASSUME NEW c \in W
                 PROVE  delay[c] \in Int /\ delay[c] >= 1 - 0 /\ delay'[c] = delay[c] - 1
      BY Zenon
    <2>1. c \in Requests /\ waiting[c] # None
      BY <1>1, Zenon DEF Waiters
    <2>2. delay[c] > 0 /\ delay'[c] = Down(delay[c])
      BY <2>1, Zenon DEF Tick
    <2>3. delay[c] \in Int
      BY ScheduleTypes, Zenon
    <2> QED BY <2>2, <2>3 DEF Down
  <1>5. Schedule(W, delay, level[k], sent[k], 0)
    BY Zenon DEF Scheduled
  <1>6. Schedule(W, delay', Refilled(level[k]), Older(sent[k]), 0)
    <2> HIDE DEF W
    <2> QED BY <1>1, <1>4, <1>5, Ticking, Zenon
  <1> QED BY <1>2, <1>3, <1>6, Zenon

\* An empty history with nobody waiting and a full bucket is a schedule.
LEMMA EmptySchedule ==
    ASSUME NEW n, NEW h \in [0..Horizon -> Nat], NEW late \in Nat, \A L \in 0..Horizon : h[L] = 0
    PROVE  Schedule({}, n, Burst, h, late)
  <1>1. \A d, e : Soon({}, n, d) = {} /\ Since({}, n, d) = {} /\ Within({}, n, e, d) = {}
    BY Zenon DEF Soon, Since, Within
  <1>2. Cardinality({}) = 0 /\ Price(0) = 0
    BY FS_EmptySet, Prices, Zenon
  <1>3. \A d, e : /\ Cardinality(Soon({}, n, d)) = 0
                  /\ Price(Cardinality(Since({}, n, d))) = 0
                  /\ Price(Cardinality(Within({}, n, e, d))) = 0
    BY <1>1, <1>2, Zenon
  <1>4. PaidFor({}, Burst, h, late)
    BY <1>2, LimiterConstants DEF PaidFor
  <1>5. PaidSince({}, n, Burst)
    BY <1>3, LimiterConstants DEF PaidSince
  <1>6. Conforming({}, n, h, late)
    BY <1>2, <1>3, LimiterConstants DEF Conforming
  <1>7. ConformingDue({}, n)
    BY <1>3, LimiterConstants DEF ConformingDue
  <1>8. Spaced({}, n)
    BY <1>3, LimiterConstants DEF Spaced
  <1> QED BY <1>4, <1>5, <1>6, <1>7, <1>8, Zenon DEF Schedule, Covered

\* The token bucket's contract: whatever mix of immediate, delayed and cancelled requests,
\* and of cleanup and eviction, every interval conforms to burst and rate, if idle_ttl (or
\* the refill horizon) leaves a key in the map until the deepest debt is paid back and
\* the bucket is full.
THEOREM ConformsToRate ==
    ASSUME MaxDebt + Burst <= EffectiveTtl + 1
    PROVE  Spec => []Conforms
  <1>1. Init => Scheduled
    <2> SUFFICES ASSUME Init, NEW k \in Keys
                 PROVE  Schedule(Waiters(k), delay, level[k], sent[k], 0)
      BY Zenon DEF Scheduled
    <2>1. Waiters(k) = {} /\ level[k] = Burst /\ 0 \in Nat
      BY LimiterConstants, Zenon DEF Init, Waiters
    <2>2. sent[k] \in [0..Horizon -> Nat] /\ \A L \in 0..Horizon : sent[k][L] = 0
      BY Zenon DEF Init
    <2> QED BY <2>1, <2>2, EmptySchedule, Zenon
  <1>2. LimiterInv /\ Scheduled /\ [Next]_vars => Scheduled'
    <2> SUFFICES ASSUME LimiterInv, Scheduled, [Next]_vars PROVE Scheduled'
      BY Zenon
    <2>1. CASE UNCHANGED vars
      BY <2>1, Zenon DEF vars, Scheduled, Waiters
    <2> QED BY <2>1, TakeScheduled, WakeScheduled, TickScheduled, Zenon DEF Next
  <1>3. LimiterInv /\ Scheduled => Conforms
    <2> SUFFICES ASSUME LimiterInv, Scheduled, NEW k \in Keys, NEW L \in 0..Horizon
                 PROVE  sent[k][L] <= (Burst + L) \div Cost
      BY Zenon DEF Conforms
    <2>1. /\ IsFiniteSet(Waiters(k)) /\ sent[k] \in [0..Horizon -> Nat] /\ 0 \in Nat
          /\ Schedule(Waiters(k), delay, level[k], sent[k], 0)
      BY ScheduleTypes, Zenon DEF Scheduled
    <2>2. sent[k][L] <= (Burst + L + 0) \div Cost
      BY <2>1, Conformance, Zenon
    <2>3. Burst + L + 0 = Burst + L
      BY LimiterConstants
    <2> QED BY <2>2, <2>3, Zenon
  <1> QED BY <1>1, <1>2, <1>3, LimiterInvariant, PTL DEF Spec

-------------------------------------------------------------------------------
(* The Redis store.                                                        *)

\* Whichever store the layer has, its in-memory store (the fallback of the Redis one)
\* behaves as module RateLimiter says: NoOvertaking holds of requests that fell back.
THEOREM LimiterEmbedded == RedisSpec => Spec
  <1>1. RedisInit => Init
    BY Zenon DEF RedisInit
  <1>2. [RedisNext]_allVars => [Next]_vars
    <2> SUFFICES ASSUME [RedisNext]_allVars PROVE [Next]_vars
      BY Zenon
    <2>1. ASSUME NEW r \in Requests, NEW k \in Keys, MemoryTake(r, k) PROVE Next
      BY <2>1, Zenon DEF MemoryTake, Next
    <2>2. ASSUME NEW r \in Requests, Wake(r) \/ Cancel(r) PROVE Next
      BY <2>2, Zenon DEF Next
    <2>3. ASSUME NEW r \in Requests, FallBack(r) PROVE Next
      BY <2>3, RedisLimiterConstants, Zenon DEF FallBack, Next
    <2>4. ASSUME NEW c \in Callers, RunScript(c) \/ Answer(c) \/ RedisWake(c) \/ RedisCancel(c)
          PROVE  UNCHANGED vars
      BY <2>4, Zenon DEF RunScript, Answer, RedisWake, RedisCancel
    <2>5. CASE RedisTick
      BY <2>5, Zenon DEF RedisTick, Next
    <2>6. CASE UNCHANGED allVars
      BY <2>6, Zenon DEF allVars
    <2> QED BY <2>1, <2>2, <2>3, <2>4, <2>5, <2>6, Zenon DEF RedisNext
  <1> QED BY <1>1, <1>2, PTL DEF RedisSpec, Spec

\* What is left of the hash's life is enough to refill it.
RefillsInLife ==
    /\ bucket \in Int /\ bucket <= Burst
    /\ life \in Nat /\ bucket >= Burst - life

\* Every step keeps it.
LEMMA RefillsStep ==
    ASSUME RefillsInLife, [RedisNext]_allVars
    PROVE  RefillsInLife'
  <1>1. ASSUME NEW c \in Callers, RunScript(c) PROVE RefillsInLife'
    BY <1>1, LimiterConstants, RedisLimiterConstants
    DEF RunScript, RefillsInLife, ScriptTokens, Taken, Lifetime
  <1>2. CASE RedisTick
    BY <1>2, LimiterConstants DEF RedisTick, RefillsInLife, Refilled, Down
  <1>3. CASE UNCHANGED shared
    BY <1>3, Zenon DEF shared, RefillsInLife
  <1>4. ASSUME NEW c \in Callers, Answer(c) \/ RedisWake(c) \/ RedisCancel(c)
        PROVE  UNCHANGED shared
    BY <1>4, Zenon DEF Answer, RedisWake, RedisCancel
  <1>5. ASSUME NEW r \in Requests, FallBack(r) \/ (Wake(r) /\ UNCHANGED redisVars)
                                     \/ (Cancel(r) /\ UNCHANGED redisVars)
        PROVE  UNCHANGED shared
    BY <1>5, Zenon DEF FallBack, redisVars
  <1>6. ASSUME NEW r \in Requests, NEW k \in Keys, MemoryTake(r, k) PROVE UNCHANGED shared
    BY <1>6, Zenon DEF MemoryTake, redisVars
  <1>7. CASE UNCHANGED allVars
    BY <1>7, <1>3, Zenon DEF allVars, redisVars
  <1> QED BY <1>1, <1>2, <1>3, <1>4, <1>5, <1>6, <1>7, Zenon DEF RedisNext

\* PEXPIRE with burst / rate plus 60 s, at every take(): the hash expires only with a
\* full bucket, and a missing one reads as full, so that expiry forgets no debt.
THEOREM NothingForgotten == RedisSpec => ExpiryForgetsNothing
  <1>1. RedisInit => RefillsInLife
    BY LimiterConstants DEF RedisInit, RefillsInLife
  <1>2. RefillsInLife /\ [RedisNext]_allVars => RefillsInLife'
    BY RefillsStep
  <1>3. RefillsInLife /\ RefillsInLife' /\ [RedisNext]_allVars =>
          [life > 0 /\ life' = 0 => Refilled(bucket) = Burst]_allVars
    <2> SUFFICES ASSUME RefillsInLife, RedisNext, life > 0, life' = 0
                 PROVE  Refilled(bucket) = Burst
      BY Zenon
    <2>1. ASSUME NEW c \in Callers, RunScript(c) PROVE FALSE
      BY <2>1, LimiterConstants, RedisLimiterConstants DEF RunScript, Lifetime
    <2>2. CASE RedisTick
      BY <2>2, LimiterConstants DEF RedisTick, RefillsInLife, Refilled, Down
    <2>3. ASSUME UNCHANGED shared PROVE FALSE
      BY <2>3 DEF shared, RefillsInLife
    <2>4. ASSUME NEW c \in Callers, Answer(c) \/ RedisWake(c) \/ RedisCancel(c) PROVE FALSE
      BY <2>3, <2>4, Zenon DEF Answer, RedisWake, RedisCancel
    <2>5. ASSUME NEW r \in Requests, FallBack(r) \/ (Wake(r) /\ UNCHANGED redisVars)
                                       \/ (Cancel(r) /\ UNCHANGED redisVars)
          PROVE  FALSE
      BY <2>3, <2>5, Zenon DEF FallBack, redisVars
    <2>6. ASSUME NEW r \in Requests, NEW k \in Keys, MemoryTake(r, k) PROVE FALSE
      BY <2>3, <2>6, Zenon DEF MemoryTake, redisVars
    <2> QED BY <2>1, <2>2, <2>4, <2>5, <2>6, Zenon DEF RedisNext
  <1> QED BY <1>1, <1>2, <1>3, PTL DEF RedisSpec, ExpiryForgetsNothing

\* What the Redis store's own variables range over, and what is left of the hash's life.
RedisInv == RedisTypeOK /\ RefillsInLife

\* A step that takes no part in the calls to Redis.
LEMMA ApartFromRedis ==
    ASSUME RedisNext,
           ~ \E c \in Callers : RunScript(c) \/ Answer(c) \/ RedisWake(c) \/ RedisCancel(c),
           ~ \E r \in Requests : FallBack(r), ~ RedisTick
    PROVE  UNCHANGED redisVars
  BY Zenon DEF RedisNext, MemoryTake

\* The tokens the script leaves: a missing hash was a full bucket.
LEMMA ScriptTakes ==
    ASSUME RefillsInLife
    PROVE  ScriptTokens = Taken(bucket)
  BY LimiterConstants DEF RefillsInLife, ScriptTokens, Taken

\* The types of the Redis store's variables are kept.
LEMMA RedisTypes ==
    ASSUME RedisInv, [RedisNext]_allVars
    PROVE  RedisTypeOK'
  <1> DEFINE State == [phase : {"idle", "answered", "asleep"}, delay : 0..MaxDebt, age : 0..MaxLatency]
  <1>0. /\ call \in [Callers -> State] /\ granted \in [0..Horizon -> Nat] /\ backend \in {"memory", "redis"}
        /\ failures \in 0..MaxFailures /\ bucket \in (-MaxDebt)..Burst /\ life \in 0..(Burst + Slack)
    BY Zenon DEF RedisInv, RedisTypeOK
  <1>1. Idle \in State
    BY LimiterConstants, RedisLimiterConstants DEF Idle
  <1>2. ASSUME NEW c \in Callers, RunScript(c) PROVE RedisTypeOK'
    <2>1. bucket' \in (-MaxDebt)..Burst /\ ScriptDelay \in 0..MaxDebt
      <3>1. ScriptTokens = bucket - Cost /\ ScriptTokens >= -MaxDebt /\ bucket' = ScriptTokens
        BY <1>2, ScriptTakes, Zenon DEF RunScript, RedisInv, Taken
      <3> QED BY <1>0, <3>1, LimiterConstants DEF ScriptDelay, DelayOf
    <2>2. life' \in 0..(Burst + Slack)
      BY <1>2, LimiterConstants, RedisLimiterConstants DEF RunScript, Lifetime
    <2>3. [phase |-> "answered", delay |-> ScriptDelay, age |-> 0] \in State
      BY <2>1, RedisLimiterConstants
    <2>4. call' \in [Callers -> State]
      BY <1>0, <1>2, <2>3, Zenon DEF RunScript
    <2> QED BY <1>0, <1>2, <2>1, <2>2, <2>4, Zenon DEF RunScript, RedisTypeOK
  <1>3. ASSUME NEW c \in Callers, Answer(c) \/ RedisWake(c) \/ RedisCancel(c) PROVE RedisTypeOK'
    <2>1. call' \in [Callers -> State]
      <3>1. CASE call' = [call EXCEPT ![c] = Idle]
        BY <1>0, <1>1, <3>1, Zenon
      <3>2. CASE call' = [call EXCEPT ![c].phase = "asleep"]
        BY <1>0, <3>2, Zenon
      <3> QED BY <1>3, <3>1, <3>2, Zenon DEF Answer, RedisWake, RedisCancel
    <2>2. granted' \in [0..Horizon -> Nat]
      BY <1>0, <1>3, Histories, Zenon DEF Answer, RedisWake, RedisCancel, Granted
    <2>3. UNCHANGED <<backend, bucket, life, failures>>
      BY <1>3, Zenon DEF Answer, RedisWake, RedisCancel, shared
    <2> QED BY <1>0, <2>1, <2>2, <2>3, Zenon DEF RedisTypeOK
  <1>4. ASSUME NEW r \in Requests, FallBack(r) PROVE RedisTypeOK'
    <2>1. call' \in [Callers -> State]
      BY <1>0, <1>1, <1>4, Zenon DEF FallBack
    <2>2. failures' \in 0..MaxFailures
      BY <1>0, <1>4, RedisLimiterConstants DEF FallBack
    <2>3. UNCHANGED <<backend, bucket, life, granted>>
      BY <1>4, Zenon DEF FallBack, shared
    <2> QED BY <1>0, <2>1, <2>2, <2>3, Zenon DEF RedisTypeOK
  <1>5. CASE RedisTick
    <2>1. call' \in [Callers -> State]
      <3> SUFFICES ASSUME NEW c \in Callers PROVE Aged(call[c]) \in State
        BY <1>5, Zenon DEF RedisTick
      <3>1. call[c] \in State /\ (call[c].phase = "answered" => call[c].age < MaxLatency)
        BY <1>0, <1>5, Zenon DEF RedisTick
      <3>2. Down(call[c].delay) \in 0..MaxDebt
        <4>1. call[c].delay \in 0..MaxDebt
          BY <3>1, Zenon
        <4> QED BY <4>1, Amounts DEF Down
      <3>3. (IF call[c].phase = "answered" THEN call[c].age + 1 ELSE call[c].age) \in 0..MaxLatency
        BY <3>1, RedisLimiterConstants
      <3> QED BY <3>1, <3>2, <3>3, Zenon DEF Aged
    <2>2. bucket' \in (-MaxDebt)..Burst /\ life' \in 0..(Burst + Slack)
      BY <1>0, <1>5, LimiterConstants, RedisLimiterConstants DEF RedisTick, Refilled, Down
    <2>3. granted' \in [0..Horizon -> Nat] /\ UNCHANGED <<backend, failures>>
      BY <1>0, <1>5, Histories, Zenon DEF RedisTick
    <2> QED BY <1>0, <2>1, <2>2, <2>3, Zenon DEF RedisTypeOK
  <1>6. CASE UNCHANGED redisVars
    BY <1>0, <1>6, Zenon DEF redisVars, shared, RedisTypeOK
  <1>7. CASE UNCHANGED allVars
    BY <1>6, <1>7, Zenon DEF allVars
  <1> QED BY <1>2, <1>3, <1>4, <1>5, <1>6, <1>7, ApartFromRedis, Zenon

\* The callers whose token is taken and who are not let through yet, and the ticks until
\* each is due: the delay counts from the script, not from its reply.
Pending == {c \in Callers : call[c].phase # "idle"}
DueIn   == [c \in Callers |-> call[c].delay - call[c].age]

\* The shared bucket keeps its schedule up to the latency of replies.
SharedScheduled == Schedule(Pending, DueIn, bucket, granted, MaxLatency)

\* What that schedule is made of.
LEMMA SharedTypes ==
    ASSUME RedisInv
    PROVE  /\ IsFiniteSet(Pending) /\ bucket \in Int /\ bucket <= Burst /\ MaxLatency \in Nat
           /\ granted \in [0..Horizon -> Nat] /\ DOMAIN call = Callers
           /\ \A c \in Callers : /\ DueIn[c] = call[c].delay - call[c].age
                                 /\ call[c].delay \in Nat /\ call[c].age \in Nat
                                 /\ call[c].age <= MaxLatency /\ DueIn[c] \in Int
           /\ \A c \in Pending : DueIn[c] \in Int
  <1>1. IsFiniteSet(Pending)
    <2>1. IsFiniteSet(Callers)
      BY FS_Union, LimiterConstants, RedisLimiterConstants, Zenon DEF Callers
    <2>2. Pending \in SUBSET Callers
      BY Zenon DEF Pending
    <2> QED BY <2>1, <2>2, FS_Subset, Zenon
  <1>2. bucket \in Int /\ bucket <= Burst /\ MaxLatency \in Nat /\ granted \in [0..Horizon -> Nat]
    BY RedisLimiterConstants, Zenon DEF RedisInv, RefillsInLife, RedisTypeOK
  <1>3. ASSUME NEW c \in Callers
        PROVE  /\ DueIn[c] = call[c].delay - call[c].age
               /\ call[c].delay \in Nat /\ call[c].age \in Nat
               /\ call[c].age <= MaxLatency /\ DueIn[c] \in Int
    <2>1. call[c].delay \in 0..MaxDebt /\ call[c].age \in 0..MaxLatency
      BY Zenon DEF RedisInv, RedisTypeOK
    <2>2. DueIn[c] = call[c].delay - call[c].age
      BY Zenon DEF DueIn
    <2>3. MaxLatency \in Nat
      BY RedisLimiterConstants
    <2> QED BY <2>1, <2>2, <2>3, Amounts
  <1> QED BY <1>1, <1>2, <1>3, Zenon DEF Pending, RedisInv, RedisTypeOK

\* A caller leaves: let through when it is due, or dropped.
LEMMA LeavesShared ==
    ASSUME RedisInv, SharedScheduled, NEW c \in Callers, call' = [call EXCEPT ![c] = Idle],
           UNCHANGED shared,
           \/ UNCHANGED granted
           \/ granted' = Granted /\ call[c].phase # "idle" /\ call[c].delay = 0
    PROVE  SharedScheduled'
  <1>1. /\ IsFiniteSet(Pending) /\ bucket \in Int /\ MaxLatency \in Nat
        /\ granted \in [0..Horizon -> Nat] /\ DOMAIN call = Callers
        /\ \A b \in Pending : DueIn[b] \in Int
    BY SharedTypes, Zenon
  <1>2. Pending' = Pending \ {c} /\ bucket' = bucket /\ Pending \ {c} \in SUBSET Pending
    BY <1>1, Zenon DEF Pending, Idle, shared
  <1>3. \A b \in Pending \ {c} : DueIn[b] = DueIn'[b]
    BY <1>1, Zenon DEF DueIn, Pending
  <1>4. Schedule(Pending \ {c}, DueIn, bucket, granted', MaxLatency)
    <2>1. CASE UNCHANGED granted
      <3>1. Schedule(Pending \ {c}, DueIn, bucket, granted, MaxLatency)
        BY <1>1, <1>2, Dropping, Zenon DEF SharedScheduled
      <3> QED BY <2>1, <3>1, Zenon
    <2>2. CASE granted' = Granted /\ call[c].phase # "idle" /\ call[c].delay = 0
      <3>1. c \in Pending /\ DueIn[c] <= 0
        <4>1. c \in Pending
          BY <2>2, Zenon DEF Pending
        <4>2. DueIn[c] = 0 - call[c].age /\ call[c].age \in Nat
          BY <2>2, SharedTypes
        <4> QED BY <4>1, <4>2
      <3>2. Schedule(Pending \ {c}, DueIn, bucket, Counted(granted), MaxLatency)
        BY <1>1, <3>1, Serving, Zenon DEF SharedScheduled
      <3> QED BY <2>2, <3>2, Zenon DEF Granted
    <2> QED BY <2>1, <2>2, Zenon
  <1>5. Schedule(Pending \ {c}, DueIn', bucket, granted', MaxLatency)
    BY <1>3, <1>4, SameDue, Zenon
  <1> QED BY <1>2, <1>5, Zenon DEF SharedScheduled

\* The script runs for a caller.
LEMMA ScriptScheduled ==
    ASSUME RedisInv, SharedScheduled, NEW c \in Callers, RunScript(c)
    PROVE  SharedScheduled'
  <1>1. /\ IsFiniteSet(Pending) /\ bucket \in Int /\ MaxLatency \in Nat
        /\ granted \in [0..Horizon -> Nat] /\ DOMAIN call = Callers
        /\ \A b \in Pending : DueIn[b] \in Int
    BY SharedTypes, Zenon
  <1>2. bucket' = Taken(bucket) /\ granted' = granted /\ call[c] = Idle
    BY ScriptTakes, Zenon DEF RunScript, RedisInv, Free
  <1>3. c \notin Pending /\ Pending' = Pending \cup {c}
    <2>1. call[c].phase = "idle"
      <3>1. Idle.phase = "idle"
        BY DEF Idle
      <3> QED BY <1>2, <3>1, Zenon
    <2>2. call'[c].phase = "answered" /\ \A b \in Callers \ {c} : call'[b] = call[b]
      BY <1>1, Zenon DEF RunScript
    <2> QED BY <2>1, <2>2 DEF Pending
  <1>4. \A b \in Pending : DueIn'[b] = DueIn[b]
    BY <1>1, <1>3, Zenon DEF DueIn, Pending, RunScript
  <1>5. DueIn'[c] = DelayOf(Taken(bucket))
    <2>1. call'[c].delay = DelayOf(Taken(bucket)) /\ call'[c].age = 0
      BY <1>1, ScriptTakes, Zenon DEF RunScript, RedisInv, ScriptDelay
    <2>2. DelayOf(Taken(bucket)) \in Int
      BY <1>1, Arithmetic, Zenon
    <2> QED BY <2>1, <2>2, Arithmetic, Zenon DEF DueIn
  <1>6. Schedule(Pending \cup {c}, DueIn', Taken(bucket), granted, MaxLatency)
    <2>1. \A b \in Pending : DueIn[b] \in Int /\ DueIn'[b] = DueIn[b]
      BY <1>1, <1>4, Zenon
    <2> QED BY <1>1, <1>3, <1>5, <2>1, Taking, Zenon DEF SharedScheduled
  <1> QED BY <1>2, <1>3, <1>6, Zenon DEF SharedScheduled

\* Time passes, and the hash may expire.
LEMMA TickShared ==
    ASSUME RedisInv, SharedScheduled, RedisTick
    PROVE  SharedScheduled'
  <1>1. /\ IsFiniteSet(Pending) /\ bucket \in Int /\ bucket <= Burst /\ MaxLatency \in Nat
        /\ granted \in [0..Horizon -> Nat]
    BY SharedTypes, Zenon
  <1>2. bucket' = Refilled(bucket)
    <2>1. bucket' = IF life <= 1 THEN Burst ELSE Refilled(bucket)
      BY Zenon DEF RedisTick
    <2>2. bucket <= Burst /\ life \in Nat /\ bucket >= Burst - life
      BY Zenon DEF RedisInv, RefillsInLife
    <2> QED BY <1>1, <2>1, <2>2, Amounts DEF Refilled
  <1>3. Pending' = Pending /\ granted' = Older(granted)
    BY Zenon DEF Pending, RedisTick, Aged
  <1>4. \A c \in Pending : DueIn[c] \in Int /\ DueIn[c] >= 1 - MaxLatency /\ DueIn'[c] = DueIn[c] - 1
    <2> SUFFICES ASSUME NEW c \in Pending
                 PROVE  DueIn[c] \in Int /\ DueIn[c] >= 1 - MaxLatency /\ DueIn'[c] = DueIn[c] - 1
      BY Zenon
    <2>1. /\ c \in Callers /\ DueIn[c] = call[c].delay - call[c].age
          /\ call[c].delay \in Nat /\ call[c].age \in Nat /\ call[c].age <= MaxLatency
      BY SharedTypes, Zenon DEF Pending
    <2>2. call[c].phase \in {"answered", "asleep"}
      BY <2>1, Zenon DEF Pending, RedisInv, RedisTypeOK
    <2>3. call'[c] = Aged(call[c]) /\ DueIn'[c] = call'[c].delay - call'[c].age
      BY <2>1, Zenon DEF RedisTick, DueIn
    <2>4. CASE call[c].phase = "answered"
      <3>1. call'[c].delay = call[c].delay /\ call'[c].age = call[c].age + 1
        <4>1. Aged(call[c]).delay = call[c].delay /\ Aged(call[c]).age = call[c].age + 1
          BY <2>4 DEF Aged
        <4> QED BY <2>3, <4>1, Zenon
      <3>2. call[c].age < MaxLatency
        BY <2>1, <2>4, Zenon DEF RedisTick
      <3>3. /\ call[c].delay - call[c].age \in Int /\ call[c].delay - call[c].age >= 1 - MaxLatency
            /\ call[c].delay - (call[c].age + 1) = (call[c].delay - call[c].age) - 1
        BY <1>1, <2>1, <3>2, Lateness, Zenon
      <3> QED BY <2>1, <2>3, <3>1, <3>3, Zenon
    <2>5. CASE call[c].phase = "asleep"
      <3>1. call'[c].delay = Down(call[c].delay) /\ call'[c].age = call[c].age
        <4>1. Aged(call[c]).delay = Down(call[c].delay) /\ Aged(call[c]).age = call[c].age
          BY <2>5 DEF Aged
        <4> QED BY <2>3, <4>1, Zenon
      <3>2. call[c].delay > 0
        BY <2>1, <2>5, Zenon DEF RedisTick
      <3>3. Down(call[c].delay) = call[c].delay - 1
        BY <2>1, <3>2, Arithmetic, Zenon
      <3>4. /\ call[c].delay - call[c].age \in Int /\ call[c].delay - call[c].age >= 1 - MaxLatency
            /\ (call[c].delay - 1) - call[c].age = (call[c].delay - call[c].age) - 1
        BY <1>1, <2>1, <3>2, Lateness, Zenon
      <3> QED BY <2>1, <2>3, <3>1, <3>3, <3>4, Zenon
    <2> QED BY <2>2, <2>4, <2>5, Zenon
  <1>5. Schedule(Pending, DueIn', Refilled(bucket), Older(granted), MaxLatency)
    BY <1>1, <1>4, Ticking, Zenon DEF SharedScheduled
  <1> QED BY <1>2, <1>3, <1>5, Zenon DEF SharedScheduled

\* Every step keeps the shared bucket's schedule.
LEMMA SharedStep ==
    ASSUME RedisInv, SharedScheduled, [RedisNext]_allVars
    PROVE  SharedScheduled'
  <1>1. ASSUME NEW c \in Callers, Answer(c) PROVE SharedScheduled'
    <2>1. CASE call[c].delay = 0
      <3>1. /\ call' = [call EXCEPT ![c] = Idle] /\ granted' = Granted
            /\ UNCHANGED shared /\ call[c].phase # "idle"
        BY <1>1, <2>1, Zenon DEF Answer
      <3> QED BY <2>1, <3>1, LeavesShared, Zenon
    <2>2. CASE call[c].delay # 0
      <3>1. /\ call' = [call EXCEPT ![c].phase = "asleep"] /\ call[c].phase = "answered"
            /\ UNCHANGED <<granted, bucket>>
        BY <1>1, <2>2, Zenon DEF Answer, shared
      <3>2. DOMAIN call = Callers /\ \A b \in Callers : call[b] \in
              [phase : {"idle", "answered", "asleep"}, delay : 0..MaxDebt, age : 0..MaxLatency]
        BY Zenon DEF RedisInv, RedisTypeOK
      <3>3. Pending' = Pending
        BY <3>1, <3>2, Zenon DEF Pending
      <3>4. \A b \in Pending : DueIn[b] = DueIn'[b]
        BY <3>1, <3>2, Zenon DEF Pending, DueIn
      <3>5. Schedule(Pending, DueIn', bucket, granted, MaxLatency)
        BY <3>4, SameDue, Zenon DEF SharedScheduled
      <3> QED BY <3>1, <3>3, <3>5, Zenon DEF SharedScheduled
    <2> QED BY <2>1, <2>2, Zenon
  <1>2. ASSUME NEW c \in Callers, RedisWake(c) PROVE SharedScheduled'
    BY <1>2, LeavesShared, Zenon DEF RedisWake
  <1>3. ASSUME NEW c \in Callers, RedisCancel(c) PROVE SharedScheduled'
    BY <1>3, LeavesShared, Zenon DEF RedisCancel
  <1>4. ASSUME NEW r \in Requests, FallBack(r) PROVE SharedScheduled'
    <2>1. r \in Callers
      BY Zenon DEF Callers
    <2> QED BY <1>4, <2>1, LeavesShared, Zenon DEF FallBack
  <1>5. CASE UNCHANGED redisVars
    BY <1>5, Zenon DEF redisVars, shared, SharedScheduled, Pending, DueIn
  <1>6. CASE UNCHANGED allVars
    BY <1>5, <1>6, Zenon DEF allVars
  <1> QED BY <1>1, <1>2, <1>3, <1>4, <1>5, <1>6, ScriptScheduled, TickShared, ApartFromRedis, Zenon

\* The invariant of the Redis store holds in every behaviour.
THEOREM RedisInvariant == RedisSpec => [](RedisInv /\ SharedScheduled)
  <1>1. RedisInit => RedisInv
    <2> SUFFICES ASSUME RedisInit PROVE RedisTypeOK /\ RefillsInLife
      BY Zenon DEF RedisInv
    <2>1. /\ Burst \in (-MaxDebt)..Burst /\ 0 \in 0..(Burst + Slack) /\ 0 \in 0..MaxDebt
          /\ 0 \in 0..MaxLatency /\ 0 \in 0..MaxFailures /\ 0 \in Nat
          /\ Burst \in Int /\ Burst <= Burst /\ Burst >= Burst - 0
      BY Amounts, RedisLimiterConstants
    <2>2. Idle \in [phase : {"idle", "answered", "asleep"}, delay : 0..MaxDebt, age : 0..MaxLatency]
      BY <2>1 DEF Idle
    <2>3. /\ backend \in {"memory", "redis"} /\ bucket = Burst /\ life = 0
          /\ call = [c \in Callers |-> Idle] /\ failures = 0 /\ granted = [L \in 0..Horizon |-> 0]
      BY Zenon DEF RedisInit
    <2> QED BY <2>1, <2>2, <2>3, Zenon DEF RedisTypeOK, RefillsInLife
  <1>2. RedisInit => SharedScheduled
    <2> SUFFICES ASSUME RedisInit PROVE SharedScheduled
      BY Zenon
    <2>1. Pending = {} /\ bucket = Burst /\ MaxLatency \in Nat
      BY RedisLimiterConstants, Zenon DEF RedisInit, Pending, Idle
    <2>2. granted \in [0..Horizon -> Nat] /\ \A L \in 0..Horizon : granted[L] = 0
      BY Zenon DEF RedisInit
    <2> QED BY <2>1, <2>2, EmptySchedule, Zenon DEF SharedScheduled
  <1>3. RedisInv /\ SharedScheduled /\ [RedisNext]_allVars => (RedisInv /\ SharedScheduled)'
    BY RedisTypes, RefillsStep, SharedStep, Zenon DEF RedisInv
  <1> QED BY <1>1, <1>2, <1>3, PTL DEF RedisSpec

\* What Redis grants to all instances together conforms to burst and rate, up to the
\* latency of replies: late and lost replies, failed calls, dropped futures and the hash's
\* expiry never let more through.
THEOREM SharedConformsToRate == RedisSpec => []SharedConforms
  <1>1. RedisInv /\ SharedScheduled => SharedConforms
    <2> SUFFICES ASSUME RedisInv, SharedScheduled PROVE SharedConforms
      BY Zenon
    <2>1. IsFiniteSet(Pending) /\ MaxLatency \in Nat /\ granted \in [0..Horizon -> Nat]
      BY SharedTypes, Zenon
    <2> QED BY <2>1, Conformance, Zenon DEF SharedScheduled, SharedConforms
  <1> QED BY <1>1, RedisInvariant, PTL

===============================================================================

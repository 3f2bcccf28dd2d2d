----------------------- MODULE RedisCircuitBreakerProofs -----------------------
(***************************************************************************)
(* Proofs about the circuit that several instances share through Redis,    *)
(* for any number of instances and of requests of each, any threshold,     *)
(* recovery and probe setting, any cache_ttl and any lateness of replies.  *)
(***************************************************************************)
EXTENDS RedisCircuitBreaker, TLAPS

\* A key without a time to live does not exist, only an open circuit has something to
\* wait for, and its hash lives longer than that.
HashInv ==
    /\ hash.ttl = 0 => hash = Missing
    /\ hash.kind # "open" => hash.wait = 0
    /\ hash.kind = "closed" => hash.n < Threshold
    /\ RecoveryOutlivesTtl

\* The history of admitted probes agrees with in_flight of the hash.
ProbesInv ==
    /\ hash.kind = "open" => probed = 0
    /\ hash.kind = "halfopen" => probed = hash.n /\ hash.n \in 1..HalfOpenProbes

\* The histories of time are those of the circuit's state.
AgesInv ==
    /\ hash.kind = "closed" => sinceClosed = 0
    /\ hash.wait > 0 => overdue = 0

\* A reply on its way is out of date by at most the time it has taken so far.
AnswerInv(r) ==
    /\ phase[r] # "answered" => delay[r] = 0
    /\ phase[r] = "answered" /\ reply[r].code = "closed" => sinceClosed <= delay[r]
    /\ phase[r] = "answered" /\ reply[r].code = "open" =>
         reply[r].remaining + overdue <= hash.wait + delay[r]

\* And so is what an instance has cached.
CacheInv(i) ==
    /\ cache[i].action = "allow" /\ cache[i].left > 0 =>
         cache[i].left + sinceClosed <= CacheTtl + MaxDelay
    /\ cache[i].action = "reject" /\ cache[i].left > 0 =>
         cache[i].left + overdue <= hash.wait + MaxDelay

SharedInv ==
    /\ TypeOK
    /\ HashInv /\ ProbesInv /\ AgesInv
    /\ \A r \in Requests : AnswerInv(r)
    /\ \A i \in Instances : CacheInv(i)

-------------------------------------------------------------------------------
(* The scripts.                                                            *)

\* What the constants are, without the relation of the age's bound to the others.
LEMMA Amounts ==
    /\ Threshold \in Nat /\ Threshold > 0 /\ Recovery \in Nat /\ Recovery > 0
    /\ HalfOpenProbes \in Nat /\ HalfOpenProbes > 0
    /\ CacheTtl \in Nat /\ Slack \in Nat /\ Slack > 0 /\ MaxDelay \in Nat /\ AgeCap \in Nat
  BY RedisConstants

\* The fields of the hash.
LEMMA HashFields ==
    ASSUME TypeOK
    PROVE  /\ hash.kind \in {"closed", "open", "halfopen"}
           /\ hash.n \in Nat /\ hash.wait \in Nat /\ hash.wait <= Recovery
           /\ hash.ttl \in Nat
  BY Amounts DEF TypeOK, Counts, Forever, Ttl

\* The lifetime a script leaves covers the recovery period.
LEMMA NewTtlCovers ==
    /\ NewTtl \in 0..Forever /\ NewTtl > Recovery /\ NewTtl # 0
    /\ Ttl \in 0..Forever /\ Ttl > Recovery
    /\ Forever \in Nat
  BY Amounts DEF NewTtl, Forever, Ttl

\* The counters a script writes are in range.
LEMMA CountsHold ==
    /\ \A n \in 0..HalfOpenProbes : n \in Counts
    /\ \A n \in Nat : n < Threshold => n \in Counts
  BY Amounts DEF Counts

\* A hash, by its fields.
HashType == [kind : {"closed", "open", "halfopen"}, n : Counts, wait : 0..Recovery,
             ttl : 0..Forever]

\* PEXPIRE changes nothing but the time to live, and keeps a hash that is there.
LEMMA RefreshedHash ==
    ASSUME TypeOK, HashInv
    PROVE  /\ Refreshed \in HashType
           /\ Refreshed.kind = hash.kind /\ Refreshed.n = hash.n /\ Refreshed.wait = hash.wait
           /\ Refreshed.ttl = 0 => Refreshed = Missing
           /\ Refreshed.kind = "open" => Refreshed.ttl > Refreshed.wait
  <1>1. hash \in HashType
    BY Zenon DEF TypeOK, HashType
  <1>2. CASE hash.ttl = 0
    <2>1. Refreshed = hash
      BY <1>2, Zenon DEF Refreshed
    <2> QED BY <1>1, <2>1, Zenon DEF HashInv, RecoveryOutlivesTtl
  <1>3. CASE hash.ttl # 0
    <2>1. Refreshed = [hash EXCEPT !.ttl = Ttl]
      BY <1>3, Zenon DEF Refreshed
    <2>2. Ttl \in 0..Forever /\ Ttl # 0 /\ Ttl > hash.wait
      BY NewTtlCovers, HashFields, Amounts
    <2> QED BY <1>1, <2>1, <2>2 DEF HashType
  <1> QED BY <1>2, <1>3, Zenon

\* CB_CHECK_LUA admits a probe and counts it, or leaves the circuit as it is.
LEMMA CheckCases ==
    ASSUME TypeOK
    PROVE  \/ hash.kind = "open" /\ hash.wait = 0 /\ CheckHash = HalfOpen(1) /\ CheckCode = "probe"
           \/ /\ hash.kind = "halfopen" /\ hash.n < HalfOpenProbes
              /\ CheckHash = HalfOpen(hash.n + 1) /\ CheckCode = "probe"
           \/ /\ CheckHash = Refreshed /\ CheckCode \in Codes \ {"probe"}
              /\ CheckCode = "closed" => hash.kind = "closed"
  BY HashFields, Amounts DEF CheckHash, CheckCode, Codes

\* CB_RECORD_LUA closes, counts a failure, opens, or finds the circuit open.
LEMMA RecordCases ==
    ASSUME TypeOK, NEW success \in BOOLEAN
    PROVE  \/ hash.kind # "open" /\ RecordHash(success) = Closed(0)
           \/ /\ hash.kind = "closed" /\ hash.n + 1 < Threshold
              /\ RecordHash(success) = Closed(hash.n + 1)
           \/ hash.kind # "open" /\ RecordHash(success) = Open
           \/ hash.kind = "open" /\ RecordHash(success) = Refreshed
  BY HashFields DEF RecordHash

-------------------------------------------------------------------------------
(* The steps that leave the hash alone.                                    *)

\* A request that leaves its phase keeps the invariants of all requests.
LEMMA GoesKeeps ==
    ASSUME TypeOK, \A q \in Requests : AnswerInv(q), NEW r \in Requests,
           NEW to \in {"idle", "asking", "serving", "recording", "recorded"}, Goes(r, to)
    PROVE  /\ phase' \in [Requests -> {"idle", "asking", "answered", "serving", "recording",
                                      "recorded"}]
           /\ reply' \in [Requests -> [code : Codes, remaining : 0..Recovery]]
           /\ delay' \in [Requests -> 0..MaxDelay]
           /\ phase'[r] = to /\ delay'[r] = 0
           /\ \A q \in Requests \ {r} :
                phase'[q] = phase[q] /\ reply'[q] = reply[q] /\ delay'[q] = delay[q]
  <1>1. NoReply \in [code : Codes, remaining : 0..Recovery] /\ 0 \in 0..MaxDelay
    BY Amounts DEF NoReply, Codes
  <1>2. /\ phase' = [phase EXCEPT ![r] = to]
        /\ reply' = [reply EXCEPT ![r] = NoReply]
        /\ delay' = [delay EXCEPT ![r] = 0]
    BY Zenon DEF Goes
  <1>3. /\ phase \in [Requests -> {"idle", "asking", "answered", "serving", "recording",
                                   "recorded"}]
        /\ reply \in [Requests -> [code : Codes, remaining : 0..Recovery]]
        /\ delay \in [Requests -> 0..MaxDelay]
    BY Zenon DEF TypeOK
  <1> HIDE DEF Codes, NoReply
  <1> QED BY <1>1, <1>2, <1>3, Zenon

\* The steps of a request that run no script and leave every cache entry alone.
LEMMA LocalKeeps ==
    ASSUME SharedInv, NEW r \in Requests,
           NEW to \in {"idle", "asking", "serving", "recording", "recorded"}, Goes(r, to),
           UNCHANGED <<hash, cache, history>>
    PROVE  SharedInv'
  <1>1. UNCHANGED <<hash, cache, sinceClosed, overdue, probed>>
    BY Zenon DEF history
  <1>2. TypeOK'
    BY <1>1, GoesKeeps, Zenon DEF SharedInv, TypeOK
  <1>3. (HashInv /\ ProbesInv /\ AgesInv)'
    BY <1>1, Zenon DEF SharedInv, HashInv, ProbesInv, AgesInv, RecoveryOutlivesTtl
  <1>4. ASSUME NEW q \in Requests PROVE AnswerInv(q)'
    BY <1>1, GoesKeeps, Zenon DEF SharedInv, AnswerInv
  <1>5. ASSUME NEW i \in Instances PROVE CacheInv(i)'
    BY <1>1, Zenon DEF SharedInv, CacheInv
  <1> QED BY <1>2, <1>3, <1>4, <1>5, Zenon DEF SharedInv

\* What a reply leaves in the cache is as old as the reply.
LEMMA CachedIsFresh ==
    ASSUME SharedInv, NEW r \in Requests, phase[r] = "answered"
    PROVE  LET entry == Cached(cache[Home[r]], reply[r]) IN
           /\ entry \in [action : {"allow", "reject"}, left : 0..CacheTtl]
           /\ entry.action = "allow" /\ entry.left > 0 =>
                entry.left + sinceClosed <= CacheTtl + MaxDelay
           /\ entry.action = "reject" /\ entry.left > 0 =>
                entry.left + overdue <= hash.wait + MaxDelay
  <1>1. Home[r] \in Instances
    BY RedisConstants, Zenon
  <1>2. /\ cache[Home[r]] \in [action : {"allow", "reject"}, left : 0..CacheTtl]
        /\ reply[r] \in [code : Codes, remaining : 0..Recovery] /\ delay[r] \in 0..MaxDelay
        /\ sinceClosed \in 0..AgeCap /\ overdue \in 0..AgeCap
        /\ CacheInv(Home[r]) /\ AnswerInv(r)
    BY <1>1, Zenon DEF SharedInv, TypeOK
  <1>3. CASE reply[r].code = "closed"
    <2>1. Cached(cache[Home[r]], reply[r]) = [action |-> "allow", left |-> CacheTtl]
      BY <1>3 DEF Cached
    <2> QED BY <1>2, <1>3, <2>1, Amounts DEF AnswerInv
  <1>4. CASE reply[r].code = "open"
    <2>1. Cached(cache[Home[r]], reply[r]) =
            [action |-> "reject", left |-> Least(CacheTtl, reply[r].remaining)]
      BY <1>4 DEF Cached
    <2>2. /\ Least(CacheTtl, reply[r].remaining) \in 0..CacheTtl
          /\ Least(CacheTtl, reply[r].remaining) <= reply[r].remaining
      BY <1>2, Amounts DEF Least
    <2>3. hash.wait \in Nat
      BY HashFields, Zenon DEF SharedInv
    <2> QED BY <1>2, <1>4, <2>1, <2>2, <2>3, Amounts DEF AnswerInv
  <1>5. CASE reply[r].code \notin {"closed", "open"}
    <2>1. Cached(cache[Home[r]], reply[r]) = cache[Home[r]]
      BY <1>5 DEF Cached
    <2> QED BY <1>2, <2>1, Zenon DEF CacheInv
  <1> QED BY <1>3, <1>4, <1>5, Zenon

\* A step that gives one instance a cache entry that is not too old.
LEMMA CacheKeeps ==
    ASSUME SharedInv, NEW r \in Requests, NEW to \in {"idle", "serving"}, Goes(r, to),
           NEW entry \in [action : {"allow", "reject"}, left : 0..CacheTtl],
           cache' = [cache EXCEPT ![Home[r]] = entry],
           UNCHANGED <<hash, history>>,
           entry.action = "allow" /\ entry.left > 0 =>
               entry.left + sinceClosed <= CacheTtl + MaxDelay,
           entry.action = "reject" /\ entry.left > 0 =>
               entry.left + overdue <= hash.wait + MaxDelay
    PROVE  SharedInv'
  <1>0. to \in {"idle", "asking", "serving", "recording", "recorded"}
    BY Zenon
  <1>1. UNCHANGED <<hash, sinceClosed, overdue, probed>>
    BY Zenon DEF history
  <1>2. Home[r] \in Instances
    BY RedisConstants, Zenon
  <1>3. cache' \in [Instances -> [action : {"allow", "reject"}, left : 0..CacheTtl]]
    BY <1>2, Zenon DEF SharedInv, TypeOK
  <1>4. TypeOK'
    <2>1. TypeOK /\ \A q \in Requests : AnswerInv(q)
      BY Zenon DEF SharedInv
    <2>2. /\ phase' \in [Requests -> {"idle", "asking", "answered", "serving", "recording",
                                      "recorded"}]
          /\ reply' \in [Requests -> [code : Codes, remaining : 0..Recovery]]
          /\ delay' \in [Requests -> 0..MaxDelay]
      BY <1>0, <2>1, GoesKeeps, Zenon
    <2> QED BY <1>1, <1>3, <2>1, <2>2, Zenon DEF TypeOK
  <1>5. (HashInv /\ ProbesInv /\ AgesInv)'
    BY <1>1, Zenon DEF SharedInv, HashInv, ProbesInv, AgesInv, RecoveryOutlivesTtl
  <1>6. ASSUME NEW q \in Requests PROVE AnswerInv(q)'
    BY <1>0, <1>1, GoesKeeps, Zenon DEF SharedInv, AnswerInv
  <1>7. ASSUME NEW i \in Instances PROVE CacheInv(i)'
    <2>1. CASE i = Home[r]
      <3>1. cache'[i] = entry
        BY <1>2, <2>1, Zenon DEF SharedInv, TypeOK
      <3> QED BY <1>1, <3>1, Zenon DEF CacheInv
    <2>2. CASE i # Home[r]
      <3>1. cache'[i] = cache[i]
        BY <1>7, <2>2, Zenon DEF SharedInv, TypeOK
      <3> QED BY <1>1, <1>7, <3>1, Zenon DEF SharedInv, CacheInv
    <2> QED BY <2>1, <2>2, Zenon
  <1> QED BY <1>4, <1>5, <1>6, <1>7, Zenon DEF SharedInv

-------------------------------------------------------------------------------
(* The steps in which Redis runs a script.                                 *)

\* CB_CHECK_LUA keeps the hash and its histories in step.
LEMMA CheckKeepsHash ==
    ASSUME SharedInv, hash' = CheckHash, UNCHANGED <<sinceClosed, overdue>>,
           probed' = IF CheckCode = "probe" THEN probed + 1 ELSE probed
    PROVE  /\ hash' \in HashType /\ probed' \in Nat
           /\ (HashInv /\ ProbesInv /\ AgesInv)'
           /\ hash'.wait = hash.wait
  <1>1. TypeOK /\ HashInv /\ ProbesInv /\ AgesInv /\ probed \in Nat
    BY Zenon DEF SharedInv, TypeOK
  <1> USE DEF ProbesInv, AgesInv
  <1>2. CASE hash.kind = "open" /\ hash.wait = 0 /\ CheckHash = HalfOpen(1) /\ CheckCode = "probe"
    <2>1. /\ hash' = [kind |-> "halfopen", n |-> 1, wait |-> 0, ttl |-> NewTtl]
          /\ probed' = probed + 1 /\ probed = 0
      BY <1>1, <1>2, Zenon DEF HalfOpen
    <2>2. 1 \in Counts /\ 0 \in 0..Recovery /\ 1 \in 1..HalfOpenProbes
      BY CountsHold, Amounts
    <2> QED BY <1>2, <2>1, <2>2, NewTtlCovers DEF HashType, HashInv, RecoveryOutlivesTtl
  <1>3. CASE /\ hash.kind = "halfopen" /\ hash.n < HalfOpenProbes
             /\ CheckHash = HalfOpen(hash.n + 1) /\ CheckCode = "probe"
    <2>1. /\ hash' = [kind |-> "halfopen", n |-> hash.n + 1, wait |-> 0, ttl |-> NewTtl]
          /\ probed' = probed + 1 /\ probed = hash.n
      BY <1>1, <1>3, Zenon DEF HalfOpen
    <2>2. /\ hash.n + 1 \in Counts /\ 0 \in 0..Recovery /\ hash.n + 1 \in 1..HalfOpenProbes
          /\ hash.wait = 0
      BY <1>1, <1>3, CountsHold, HashFields, Amounts DEF HashInv
    <2> QED BY <1>1, <1>3, <2>1, <2>2, NewTtlCovers DEF HashType, HashInv, RecoveryOutlivesTtl
  <1>4. CASE CheckHash = Refreshed /\ CheckCode # "probe"
    <2>1. /\ hash' \in HashType
          /\ hash'.kind = hash.kind /\ hash'.n = hash.n /\ hash'.wait = hash.wait
          /\ hash'.ttl = 0 => hash' = Missing
          /\ hash'.kind = "open" => hash'.ttl > hash'.wait
      BY <1>1, <1>4, RefreshedHash, Zenon
    <2>2. probed' = probed
      BY <1>4, Zenon
    <2> QED BY <1>1, <2>1, <2>2, Zenon DEF HashInv, RecoveryOutlivesTtl, Missing
  <1> QED BY <1>1, <1>2, <1>3, <1>4, CheckCases, Zenon

\* The reply of CB_CHECK_LUA is right at the moment it is sent.
LEMMA CheckKeeps ==
    ASSUME SharedInv, NEW r \in Requests, RunCheck(r)
    PROVE  SharedInv'
  <1>1. /\ phase[r] = "asking" /\ phase' = [phase EXCEPT ![r] = "answered"]
        /\ reply' = [reply EXCEPT ![r] = [code |-> CheckCode, remaining |-> hash.wait]]
        /\ hash' = CheckHash
        /\ probed' = IF CheckCode = "probe" THEN probed + 1 ELSE probed
        /\ UNCHANGED <<cache, delay, sinceClosed, overdue>>
    BY Zenon DEF RunCheck
  <1>2. /\ hash' \in HashType /\ probed' \in Nat
        /\ (HashInv /\ ProbesInv /\ AgesInv)' /\ hash'.wait = hash.wait
    BY <1>1, CheckKeepsHash, Zenon
  <1>3. TypeOK /\ AgesInv /\ \A q \in Requests : AnswerInv(q)
    BY Zenon DEF SharedInv
  <1>4. CheckCode \in Codes /\ (CheckCode = "closed" => hash.kind = "closed")
    BY <1>3, CheckCases, Zenon DEF Codes
  <1>5. [code |-> CheckCode, remaining |-> hash.wait] \in [code : Codes, remaining : 0..Recovery]
    BY <1>3, <1>4, HashFields, Amounts
  <1>6. TypeOK'
    BY <1>1, <1>2, <1>3, <1>5, Zenon DEF TypeOK, HashType
  <1>7. ASSUME NEW q \in Requests PROVE AnswerInv(q)'
    <2>1. CASE q = r
      <3>1. /\ reply'[r] = [code |-> CheckCode, remaining |-> hash.wait]
            /\ phase'[r] = "answered" /\ delay'[r] = 0
        BY <1>1, <1>3, Zenon DEF TypeOK, AnswerInv
      <3>2. reply'[r].code = CheckCode /\ reply'[r].remaining = hash.wait
        BY <3>1
      <3>3. CheckCode = "closed" => sinceClosed <= 0
        BY <1>3, <1>4 DEF AgesInv
      <3>4. CheckCode = "open" => hash.wait + overdue <= hash.wait + 0
        <4>1. CheckCode = "open" => hash.wait > 0
          BY DEF CheckCode
        <4> QED BY <1>3, <4>1, HashFields DEF AgesInv
      <3> QED BY <1>1, <1>2, <2>1, <3>1, <3>2, <3>3, <3>4, Zenon DEF AnswerInv
    <2>2. CASE q # r
      <3>1. phase'[q] = phase[q] /\ reply'[q] = reply[q] /\ delay'[q] = delay[q]
        BY <1>1, <1>3, <1>7, <2>2, Zenon DEF TypeOK
      <3> QED BY <1>1, <1>2, <1>3, <1>7, <3>1, Zenon DEF AnswerInv
    <2> QED BY <2>1, <2>2, Zenon
  <1>8. ASSUME NEW i \in Instances PROVE CacheInv(i)'
    BY <1>1, <1>2, <1>8, Zenon DEF SharedInv, CacheInv
  <1> QED BY <1>2, <1>6, <1>7, <1>8, Zenon DEF SharedInv

\* CB_RECORD_LUA keeps the hash and its histories in step; what it opens it opens for
\* the whole recovery period.
LEMMA RecordKeepsHash ==
    ASSUME SharedInv, NEW success \in BOOLEAN, NEW r \in Requests, RunRecord(r, success)
    PROVE  /\ hash' \in HashType /\ probed' \in Nat
           /\ sinceClosed' \in {0, sinceClosed} /\ overdue' \in {0, overdue}
           /\ (HashInv /\ ProbesInv /\ AgesInv)'
           /\ hash'.wait \in Nat /\ hash'.wait >= hash.wait
  <1>1. TypeOK /\ HashInv /\ ProbesInv /\ AgesInv /\ probed \in Nat /\ hash.wait \in Nat
    BY HashFields, Zenon DEF SharedInv, TypeOK
  <1>2. /\ hash' = RecordHash(success)
        /\ sinceClosed' = IF hash'.kind = "closed" THEN 0 ELSE sinceClosed
        /\ overdue' = IF hash.kind # "open" /\ hash'.kind = "open" THEN 0 ELSE overdue
        /\ probed' = IF hash.kind # "open" THEN 0 ELSE probed
    BY Zenon DEF RunRecord
  <1>3. 0 \in Counts /\ 0 \in 0..Recovery /\ Recovery \in 0..Recovery
    BY CountsHold, Amounts
  <1> USE DEF ProbesInv, AgesInv
  <1>4. CASE hash.kind # "open" /\ hash' = Closed(0)
    <2>1. /\ hash' = [kind |-> "closed", n |-> 0, wait |-> 0, ttl |-> NewTtl]
          /\ sinceClosed' = 0 /\ probed' = 0 /\ overdue' = overdue /\ hash.wait = 0
      BY <1>1, <1>2, <1>4 DEF Closed, HashInv
    <2> QED BY <1>1, <1>3, <2>1, NewTtlCovers, Amounts DEF HashType, HashInv, RecoveryOutlivesTtl
  <1>5. CASE /\ hash.kind = "closed" /\ hash.n + 1 < Threshold /\ hash' = Closed(hash.n + 1)
    <2>1. /\ hash' = [kind |-> "closed", n |-> hash.n + 1, wait |-> 0, ttl |-> NewTtl]
          /\ sinceClosed' = 0 /\ probed' = 0 /\ overdue' = overdue /\ hash.wait = 0
      BY <1>1, <1>2, <1>5 DEF Closed, HashInv
    <2>2. hash.n + 1 \in Counts
      BY <1>1, <1>5, CountsHold, HashFields
    <2> QED BY <1>3, <1>5, <2>1, <2>2, NewTtlCovers DEF HashType, HashInv, RecoveryOutlivesTtl
  <1>6. CASE hash.kind # "open" /\ hash' = Open
    <2>1. /\ hash' = [kind |-> "open", n |-> 0, wait |-> Recovery, ttl |-> NewTtl]
          /\ sinceClosed' = sinceClosed /\ probed' = 0 /\ overdue' = 0 /\ hash.wait = 0
      BY <1>1, <1>2, <1>6 DEF Open, HashInv
    <2> QED BY <1>3, <2>1, NewTtlCovers, Amounts DEF HashType, HashInv, RecoveryOutlivesTtl
  <1>7. CASE hash.kind = "open" /\ hash' = Refreshed
    <2>1. /\ hash' \in HashType
          /\ hash'.kind = hash.kind /\ hash'.n = hash.n /\ hash'.wait = hash.wait
          /\ hash'.ttl = 0 => hash' = Missing
          /\ hash'.kind = "open" => hash'.ttl > hash'.wait
      BY <1>1, <1>7, RefreshedHash, Zenon
    <2>2. sinceClosed' = sinceClosed /\ probed' = probed /\ overdue' = overdue
      BY <1>2, <1>7, <2>1, Zenon
    <2>3. hash'.wait >= hash.wait
      BY <1>1, <2>1
    <2> QED BY <1>1, <1>7, <2>1, <2>2, <2>3, Zenon DEF HashInv, RecoveryOutlivesTtl, Missing
  <1> QED BY <1>1, <1>2, <1>4, <1>5, <1>6, <1>7, RecordCases, Zenon

\* Whatever CB_RECORD_LUA does, replies and cache entries are no older than before.
LEMMA RecordKeeps ==
    ASSUME SharedInv, NEW success \in BOOLEAN, NEW r \in Requests, RunRecord(r, success)
    PROVE  SharedInv'
  <1>1. /\ hash' \in HashType /\ probed' \in Nat
        /\ sinceClosed' \in {0, sinceClosed} /\ overdue' \in {0, overdue}
        /\ (HashInv /\ ProbesInv /\ AgesInv)'
        /\ hash'.wait \in Nat /\ hash'.wait >= hash.wait
    BY RecordKeepsHash, Zenon
  <1>2. Goes(r, "recorded") /\ UNCHANGED cache
    BY Zenon DEF RunRecord
  <1>3. TypeOK /\ \A q \in Requests : AnswerInv(q)
    BY Zenon DEF SharedInv
  <1>4. /\ phase' \in [Requests -> {"idle", "asking", "answered", "serving", "recording",
                                    "recorded"}]
        /\ reply' \in [Requests -> [code : Codes, remaining : 0..Recovery]]
        /\ delay' \in [Requests -> 0..MaxDelay]
        /\ phase'[r] = "recorded" /\ delay'[r] = 0
        /\ \A q \in Requests \ {r} :
             phase'[q] = phase[q] /\ reply'[q] = reply[q] /\ delay'[q] = delay[q]
    BY <1>2, <1>3, GoesKeeps, Zenon
  <1>5. 0 \in 0..AgeCap /\ sinceClosed \in 0..AgeCap /\ overdue \in 0..AgeCap /\ hash.wait \in Nat
    BY <1>3, HashFields, Amounts DEF TypeOK
  <1>6. TypeOK'
    <2>1. sinceClosed' \in 0..AgeCap /\ overdue' \in 0..AgeCap
      BY <1>1, <1>5, Zenon
    <2> QED BY <1>1, <1>2, <1>3, <1>4, <2>1, Zenon DEF TypeOK, HashType
  <1>7. /\ sinceClosed' <= sinceClosed /\ sinceClosed' \in Nat
        /\ overdue' <= overdue /\ overdue' \in Nat
    BY <1>1, <1>5
  <1>8. ASSUME NEW q \in Requests PROVE AnswerInv(q)'
    <2>1. CASE q = r
      BY <1>4, <2>1, Zenon DEF AnswerInv
    <2>2. CASE q # r
      <3>1. /\ phase'[q] = phase[q] /\ reply'[q] = reply[q] /\ delay'[q] = delay[q]
            /\ delay[q] \in Nat /\ reply[q].remaining \in Nat /\ AnswerInv(q)
        <4>1. delay[q] \in 0..MaxDelay /\ reply[q] \in [code : Codes, remaining : 0..Recovery]
          BY <1>3, <1>8, Zenon DEF TypeOK
        <4>2. delay[q] \in Nat /\ reply[q].remaining \in Nat
          BY <4>1, Amounts
        <4> QED BY <1>3, <1>4, <1>8, <2>2, <4>2, Zenon
      <3> QED BY <1>1, <1>5, <1>7, <3>1 DEF AnswerInv
    <2> QED BY <2>1, <2>2, Zenon
  <1>9. ASSUME NEW i \in Instances PROVE CacheInv(i)'
    <2>1. cache'[i] = cache[i] /\ cache[i].left \in Nat /\ CacheInv(i)
      <3>1. cache[i] \in [action : {"allow", "reject"}, left : 0..CacheTtl]
        BY <1>3, <1>9, Zenon DEF TypeOK
      <3>2. cache[i].left \in Nat
        BY <3>1, Amounts
      <3> QED BY <1>2, <1>9, <3>2, Zenon DEF SharedInv
    <2> QED BY <1>1, <1>5, <1>7, <2>1, Amounts DEF CacheInv
  <1> QED BY <1>1, <1>6, <1>8, <1>9, Zenon DEF SharedInv

-------------------------------------------------------------------------------
(* Time.                                                                   *)

\* A tick: the hash of a circuit that still recovers is not dropped.
LEMMA TickKeepsHash ==
    ASSUME SharedInv, Tick
    PROVE  /\ hash' \in HashType /\ probed' \in Nat
           /\ sinceClosed' \in 0..AgeCap /\ overdue' \in 0..AgeCap
           /\ (HashInv /\ ProbesInv /\ AgesInv)'
           /\ sinceClosed' <= sinceClosed + 1
           /\ hash'.wait \in Nat
           /\ \/ hash.wait > 0 /\ hash'.wait = hash.wait - 1 /\ overdue = 0 /\ overdue' = 0
              \/ hash.wait = 0 /\ hash'.wait = 0 /\ overdue' <= overdue + 1
  <1>1. /\ TypeOK /\ HashInv /\ ProbesInv /\ AgesInv /\ probed \in Nat
        /\ sinceClosed \in 0..AgeCap /\ overdue \in 0..AgeCap /\ hash \in HashType
    BY Zenon DEF SharedInv, TypeOK, HashType
  <1>2. /\ hash' = AgedHash
        /\ sinceClosed' = IF hash'.kind = "closed" THEN 0 ELSE Older(sinceClosed)
        /\ overdue' = IF hash.wait > 0 THEN 0 ELSE Older(overdue)
        /\ probed' = IF hash.ttl <= 1 THEN 0 ELSE probed
    BY Zenon DEF Tick
  <1>3. /\ sinceClosed' \in 0..AgeCap /\ sinceClosed' <= sinceClosed + 1
        /\ overdue' \in 0..AgeCap /\ overdue' <= overdue + 1
    BY <1>1, <1>2, Amounts DEF Older
  <1>4. /\ hash.kind \in {"closed", "open", "halfopen"} /\ hash.wait \in 0..Recovery
        /\ hash.ttl \in 0..Forever /\ hash.n \in Counts /\ hash.wait \in Nat
        /\ Forever \in Nat /\ Forever > 1
    BY <1>1, HashFields, NewTtlCovers, Amounts DEF HashType
  <1>5. CASE hash.ttl <= 1
    <2>1. hash' = Missing /\ sinceClosed' = 0 /\ probed' = 0
      BY <1>2, <1>5 DEF AgedHash, Missing
    <2>2. hash.wait = 0
      BY <1>1, <1>4, <1>5 DEF HashInv, RecoveryOutlivesTtl
    <2>3. 0 \in Counts
      BY CountsHold, Amounts
    <2> QED BY <1>3, <2>1, <2>2, <2>3, <1>4, Amounts
            DEF Missing, HashType, HashInv, ProbesInv, AgesInv, RecoveryOutlivesTtl
  <1>6. CASE ~(hash.ttl <= 1)
    <2>1. /\ hash' = [kind |-> hash.kind, n |-> hash.n, wait |-> Down(hash.wait),
                      ttl |-> IF hash.ttl = Forever THEN Forever ELSE hash.ttl - 1]
          /\ probed' = probed
      BY <1>2, <1>6, Zenon DEF AgedHash
    <2>2. /\ hash'.kind = hash.kind /\ hash'.n = hash.n /\ hash'.wait = Down(hash.wait)
          /\ hash'.ttl = IF hash.ttl = Forever THEN Forever ELSE hash.ttl - 1
      BY <2>1
    <2>3. /\ Down(hash.wait) \in 0..Recovery /\ hash'.ttl \in 0..Forever /\ hash'.ttl # 0
          /\ hash.ttl > hash.wait => hash'.ttl > Down(hash.wait)
          /\ hash.wait = 0 => Down(hash.wait) = 0
          /\ hash.wait > 0 => Down(hash.wait) = hash.wait - 1
          /\ Down(hash.wait) > 0 => hash.wait > 0
          /\ Down(hash.wait) \in Nat
      BY <1>4, <1>6, <2>2, Amounts DEF Down
    <2>4. hash' \in HashType
      BY <1>4, <2>1, <2>2, <2>3 DEF HashType
    <2>5. HashInv' /\ ProbesInv'
      BY <1>1, <2>1, <2>2, <2>3, Zenon DEF HashInv, ProbesInv, RecoveryOutlivesTtl
    <2>6. AgesInv'
      BY <1>1, <1>2, <2>2, <2>3, Zenon DEF AgesInv
    <2>7. hash.wait = 0 \/ hash.wait > 0
      BY <1>4
    <2> QED BY <1>1, <1>2, <1>3, <2>1, <2>2, <2>3, <2>4, <2>5, <2>6, <2>7, Zenon DEF AgesInv
  <1> QED BY <1>5, <1>6, Zenon

\* Replies grow later and cache entries expire as fast as the circuit ages.
LEMMA TickKeeps ==
    ASSUME SharedInv, Tick
    PROVE  SharedInv'
  <1>1. /\ hash' \in HashType /\ probed' \in Nat
        /\ sinceClosed' \in 0..AgeCap /\ overdue' \in 0..AgeCap
        /\ (HashInv /\ ProbesInv /\ AgesInv)'
        /\ sinceClosed' <= sinceClosed + 1
        /\ hash'.wait \in Nat
        /\ \/ hash.wait > 0 /\ hash'.wait = hash.wait - 1 /\ overdue = 0 /\ overdue' = 0
           \/ hash.wait = 0 /\ hash'.wait = 0 /\ overdue' <= overdue + 1
    BY TickKeepsHash, Zenon
  <1>2. /\ \A r \in Requests : delay[r] < MaxDelay \/ phase[r] # "answered"
        /\ cache' = [i \in Instances |-> [cache[i] EXCEPT !.left = Down(@)]]
        /\ delay' = [r \in Requests |-> IF phase[r] = "answered" THEN delay[r] + 1 ELSE 0]
        /\ UNCHANGED <<phase, reply>>
    BY Zenon DEF Tick
  <1>3. /\ TypeOK /\ sinceClosed \in Nat /\ overdue \in Nat /\ hash.wait \in Nat
        /\ sinceClosed' \in Nat /\ overdue' \in Nat
    BY <1>1, HashFields, Amounts DEF SharedInv, TypeOK
  <1>4. ASSUME NEW i \in Instances
        PROVE  /\ cache[i] \in [action : {"allow", "reject"}, left : 0..CacheTtl]
               /\ cache'[i] = [cache[i] EXCEPT !.left = Down(@)] /\ CacheInv(i)
    BY <1>2, <1>3, <1>4, Zenon DEF SharedInv, TypeOK
  <1>5. ASSUME NEW i \in Instances
        PROVE  /\ cache'[i] \in [action : {"allow", "reject"}, left : 0..CacheTtl]
               /\ cache'[i].action = cache[i].action
               /\ cache[i].left \in Nat /\ cache'[i].left \in Nat
               /\ cache'[i].left > 0 => cache'[i].left = cache[i].left - 1 /\ cache[i].left > 0
    <2>1. /\ cache[i] \in [action : {"allow", "reject"}, left : 0..CacheTtl]
          /\ cache'[i] = [cache[i] EXCEPT !.left = Down(cache[i].left)]
      BY <1>4, <1>5, Zenon
    <2>2. cache[i].left \in 0..CacheTtl /\ cache[i].action \in {"allow", "reject"}
      BY <2>1
    <2>3. /\ cache'[i].left = Down(cache[i].left) /\ cache'[i].action = cache[i].action
          /\ cache'[i] = [action |-> cache[i].action, left |-> Down(cache[i].left)]
      BY <2>1
    <2>4. Down(cache[i].left) \in 0..CacheTtl
      BY <2>2, Amounts DEF Down
    <2> QED BY <2>2, <2>3, <2>4, Amounts DEF Down
  <1>6. ASSUME NEW r \in Requests
        PROVE  /\ delay[r] \in 0..MaxDelay /\ reply[r].remaining \in Nat /\ AnswerInv(r)
               /\ delay'[r] = IF phase[r] = "answered" THEN delay[r] + 1 ELSE 0
               /\ delay'[r] \in 0..MaxDelay
    <2>1. /\ delay[r] \in 0..MaxDelay /\ reply[r] \in [code : Codes, remaining : 0..Recovery]
          /\ AnswerInv(r) /\ (delay[r] < MaxDelay \/ phase[r] # "answered")
          /\ delay'[r] = IF phase[r] = "answered" THEN delay[r] + 1 ELSE 0
      BY <1>2, <1>3, <1>6, Zenon DEF SharedInv, TypeOK
    <2> QED BY <2>1, Amounts
  <1>7. TypeOK'
    <2>1. cache' \in [Instances -> [action : {"allow", "reject"}, left : 0..CacheTtl]]
      BY <1>2, <1>5, Zenon
    <2>2. delay' \in [Requests -> 0..MaxDelay]
      BY <1>2, <1>6, Zenon
    <2> QED BY <1>1, <1>2, <1>3, <2>1, <2>2, Zenon DEF TypeOK, HashType
  <1>8. ASSUME NEW r \in Requests PROVE AnswerInv(r)'
    <2>1. /\ delay[r] \in Nat /\ delay'[r] \in Nat /\ reply[r].remaining \in Nat /\ AnswerInv(r)
          /\ delay'[r] = IF phase[r] = "answered" THEN delay[r] + 1 ELSE 0
      BY <1>6, <1>8, Amounts
    <2> QED BY <1>1, <1>2, <1>3, <2>1 DEF AnswerInv
  <1>9. ASSUME NEW i \in Instances PROVE CacheInv(i)'
    <2>1. /\ cache'[i].action = cache[i].action
          /\ cache[i].left \in Nat /\ cache'[i].left \in Nat
          /\ cache'[i].left > 0 => cache'[i].left = cache[i].left - 1 /\ cache[i].left > 0
          /\ CacheInv(i)
      BY <1>4, <1>5, <1>9, Zenon
    <2> QED BY <1>1, <1>3, <2>1, Amounts DEF CacheInv
  <1> QED BY <1>1, <1>7, <1>8, <1>9, Zenon DEF SharedInv

-------------------------------------------------------------------------------

\* The invariant holds for a key that is not in Redis, with empty caches.
LEMMA SharedInit == Init => SharedInv
  <1> SUFFICES ASSUME Init PROVE SharedInv
    BY Zenon
  <1>1. /\ hash = Missing /\ sinceClosed = 0 /\ overdue = 0 /\ probed = 0
        /\ cache = [i \in Instances |-> Empty] /\ phase = [r \in Requests |-> "idle"]
        /\ reply = [r \in Requests |-> NoReply] /\ delay = [r \in Requests |-> 0]
    BY Zenon DEF Init
  <1>2. 0 \in Counts /\ Forever \in Nat
    BY CountsHold, NewTtlCovers, Amounts
  <1>3. TypeOK
    BY <1>1, <1>2, Amounts DEF TypeOK, Missing, Empty, NoReply, Codes
  <1>4. HashInv /\ ProbesInv /\ AgesInv
    BY <1>1, Amounts DEF HashInv, ProbesInv, AgesInv, Missing, RecoveryOutlivesTtl
  <1>5. ASSUME NEW r \in Requests PROVE AnswerInv(r)
    BY <1>1, <1>5 DEF AnswerInv
  <1>6. ASSUME NEW i \in Instances PROVE CacheInv(i)
    BY <1>1, <1>6 DEF CacheInv, Empty
  <1> QED BY <1>3, <1>4, <1>5, <1>6, Zenon DEF SharedInv

\* Every step keeps it.
LEMMA SharedStep == SharedInv /\ [Next]_vars => SharedInv'
  <1> SUFFICES ASSUME SharedInv, [Next]_vars PROVE SharedInv'
    BY Zenon
  <1>1. CASE UNCHANGED vars
    BY <1>1, Zenon DEF vars, request, history, SharedInv, TypeOK, HashInv, ProbesInv, AgesInv,
       AnswerInv, CacheInv, RecoveryOutlivesTtl
  <1>2. ASSUME NEW r \in Requests, Call(r) PROVE SharedInv'
    <2>1. PICK to \in {"serving", "asking"} : Goes(r, to)
      BY <1>2, Zenon DEF Call
    <2>2. UNCHANGED <<hash, cache, history>>
      BY <1>2, Zenon DEF Call
    <2> QED BY <1>2, <2>1, <2>2, LocalKeeps, Zenon
  <1>3. ASSUME NEW r \in Requests,
               Respond(r) \/ Abandon(r) \/ \E allow \in BOOLEAN : FallBack(r, allow)
        PROVE  SharedInv'
    <2>1. PICK to \in {"serving", "recording", "idle"} : Goes(r, to)
      BY <1>3, Zenon DEF Respond, Abandon, FallBack
    <2>2. UNCHANGED <<hash, cache, history>>
      BY <1>3, Zenon DEF Respond, Abandon, FallBack
    <2> QED BY <1>3, <2>1, <2>2, LocalKeeps, Zenon
  <1>4. ASSUME NEW r \in Requests, Answer(r) PROVE SharedInv'
    <2>1. PICK to \in {"idle", "serving"} : Goes(r, to)
      BY <1>4, Zenon DEF Answer
    <2>2. /\ phase[r] = "answered" /\ UNCHANGED <<hash, history>>
          /\ cache' = [cache EXCEPT ![Home[r]] = Cached(cache[Home[r]], reply[r])]
      BY <1>4, Zenon DEF Answer
    <2> DEFINE entry == Cached(cache[Home[r]], reply[r])
    <2>3. /\ entry \in [action : {"allow", "reject"}, left : 0..CacheTtl]
          /\ entry.action = "allow" /\ entry.left > 0 =>
               entry.left + sinceClosed <= CacheTtl + MaxDelay
          /\ entry.action = "reject" /\ entry.left > 0 =>
               entry.left + overdue <= hash.wait + MaxDelay
      BY <1>4, <2>2, CachedIsFresh, Zenon
    <2>4. cache' = [cache EXCEPT ![Home[r]] = entry]
      BY <2>2, Zenon
    <2> HIDE DEF entry
    <2> QED BY <1>4, <2>1, <2>2, <2>3, <2>4, CacheKeeps, Zenon
  <1>5. ASSUME NEW r \in Requests, Invalidate(r) PROVE SharedInv'
    <2>1. /\ Goes(r, "idle") /\ UNCHANGED <<hash, history>>
          /\ cache' = [cache EXCEPT ![Home[r]] = Empty]
      BY <1>5, Zenon DEF Invalidate
    <2>2. /\ Empty \in [action : {"allow", "reject"}, left : 0..CacheTtl]
          /\ ~(Empty.left > 0)
      BY Amounts DEF Empty
    <2> QED BY <1>5, <2>1, <2>2, CacheKeeps, Zenon
  <1> QED BY <1>1, <1>2, <1>3, <1>4, <1>5, CheckKeeps, RecordKeeps, TickKeeps, Zenon DEF Next

\* The inductive invariant holds in every behaviour of the shared circuit.
THEOREM SharedInvariant == Spec => []SharedInv
  BY SharedInit, SharedStep, PTL DEF Spec

\* No instance lets requests pass on a cached Allow for longer than cache_ttl and the
\* lateness of the reply after the circuit was last closed.
THEOREM AllowsExpire == Spec => []StaleAllowIsBounded
  <1>1. SharedInv => StaleAllowIsBounded
    BY Zenon DEF SharedInv, CacheInv, StaleAllowIsBounded
  <1> QED BY <1>1, SharedInvariant, PTL

\* No instance turns requests away on a cached Reject for longer than the lateness of
\* the reply after the recovery period.
THEOREM RejectsExpire == Spec => []RejectLagIsBounded
  <1>1. SharedInv => RejectLagIsBounded
    BY Zenon DEF SharedInv, CacheInv, RejectLagIsBounded
  <1> QED BY <1>1, SharedInvariant, PTL

\* All instances together are admitted half_open_probes times to a circuit that is not
\* closed.
THEOREM ProbesAreLimited == Spec => []ProbesAreShared
  <1>1. SharedInv => ProbesAreShared
    <2> SUFFICES ASSUME SharedInv, hash.kind # "closed" PROVE probed <= HalfOpenProbes
      BY Zenon DEF ProbesAreShared
    <2>1. hash.kind \in {"open", "halfopen"} /\ ProbesInv /\ hash.n \in Nat
      BY HashFields, Zenon DEF SharedInv
    <2> QED BY <2>1, Amounts DEF ProbesInv
  <1> QED BY <1>1, SharedInvariant, PTL

\* PEXPIRE never drops a circuit whose recovery period is not over.
THEOREM RecoverySurvives == Spec => []RecoveryOutlivesTtl
  <1>1. SharedInv => RecoveryOutlivesTtl
    BY Zenon DEF SharedInv, HashInv
  <1> QED BY <1>1, SharedInvariant, PTL

===============================================================================

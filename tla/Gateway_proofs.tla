--------------------------- MODULE Gateway_proofs ---------------------------
(* What the gateway takes over from Redis: the policies of its store, which   *)
(* keeps PolicySource's promise for every set of addresses, endpoints, labels *)
(* and lifetimes and every bound on time and writes, and the settings of the  *)
(* console, for every file and every set of overrides.                        *)
EXTENDS PolicyStore, LiveSettingsHistory, TLAPS

-----------------------------------------------------------------------------
(* The policy store. *)

\* The parts of StoreInv that speak of Redis and of the refresh in progress.
LEMMA InvFacts ==
  ASSUME StoreInv
  PROVE  /\ StoreTypeOK
         /\ clock \in Nat /\ issued \in Nat /\ CacheMaxAge \in Nat
         /\ scan.started \in Nat /\ scan.observed \in Nat
         /\ scan.next \in [Key -> Decision \cup {NoDecision}]
         /\ scan.batch \subseteq Key /\ scan.owed \subseteq Key
         /\ scan.on \in BOOLEAN
BY SourceConstants DEF StoreInv, StoreTypeOK, Scan

\* A refresh that is not running has the type of one.
LEMMA IdleType == Idle \in Scan /\ EmptySnapshot \in [Key -> Decision \cup {NoDecision}]
BY DEF Idle, Scan, EmptySnapshot

\* Before anything happened.
LEMMA StoreStart == StoreInit => StoreInv
<1> SUFFICES ASSUME StoreInit PROVE StoreInv
  OBVIOUS
<1>1. StoreTypeOK
  BY IdleType DEF StoreInit, StoreTypeOK
<1>2. scan.next = EmptySnapshot /\ ~scan.on
  BY DEF StoreInit, Idle
<1>3. \A k \in Key : snapshot[k] = NoDecision /\ scan.next[k] = NoDecision
  BY <1>2 DEF StoreInit, EmptySnapshot
<1>4. QED
  BY <1>1, <1>2, <1>3 DEF StoreInit, StoreInv, EntryOK

-----------------------------------------------------------------------------
\* A step that retires the values of some keys at an instant that has not
\* passed, and issues nothing already retired, keeps the entries of both maps
\* dated: an entry is never older than the refresh that read it.
LEMMA RetireKeepsEntries ==
  ASSUME StoreInv, NEW keys \in SUBSET Key, NEW at \in Nat, at >= clock,
         clock' \in Nat, clock' >= clock, Retire(keys, at),
         NEW d \in Decision \cup {NoDecision}, EntryOK(d)
  PROVE  EntryOK(d)'
<1> SUFFICES ASSUME d # NoDecision PROVE EntryOK(d)'
  BY DEF EntryOK
<1>1. d.cacheUntil \in Nat /\ d.cacheUntil <= clock + CacheMaxAge
  BY DEF EntryOK, Decision
<1>2. d.cacheUntil <= clock' + CacheMaxAge
  BY <1>1, InvFacts
<1>3. ASSUME NEW r \in retired', r.serial = d.serial
      PROVE  d.cacheUntil <= r.at + CacheMaxAge
  <2>1. CASE r \in retired
    BY <1>3, <2>1 DEF EntryOK
  <2>2. CASE r.at = at
    BY <1>1, <2>2, InvFacts
  <2>3. QED
    BY <1>3, <2>1, <2>2 DEF Retire
<1>4. QED
  BY <1>2, <1>3 DEF EntryOK

\* The type of the history after some keys' values are retired.
LEMMA RetireType ==
  ASSUME StoreInv, NEW keys \in SUBSET Key, NEW at \in Nat, Retire(keys, at)
  PROVE  retired' \subseteq [serial : Nat, at : Nat]
BY DEF Retire, StoreInv, StoreTypeOK, Stored

\* A new policy.
LEMMA WriteStep ==
  ASSUME StoreInv,
         NEW k \in Key, NEW a \in Action, NEW o \in Origin, NEW s \in Scope,
         NEW v \in BOOLEAN, NEW e \in {NoExpiry} \cup {clock + t : t \in Ttl},
         WritePolicy(k, a, o, s, v, e)
  PROVE  StoreInv'
<1>1. e \in Nat /\ (e = NoExpiry \/ clock < e)
  BY StoreConstants, InvFacts DEF NoExpiry
<1> DEFINE new == [serial |-> issued + 1, at |-> clock, valid |-> v, action |-> a,
                   origin |-> o, only |-> s, expires |-> e]
<1>2. new \in Stored
  BY <1>1, InvFacts DEF Stored
<1>3. redis' = [redis EXCEPT ![k] = new] /\ issued' = issued + 1
  BY DEF WritePolicy
<1>4. UNCHANGED <<clock, scan, snapshot>> /\ Retire({k}, clock)
  BY DEF WritePolicy
<1>5. StoreTypeOK'
  BY <1>2, <1>3, <1>4, RetireType, InvFacts DEF StoreTypeOK
<1>6. \A j \in Key : redis'[j] = IF j = k THEN new ELSE redis[j]
  BY <1>3, InvFacts DEF StoreTypeOK
<1>7. new # NoKey => new.serial = issued + 1 /\ new.expires = e
  OBVIOUS
<1>8. \A j \in Key : redis'[j] # NoKey => redis'[j].serial \in 1..issued'
  BY <1>3, <1>6, <1>7, InvFacts DEF StoreInv
<1>9. \A j \in Key : redis'[j] # NoKey =>
        redis'[j].expires = NoExpiry \/ clock' < redis'[j].expires
  BY <1>1, <1>4, <1>6, <1>7 DEF StoreInv
<1>10. \A i, j \in Key : redis'[i] # NoKey /\ redis'[j] # NoKey
                         /\ redis'[i].serial = redis'[j].serial => i = j
  BY <1>6, <1>7, InvFacts DEF StoreInv
<1>11. ASSUME NEW r \in retired'
       PROVE  /\ r.serial \in 1..issued'
              /\ r.at <= clock'
              /\ \A j \in Key : redis'[j] # NoKey => redis'[j].serial # r.serial
  <2>1. CASE r \in retired
    BY <1>3, <1>4, <1>6, <1>7, <2>1, InvFacts DEF StoreInv
  <2>2. CASE redis[k] # NoKey /\ r = [serial |-> redis[k].serial, at |-> clock]
    BY <1>3, <1>4, <1>6, <1>7, <2>2, InvFacts DEF StoreInv
  <2>3. QED
    BY <1>4, <1>11, <2>1, <2>2 DEF Retire
<1>12. \A j \in Key : EntryOK(snapshot[j])' /\ EntryOK(scan.next[j])'
  <2> TAKE j \in Key
  <2>1. snapshot[j] \in Decision \cup {NoDecision}
        /\ scan.next[j] \in Decision \cup {NoDecision}
        /\ EntryOK(snapshot[j]) /\ EntryOK(scan.next[j])
    BY InvFacts DEF StoreInv, StoreTypeOK
  <2>2. \A d \in Decision \cup {NoDecision} : EntryOK(d) => EntryOK(d)'
    BY <1>4, RetireKeepsEntries, InvFacts
  <2>3. QED
    BY <1>4, <2>1, <2>2 DEF EntryOK
<1>13. QED
  BY <1>3, <1>4, <1>5, <1>8, <1>9, <1>10, <1>11, <1>12, InvFacts DEF StoreInv

\* A policy that is removed, or policies that expire as time passes: the values
\* of some keys are retired and nothing else of Redis changes.
LEMMA RemoveStep ==
  ASSUME StoreInv, NEW keys \in SUBSET Key,
         clock' \in {clock, clock + 1},
         redis' = [k \in Key |-> IF k \in keys THEN NoKey ELSE redis[k]],
         \A k \in Key \ keys : redis[k] # NoKey =>
           redis[k].expires = NoExpiry \/ clock' < redis[k].expires,
         Retire(keys, clock'),
         scan' = [scan EXCEPT !.owed = @ \ keys],
         UNCHANGED <<snapshot, issued>>
  PROVE  StoreInv'
<1>1. clock' \in Nat /\ clock' >= clock
  BY InvFacts
<1>2. \A k \in Key : redis'[k] # NoKey => k \notin keys /\ redis'[k] = redis[k]
  OBVIOUS
<1>3. /\ scan' \in Scan
      /\ scan'.next = scan.next /\ scan'.on = scan.on
      /\ scan'.started = scan.started /\ scan'.observed = scan.observed
  BY InvFacts DEF Scan, StoreTypeOK
<1>4. StoreTypeOK'
  BY <1>1, <1>3, RetireType, InvFacts DEF StoreTypeOK
<1>5. ASSUME NEW r \in retired'
      PROVE  /\ r.serial \in 1..issued'
             /\ r.at <= clock'
             /\ \A j \in Key : redis'[j] # NoKey => redis'[j].serial # r.serial
  <2>1. CASE r \in retired
    <3>1. r.at \in Nat
      BY <2>1, InvFacts DEF StoreTypeOK
    <3>2. QED
      BY <1>1, <1>2, <2>1, <3>1, InvFacts DEF StoreInv
  <2>2. ASSUME NEW k \in keys, redis[k] # NoKey,
               r = [serial |-> redis[k].serial, at |-> clock']
        PROVE  /\ r.serial \in 1..issued'
               /\ r.at <= clock'
               /\ \A j \in Key : redis'[j] # NoKey => redis'[j].serial # r.serial
    BY <1>1, <1>2, <2>2 DEF StoreInv
  <2>3. QED
    BY <1>5, <2>1, <2>2 DEF Retire
<1>6. \A j \in Key : EntryOK(snapshot[j])' /\ EntryOK(scan.next[j])'
  <2> TAKE j \in Key
  <2>1. /\ snapshot[j] \in Decision \cup {NoDecision}
        /\ scan.next[j] \in Decision \cup {NoDecision}
        /\ EntryOK(snapshot[j]) /\ EntryOK(scan.next[j])
    BY InvFacts DEF StoreInv, StoreTypeOK
  <2>2. \A d \in Decision \cup {NoDecision} : EntryOK(d) => EntryOK(d)'
    BY <1>1, RetireKeepsEntries, InvFacts
  <2>3. QED
    BY <1>3, <2>1, <2>2 DEF EntryOK
<1>7. QED
  BY <1>1, <1>2, <1>3, <1>4, <1>5, <1>6, InvFacts DEF StoreInv

-----------------------------------------------------------------------------
\* The steps of a refresh leave Redis, time and the history alone, so what has
\* to be shown is the type of the refresh, its instants and its entries.
LEMMA RefreshStep ==
  ASSUME StoreInv, UNCHANGED <<clock, redis, issued, retired>>,
         scan' \in Scan,
         snapshot' \in [Key -> Decision \cup {NoDecision}],
         scan'.on => scan'.started <= clock /\ scan'.observed <= clock,
         \A k \in Key : /\ EntryOK(snapshot'[k]) /\ EntryOK(scan'.next[k])
                        /\ snapshot'[k] # NoDecision =>
                             snapshot'[k].serial \in 1..issued
                        /\ scan'.next[k] # NoDecision =>
                             scan'.next[k].serial \in 1..issued
  PROVE  StoreInv'
BY InvFacts DEF StoreInv, StoreTypeOK, EntryOK

\* What collectAt makes of a key is dated by the refresh and by the key.
LEMMA CollectedOK ==
  ASSUME StoreInv, scan.on, NEW k \in Key
  PROVE  /\ Collected(k) \in Decision \cup {NoDecision}
         /\ EntryOK(Collected(k))
         /\ Collected(k) # NoDecision => Collected(k).serial \in 1..issued
         /\ ~Skipped(redis[k]) => /\ Collected(k) \in Decision
                                  /\ Collected(k).serial = redis[k].serial
<1>1. CASE Skipped(redis[k])
  BY <1>1, InvFacts DEF Collected, StoreInv
<1>2. CASE ~Skipped(redis[k])
  <2> DEFINE v == redis[k]
             d == Collected(k)
  <2>1. /\ v # NoKey /\ v \in Stored /\ v.expires # NoExpiry
        /\ v.serial \in 1..issued /\ v.expires \in Nat /\ clock < v.expires
    BY <1>2, InvFacts DEF Skipped, StoreInv, StoreTypeOK, Stored
  <2>2. scan.started <= clock /\ scan.observed <= clock
    BY DEF StoreInv
  <2>3. d = [action |-> v.action, origin |-> v.origin, only |-> v.only,
             expiresAt |-> scan.observed + (v.expires - clock),
             cacheUntil |-> scan.started + CacheMaxAge,
             serial |-> v.serial, due |-> v.expires]
    BY <1>2 DEF Collected, Entry
  <2>4. d.expiresAt \in Nat /\ d.expiresAt <= v.expires
    BY <2>1, <2>2, <2>3, InvFacts
  <2>5. d.cacheUntil \in Nat /\ d.cacheUntil <= clock + CacheMaxAge
    BY <2>2, <2>3, InvFacts
  <2>6. d \in Decision
    BY <2>1, <2>3, <2>4, <2>5 DEF Decision, Stored
  <2>7. \A r \in retired : r.serial # d.serial
    BY <2>1, <2>3 DEF StoreInv
  <2>8. EntryOK(d)
    BY <2>1, <2>3, <2>4, <2>5, <2>7 DEF EntryOK
  <2>9. QED
    BY <2>1, <2>3, <2>6, <2>8
<1>3. QED
  BY <1>1, <1>2

\* Every step of the store keeps StoreInv.
LEMMA StoreStep == StoreInv /\ [StoreNext]_storeVars => StoreInv'
<1> SUFFICES ASSUME StoreInv, [StoreNext]_storeVars PROVE StoreInv'
  OBVIOUS
<1>1. CASE UNCHANGED storeVars
  BY <1>1 DEF storeVars, StoreInv, StoreTypeOK, EntryOK
<1>2. ASSUME NEW k \in Key, NEW a \in Action, NEW o \in Origin, NEW s \in Scope,
             NEW v \in BOOLEAN, NEW e \in {NoExpiry} \cup {clock + t : t \in Ttl},
             WritePolicy(k, a, o, s, v, e)
      PROVE  StoreInv'
  BY <1>2, WriteStep
<1>3. ASSUME NEW k \in Key, DeletePolicy(k) PROVE StoreInv'
  <2>1. redis' = [j \in Key |-> IF j \in {k} THEN NoKey ELSE redis[j]]
    BY <1>3, InvFacts DEF DeletePolicy, StoreTypeOK
  <2>2. clock' = clock /\ Retire({k}, clock') /\ UNCHANGED <<snapshot, issued>>
        /\ scan' = [scan EXCEPT !.owed = @ \ {k}]
    BY <1>3 DEF DeletePolicy, Retire
  <2>3. \A j \in Key : redis[j] # NoKey =>
          redis[j].expires = NoExpiry \/ clock' < redis[j].expires
    BY <2>2 DEF StoreInv
  <2>4. QED
    BY <2>1, <2>2, <2>3, RemoveStep
<1>4. CASE Tick
  <2>1. Expiring \in SUBSET Key /\ clock' = clock + 1 /\ Retire(Expiring, clock')
    BY <1>4 DEF Tick, Expiring, Retire
  <2>2. \A j \in Key \ Expiring : redis[j] # NoKey =>
          redis[j].expires = NoExpiry \/ clock' < redis[j].expires
    <3> SUFFICES ASSUME NEW j \in Key \ Expiring, redis[j] # NoKey,
                        redis[j].expires # NoExpiry
                 PROVE  clock' < redis[j].expires
      OBVIOUS
    <3>1. clock < redis[j].expires /\ redis[j].expires \in Nat
      BY InvFacts DEF StoreInv, StoreTypeOK, Stored
    <3>2. redis[j].expires # clock + 1
      BY DEF Expiring
    <3>3. QED
      BY <2>1, <3>1, <3>2, InvFacts
  <2>3. QED
    BY <1>4, <2>1, <2>2, RemoveStep DEF Tick
<1>5. CASE StartRefresh
  <2>1. scan' = [Idle EXCEPT !.on = TRUE, !.started = clock,
                             !.owed = {k \in Key : redis[k] # NoKey}]
        /\ UNCHANGED <<clock, redis, snapshot, issued, retired>>
    BY <1>5 DEF StartRefresh
  <2>2. scan' \in Scan /\ scan'.next = EmptySnapshot
        /\ scan'.started = clock /\ scan'.observed = 0
    BY <2>1, IdleType, InvFacts DEF Idle, Scan
  <2>3. \A k \in Key : EntryOK(scan'.next[k]) /\ scan'.next[k] = NoDecision
    BY <2>2 DEF EmptySnapshot, EntryOK
  <2>4. QED
    BY <2>1, <2>2, <2>3, RefreshStep, InvFacts DEF StoreInv, StoreTypeOK
<1>6. ASSUME NEW keys \in SUBSET Key, ScanBatch(keys) PROVE StoreInv'
  <2>1. UNCHANGED <<clock, redis, snapshot, issued, retired>> /\ scan.on
    BY <1>6 DEF ScanBatch
  <2>2. scan' \in Scan /\ scan'.next = scan.next
        /\ scan'.started = scan.started /\ scan'.observed = clock
    BY <1>6, InvFacts DEF ScanBatch, Scan, StoreTypeOK
  <2>3. QED
    BY <2>1, <2>2, RefreshStep, InvFacts DEF StoreInv, StoreTypeOK
<1>7. ASSUME NEW k \in Key, ReadKey(k) PROVE StoreInv'
  <2>1. UNCHANGED <<clock, redis, snapshot, issued, retired>> /\ scan.on
    BY <1>7 DEF ReadKey
  <2>2. /\ Collected(k) \in Decision \cup {NoDecision}
        /\ EntryOK(Collected(k))
        /\ Collected(k) # NoDecision => Collected(k).serial \in 1..issued
    BY <2>1, CollectedOK
  <2>3. /\ scan' \in Scan
        /\ scan'.next = [scan.next EXCEPT ![k] = Collected(k)]
        /\ scan'.started = scan.started /\ scan'.observed = scan.observed
    BY <1>7, <2>2, InvFacts DEF ReadKey, Scan, StoreTypeOK
  <2>4. \A j \in Key : scan'.next[j] = IF j = k THEN Collected(k) ELSE scan.next[j]
    BY <2>3, InvFacts
  <2>5. QED
    BY <2>1, <2>2, <2>3, <2>4, RefreshStep, InvFacts DEF StoreInv, StoreTypeOK
<1>8. CASE FinishRefresh
  <2>1. UNCHANGED <<clock, redis, issued, retired>> /\ scan' = Idle
        /\ snapshot' = scan.next
    BY <1>8 DEF FinishRefresh
  <2>2. /\ scan' \in Scan /\ ~scan'.on
        /\ \A k \in Key : scan'.next[k] = NoDecision
    BY <2>1, IdleType DEF Idle, EmptySnapshot
  <2>3. QED
    BY <2>1, <2>2, RefreshStep, InvFacts DEF StoreInv, EntryOK
<1>9. CASE FailRefresh
  <2>1. UNCHANGED <<clock, redis, issued, retired>> /\ scan' = Idle
        /\ snapshot' = EmptySnapshot
    BY <1>9 DEF FailRefresh
  <2>2. /\ scan' \in Scan /\ ~scan'.on
        /\ \A k \in Key : scan'.next[k] = NoDecision /\ snapshot'[k] = NoDecision
    BY <2>1, IdleType DEF Idle, EmptySnapshot
  <2>3. QED
    BY <2>1, <2>2, RefreshStep, IdleType DEF EntryOK
<1>10. QED
  BY <1>1, <1>2, <1>3, <1>4, <1>5, <1>6, <1>7, <1>8, <1>9 DEF StoreNext

\* StoreInv holds at all times.
THEOREM StoreAlways == StoreSpec => []StoreInv
BY StoreStart, StoreStep, PTL DEF StoreSpec

-----------------------------------------------------------------------------
\* What a lookup answers is a live entry of the map.
LEMMA LookupAnswers ==
  ASSUME NEW ip \in IP, NEW ep \in Endpoint, LookupRequest(ip, ep) # NoDecision
  PROVE  \E k \in Key : /\ LookupRequest(ip, ep) = snapshot[k]
                        /\ Live(snapshot[k])
<1>1. <<ip, Everywhere>> \in Key /\ <<ip, ep>> \in Key
  BY DEF Key, Scope
<1>2. QED
  BY <1>1 DEF LookupRequest

\* No request is ever answered with a policy whose deadline in Redis has passed
\* or that has none (collectAt and Lookup, with any delay in between).
THEOREM DeadlinesRespected == StoreSpec => []DeadlineRespected
<1>1. StoreInv => DeadlineRespected
  <2> SUFFICES ASSUME StoreInv, NEW ip \in IP, NEW ep \in Endpoint,
                      LookupRequest(ip, ep) # NoDecision
               PROVE  /\ LookupRequest(ip, ep).due # NoExpiry
                      /\ clock < LookupRequest(ip, ep).due
    BY DEF DeadlineRespected
  <2>1. PICK k \in Key : LookupRequest(ip, ep) = snapshot[k] /\ Live(snapshot[k])
    BY LookupAnswers
  <2>2. snapshot[k] \in Decision /\ EntryOK(snapshot[k])
    BY <2>1, InvFacts DEF Live, StoreInv, StoreTypeOK
  <2>3. QED
    BY <2>1, <2>2, InvFacts DEF Live, EntryOK, Decision
<1>2. QED
  BY <1>1, StoreAlways, PTL

\* A policy that left Redis is no longer answered CacheMaxAge later, whatever
\* becomes of the refreshes (cacheUntil and the failed refresh's empty map).
THEOREM RevocationsBounded == StoreSpec => []RevocationBounded
<1>1. StoreInv => RevocationBounded
  <2> SUFFICES ASSUME StoreInv, NEW ip \in IP, NEW ep \in Endpoint,
                      LookupRequest(ip, ep) # NoDecision,
                      NEW r \in retired, r.serial = LookupRequest(ip, ep).serial
               PROVE  clock < r.at + CacheMaxAge
    BY DEF RevocationBounded
  <2>1. PICK k \in Key : LookupRequest(ip, ep) = snapshot[k] /\ Live(snapshot[k])
    BY LookupAnswers
  <2>2. snapshot[k] \in Decision /\ EntryOK(snapshot[k]) /\ r.at \in Nat
    BY <2>1, InvFacts DEF Live, StoreInv, StoreTypeOK
  <2>3. QED
    BY <2>1, <2>2, InvFacts DEF Live, EntryOK, Decision
<1>2. QED
  BY <1>1, StoreAlways, PTL

\* The refresh goroutine over Redis implements the policy source the request
\* path is built on: time advances it, an ended refresh swaps the map whole for
\* one that keeps the promise, and everything else is invisible.
THEOREM StoreImplementsSource == StoreSpec => SourceSpec
<1>1. StoreInit => SourceInit
  BY DEF StoreInit, SourceInit
<1>2. StoreInv /\ [StoreNext]_storeVars => [Advance \/ Swap]_<<clock, snapshot>>
  <2> SUFFICES ASSUME StoreInv, StoreNext
               PROVE  Advance \/ Swap \/ UNCHANGED <<clock, snapshot>>
    BY DEF storeVars
  <2>1. CASE Tick
    BY <2>1 DEF Tick, Advance
  <2>2. CASE FinishRefresh
    <3>1. snapshot' = scan.next /\ UNCHANGED clock
      BY <2>2 DEF FinishRefresh
    <3>2. \A k \in Key : EntryOK(scan.next[k])
      BY DEF StoreInv
    <3>3. QED
      BY <3>1, <3>2, InvFacts DEF Swap, Promised, EntryOK
  <2>3. CASE FailRefresh
    BY <2>3 DEF FailRefresh, Swap, Promised, EmptySnapshot
  <2>4. QED
    BY <2>1, <2>2, <2>3 DEF StoreNext, WritePolicy, DeletePolicy, StartRefresh,
         ScanBatch, ReadKey
<1>3. QED
  BY <1>1, <1>2, StoreAlways, PTL DEF StoreSpec, SourceSpec

-----------------------------------------------------------------------------
\* Every step of the store keeps RefreshInv: a policy that was written during
\* the refresh is not steady, and one that stands is still owed, in the batch or
\* collected.
LEMMA RefreshInvStep ==
  StoreInv /\ RefreshInv /\ [StoreNext]_storeVars => RefreshInv'
<1> SUFFICES ASSUME StoreInv, RefreshInv, [StoreNext]_storeVars, scan'.on,
                    NEW k \in Key, Steady(k)'
             PROVE  k \in scan'.owed \cup scan'.batch \/ Carries(scan.next, k)'
  BY DEF RefreshInv
<1>1. ASSUME redis'[k] = redis[k], scan.on, scan'.started = scan.started
      PROVE  k \in scan.owed \cup scan.batch \/ Carries(scan.next, k)
  BY <1>1 DEF RefreshInv, Steady
<1>2. CASE UNCHANGED storeVars
  BY <1>1, <1>2 DEF storeVars, Carries
<1>3. ASSUME NEW j \in Key, NEW a \in Action, NEW o \in Origin, NEW s \in Scope,
             NEW v \in BOOLEAN, NEW e \in {NoExpiry} \cup {clock + t : t \in Ttl},
             WritePolicy(j, a, o, s, v, e)
      PROVE  k \in scan'.owed \cup scan'.batch \/ Carries(scan.next, k)'
  <2>1. scan' = scan /\ clock' = clock
    BY <1>3 DEF WritePolicy
  <2>2. j # k
    <3>1. scan.started <= clock /\ clock \in Nat /\ scan.started \in Nat
      BY <2>1, InvFacts DEF StoreInv
    <3>2. j = k => redis'[k].at = clock
      BY <1>3, InvFacts DEF WritePolicy, StoreTypeOK
    <3>3. QED
      BY <2>1, <3>1, <3>2 DEF Steady
  <2>3. redis'[k] = redis[k]
    BY <1>3, <2>2, InvFacts DEF WritePolicy, StoreTypeOK
  <2>4. QED
    BY <1>1, <2>1, <2>3 DEF Carries
<1>4. ASSUME NEW keys \in SUBSET Key,
             redis' = [j \in Key |-> IF j \in keys THEN NoKey ELSE redis[j]],
             scan' = [scan EXCEPT !.owed = @ \ keys]
      PROVE  k \in scan'.owed \cup scan'.batch \/ Carries(scan.next, k)'
  <2>1. k \notin keys /\ redis'[k] = redis[k]
    BY <1>4 DEF Steady
  <2>2. /\ scan'.on = scan.on /\ scan'.started = scan.started
        /\ scan'.batch = scan.batch /\ scan'.next = scan.next
        /\ scan'.owed = scan.owed \ keys
    BY <1>4, InvFacts DEF StoreTypeOK, Scan
  <2>3. QED
    BY <1>1, <2>1, <2>2 DEF Carries
<1>5. ASSUME NEW j \in Key, DeletePolicy(j)
      PROVE  k \in scan'.owed \cup scan'.batch \/ Carries(scan.next, k)'
  <2>1. redis' = [i \in Key |-> IF i \in {j} THEN NoKey ELSE redis[i]]
    BY <1>5, InvFacts DEF DeletePolicy, StoreTypeOK
  <2>2. QED
    BY <1>4, <1>5, <2>1 DEF DeletePolicy
<1>6. CASE Tick
  <2>1. Expiring \in SUBSET Key
    BY DEF Expiring
  <2>2. QED
    BY <1>4, <1>6, <2>1 DEF Tick
<1>7. CASE StartRefresh
  <2>1. scan'.owed = {j \in Key : redis[j] # NoKey} /\ redis' = redis
    BY <1>7 DEF StartRefresh, Idle
  <2>2. QED
    BY <2>1 DEF Steady
<1>8. ASSUME NEW keys \in SUBSET Key, ScanBatch(keys)
      PROVE  k \in scan'.owed \cup scan'.batch \/ Carries(scan.next, k)'
  <2>1. /\ scan.on /\ scan.batch = {} /\ redis' = redis
        /\ scan'.started = scan.started /\ scan'.next = scan.next
        /\ scan'.owed = scan.owed \ keys /\ scan'.batch = keys
    BY <1>8, InvFacts DEF ScanBatch, StoreTypeOK, Scan
  <2>2. QED
    BY <1>1, <2>1 DEF Carries
<1>9. ASSUME NEW j \in Key, ReadKey(j)
      PROVE  k \in scan'.owed \cup scan'.batch \/ Carries(scan.next, k)'
  <2>1. /\ scan.on /\ redis' = redis /\ scan'.started = scan.started
        /\ scan'.owed = scan.owed /\ scan'.batch = scan.batch \ {j}
        /\ scan'.next = [scan.next EXCEPT ![j] = Collected(j)]
    BY <1>9, InvFacts DEF ReadKey, StoreTypeOK, Scan
  <2>2. CASE j = k
    <3>1. ~Skipped(redis[k])
      BY <2>1 DEF Steady, Skipped
    <3>2. Collected(k) # NoDecision /\ Collected(k).serial = redis[k].serial
      BY <2>1, <3>1, CollectedOK, SourceConstants
    <3>3. QED
      BY <2>1, <2>2, <3>2, InvFacts DEF Carries
  <2>3. CASE j # k
    BY <1>1, <2>1, <2>3, InvFacts DEF Carries
  <2>4. QED
    BY <2>2, <2>3
<1>10. CASE FinishRefresh
  BY <1>10 DEF FinishRefresh, Idle
<1>11. CASE FailRefresh
  BY <1>11 DEF FailRefresh, Idle
<1>12. QED
  BY <1>2, <1>3, <1>5, <1>6, <1>7, <1>8, <1>9, <1>10, <1>11 DEF StoreNext

\* A refresh that completes misses no enforceable policy that stood throughout
\* (SCAN's guarantee, the batch pipeline and the skipping of bad values).
THEOREM RefreshesComplete == StoreSpec => RefreshComplete
<1> DEFINE Full == FinishRefresh =>
                     \A k \in Key : Steady(k) => Carries(snapshot', k)
<1>1. StoreInit => RefreshInv
  BY DEF StoreInit, RefreshInv, Idle
<1>2. RefreshInv /\ [StoreNext]_storeVars => [Full]_storeVars
  BY DEF RefreshInv, FinishRefresh, Carries
<1>3. QED
  BY <1>1, <1>2, RefreshInvStep, StoreAlways, PTL DEF StoreSpec, RefreshComplete

-----------------------------------------------------------------------------
(* The live settings. *)

\* What the assumptions on the constants say of the file.
LEMMA FileUsable ==
  /\ File \in Setting
  /\ File.fate = "usable"
  /\ \A c \in Setting : /\ c.policy \in BOOLEAN
                        /\ c.armed \in BOOLEAN
                        /\ c.baseline \in BOOLEAN
                        /\ c.fate \in {"usable", "refused", "undecodable"}
BY SettingsConstants DEF EnforcementConfig

\* A gateway that starts runs its file.
LEMMA SettingsStart == Init => SettingsInv
<1> SUFFICES ASSUME Init PROVE SettingsInv
  OBVIOUS
<1>1. TypeOK
  BY FileUsable DEF Init, TypeOK, FromFile, Sourced, EnforcerFor
<1>2. QED
  BY <1>1, FileUsable DEF Init, SettingsInv, Runs, FromFile, EnforcerFor

\* Every step of the console, the process and the watcher keeps SettingsInv.
LEMMA SettingsStep == SettingsInv /\ [Next]_vars => SettingsInv'
<1> SUFFICES ASSUME SettingsInv, [Next]_vars PROVE SettingsInv'
  OBVIOUS
<1> USE FileUsable DEF SettingsInv, TypeOK, Runs, EnforcerFor, Sourced, FromFile
<1>1. CASE UNCHANGED vars
  BY <1>1 DEF vars
<1>2. ASSUME NEW cfg \in Setting, PutOverride(cfg) PROVE SettingsInv'
  BY <1>2 DEF PutOverride, watcher, chain
<1>3. CASE ClearOverride
  BY <1>3 DEF ClearOverride, watcher, chain
<1>4. CASE Stop
  BY <1>4 DEF Stop, watcher, chain
<1>5. CASE Boot
  BY <1>5 DEF Boot
<1>6. CASE Lapse
  BY <1>6 DEF Lapse, watcher, chain
<1>7. CASE PollFails
  BY <1>7 DEF PollFails, Polling, chain
<1>8. CASE PollUnchanged
  BY <1>8 DEF PollUnchanged, Polling, chain
<1>9. CASE PollCleared
  BY <1>9 DEF PollCleared, Polling, chain
<1>10. CASE PollOffered
  BY <1>10 DEF PollOffered, Polling, chain
<1>11. CASE ApplyReflex
  BY <1>11 DEF ApplyReflex
<1>12. CASE ApplyGate
  BY <1>12 DEF ApplyGate
<1>13. CASE ApplyEnforcer
  BY <1>13 DEF ApplyEnforcer
<1>14. CASE Publish
  BY <1>14 DEF Publish, chain
<1>15. CASE BuildChain
  BY <1>15 DEF BuildChain, watcher, chain
<1>16. QED
  BY <1>1, <1>2, <1>3, <1>4, <1>5, <1>6, <1>7, <1>8, <1>9, <1>10, <1>11, <1>12,
     <1>13, <1>14, <1>15 DEF Next, Watch

\* SettingsInv holds of every gateway at all times.
THEOREM SettingsAlways == Spec => []SettingsInv
BY SettingsStart, SettingsStep, PTL DEF Spec

\* Outside an apply the reflex, the gate and the enforcer run the one block the
\* watcher believes is in force (live.apply stores them one after the other and
\* a refused override leaves nothing behind).
THEOREM ChainAlwaysRunsApplied == Spec => []ChainRunsApplied
<1>1. SettingsInv => ChainRunsApplied
  BY DEF SettingsInv, ChainRunsApplied
<1>2. QED
  BY <1>1, SettingsAlways, PTL

\* What the watcher publishes is usable and is what the chain runs at that
\* moment.
THEOREM PublishedIsRunning == Spec => PublishesWhatRuns
<1> DEFINE Honest == effective' # effective /\ effective' # NoValue =>
                       effective'.cfg.fate = "usable" /\ Runs(effective')
<1>1. SettingsInv /\ [Next]_vars => [Honest]_vars
  <2> SUFFICES ASSUME SettingsInv, Next, effective' # effective,
                      effective' # NoValue
               PROVE  effective'.cfg.fate = "usable" /\ Runs(effective')
    BY DEF vars
  <2>1. CASE Publish
    BY <2>1 DEF Publish, SettingsInv, Runs
  <2>2. QED
    BY <2>1 DEF Next, PutOverride, ClearOverride, Stop, Boot, Lapse, PollFails,
         Watch, PollUnchanged, PollCleared, PollOffered, ApplyReflex, ApplyGate,
         ApplyEnforcer, BuildChain
<1>2. QED
  BY <1>1, SettingsAlways, PTL DEF Spec, PublishesWhatRuns

-----------------------------------------------------------------------------
(* The live settings with their history, and the contract.                   *)

\* Whatever the history records, the settings do what LiveSettings lets them.
LEMMA HistoryStepIsStep == HistoryNext => Next
BY DEF HistoryNext, Asks, Reads, Next, Watch

\* The record decides nothing: a gateway with a history is a gateway, so that what
\* is shown of the one is shown of the other (watcher.go keeps no such record).
THEOREM HistoryAddsNothing == HistorySpec => Init /\ [][Next]_vars
<1>1. HistoryInit => Init
  BY DEF HistoryInit
<1>2. [HistoryNext]_<<vars, historyVars>> => [Next]_vars
  BY HistoryStepIsStep
<1> QED BY <1>1, <1>2, PTL DEF HistorySpec

\* The parts of HistoryInv.
LEMMA HistoryParts ==
  ASSUME HistoryInv
  PROVE  /\ requests \in Seq(Setting \cup {NoOverride}) /\ Len(requests) \in Nat
         /\ override = IF requests = <<>> THEN NoOverride ELSE requests[Len(requests)]
         /\ read \in Nat /\ held \in Nat /\ reached \in Nat
         /\ reached <= held /\ held <= read /\ read <= Len(requests)
         /\ Answers(applied, held)
         /\ pc \in {"reflex", "gate", "enforcer"} => Answers(target, read)
BY DEF HistoryInv

\* A request leaves the earlier ones as they were.
LEMMA EarlierStand ==
  ASSUME NEW S, requests \in Seq(S), NEW r \in S, requests' = Append(requests, r)
  PROVE  /\ requests' \in Seq(S) /\ requests' # <<>>
         /\ Len(requests') = Len(requests) + 1 /\ requests'[Len(requests')] = r
         /\ \A n \in 1..Len(requests) : requests'[n] = requests[n]
OBVIOUS

\* The console asks.
LEMMA AskKeepsHistory ==
  ASSUME HistoryInv, SettingsInv', NEW r \in Setting \cup {NoOverride}, override' = r,
         requests' = Append(requests, r),
         UNCHANGED <<read, held, reached, pc, target, applied>>
  PROVE  HistoryInv'
<1>1. /\ requests' \in Seq(Setting \cup {NoOverride}) /\ requests' # <<>>
      /\ Len(requests') = Len(requests) + 1 /\ requests'[Len(requests')] = r
      /\ \A n \in 1..Len(requests) : requests'[n] = requests[n]
  BY HistoryParts, EarlierStand
<1>2. read' <= Len(requests') /\ held' <= read' /\ reached' <= held'
  BY <1>1, HistoryParts
<1>3. \A n \in Nat : n # 0 /\ n <= Len(requests) => requests'[n] = requests[n]
  BY <1>1
<1>4. held <= Len(requests)
  BY HistoryParts
<1>5. Answers(applied, held)'
  BY <1>3, <1>4, HistoryParts DEF Answers
<1>6. (pc \in {"reflex", "gate", "enforcer"} => Answers(target, read))'
  BY <1>3, HistoryParts DEF Answers
<1> QED BY <1>1, <1>2, <1>5, <1>6, HistoryParts DEF HistoryInv

\* What is left to show of a step of the gateway.
LEMMA GatewayKeepsHistory ==
  ASSUME HistoryInv, SettingsInv', UNCHANGED <<override, requests>>,
         read' \in Nat, held' \in Nat, reached' \in Nat,
         reached' <= held', held' <= read', read' <= Len(requests),
         Answers(applied', held'),
         pc' \in {"reflex", "gate", "enforcer"} => Answers(target', read')
  PROVE  HistoryInv'
<1>1. Answers(applied, held)'
  BY DEF Answers
<1>2. (pc \in {"reflex", "gate", "enforcer"} => Answers(target, read))'
  BY DEF Answers
<1> QED BY <1>1, <1>2, HistoryParts DEF HistoryInv

\* The watcher looks at the override.
LEMMA ReadKeepsHistory ==
  ASSUME HistoryInv, SettingsInv', Reads(PollCleared) \/ Reads(PollOffered)
  PROVE  HistoryInv'
<1>1. UNCHANGED <<override, requests, held, reached, applied>>
  BY DEF Reads, PollCleared, PollOffered
<1>2. CASE pc' = "reflex"
  <2>1. read' = Len(requests)
    BY <1>2 DEF Reads
  <2>2. Answers(target', read')
    <3>1. CASE PollCleared
      BY <3>1 DEF PollCleared, Answers
    <3>2. CASE PollOffered
      <4>1. override # NoOverride /\ target' = [cfg |-> override, source |-> "console"]
        BY <1>2, <3>2 DEF PollOffered
      <4>2. Len(requests) # 0 /\ requests[Len(requests)] = override
        BY <4>1, HistoryParts
      <4> QED BY <2>1, <4>1, <4>2 DEF Answers
    <3> QED BY <3>1, <3>2 DEF Reads
  <2>3. held <= Len(requests)
    BY HistoryParts
  <2> QED BY <1>1, <2>1, <2>2, <2>3, HistoryParts, GatewayKeepsHistory
<1>3. CASE pc' # "reflex"
  <2>1. read' = read
    BY <1>3 DEF Reads
  <2>2. pc' = "publish"
    BY <1>3 DEF Reads, PollCleared, PollOffered
  <2> QED BY <1>1, <2>1, <2>2, HistoryParts, GatewayKeepsHistory
<1> QED BY <1>2, <1>3

\* Every step keeps HistoryInv.
LEMMA HistoryStep ==
  HistoryInv /\ [HistoryNext]_<<vars, historyVars>> => HistoryInv'
<1> SUFFICES ASSUME HistoryInv, [HistoryNext]_<<vars, historyVars>> PROVE HistoryInv'
  OBVIOUS
<1>1. SettingsInv'
  BY SettingsStep, HistoryStepIsStep DEF HistoryInv
<1>2. ASSUME NEW cfg \in Setting, Asks(PutOverride(cfg), cfg) PROVE HistoryInv'
  <2>1. override' = cfg /\ requests' = Append(requests, cfg)
        /\ UNCHANGED <<read, held, reached, pc, target, applied>>
    BY <1>2 DEF Asks, PutOverride, watcher
  <2> QED BY <1>1, <2>1, AskKeepsHistory
<1>3. CASE Asks(ClearOverride, NoOverride)
  <2>1. override' = NoOverride /\ requests' = Append(requests, NoOverride)
        /\ UNCHANGED <<read, held, reached, pc, target, applied>>
    BY <1>3 DEF Asks, ClearOverride, watcher
  <2> QED BY <1>1, <2>1, AskKeepsHistory
<1>4. CASE Reads(PollCleared) \/ Reads(PollOffered)
  BY <1>1, <1>4, ReadKeepsHistory
<1>5. CASE ApplyEnforcer /\ held' = read /\ UNCHANGED <<requests, read, reached>>
  <2>1. UNCHANGED <<override, requests, read, reached>> /\ held' = read
        /\ applied' = target /\ pc = "enforcer" /\ pc' = "publish"
    BY <1>5 DEF ApplyEnforcer
  <2>2. Answers(applied', held')
    BY <2>1, HistoryParts
  <2>3. reached' <= held' /\ held' <= read'
    BY <2>1, HistoryParts
  <2> QED BY <1>1, <2>1, <2>2, <2>3, HistoryParts, GatewayKeepsHistory
<1>6. CASE Publish /\ reached' = (IF effective' = applied THEN held ELSE reached)
           /\ UNCHANGED <<requests, read, held>>
  <2>1. UNCHANGED <<override, requests, read, held, applied>> /\ pc' = "idle"
    BY <1>6 DEF Publish
  <2>2. reached' \in Nat /\ reached' <= held'
    BY <1>6, HistoryParts
  <2> QED BY <1>1, <2>1, <2>2, HistoryParts, GatewayKeepsHistory
<1>7. ASSUME UNCHANGED historyVars,
             \/ Stop
             \/ Boot
             \/ Lapse
             \/ PollFails
             \/ PollUnchanged
             \/ ApplyReflex
             \/ ApplyGate
             \/ BuildChain
             \/ UNCHANGED vars
      PROVE  HistoryInv'
  <2>1. UNCHANGED <<override, requests, read, held, reached>>
    BY <1>7 DEF historyVars, vars, Stop, Boot, Lapse, PollFails, PollUnchanged,
         ApplyReflex, ApplyGate, BuildChain
  <2>2. applied' = applied \/ applied' = FromFile
    BY <1>7 DEF vars, Stop, Boot, Lapse, PollFails, PollUnchanged, ApplyReflex,
         ApplyGate, BuildChain, watcher
  <2>3. Answers(applied', held')
    BY <2>1, <2>2, HistoryParts DEF Answers
  <2>4. pc' \in {"idle", "publish"} \/ (pc \in {"reflex", "gate", "enforcer"} /\ target' = target)
        \/ (pc' = pc /\ target' = target)
    BY <1>7 DEF vars, Stop, Boot, Lapse, PollFails, PollUnchanged, ApplyReflex,
         ApplyGate, BuildChain, watcher
  <2>5. pc' \in {"reflex", "gate", "enforcer"} => Answers(target', read')
    BY <2>1, <2>4, HistoryParts
  <2> QED BY <1>1, <2>1, <2>3, <2>5, HistoryParts, GatewayKeepsHistory
<1> QED BY <1>2, <1>3, <1>4, <1>5, <1>6, <1>7 DEF HistoryNext, vars

\* At first.
LEMMA HistoryStart == HistoryInit => HistoryInv
<1> SUFFICES ASSUME HistoryInit PROVE HistoryInv
  OBVIOUS
<1>1. SettingsInv /\ override \in Setting \cup {NoOverride} /\ applied = FromFile /\ pc = "idle"
  BY SettingsStart DEF HistoryInit, Init
<1>2. read = 0 /\ held = 0 /\ reached = 0
  BY DEF HistoryInit
<1>3. CASE override = NoOverride
  <2>1. requests = <<>>
    BY <1>3 DEF HistoryInit
  <2>2. requests \in Seq(Setting \cup {NoOverride}) /\ Len(requests) = 0
    BY <2>1
  <2> QED BY <1>1, <1>2, <1>3, <2>1, <2>2 DEF HistoryInv, Answers
<1>4. CASE override # NoOverride
  <2>1. requests = <<override>>
    BY <1>4 DEF HistoryInit
  <2>2. requests \in Seq(Setting \cup {NoOverride}) /\ Len(requests) = 1
        /\ requests # <<>> /\ requests[1] = override
    BY <1>1, <2>1
  <2> QED BY <1>1, <1>2, <2>2 DEF HistoryInv, Answers
<1> QED BY <1>3, <1>4

\* HistoryInv holds at all times.
LEMMA HistoryAlways == HistorySpec => []HistoryInv
BY HistoryStart, HistoryStep, PTL DEF HistorySpec

-----------------------------------------------------------------------------
\* As the contract begins, so does the gateway.
LEMMA GatewayContractStart == HistoryInit => Contract!Init
<1> SUFFICES ASSUME HistoryInit PROVE Contract!Init
  OBVIOUS
<1>1. Published = NoOverride /\ reached = 0
  BY DEF HistoryInit, Init, Published
<1>2. requests \in {<<>>} \cup {<<b>> : b \in Setting}
  BY DEF HistoryInit, Init
<1> QED BY <1>1, <1>2 DEF Contract!Init

\* What answers a request is what the contract publishes for it.
LEMMA AnswerIsPublished ==
  ASSUME NEW s, NEW n, Answers(s, n)
  PROVE  [value |-> s.cfg, source |-> s.source] \in {Contract!FileInForce, Contract!SettingsOf(n)}
<1>1. CASE s = FromFile
  <2>1. s.cfg = File /\ s.source = "file"
    BY <1>1 DEF FromFile
  <2> QED BY <2>1 DEF Contract!FileInForce
<1>2. CASE n # 0 /\ requests[n] # NoOverride /\ s = [cfg |-> requests[n], source |-> "console"]
  <2>1. s.cfg = requests[n] /\ s.source = "console"
    BY <1>2
  <2>2. Contract!SettingsOf(n) = [value |-> requests[n], source |-> "console"]
    BY <1>2 DEF Contract!SettingsOf
  <2> QED BY <2>1, <2>2
<1> QED BY <1>1, <1>2 DEF Answers

\* The gateway publishes, or finds Redis gone and leaves what stood.
LEMMA GatewayPublishes ==
  ASSUME HistoryInv, Publish, reached' = (IF effective' = applied THEN held ELSE reached),
         UNCHANGED requests
  PROVE  Contract!Next \/ UNCHANGED <<requests, reached, Published>>
<1>1. effective' \in {applied, effective}
  BY DEF Publish
<1>2. CASE effective' = applied
  <2>1. reached' = held
    BY <1>2
  <2>2. held \in reached..Len(requests)
    BY HistoryParts
  <2>3. applied # NoValue
    BY SettingsConstants DEF HistoryInv, SettingsInv, TypeOK, Sourced
  <2>4. Published' = [value |-> applied.cfg, source |-> applied.source]
    BY <1>2, <2>3 DEF Published
  <2>5. Published' \in {Contract!FileInForce, Contract!SettingsOf(held)}
    BY <2>4, HistoryParts, AnswerIsPublished
  <2>6. Contract!Publish
    BY <2>1, <2>2, <2>5 DEF Contract!Publish
  <2> QED BY <2>6 DEF Contract!Next
<1>3. CASE effective' # applied
  <2>1. effective' = effective /\ reached' = reached
    BY <1>1, <1>3
  <2> QED BY <2>1 DEF Published
<1> QED BY <1>2, <1>3

\* Each step is one of the contract, or none.
LEMMA GatewayContractStep ==
  HistoryInv /\ [HistoryNext]_<<vars, historyVars>> => [Contract!Next]_<<requests, reached, Published>>
<1> SUFFICES ASSUME HistoryInv, [HistoryNext]_<<vars, historyVars>>
             PROVE  Contract!Next \/ UNCHANGED <<requests, reached, Published>>
  OBVIOUS
<1>1. ASSUME NEW r \in Setting \cup {NoOverride}, requests' = Append(requests, r),
             UNCHANGED <<reached, effective>>
      PROVE  Contract!Next
  <2>1. UNCHANGED Published
    BY <1>1 DEF Published
  <2> QED BY <1>1, <2>1 DEF Contract!Next, Contract!Ask
<1>2. ASSUME NEW cfg \in Setting, Asks(PutOverride(cfg), cfg) PROVE Contract!Next
  <2>1. requests' = Append(requests, cfg) /\ UNCHANGED <<reached, effective>>
    BY <1>2 DEF Asks, PutOverride
  <2> QED BY <1>1, <2>1
<1>3. CASE Asks(ClearOverride, NoOverride)
  <2>1. requests' = Append(requests, NoOverride) /\ UNCHANGED <<reached, effective>>
    BY <1>3 DEF Asks, ClearOverride
  <2> QED BY <1>1, <2>1
<1>4. CASE Publish /\ reached' = (IF effective' = applied THEN held ELSE reached)
           /\ UNCHANGED <<requests, read, held>>
  BY <1>4, GatewayPublishes
<1>5. CASE Lapse /\ UNCHANGED historyVars
  <2>1. Published' = NoOverride /\ UNCHANGED <<requests, reached>>
    BY <1>5 DEF Lapse, Published, historyVars
  <2> QED BY <2>1 DEF Contract!Next, Contract!Lapse
<1>6. CASE \/ Reads(PollCleared)
           \/ Reads(PollOffered)
           \/ ApplyEnforcer /\ held' = read /\ UNCHANGED <<requests, read, reached>>
  <2>1. UNCHANGED <<requests, reached, effective>>
    BY <1>6 DEF Reads, PollCleared, PollOffered, ApplyEnforcer
  <2> QED BY <2>1 DEF Published
<1>7. ASSUME UNCHANGED historyVars,
             \/ Stop
             \/ Boot
             \/ PollFails
             \/ PollUnchanged
             \/ ApplyReflex
             \/ ApplyGate
             \/ BuildChain
             \/ UNCHANGED vars
      PROVE  UNCHANGED <<requests, reached, Published>>
  <2>1. UNCHANGED <<requests, reached, effective>>
    BY <1>7 DEF historyVars, vars, Stop, Boot, PollFails, PollUnchanged, ApplyReflex,
         ApplyGate, BuildChain
  <2> QED BY <2>1 DEF Published
<1> QED BY <1>2, <1>3, <1>4, <1>5, <1>6, <1>7 DEF HistoryNext, vars

\* The gateway's settings implement SettingsContract: once it has published the
\* answer to a request no earlier request comes back, for every file and every set
\* of blocks, whatever is refused, cleared or asked for again, and however often the
\* gateway restarts, loses Redis or publishes late.
THEOREM LiveSettingsMeetContract == HistorySpec => AnswersInOrder
BY GatewayContractStart, GatewayContractStep, HistoryAlways, PTL
   DEF HistorySpec, AnswersInOrder, Contract!Spec
=============================================================================

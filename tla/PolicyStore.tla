----------------------------- MODULE PolicyStore -----------------------------
(***************************************************************************)
(* The policy keys the decision engine keeps in Redis and the gateway's    *)
(* local copy of them (gateway/internal/policy/store.go).                  *)
(*                                                                         *)
(* The engine SETs policy keys with a time to live; Redis drops a key at   *)
(* its deadline.  A goroutine of the gateway rebuilds a map of every key   *)
(* with SCAN and a pipeline of GET+PTTL scripts, one batch at a time, and  *)
(* swaps it in whole.  Requests read only that map.  Nothing is atomic     *)
(* across the calls of one refresh: keys are written, removed and expire   *)
(* between them, and time passes between taking the instant a batch was    *)
(* "observed" and reading the keys of that batch.                          *)
(*                                                                         *)
(* This is the implementation of PolicySource.                             *)
(***************************************************************************)
EXTENDS PolicySource

CONSTANTS
  Ttl,          \* lifetimes a writer may give a key
  NoKey,        \* Redis: the key does not exist
  MaxClock,     \* bound: last instant of the model
  MaxWrites     \* bound: number of policies written

ASSUME StoreConstants ==
  /\ Ttl \subseteq Nat \ {0}
  /\ MaxClock \in Nat
  /\ MaxWrites \in Nat

VARIABLES
  redis,        \* the value of every policy key
  scan,         \* the refresh in progress
  issued,       \* how many policies have been written (their serial numbers)
  retired       \* history: when a policy stopped being its key's value

storeVars == <<clock, redis, scan, snapshot, issued, retired>>

\* A policy value.  A deadline of NoExpiry is a key without one (PTTL -1);
\* "valid" is false for JSON that will not parse; "serial" and "at" identify
\* the write.
Stored == [serial : Nat, at : Nat, valid : BOOLEAN, action : Action,
           origin : Origin, only : Scope, expires : Nat]

\* "owed" is SCAN's guarantee: the keys present since the scan began that it
\* has not returned yet.
Idle == [on |-> FALSE, started |-> 0, observed |-> 0, batch |-> {},
         owed |-> {}, next |-> EmptySnapshot]

Scan == [on : BOOLEAN, started : Nat, observed : Nat, batch : SUBSET Key,
         owed : SUBSET Key, next : [Key -> Decision \cup {NoDecision}]]

StoreTypeOK ==
  /\ clock \in Nat
  /\ redis \in [Key -> Stored \cup {NoKey}]
  /\ scan \in Scan
  /\ snapshot \in [Key -> Decision \cup {NoDecision}]
  /\ issued \in Nat
  /\ retired \subseteq [serial : Nat, at : Nat]

StoreInit ==
  /\ clock = 0
  /\ redis = [k \in Key |-> NoKey]
  /\ scan = Idle
  /\ snapshot = EmptySnapshot
  /\ issued = 0
  /\ retired = {}

-----------------------------------------------------------------------------
(* Redis and its writers. *)

Retire(keys, at) ==
  retired' = retired \cup
    {[serial |-> redis[k].serial, at |-> at] :
        k \in {j \in keys : redis[j] # NoKey}}

\* SET with or without EX.  A rewritten key stays in the keyspace, so SCAN
\* still owes it.
WritePolicy(k, action, origin, only, valid, expires) ==
  /\ issued < MaxWrites
  /\ only = k[2] \/ k[2] = Everywhere
  /\ issued' = issued + 1
  /\ redis' = [redis EXCEPT ![k] =
       [serial |-> issued', at |-> clock, valid |-> valid, action |-> action,
        origin |-> origin, only |-> only, expires |-> expires]]
  /\ Retire({k}, clock)
  /\ UNCHANGED <<clock, scan, snapshot>>

\* DEL, by the console's reset or by hand.
DeletePolicy(k) ==
  /\ redis[k] # NoKey
  /\ redis' = [redis EXCEPT ![k] = NoKey]
  /\ Retire({k}, clock)
  /\ scan' = [scan EXCEPT !.owed = @ \ {k}]
  /\ UNCHANGED <<clock, snapshot, issued>>

Expiring == {k \in Key : redis[k] # NoKey /\ redis[k].expires = clock + 1}

\* Time passes; Redis drops the keys whose deadline arrives.
Tick ==
  /\ clock < MaxClock
  /\ clock' = clock + 1
  /\ redis' = [k \in Key |-> IF k \in Expiring THEN NoKey ELSE redis[k]]
  /\ Retire(Expiring, clock + 1)
  /\ scan' = [scan EXCEPT !.owed = @ \ Expiring]
  /\ UNCHANGED <<snapshot, issued>>

-----------------------------------------------------------------------------
(* The refresh goroutine. *)

StartRefresh ==
  /\ ~scan.on
  /\ scan' = [Idle EXCEPT !.on = TRUE, !.started = clock,
                          !.owed = {k \in Key : redis[k] # NoKey}]
  /\ UNCHANGED <<clock, redis, snapshot, issued, retired>>

\* One SCAN call answers some keys; the instant of observation is taken before
\* the pipeline that reads them.
ScanBatch(keys) ==
  /\ scan.on
  /\ scan.batch = {}
  /\ keys \subseteq {k \in Key : redis[k] # NoKey}
  /\ scan' = [scan EXCEPT !.batch = keys, !.observed = clock,
                          !.owed = @ \ keys]
  /\ UNCHANGED <<clock, redis, snapshot, issued, retired>>

\* The entry the gateway keeps of value v, good until expiresAt.
Entry(v, expiresAt) ==
  [action |-> v.action, origin |-> v.origin, only |-> v.only,
   expiresAt |-> expiresAt, cacheUntil |-> scan.started + CacheMaxAge,
   serial |-> v.serial, due |-> v.expires]

Skipped(v) == v = NoKey \/ v.expires = NoExpiry \/ ~v.valid

\* Mutant: the lifetime the policy was written with instead of what is left.
CollectedFullTtl(k) ==
  LET v == redis[k] IN
  IF Skipped(v) THEN scan.next[k]
  ELSE Entry(v, scan.observed + (v.expires - v.at))

\* Mutant: a key without expiry is kept for as long as the copy may be used.
CollectedUnexpiring(k) ==
  LET v == redis[k] IN
  IF v = NoKey \/ ~v.valid THEN scan.next[k]
  ELSE IF v.expires = NoExpiry THEN Entry(v, scan.started + CacheMaxAge)
  ELSE Entry(v, scan.observed + (v.expires - clock))

\* collectAt: a key that is gone, has no expiry or does not parse is skipped.
Collected(k) ==
  LET v == redis[k] IN
  IF Skipped(v) THEN scan.next[k]
  ELSE Entry(v, scan.observed + (v.expires - clock))

\* Mutant: a value that will not parse ends the batch instead of being skipped.
ReadKeyStopsAtMalformed(k) ==
  /\ scan.on
  /\ k \in scan.batch
  /\ LET stop == redis[k] # NoKey /\ ~redis[k].valid IN
     scan' = [scan EXCEPT !.batch = IF stop THEN {} ELSE @ \ {k},
                          !.next[k] = Collected(k)]
  /\ UNCHANGED <<clock, redis, snapshot, issued, retired>>

\* GET and PTTL of one key, in one script.
ReadKey(k) ==
  /\ scan.on
  /\ k \in scan.batch
  /\ scan' = [scan EXCEPT !.batch = @ \ {k}, !.next[k] = Collected(k)]
  /\ UNCHANGED <<clock, redis, snapshot, issued, retired>>

\* The cursor came back to 0.
FinishRefresh ==
  /\ scan.on
  /\ scan.batch = {}
  /\ scan.owed = {}
  /\ snapshot' = scan.next
  /\ scan' = Idle
  /\ UNCHANGED <<clock, redis, issued, retired>>

\* Any call of the refresh fails or its budget runs out: no policy is kept.
FailRefresh ==
  /\ scan.on
  /\ snapshot' = EmptySnapshot
  /\ scan' = Idle
  /\ UNCHANGED <<clock, redis, issued, retired>>

StoreNext ==
  \/ \E k \in Key, a \in Action, o \in Origin, s \in Scope, v \in BOOLEAN,
        e \in {NoExpiry} \cup {clock + t : t \in Ttl} :
       WritePolicy(k, a, o, s, v, e)
  \/ \E k \in Key : DeletePolicy(k) \/ ReadKey(k)
  \/ \E keys \in SUBSET Key : ScanBatch(keys)
  \/ Tick \/ StartRefresh \/ FinishRefresh \/ FailRefresh

StoreSpec == StoreInit /\ [][StoreNext]_storeVars

-----------------------------------------------------------------------------
(* Properties. *)

\* A decision handed to a request comes from a key that Redis was going to
\* drop, and is never handed out once that deadline has passed: not when the
\* refresh was slow, and not when no refresh has succeeded since.
DeadlineRespected ==
  \A ip \in IP, ep \in Endpoint :
    LET d == LookupRequest(ip, ep) IN
    d # NoDecision => d.due # NoExpiry /\ clock < d.due

\* A policy that was deleted, replaced or expired in Redis stops being handed
\* to requests within CacheMaxAge of that moment, whatever becomes of the
\* refreshes after it.
RevocationBounded ==
  \A ip \in IP, ep \in Endpoint :
    LET d == LookupRequest(ip, ep) IN
    d # NoDecision =>
      \A r \in retired : r.serial = d.serial => clock < r.at + CacheMaxAge

\* An enforceable policy that has stood unchanged since before the refresh.
Steady(k) ==
  /\ redis[k] # NoKey
  /\ redis[k].valid
  /\ redis[k].expires # NoExpiry
  /\ redis[k].at < scan.started

Carries(map, k) == map[k] # NoDecision /\ map[k].serial = redis[k].serial

\* A refresh that completes carries every enforceable policy that stood
\* unchanged from before it began until it ended, whatever else was written,
\* removed or malformed meanwhile.
RefreshComplete ==
  [][FinishRefresh => \A k \in Key : Steady(k) => Carries(snapshot', k)]_storeVars

\* The invariant behind it: a steady policy is still to be scanned, still to be
\* read, or collected.
RefreshInv ==
  scan.on => \A k \in Key :
    Steady(k) => k \in scan.owed \cup scan.batch \/ Carries(scan.next, k)

\* The strengthening of DeadlineRespected and RevocationBounded that every step
\* preserves: entries of both maps are dated no later than the policy they copy
\* and no earlier than the refresh that read them.
EntryOK(d) ==
  d # NoDecision =>
    /\ d.due # NoExpiry
    /\ d.expiresAt <= d.due
    /\ d.cacheUntil <= clock + CacheMaxAge
    /\ \A r \in retired : r.serial = d.serial => d.cacheUntil <= r.at + CacheMaxAge

StoreInv ==
  /\ StoreTypeOK
  /\ \A k \in Key : redis[k] # NoKey => redis[k].serial \in 1..issued
  /\ \A k \in Key : redis[k] # NoKey =>
       \/ redis[k].expires = NoExpiry
       \/ clock < redis[k].expires
  /\ \A j, k \in Key : redis[j] # NoKey /\ redis[k] # NoKey
                       /\ redis[j].serial = redis[k].serial => j = k
  /\ \A r \in retired :
       /\ r.serial \in 1..issued
       /\ r.at <= clock
       /\ \A k \in Key : redis[k] # NoKey => redis[k].serial # r.serial
  /\ scan.on => scan.started <= clock /\ scan.observed <= clock
  /\ \A k \in Key : EntryOK(snapshot[k]) /\ EntryOK(scan.next[k])
  /\ \A k \in Key : snapshot[k] # NoDecision => snapshot[k].serial \in 1..issued
  /\ \A k \in Key : scan.next[k] # NoDecision => scan.next[k].serial \in 1..issued
=============================================================================

----------------------------- MODULE TokenBucket -----------------------------
(***************************************************************************)
(* One token bucket in Redis (gateway/internal/policy/token_bucket.lua),   *)
(* shared by every gateway replica.                                        *)
(*                                                                         *)
(* The script runs atomically: it checks that the policy it was called for *)
(* still stands, refills the bucket for the time since its last update,    *)
(* takes a token or says how long to wait, and dates the bucket to expire  *)
(* when it would be full.  Replicas may call it with different rates while *)
(* settings move, and Redis's clock may be set back.                       *)
(*                                                                         *)
(* Credit is counted in units of which a token has Minute, so a rate of    *)
(* rpm refills rpm units per instant and the arithmetic is exact.          *)
(***************************************************************************)
EXTENDS Naturals

CONSTANTS
  Minute,       \* instants in a minute (60000 ms in the code)
  Rpm,          \* rates the bucket is called with
  Burst,        \* the configured burst
  NoBucket,     \* the bucket's key does not exist
  NoPromise,    \* nobody was told to wait
  MaxElapsed,   \* bound: last instant of the model
  MaxSetBack    \* bound: how far Redis's clock is set back in all

ASSUME BucketConstants ==
  /\ Minute \in Nat \ {0}
  /\ Rpm \subseteq Nat \ {0}
  /\ \E r \in Rpm : \A s \in Rpm : s <= r
  /\ Burst \in Nat \ {0}
  /\ MaxElapsed \in Nat
  /\ MaxSetBack \in Nat
  /\ NoBucket \notin [credit : Nat, updated : Nat, expires : Nat, at : Nat]

VARIABLES
  elapsed,      \* time that has really passed
  wall,         \* Redis's clock
  setBack,      \* how far it has been set back
  guarded,      \* whether the calls name a policy key; a baseline has none
  policyUntil,  \* deadline of the policy key, 0 when it is gone or replaced
  bucket,       \* the bucket's hash and its deadline
  since,        \* history: tokens granted at or after each instant
  promise       \* history: the last wait that was told and still binds

bucketVars ==
  <<elapsed, wall, setBack, guarded, policyUntil, bucket, since, promise>>

Instant == 0..MaxElapsed

\* "at" is when the bucket was last written, for the properties.
Bucket == [credit : Nat, updated : Nat, expires : Nat, at : Nat]

Larger(a, b)  == IF a > b THEN a ELSE b
Lesser(a, b)  == IF a < b THEN a ELSE b
CeilDiv(a, b) == (a + b - 1) \div b

\* Take caps the burst at the rate, and so does the script.
Capacity(rpm) == Lesser(Burst, rpm) * Minute

\* A clock that starts where it can be set back.
BucketInit ==
  /\ elapsed = 0
  /\ wall = MaxSetBack
  /\ setBack = 0
  /\ guarded \in BOOLEAN
  /\ policyUntil \in IF guarded THEN {wall + t : t \in 1..(MaxElapsed + 1)} ELSE {0}
  /\ bucket = NoBucket
  /\ since = [s \in Instant |-> 0]
  /\ promise = NoPromise

-----------------------------------------------------------------------------
(* The script. *)

Standing == guarded => policyUntil > wall

\* The instant the bucket is brought up to: never before its last update.
Now == IF bucket = NoBucket THEN wall ELSE Larger(wall, bucket.updated)

Credit(rpm) ==
  IF bucket = NoBucket THEN Capacity(rpm)
  ELSE Lesser(Capacity(rpm), bucket.credit + (Now - bucket.updated) * rpm)

\* Mutant: the wait is rounded down.
WaitRoundedDown(rpm) == (Minute - Credit(rpm)) \div rpm

Wait(rpm) == CeilDiv(Minute - Credit(rpm), rpm)

\* Mutant: the bucket is kept for as long as one token takes.
LifetimeOfOneToken(rpm) == Larger(1, CeilDiv(Minute, rpm))

Lifetime(rpm) == Larger(1, CeilDiv(Capacity(rpm), rpm))

UpToPolicy(t) == IF guarded THEN Lesser(t, policyUntil - wall) ELSE t

Store(rpm, credit) ==
  bucket' = [credit |-> credit, updated |-> Now, at |-> elapsed,
             expires |-> wall + UpToPolicy(Lifetime(rpm))]

Grant(rpm) ==
  /\ Standing
  /\ Credit(rpm) >= Minute
  /\ Store(rpm, Credit(rpm) - Minute)
  /\ since' = [s \in Instant |-> IF s <= elapsed THEN since[s] + 1 ELSE since[s]]
  /\ promise' = NoPromise
  /\ UNCHANGED <<elapsed, wall, setBack, guarded, policyUntil>>

\* Whoever is refused is told how long to wait.  The wait binds as long as no
\* one else takes a token or calls at another rate; it says nothing while the
\* clock is behind the bucket.
Refuse(rpm) ==
  /\ Standing
  /\ Credit(rpm) < Minute
  /\ Store(rpm, Credit(rpm))
  /\ promise' = IF Now = wall
                THEN [rpm |-> rpm, at |-> elapsed + UpToPolicy(Wait(rpm))]
                ELSE NoPromise
  /\ UNCHANGED <<elapsed, wall, setBack, guarded, policyUntil, since>>

\* A call for a policy that no longer stands passes and touches nothing.
PassInactive == ~Standing /\ UNCHANGED bucketVars

-----------------------------------------------------------------------------
(* Redis and the operators. *)

Expired(b) == b # NoBucket /\ b.expires <= wall + 1

BucketTick ==
  /\ elapsed < MaxElapsed
  /\ elapsed' = elapsed + 1
  /\ wall' = wall + 1
  /\ bucket' = IF Expired(bucket) THEN NoBucket ELSE bucket
  /\ policyUntil' = IF policyUntil <= wall + 1 THEN 0 ELSE policyUntil
  /\ UNCHANGED <<setBack, guarded, since, promise>>

SetBack ==
  /\ setBack < MaxSetBack
  /\ setBack' = setBack + 1
  /\ wall' = wall - 1
  /\ promise' = NoPromise
  /\ UNCHANGED <<elapsed, guarded, policyUntil, bucket, since>>

\* The policy is deleted or replaced; its successor has a bucket of its own.
PolicyGoes ==
  /\ policyUntil # 0
  /\ policyUntil' = 0
  /\ UNCHANGED <<elapsed, wall, setBack, guarded, bucket, since, promise>>

BucketNext ==
  \/ \E rpm \in Rpm : Grant(rpm) \/ Refuse(rpm)
  \/ PassInactive \/ BucketTick \/ SetBack \/ PolicyGoes

BucketSpec == BucketInit /\ [][BucketNext]_bucketVars

-----------------------------------------------------------------------------
(* Properties. *)

Fastest == CHOOSE r \in Rpm : \A s \in Rpm : s <= r

\* In no stretch of time are more tokens granted than the burst and the fastest
\* rate in use allow together: not when the bucket expires and is recreated,
\* not when replicas call with different rates, not when the clock was set back.
GrantsBounded ==
  \A s \in Instant : s <= elapsed =>
    since[s] * Minute <= Capacity(Fastest) + (elapsed - s) * Fastest

Full == Capacity(Fastest)

\* What a caller at the fastest rate could find in the bucket by now.
Level ==
  IF bucket = NoBucket THEN Full
  ELSE Lesser(Full, bucket.credit + (elapsed - bucket.at) * Fastest)

BucketTypeOK ==
  /\ elapsed \in Instant
  /\ setBack \in 0..MaxSetBack
  /\ wall = MaxSetBack + elapsed - setBack
  /\ guarded \in BOOLEAN
  /\ policyUntil \in Nat
  /\ bucket \in Bucket \cup {NoBucket}
  /\ since \in [Instant -> Nat]

\* A bucket is never brought up by more than the time that passed, and when it
\* expires under a policy that stands it would have been full.
BucketOK(b) ==
  /\ b.at <= elapsed
  /\ b.credit <= Full
  /\ wall <= b.updated + (elapsed - b.at)
  /\ ~guarded \/ b.expires # policyUntil =>
       (b.expires + (elapsed - b.at) - wall) * Fastest >= Full

\* What every step preserves, and GrantsBounded follows from: what was granted
\* and what could still be found in the bucket are bounded together.
BucketInv ==
  /\ BucketTypeOK
  /\ guarded => policyUntil = 0 \/ policyUntil > wall
  /\ Standing /\ bucket # NoBucket => BucketOK(bucket)
  /\ Standing => \A s \in Instant : s <= elapsed =>
       since[s] * Minute + Level <= Full + (elapsed - s) * Fastest
  /\ \A s \in Instant : s > elapsed => since[s] = 0
  /\ GrantsBounded

\* Whoever comes back after the wait it was told is let through, unless someone
\* else took the token first.
WaitSuffices ==
  promise # NoPromise /\ elapsed >= promise.at =>
    ~Standing \/ Credit(promise.rpm) >= Minute

\* Why: from the call that told it, the clock is not behind the bucket, and what
\* the wait adds to the bucket's credit makes a token, or it lasts as long as the
\* policy does.
PromiseInv ==
  promise # NoPromise =>
    /\ promise.rpm \in Rpm /\ promise.at \in Nat
    /\ bucket # NoBucket =>
         /\ bucket.updated <= wall
         /\ \/ guarded /\ policyUntil - wall <= promise.at - elapsed
            \/ bucket.credit + (wall - bucket.updated + promise.at - elapsed) * promise.rpm
                 >= Minute
=============================================================================

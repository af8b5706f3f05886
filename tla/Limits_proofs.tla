---------------------------- MODULE Limits_proofs ----------------------------
(* What holds back a client, proved for any number of addresses, requests and *)
(* rates: the reflex that blocks on evidence (Reflex), the quota limiter with *)
(* its breaker (RedisLimiter) and the bucket it asks Redis for (TokenBucket). *)
EXTENDS Reflex, RedisLimiter, TokenBucket, Integers, TLAPS

-----------------------------------------------------------------------------
(* The reflex. *)

\* Settings that are offered have the type of an enforcement.block section.
LEMMA ConfigFields ==
  ASSUME NEW cfg \in Config
  PROVE  /\ BuildTunables(cfg) \in Tunables
         /\ BuildTunables(cfg).exempt = cfg.exempt
         /\ cfg.exempt \subseteq IP
BY ReflexConstants DEF BlockConfig, BuildTunables, Tunables

\* A gateway that starts has no blocks and one generation of settings.
LEMMA ReflexStart == ReflexInit => ReflexInv
<1> SUFFICES ASSUME ReflexInit PROVE ReflexInv
  OBVIOUS
<1>1. PICK cfg \in Config : tun = BuildTunables(cfg)
  BY DEF ReflexInit
<1>2. tun \in Tunables
  BY <1>1, ConfigFields
<1>3. ReflexTypeOK
  BY <1>2 DEF ReflexInit, ReflexTypeOK
<1>4. QED
  BY <1>3 DEF ReflexInit, ReflexInv

\* Deciding: whoever is about to be blocked was not exempt under the settings
\* loaded, and the instant taken is the clock's.
LEMMA DecideStep ==
  ASSUME ReflexInv, NEW w \in Worker, ObserveDecide(w)
  PROVE  ReflexInv'
<1> DEFINE c == observing[w]
           d == [c EXCEPT !.decided = TRUE, !.now = clock, !.evidence = {}]
<1>1. c \in Call /\ c.ip \in IP /\ c.t \in Tunables
  BY DEF ObserveDecide, ReflexInv, ReflexTypeOK, Call
<1>2. UNCHANGED <<clock, tun, blocked, blockable>> /\ clock \in Nat
  BY DEF ObserveDecide, ReflexInv, ReflexTypeOK
<1>3. CASE observing' = [observing EXCEPT ![w] = NotObserving]
  BY <1>2, <1>3 DEF ReflexInv, ReflexTypeOK
<1>4. CASE c.ip \notin c.t.exempt /\ observing' = [observing EXCEPT ![w] = d]
  <2>1. d \in Call /\ d.t = c.t /\ d.ip = c.ip /\ d.now = clock
    BY <1>1, <1>2 DEF Call
  <2>2. IP \ c.t.exempt \subseteq blockable
    BY DEF ObserveDecide, ReflexInv
  <2>3. c.ip \in blockable
    BY <1>1, <1>4, <2>2
  <2> HIDE DEF c, d
  <2>4. ReflexTypeOK'
    BY <1>2, <1>4, <2>1 DEF ReflexInv, ReflexTypeOK
  <2>5. ASSUME NEW v \in Worker, observing'[v] # NotObserving
        PROVE  /\ IP \ observing'[v].t.exempt \subseteq blockable
               /\ observing'[v].decided => observing'[v].ip \in blockable
               /\ observing'[v].now <= clock
    <3>1. CASE v = w
      BY <1>2, <1>4, <2>1, <2>2, <2>3, <3>1 DEF ReflexInv, ReflexTypeOK
    <3>2. CASE v # w
      BY <1>4, <2>5, <3>2 DEF ReflexInv, ReflexTypeOK
    <3> QED BY <3>1, <3>2
  <2> QED
    BY <1>2, <2>4, <2>5 DEF ReflexInv
<1> QED
  BY <1>3, <1>4 DEF ObserveDecide

\* Arming a block, or leaving the one that is held.
LEMMA ArmStep ==
  ASSUME ReflexInv, NEW w \in Worker, ObserveArm(w)
  PROVE  ReflexInv'
<1> DEFINE c == observing[w]
           b == [until |-> c.now + c.t.duration]
<1>1. /\ c \in Call /\ c.ip \in IP /\ c.t \in Tunables
      /\ c.t.duration \in Nat /\ c.now \in Nat
  BY ReflexConstants DEF ObserveArm, ReflexInv, ReflexTypeOK, Call, Tunables
<1>2. observing' = [observing EXCEPT ![w] = NotObserving]
  BY DEF ObserveArm
<1>3. UNCHANGED <<clock, tun, blockable>>
  BY DEF ObserveArm
<1>4. CASE blocked' = blocked
  BY <1>2, <1>3, <1>4 DEF ReflexInv, ReflexTypeOK
<1>5. CASE blocked' = [blocked EXCEPT ![c.ip] = b]
  <2>1. b \in Block
    BY <1>1 DEF Block
  <2>2. c.ip \in blockable
    BY DEF ObserveArm, ReflexInv
  <2>3. ReflexTypeOK'
    BY <1>1, <1>2, <1>3, <1>5, <2>1 DEF ReflexInv, ReflexTypeOK
  <2>4. QED
    BY <1>2, <1>3, <1>5, <2>2, <2>3 DEF ReflexInv, ReflexTypeOK
<1>6. QED
  BY <1>4, <1>5 DEF ObserveArm

\* Every step of the reflex keeps ReflexInv.
LEMMA ReflexStep == ReflexInv /\ [ReflexNext]_reflexVars => ReflexInv'
<1> SUFFICES ASSUME ReflexInv, [ReflexNext]_reflexVars PROVE ReflexInv'
  OBVIOUS
<1>1. CASE UNCHANGED reflexVars
  BY <1>1 DEF reflexVars, ReflexInv, ReflexTypeOK
<1>2. ASSUME NEW cfg \in Config, Apply(cfg) PROVE ReflexInv'
  <2>1. BuildTunables(cfg) \in Tunables /\ BuildTunables(cfg).exempt = cfg.exempt
    BY ConfigFields
  <2>2. QED
    BY <1>2, <2>1 DEF Apply, ReflexInv, ReflexTypeOK
<1>3. ASSUME NEW w \in Worker, NEW ip \in IP, NEW e \in Evidence,
             ObserveLoad(w, ip, {e})
      PROVE  ReflexInv'
  <2> DEFINE c == [ip |-> ip, evidence |-> {e}, t |-> tun,
                   decided |-> FALSE, now |-> 0]
  <2>1. c \in Call
    BY DEF Call, ReflexInv, ReflexTypeOK
  <2>2. ~c.decided /\ c.now = 0 /\ c.t = tun
    OBVIOUS
  <2>3. observing' = [observing EXCEPT ![w] = c]
    BY <1>3 DEF ObserveLoad
  <2> HIDE DEF c
  <2>4. UNCHANGED <<clock, tun, blocked, blockable>> /\ clock \in Nat
    BY <1>3 DEF ObserveLoad, ReflexInv, ReflexTypeOK
  <2>5. ReflexTypeOK'
    BY <2>1, <2>3, <2>4 DEF ReflexInv, ReflexTypeOK
  <2>6. ASSUME NEW v \in Worker, observing'[v] # NotObserving
        PROVE  /\ IP \ observing'[v].t.exempt \subseteq blockable
               /\ observing'[v].decided => observing'[v].ip \in blockable
               /\ observing'[v].now <= clock
    <3>1. CASE v = w
      BY <2>2, <2>3, <2>4, <3>1 DEF ReflexInv, ReflexTypeOK
    <3>2. CASE v # w
      BY <2>3, <2>6, <3>2 DEF ReflexInv, ReflexTypeOK
    <3> QED BY <3>1, <3>2
  <2> QED
    BY <2>4, <2>5, <2>6 DEF ReflexInv
<1>4. ASSUME NEW w \in Worker, ObserveDecide(w) \/ ObserveArm(w) PROVE ReflexInv'
  BY <1>4, DecideStep, ArmStep
<1>5. CASE Sweep
  BY <1>5 DEF Sweep, ReflexInv, ReflexTypeOK
<1>6. CASE ReflexTick
  <2>1. clock \in Nat /\ clock' = clock + 1
    BY <1>6 DEF ReflexTick, ReflexInv, ReflexTypeOK
  <2>2. ASSUME NEW w \in Worker, observing[w] # NotObserving
        PROVE  observing[w].now <= clock'
    <3>1. observing[w].now \in Nat /\ observing[w].now <= clock
      BY <2>2 DEF ReflexInv, ReflexTypeOK, Call
    <3> QED BY <2>1, <3>1
  <2>3. UNCHANGED <<tun, blocked, observing, blockable>>
    BY <1>6 DEF ReflexTick
  <2>4. ReflexTypeOK'
    BY <2>1, <2>3 DEF ReflexInv, ReflexTypeOK
  <2> QED
    BY <2>2, <2>3, <2>4 DEF ReflexInv
<1>7. QED
  BY <1>1, <1>2, <1>3, <1>4, <1>5, <1>6 DEF ReflexNext

\* ReflexInv holds at all times.
THEOREM ReflexAlways == ReflexSpec => []ReflexInv
BY ReflexStart, ReflexStep, PTL DEF ReflexSpec

\* An address no accepted settings left unprotected is never refused by the
\* reflex (Observe's exemption check against swapped settings).
THEOREM ExemptNeverRefused == ReflexSpec => []AlwaysExemptNeverRefused
<1>1. ReflexInv => AlwaysExemptNeverRefused
  BY DEF ReflexInv, AlwaysExemptNeverRefused, Refuses, Running
<1>2. QED
  BY <1>1, ReflexAlways, PTL

\* A running block is left alone by every step: Observe does not renew it,
\* however long ago it took its instant, Apply keeps it and the sweeper removes
\* only blocks that are over.
THEOREM RunningBlockIsKept == ReflexSpec => RunningBlockKept
<1> DEFINE Kept == \A ip \in IP :
                     Running(blocked[ip]) => blocked'[ip] = blocked[ip]
<1>1. ReflexInv /\ [ReflexNext]_reflexVars => [Kept]_reflexVars
  <2> SUFFICES ASSUME ReflexInv, ReflexNext, NEW ip \in IP, Running(blocked[ip])
               PROVE  blocked'[ip] = blocked[ip]
    BY DEF reflexVars
  <2>1. ASSUME NEW w \in Worker, ObserveArm(w) PROVE blocked'[ip] = blocked[ip]
    <3>1. CASE blocked' = blocked
      BY <3>1
    <3>2. CASE blocked' # blocked
      <4> DEFINE c == observing[w]
      <4>1. /\ c.now \in Nat /\ c.now <= clock /\ clock \in Nat
        BY <2>1 DEF ObserveArm, ReflexInv, ReflexTypeOK, Call
      <4>2. ASSUME ip = c.ip PROVE FALSE
        <5>1. clock < blocked[ip].until /\ blocked[ip] # NoBlock
          BY DEF Running
        <5>2. blocked[ip].until \in Nat
          BY <5>1 DEF ReflexInv, ReflexTypeOK, Block
        <5>3. c.now < blocked[ip].until
          BY <4>1, <5>1, <5>2
        <5> QED BY <2>1, <3>2, <4>2, <5>1, <5>3 DEF ObserveArm
      <4> QED
        BY <2>1, <4>2 DEF ObserveArm, ReflexInv, ReflexTypeOK
    <3>3. QED
      BY <3>1, <3>2
  <2>2. CASE Sweep
    BY <2>2 DEF Sweep, Over
  <2>3. QED
    BY <2>1, <2>2 DEF ReflexNext, Apply, ObserveLoad, ObserveDecide, ReflexTick
<1>2. QED
  BY <1>1, ReflexAlways, PTL DEF ReflexSpec, RunningBlockKept

-----------------------------------------------------------------------------
(* The breaker. *)

LEMMA LimiterStart == LimiterInit => LimiterInv
<1> SUFFICES ASSUME LimiterInit PROVE LimiterInv
  OBVIOUS
<1> USE LimiterConstants DEF LimiterInit, Take, Stage, Outside
<1>1. open \in BOOLEAN /\ probing \in BOOLEAN /\ healthy \in BOOLEAN
  OBVIOUS
<1>2. LimiterTypeOK
  BY <1>1 DEF LimiterTypeOK
<1>3. OneProbe
  BY DEF OneProbe, Holds
<1> QED
  BY <1>2, <1>3 DEF LimiterInv

LEMMA LimiterStep == LimiterInv /\ [LimiterNext]_limiterVars => LimiterInv'
<1> SUFFICES ASSUME LimiterInv, [LimiterNext]_limiterVars PROVE LimiterInv'
  OBVIOUS
<1> USE LimiterConstants DEF LimiterInv, LimiterTypeOK, OneProbe, Holds, Take,
    Stage, Outside
<1>1. ASSUME NEW r \in Request, Enter(r) PROVE LimiterInv'
  BY <1>1 DEF Enter
<1>2. ASSUME NEW r \in Request, WinProbe(r) PROVE LimiterInv'
  <2>1. CASE probing
    BY <1>2, <2>1 DEF WinProbe
  <2>2. CASE ~probing
    BY <1>2, <2>2 DEF WinProbe
  <2> QED BY <2>1, <2>2
<1>3. ASSUME NEW r \in Request, Answer(r) PROVE LimiterInv'
  BY <1>3 DEF Answer
<1>4. ASSUME NEW r \in Request, Settle(r) PROVE LimiterInv'
  <2>1. CASE take[r].stage = "failed"
    <3>1. open' = TRUE /\ left' = Backoff /\ healthy' = healthy /\ probing' = probing
      BY <1>4, <2>1 DEF Settle
    <3>2. take' \in [Request -> Take] /\ OneProbe'
      BY <1>4, <2>1 DEF Settle
    <3>3. \A q \in Request :
            /\ take'[q].stage \in {"out", "cas"} => ~take'[q].probe
            /\ take'[q].stage = "returning" => take'[q].probe
      BY <1>4, <2>1 DEF Settle
    <3>4. open' \in BOOLEAN
      BY <3>1
    <3> QED BY <3>1, <3>2, <3>3, <3>4
  <2>2. CASE take[r].stage = "answered"
    BY <1>4, <2>2 DEF Settle
  <2> QED BY <1>4, <2>1, <2>2 DEF Settle
<1>5. ASSUME NEW r \in Request, Release(r) PROVE LimiterInv'
  BY <1>5 DEF Release
<1>6. CASE BackoffRuns
  BY <1>6 DEF BackoffRuns
<1>7. CASE RedisFlips
  BY <1>7 DEF RedisFlips
<1>8. CASE UNCHANGED limiterVars
  BY <1>8 DEF limiterVars
<1> QED
  BY <1>1, <1>2, <1>3, <1>4, <1>5, <1>6, <1>7, <1>8 DEF LimiterNext, Step

\* The breaker's state stays consistent with where its requests are, for any
\* number of requests and any back-off.
THEOREM LimiterAlways == LimiterSpec => []LimiterInv
BY LimiterStart, LimiterStep, PTL DEF LimiterSpec

\* At most one request probes a Redis that failed, and the flag is up exactly
\* while it does (redis_limiter.go, Take).
THEOREM ProbesOneAtATime == LimiterSpec => []OneProbe
<1>1. LimiterInv => OneProbe
  BY DEF LimiterInv
<1> QED BY <1>1, LimiterAlways, PTL

-----------------------------------------------------------------------------
(* The bucket. *)

LEMMA ProductMonotone ==
  ASSUME NEW a \in Nat, NEW b \in Nat, NEW c \in Nat, NEW d \in Nat,
         a <= b, c <= d
  PROVE  a * c <= b * d
<1>1. a * c <= b * c
  OBVIOUS
<1>2. b * c <= b * d
  OBVIOUS
<1>3. a * c \in Nat /\ b * c \in Nat /\ b * d \in Nat
  OBVIOUS
<1> QED BY <1>1, <1>2, <1>3

LEMMA CeilDivCovers ==
  ASSUME NEW a \in Nat, NEW b \in Nat \ {0}
  PROVE  CeilDiv(a, b) \in Nat /\ a <= CeilDiv(a, b) * b
BY DEF CeilDiv

LEMMA FastestIsOne ==
  Fastest \in Rpm /\ Fastest \in Nat \ {0} /\ \A r \in Rpm : r <= Fastest
BY BucketConstants DEF Fastest

LEMMA CapacityFacts ==
  ASSUME NEW rpm \in Rpm
  PROVE  Capacity(rpm) \in Nat /\ Full \in Nat /\ Capacity(rpm) <= Full
<1>1. Lesser(Burst, rpm) \in Nat /\ Lesser(Burst, Fastest) \in Nat
  BY FastestIsOne, BucketConstants DEF Lesser
<1>2. Lesser(Burst, rpm) <= Lesser(Burst, Fastest)
  BY FastestIsOne, BucketConstants DEF Lesser
<1>3. Minute \in Nat
  BY BucketConstants
<1> QED
  BY <1>1, <1>2, <1>3, ProductMonotone DEF Capacity, Full

\* A bucket that lives for Lifetime refills to the top at the fastest rate.
LEMMA LifetimeFills ==
  ASSUME NEW rpm \in Rpm
  PROVE  Lifetime(rpm) \in Nat \ {0} /\ Full <= Lifetime(rpm) * Fastest
<1> DEFINE L == CeilDiv(Capacity(rpm), rpm)
<1>0. rpm \in Nat \ {0} /\ Minute \in Nat \ {0} /\ Burst \in Nat \ {0}
      /\ Fastest \in Nat \ {0} /\ rpm <= Fastest
  BY FastestIsOne, BucketConstants
<1>1. L \in Nat /\ Capacity(rpm) <= L * rpm
  BY <1>0, CapacityFacts, CeilDivCovers
<1>2. Lifetime(rpm) \in Nat \ {0} /\ L <= Lifetime(rpm)
  BY <1>1 DEF Lifetime, Larger
<1>3. L * Fastest <= Lifetime(rpm) * Fastest
  BY <1>0, <1>1, <1>2, ProductMonotone
<1>4. Full <= L * Fastest
  <2>1. CASE Burst <= rpm
    <3>1. Full = Capacity(rpm)
      BY <1>0, <2>1 DEF Full, Capacity, Lesser
    <3>2. L * rpm <= L * Fastest
      BY <1>0, <1>1, ProductMonotone
    <3> HIDE DEF L
    <3> QED BY <3>1, <3>2, <1>0, <1>1, CapacityFacts
  <2>2. CASE rpm < Burst
    <3>1. Capacity(rpm) = rpm * Minute
      BY <1>0, <2>2 DEF Capacity, Lesser
    <3>2. Minute <= L
      <4>1. SUFFICES ASSUME L < Minute PROVE FALSE
        BY <1>0, <1>1
      <4>2. L + 1 <= Minute
        BY <4>1, <1>0, <1>1
      <4>3. (L + 1) * rpm <= Minute * rpm
        BY <4>2, <1>0, <1>1, ProductMonotone
      <4> HIDE DEF L
      <4> QED BY <4>3, <3>1, <1>0, <1>1
    <3>3. Full <= Fastest * Minute
      <4>1. Lesser(Burst, Fastest) \in Nat /\ Lesser(Burst, Fastest) <= Fastest
        BY <1>0 DEF Lesser
      <4> QED BY <4>1, <1>0, ProductMonotone DEF Full, Capacity
    <3>4. Fastest * Minute <= L * Fastest
      <4>1. Minute * Fastest <= L * Fastest
        BY <3>2, <1>0, <1>1, ProductMonotone
      <4> QED BY <4>1, <1>0
    <3>5. L * Fastest \in Nat /\ Fastest * Minute \in Nat
      BY <1>0, <1>1
    <3> HIDE DEF L
    <3> QED BY <3>3, <3>4, <3>5, CapacityFacts
  <2> QED BY <2>1, <2>2, <1>0
<1>5. L * Fastest \in Nat /\ Lifetime(rpm) * Fastest \in Nat
  BY <1>0, <1>1, <1>2
<1> HIDE DEF L
<1> QED BY <1>2, <1>3, <1>4, <1>5, CapacityFacts

LEMMA LevelFacts ==
  ASSUME BucketInv, Standing
  PROVE  Level \in Nat /\ Level <= Full
<1>1. Full \in Nat /\ Fastest \in Nat
  BY FastestIsOne, CapacityFacts
<1>2. CASE bucket = NoBucket
  BY <1>1, <1>2 DEF Level
<1>3. CASE bucket # NoBucket
  <2>1. bucket \in Bucket /\ BucketOK(bucket) /\ elapsed \in Nat
    BY <1>3 DEF BucketInv, BucketTypeOK, Instant
  <2>2. bucket.credit \in Nat /\ elapsed - bucket.at \in Nat
    BY <2>1 DEF Bucket, BucketOK
  <2>3. (elapsed - bucket.at) * Fastest \in Nat
    BY <1>1, <2>2
  <2> QED BY <1>1, <1>3, <2>2, <2>3 DEF Level, Lesser
<1> QED BY <1>2, <1>3

\* A call never finds more in the bucket than Level says.
LEMMA CreditBelowLevel ==
  ASSUME BucketInv, Standing, NEW rpm \in Rpm
  PROVE  Credit(rpm) \in Nat /\ Credit(rpm) <= Level
<1>1. Full \in Nat /\ Fastest \in Nat /\ Capacity(rpm) \in Nat
      /\ Capacity(rpm) <= Full
  BY FastestIsOne, CapacityFacts
<1>2. CASE bucket = NoBucket
  BY <1>1, <1>2 DEF Credit, Level
<1>3. CASE bucket # NoBucket
  <2>1. bucket \in Bucket /\ BucketOK(bucket) /\ elapsed \in Nat /\ wall \in Nat
    BY <1>3, BucketConstants DEF BucketInv, BucketTypeOK, Instant
  <2>2. bucket.credit \in Nat /\ bucket.updated \in Nat /\ bucket.at \in Nat
        /\ bucket.at <= elapsed /\ wall <= bucket.updated + (elapsed - bucket.at)
    BY <2>1 DEF Bucket, BucketOK
  <2> DEFINE gone == Now - bucket.updated
             real == elapsed - bucket.at
  <2>3. gone \in Nat /\ real \in Nat /\ gone <= real
    BY <1>3, <2>1, <2>2 DEF Now, Larger
  <2>4. rpm \in Nat /\ rpm <= Fastest
    BY FastestIsOne, BucketConstants
  <2>5. gone * rpm <= real * Fastest /\ gone * rpm \in Nat /\ real * Fastest \in Nat
    BY <1>1, <2>3, <2>4, ProductMonotone
  <2>6. Credit(rpm) = Lesser(Capacity(rpm), bucket.credit + gone * rpm)
    BY <1>3 DEF Credit
  <2>7. Level = Lesser(Full, bucket.credit + real * Fastest)
    BY <1>3 DEF Level
  <2> HIDE DEF gone, real
  <2> QED BY <1>1, <2>2, <2>5, <2>6, <2>7 DEF Lesser
<1> QED BY <1>2, <1>3

LEMMA BucketStart == BucketInit => BucketInv
<1> SUFFICES ASSUME BucketInit PROVE BucketInv
  OBVIOUS
<1>1. Full \in Nat /\ Fastest \in Nat
  BY FastestIsOne, CapacityFacts
<1>2. BucketTypeOK
  BY BucketConstants DEF BucketInit, BucketTypeOK, Instant
<1>3. \A s \in Instant : s <= elapsed => elapsed - s = 0
  BY BucketConstants DEF BucketInit, Instant
<1>4. \A s \in Instant : since[s] = 0
  BY DEF BucketInit
<1>5. Level = Full /\ bucket = NoBucket
  BY DEF BucketInit, Level
<1>6. guarded => policyUntil > wall
  BY BucketConstants DEF BucketInit
<1>7. \A s \in Instant : s <= elapsed =>
        since[s] * Minute + Level <= Full + (elapsed - s) * Fastest
  BY <1>1, <1>3, <1>4, <1>5, BucketConstants
<1>8. GrantsBounded
  BY <1>1, <1>3, <1>4, BucketConstants DEF GrantsBounded, Full
<1> QED
  BY <1>2, <1>4, <1>5, <1>6, <1>7, <1>8 DEF BucketInv

\* What a call leaves behind is dated right, and holds what it stored.
LEMMA StoreKeeps ==
  ASSUME BucketInv, Standing, NEW rpm \in Rpm, NEW c \in Nat, c <= Full,
         Store(rpm, c),
         UNCHANGED <<elapsed, wall, setBack, guarded, policyUntil>>
  PROVE  /\ bucket' \in Bucket
         /\ bucket' # NoBucket
         /\ BucketOK(bucket)'
         /\ Level' = c
<1>1. /\ elapsed \in Nat /\ wall \in Nat /\ policyUntil \in Nat
      /\ Fastest \in Nat /\ Full \in Nat
      /\ bucket \in Bucket \cup {NoBucket}
  BY FastestIsOne, CapacityFacts, BucketConstants
     DEF BucketInv, BucketTypeOK, Instant
<1>2. Now \in Nat /\ wall <= Now
  BY <1>1 DEF Now, Larger, Bucket
<1> DEFINE t == UpToPolicy(Lifetime(rpm))
<1>3. /\ t \in Nat
      /\ ~guarded => t = Lifetime(rpm)
      /\ guarded => t = Lifetime(rpm) \/ wall + t = policyUntil
  <2>1. Lifetime(rpm) \in Nat
    BY LifetimeFills
  <2>2. ~guarded => t = Lifetime(rpm)
    BY Zenon DEF UpToPolicy
  <2>3. guarded => t = Lesser(Lifetime(rpm), policyUntil - wall) /\ policyUntil > wall
    BY Zenon DEF UpToPolicy, Standing
  <2> HIDE DEF t
  <2>4. guarded => t \in Nat /\ (t = Lifetime(rpm) \/ wall + t = policyUntil)
    <3> SUFFICES ASSUME guarded
                 PROVE  t \in Nat /\ (t = Lifetime(rpm) \/ wall + t = policyUntil)
      OBVIOUS
    <3>1. t = Lesser(Lifetime(rpm), policyUntil - wall) /\ policyUntil > wall
      BY <2>3
    <3> QED BY <1>1, <2>1, <3>1 DEF Lesser
  <2> QED BY <2>1, <2>2, <2>4
<1>4. bucket' = [credit |-> c, updated |-> Now, at |-> elapsed, expires |-> wall + t]
  BY DEF Store
<1> HIDE DEF t
<1>5. bucket' \in Bucket
  BY <1>1, <1>2, <1>3, <1>4 DEF Bucket
<1>6. bucket' # NoBucket
  BY <1>5, BucketConstants DEF Bucket
<1>7. BucketOK(bucket)'
  <2>1. Full' = Full /\ Fastest' = Fastest
    BY DEF Full, Capacity, Fastest
  <2>2. /\ bucket'.credit = c /\ bucket'.updated = Now
        /\ bucket'.at = elapsed /\ bucket'.expires = wall + t
    BY <1>4
  <2>3. bucket'.expires + (elapsed' - bucket'.at) - wall' = t
    BY <1>1, <1>3, <2>2
  <2>4. ~guarded' \/ bucket'.expires # policyUntil' => Full <= t * Fastest
    BY <1>1, <1>3, <2>2, LifetimeFills
  <2> QED
    BY <1>1, <1>2, <1>3, <2>1, <2>2, <2>3, <2>4 DEF BucketOK
<1>8. Level' = c
  <2>1. elapsed' - bucket'.at = 0 /\ bucket'.credit = c
    BY <1>1, <1>4
  <2>2. (elapsed' - bucket'.at) * Fastest = 0
    BY <1>1, <2>1
  <2>3. Full' = Full /\ Fastest' = Fastest
    BY DEF Full, Capacity, Fastest
  <2>4. Level' = Lesser(Full, c)
    BY <1>6, <2>1, <2>2, <2>3 DEF Level
  <2> QED BY <1>1, <2>4 DEF Lesser
<1> QED BY <1>5, <1>6, <1>7, <1>8

LEMMA GrantKeeps ==
  ASSUME BucketInv, NEW rpm \in Rpm, Grant(rpm) PROVE BucketInv'
<1> DEFINE c == Credit(rpm) - Minute
<1>1. /\ Standing /\ Store(rpm, c) /\ Credit(rpm) >= Minute
      /\ UNCHANGED <<elapsed, wall, setBack, guarded, policyUntil>>
  BY DEF Grant
<1>2. /\ Level \in Nat /\ Level <= Full /\ Full \in Nat /\ Minute \in Nat
      /\ Fastest \in Nat /\ Credit(rpm) \in Nat /\ Credit(rpm) <= Level
  BY <1>1, LevelFacts, CreditBelowLevel, CapacityFacts, FastestIsOne, BucketConstants
<1>3. c \in Nat /\ c <= Full /\ c + Minute <= Level
  BY <1>1, <1>2
<1> HIDE DEF c
<1>4. bucket' \in Bucket /\ bucket' # NoBucket /\ BucketOK(bucket)' /\ Level' = c
  BY <1>1, <1>3, StoreKeeps
<1>5. /\ since \in [Instant -> Nat] /\ elapsed \in Instant /\ elapsed \in Nat
      /\ Instant \subseteq Nat
  BY BucketConstants DEF BucketInv, BucketTypeOK, Instant
<1>6. since' = [s \in Instant |-> IF s <= elapsed THEN since[s] + 1 ELSE since[s]]
  BY DEF Grant
<1>7. BucketTypeOK'
  <2>1. since' \in [Instant -> Nat]
    BY <1>5, <1>6
  <2> QED BY <1>1, <1>4, <2>1 DEF BucketInv, BucketTypeOK
<1>8. ASSUME NEW s \in Instant, s <= elapsed
      PROVE  since'[s] * Minute + c <= Full + (elapsed - s) * Fastest
  <2>1. since'[s] = since[s] + 1 /\ since[s] \in Nat /\ elapsed - s \in Nat
    BY <1>5, <1>6, <1>8
  <2>2. since[s] * Minute + Level <= Full + (elapsed - s) * Fastest
    BY <1>1, <1>8 DEF BucketInv
  <2>3. since'[s] * Minute = since[s] * Minute + Minute
    BY <1>2, <2>1
  <2>4. since[s] * Minute \in Nat /\ (elapsed - s) * Fastest \in Nat
    BY <1>2, <2>1
  <2> QED BY <1>2, <1>3, <2>2, <2>3, <2>4
<1>9. Full' = Full /\ Fastest' = Fastest /\ Standing' = Standing
  BY <1>1 DEF Full, Capacity, Fastest, Standing
<1>10. \A s \in Instant : s > elapsed => since'[s] = 0
  BY <1>5, <1>6 DEF BucketInv
<1>11. GrantsBounded'
  <2>1. SUFFICES ASSUME NEW s \in Instant, s <= elapsed
                 PROVE  since'[s] * Minute <= Full + (elapsed - s) * Fastest
    BY <1>1, <1>9 DEF GrantsBounded, Full
  <2>2. since'[s] \in Nat /\ elapsed - s \in Nat
    BY <1>5, <1>6, <2>1
  <2>3. since'[s] * Minute \in Nat /\ (elapsed - s) * Fastest \in Nat
    BY <1>2, <2>2
  <2> QED BY <1>2, <1>3, <1>8, <2>1, <2>3
<1> QED
  BY <1>1, <1>4, <1>7, <1>8, <1>9, <1>10, <1>11 DEF BucketInv

LEMMA RefuseKeeps ==
  ASSUME BucketInv, NEW rpm \in Rpm, Refuse(rpm) PROVE BucketInv'
<1> DEFINE c == Credit(rpm)
<1>1. /\ Standing /\ Store(rpm, c)
      /\ UNCHANGED <<elapsed, wall, setBack, guarded, policyUntil, since>>
  BY DEF Refuse
<1>2. /\ Level \in Nat /\ Level <= Full /\ Full \in Nat /\ Minute \in Nat
      /\ Fastest \in Nat /\ c \in Nat /\ c <= Level
  BY <1>1, LevelFacts, CreditBelowLevel, CapacityFacts, FastestIsOne, BucketConstants
<1>3. c <= Full
  BY <1>2
<1> HIDE DEF c
<1>4. bucket' \in Bucket /\ bucket' # NoBucket /\ BucketOK(bucket)' /\ Level' = c
  BY <1>1, <1>2, <1>3, StoreKeeps
<1>5. /\ since \in [Instant -> Nat] /\ elapsed \in Nat /\ Instant \subseteq Nat
  BY BucketConstants DEF BucketInv, BucketTypeOK, Instant
<1>6. BucketTypeOK'
  BY <1>1, <1>4 DEF BucketInv, BucketTypeOK
<1>7. ASSUME NEW s \in Instant, s <= elapsed
      PROVE  since[s] * Minute + c <= Full + (elapsed - s) * Fastest
  <2>1. since[s] \in Nat /\ elapsed - s \in Nat
    BY <1>5, <1>7
  <2>2. since[s] * Minute + Level <= Full + (elapsed - s) * Fastest
    BY <1>1, <1>7 DEF BucketInv
  <2>3. since[s] * Minute \in Nat /\ (elapsed - s) * Fastest \in Nat
    BY <1>2, <2>1
  <2> QED BY <1>2, <2>2, <2>3
<1>8. /\ Full' = Full /\ Fastest' = Fastest /\ Standing' = Standing
      /\ GrantsBounded' = GrantsBounded
  BY <1>1 DEF Full, Capacity, Fastest, Standing, GrantsBounded
<1> QED
  BY <1>1, <1>4, <1>6, <1>7, <1>8 DEF BucketInv

LEMMA TickKeeps == BucketInv /\ BucketTick => BucketInv'
<1> SUFFICES ASSUME BucketInv, BucketTick PROVE BucketInv'
  OBVIOUS
<1>1. /\ elapsed \in Nat /\ elapsed < MaxElapsed /\ elapsed' = elapsed + 1
      /\ wall \in Nat /\ wall' = wall + 1 /\ Instant \subseteq Nat
      /\ MaxElapsed \in Nat /\ policyUntil \in Nat
      /\ Full \in Nat /\ Fastest \in Nat /\ Minute \in Nat
      /\ since \in [Instant -> Nat]
      /\ UNCHANGED <<setBack, guarded, since, promise>>
  BY FastestIsOne, CapacityFacts, BucketConstants
     DEF BucketInv, BucketTypeOK, BucketTick, Instant
<1>2. policyUntil' = (IF policyUntil <= wall + 1 THEN 0 ELSE policyUntil)
      /\ bucket' = (IF Expired(bucket) THEN NoBucket ELSE bucket)
  BY DEF BucketTick
<1>3. BucketTypeOK'
  <2>1. policyUntil' \in Nat /\ elapsed' \in Instant
    BY <1>1, <1>2 DEF Instant
  <2>2. bucket' \in Bucket \cup {NoBucket}
    BY <1>2 DEF BucketInv, BucketTypeOK
  <2>3. wall' = MaxSetBack + elapsed' - setBack'
    BY <1>1, BucketConstants DEF BucketInv, BucketTypeOK
  <2> QED BY <1>1, <2>1, <2>2, <2>3 DEF BucketInv, BucketTypeOK
<1>4. guarded' => policyUntil' = 0 \/ policyUntil' > wall'
  BY <1>1, <1>2
<1>5. Standing' => Standing /\ (guarded => policyUntil' = policyUntil /\ policyUntil > wall + 1)
  <2>1. CASE guarded
    BY <1>1, <1>2, <2>1 DEF Standing
  <2>2. CASE ~guarded
    BY <1>1, <2>2 DEF Standing
  <2> QED BY <2>1, <2>2
<1>6. Full' = Full /\ Fastest' = Fastest
  BY DEF Full, Capacity, Fastest
<1>7. ASSUME Standing', bucket' # NoBucket PROVE BucketOK(bucket)'
  <2>1. bucket' = bucket /\ bucket # NoBucket /\ bucket \in Bucket /\ BucketOK(bucket)
    BY <1>2, <1>5, <1>7 DEF BucketInv, BucketTypeOK
  <2>2. bucket.at \in Nat /\ bucket.updated \in Nat /\ bucket.expires \in Nat
        /\ bucket.credit \in Nat
    BY <2>1 DEF Bucket
  <2>3. bucket.expires + (elapsed' - bucket.at) - wall'
          = bucket.expires + (elapsed - bucket.at) - wall
    BY <1>1, <2>2
  <2>4. ~guarded' \/ bucket'.expires # policyUntil'
          => ~guarded \/ bucket.expires # policyUntil
    BY <1>1, <1>5, <1>7, <2>1
  <2> QED
    BY <1>1, <1>6, <2>1, <2>2, <2>3, <2>4 DEF BucketOK
<1>8. ASSUME Standing' PROVE Level' \in Nat /\ Level' <= Full /\ Level' <= Level + Fastest
  <2>0. Standing /\ Level \in Nat /\ Level <= Full
    BY <1>5, <1>8, LevelFacts
  <2>1. CASE bucket = NoBucket
    BY <1>1, <1>2, <1>6, <2>0, <2>1 DEF Level, Expired
  <2>2. CASE bucket # NoBucket
    <3>1. bucket \in Bucket /\ BucketOK(bucket)
      BY <2>0, <2>2 DEF BucketInv, BucketTypeOK
    <3>2. bucket.at \in Nat /\ bucket.at <= elapsed /\ bucket.credit \in Nat
          /\ bucket.expires \in Nat
      BY <3>1 DEF Bucket, BucketOK
    <3> DEFINE d == elapsed - bucket.at
    <3>3. d \in Nat /\ elapsed' - bucket.at = d + 1
      BY <1>1, <3>2
    <3>4. Level = Lesser(Full, bucket.credit + d * Fastest)
      BY <2>2 DEF Level
    <3>5. (d + 1) * Fastest = d * Fastest + Fastest /\ d * Fastest \in Nat
      BY <1>1, <3>3
    <3>6. CASE Expired(bucket)
      <4>1. Level' = Full
        BY <1>2, <1>6, <3>6 DEF Level
      <4>2. bucket.expires <= wall + 1
        BY <3>6 DEF Expired
      <4>3. ~guarded \/ bucket.expires # policyUntil
        BY <1>1, <1>5, <1>8, <3>2, <4>2
      <4>4. (bucket.expires + d - wall) * Fastest >= Full
        BY <3>1, <4>3 DEF BucketOK
      <4>5. CASE bucket.expires + d >= wall
        <5>1. bucket.expires + d - wall \in Nat /\ bucket.expires + d - wall <= d + 1
          BY <1>1, <3>2, <3>3, <4>2, <4>5
        <5>2. (bucket.expires + d - wall) * Fastest <= (d + 1) * Fastest
          BY <1>1, <3>3, <5>1, ProductMonotone
        <5>3. (bucket.expires + d - wall) * Fastest \in Nat
          BY <1>1, <5>1
        <5> HIDE DEF d
        <5>4. Full <= d * Fastest + Fastest
          BY <1>1, <3>3, <3>5, <4>4, <5>2, <5>3
        <5> QED BY <1>1, <2>0, <3>2, <3>4, <3>5, <4>1, <5>4 DEF Lesser
      <4>6. CASE bucket.expires + d < wall
        <5>1. wall - (bucket.expires + d) \in Nat
          BY <1>1, <3>2, <3>3, <4>6
        <5>2. (bucket.expires + d - wall) * Fastest
                = 0 - (wall - (bucket.expires + d)) * Fastest
          BY <1>1, <3>2, <3>3
        <5>3. (wall - (bucket.expires + d)) * Fastest \in Nat
          BY <1>1, <5>1
        <5> HIDE DEF d
        <5>4. Full = 0
          BY <1>1, <4>4, <5>2, <5>3
        <5> QED BY <1>1, <2>0, <4>1, <5>4
      <4> QED BY <1>1, <3>2, <3>3, <4>5, <4>6
    <3>7. CASE ~Expired(bucket)
      <4>1. Level' = Lesser(Full, bucket.credit + (d + 1) * Fastest)
        BY <1>2, <1>6, <2>2, <3>3, <3>7 DEF Level
      <4> HIDE DEF d
      <4> QED BY <1>1, <3>2, <3>4, <3>5, <4>1 DEF Lesser
    <3> QED BY <3>6, <3>7
  <2> QED BY <2>1, <2>2
<1>9. ASSUME NEW s \in Instant, s <= elapsed
      PROVE  /\ since[s] * Minute \in Nat /\ (elapsed - s) * Fastest \in Nat
             /\ (elapsed' - s) * Fastest = (elapsed - s) * Fastest + Fastest
  <2>1. s \in Nat /\ elapsed - s \in Nat /\ since[s] \in Nat
    BY <1>1, <1>9
  <2>2. elapsed' - s = (elapsed - s) + 1
    BY <1>1, <2>1
  <2> QED BY <1>1, <2>1, <2>2
<1>10. ASSUME NEW s \in Instant, s <= elapsed', ~(s <= elapsed)
       PROVE  /\ since[s] = 0 /\ since[s] * Minute = 0 /\ elapsed' - s = 0
              /\ (elapsed' - s) * Fastest = 0
  <2>1. s \in Nat /\ s > elapsed /\ elapsed' - s = 0
    BY <1>1, <1>10
  <2>2. since[s] = 0
    BY <2>1 DEF BucketInv
  <2> QED BY <1>1, <2>1, <2>2
<1>11. ASSUME Standing', NEW s \in Instant, s <= elapsed'
       PROVE  since'[s] * Minute + Level' <= Full + (elapsed' - s) * Fastest
  <2>1. CASE s <= elapsed
    <3>1. since[s] * Minute + Level <= Full + (elapsed - s) * Fastest
      BY <1>5, <1>11, <2>1 DEF BucketInv
    <3>2. Level \in Nat
      BY <1>5, <1>11, LevelFacts
    <3> QED BY <1>1, <1>8, <1>9, <1>11, <2>1, <3>1, <3>2
  <2>2. CASE ~(s <= elapsed)
    <3>1. since'[s] * Minute = 0 /\ (elapsed' - s) * Fastest = 0
      BY <1>1, <1>10, <1>11, <2>2
    <3>2. Level' \in Nat /\ Level' <= Full
      BY <1>8, <1>11
    <3>3. Full \in Nat
      BY <1>1
    <3>4. \A x, y \in Nat : x <= y => 0 + x <= y + 0
      OBVIOUS
    <3>5. 0 + Level' <= Full + 0
      BY <3>2, <3>3, <3>4, Zenon
    <3> QED BY <3>1, <3>5, Zenon
  <2> QED BY <2>1, <2>2
<1>12. GrantsBounded'
  <2>1. SUFFICES ASSUME NEW s \in Instant, s <= elapsed'
                 PROVE  since[s] * Minute <= Full + (elapsed' - s) * Fastest
    BY <1>1, <1>6 DEF GrantsBounded, Full
  <2>2. CASE s <= elapsed
    <3>1. since[s] * Minute <= Full + (elapsed - s) * Fastest
      BY <2>2 DEF BucketInv, GrantsBounded, Full
    <3> QED BY <1>1, <1>9, <2>2, <3>1
  <2>3. CASE ~(s <= elapsed)
    BY <1>1, <1>10, <2>1, <2>3
  <2> QED BY <2>2, <2>3
<1>13. \A s \in Instant : s > elapsed' => since'[s] = 0
  BY <1>1 DEF BucketInv
<1> QED
  BY <1>3, <1>4, <1>6, <1>7, <1>11, <1>12, <1>13 DEF BucketInv

LEMMA SetBackKeeps == BucketInv /\ SetBack => BucketInv'
<1> SUFFICES ASSUME BucketInv, SetBack PROVE BucketInv'
  OBVIOUS
<1>1. /\ elapsed \in Nat /\ wall \in Nat /\ wall' \in Nat /\ wall' = wall - 1
      /\ policyUntil \in Nat /\ Full \in Nat /\ Fastest \in Nat
      /\ setBack \in Nat /\ setBack' = setBack + 1 /\ setBack' <= MaxSetBack
      /\ UNCHANGED <<elapsed, guarded, policyUntil, bucket, since>>
  BY FastestIsOne, CapacityFacts, BucketConstants
     DEF BucketInv, BucketTypeOK, SetBack, Instant
<1>2. BucketTypeOK'
  BY <1>1, BucketConstants DEF BucketInv, BucketTypeOK
<1>3. /\ Full' = Full /\ Fastest' = Fastest /\ Level' = Level
      /\ GrantsBounded' = GrantsBounded
  BY <1>1 DEF Full, Capacity, Fastest, Level, GrantsBounded
<1>4. guarded' => policyUntil' = 0 \/ policyUntil' > wall'
  BY <1>1 DEF BucketInv
<1>5. Standing' => Standing
  <2>1. CASE guarded
    <3>1. policyUntil = 0 \/ policyUntil > wall
      BY <2>1 DEF BucketInv
    <3> QED BY <1>1, <2>1, <3>1 DEF Standing
  <2>2. CASE ~guarded
    BY <2>2 DEF Standing
  <2> QED BY <2>1, <2>2
<1>6. ASSUME Standing', bucket' # NoBucket PROVE BucketOK(bucket)'
  <2>1. bucket \in Bucket /\ BucketOK(bucket)
    BY <1>1, <1>5, <1>6 DEF BucketInv, BucketTypeOK
  <2>2. bucket.at \in Nat /\ bucket.updated \in Nat /\ bucket.expires \in Nat
        /\ bucket.at <= elapsed
    BY <2>1 DEF Bucket, BucketOK
  <2> DEFINE k == bucket.expires + (elapsed - bucket.at) - wall
  <2>3. bucket.expires + (elapsed - bucket.at) - wall' = k + 1 /\ k \in Int
    BY <1>1, <2>2
  <2>4. (k + 1) * Fastest = k * Fastest + Fastest /\ k * Fastest \in Int
    BY <1>1, <2>3
  <2>5. ~guarded \/ bucket.expires # policyUntil => k * Fastest >= Full
    BY <2>1 DEF BucketOK
  <2> HIDE DEF k
  <2>6. ~guarded \/ bucket.expires # policyUntil
          => (bucket.expires + (elapsed - bucket.at) - wall') * Fastest >= Full
    BY <1>1, <2>3, <2>4, <2>5
  <2> QED
    BY <1>1, <1>3, <2>1, <2>2, <2>6 DEF BucketOK
<1> QED
  BY <1>1, <1>2, <1>3, <1>4, <1>5, <1>6 DEF BucketInv

LEMMA PolicyGoesKeeps == BucketInv /\ PolicyGoes => BucketInv'
<1> SUFFICES ASSUME BucketInv, PolicyGoes PROVE BucketInv'
  OBVIOUS
<1>1. /\ policyUntil' = 0
      /\ UNCHANGED <<elapsed, wall, setBack, guarded, bucket, since>>
  BY DEF PolicyGoes
<1>2. guarded => ~Standing'
  <2>1. wall \in Nat
    BY BucketConstants DEF BucketInv, BucketTypeOK, Instant
  <2> QED BY <1>1, <2>1 DEF Standing
<1>3. BucketTypeOK'
  BY <1>1 DEF BucketInv, BucketTypeOK
<1>4. /\ Full' = Full /\ Fastest' = Fastest /\ Level' = Level
      /\ GrantsBounded' = GrantsBounded
  BY <1>1 DEF Full, Capacity, Fastest, Level, GrantsBounded
<1>5. CASE guarded
  BY <1>1, <1>2, <1>3, <1>4, <1>5 DEF BucketInv
<1>6. CASE ~guarded
  <2>1. Standing
    BY <1>6 DEF Standing
  <2>2. BucketOK(bucket) => BucketOK(bucket)'
    BY <1>1, <1>4, <1>6 DEF BucketOK
  <2> QED BY <1>1, <1>3, <1>4, <1>6, <2>1, <2>2 DEF BucketInv
<1> QED BY <1>5, <1>6

LEMMA StutterKeeps == BucketInv /\ UNCHANGED bucketVars => BucketInv'
BY DEF BucketInv, BucketTypeOK, BucketOK, Standing, GrantsBounded, Level, Full,
   Fastest, Capacity, bucketVars

\* For every burst, every set of rates with a largest one and every number of
\* set-backs, what was granted and what is left are bounded together.
THEOREM BucketAlways == BucketSpec => []BucketInv
<1>1. BucketInv /\ [BucketNext]_bucketVars => BucketInv'
  BY GrantKeeps, RefuseKeeps, TickKeeps, SetBackKeeps, PolicyGoesKeeps,
     StutterKeeps DEF BucketNext, PassInactive
<1> QED BY BucketStart, <1>1, PTL DEF BucketSpec

\* No stretch of time sees more tokens granted than the burst and the fastest
\* rate allow (token_bucket.lua).
THEOREM GrantsAreBounded == BucketSpec => []GrantsBounded
<1>1. BucketInv => GrantsBounded
  BY DEF BucketInv
<1> QED BY <1>1, BucketAlways, PTL

-----------------------------------------------------------------------------
(* The wait a refused caller is told. *)

\* Of a bucket at its capacity a token can be taken.
LEMMA CapacityHoldsToken ==
  ASSUME NEW rpm \in Rpm PROVE Capacity(rpm) \in Nat /\ Capacity(rpm) >= Minute
<1>1. rpm \in Nat \ {0} /\ Burst \in Nat \ {0} /\ Minute \in Nat
  BY BucketConstants
<1>2. Lesser(Burst, rpm) \in Nat /\ 1 <= Lesser(Burst, rpm)
  BY <1>1 DEF Lesser
<1>3. 1 * Minute <= Lesser(Burst, rpm) * Minute
  BY <1>1, <1>2, ProductMonotone
<1> QED BY <1>1, <1>3, CapacityFacts DEF Capacity

\* What is told is long enough, measured from the call.
LEMMA RefusePromises ==
  ASSUME BucketInv, NEW rpm \in Rpm, Refuse(rpm) PROVE PromiseInv'
<1> DEFINE c == Credit(rpm)
           w == Wait(rpm)
           u == UpToPolicy(w)
<1>1. /\ Standing /\ c < Minute /\ Store(rpm, c)
      /\ promise' = (IF Now = wall THEN [rpm |-> rpm, at |-> elapsed + u] ELSE NoPromise)
      /\ UNCHANGED <<elapsed, wall, setBack, guarded, policyUntil, since>>
  BY DEF Refuse
<1>2. /\ c \in Nat /\ Minute \in Nat /\ rpm \in Nat \ {0} /\ elapsed \in Nat /\ wall \in Nat
      /\ policyUntil \in Nat
  BY <1>1, CreditBelowLevel, BucketConstants DEF BucketInv, BucketTypeOK, Instant
<1>3. w \in Nat /\ Minute <= c + w * rpm
  <2>1. Minute - c \in Nat
    BY <1>1, <1>2
  <2>2. w = CeilDiv(Minute - c, rpm)
    BY DEF Wait
  <2> HIDE DEF c, w
  <2>3. w \in Nat /\ Minute - c <= w * rpm
    BY <1>2, <2>1, <2>2, CeilDivCovers
  <2>4. w * rpm \in Nat
    BY <1>2, <2>3
  <2> QED BY <1>2, <2>3, <2>4
<1>4. u \in Nat /\ (u = w \/ (guarded /\ u = policyUntil - wall))
  <2>1. CASE guarded
    <3>1. policyUntil > wall /\ u = Lesser(w, policyUntil - wall)
      BY <1>1, <2>1 DEF Standing, UpToPolicy
    <3> HIDE DEF u, w
    <3>2. u \in Nat /\ (u = w \/ u = policyUntil - wall)
      BY <1>2, <1>3, <3>1 DEF Lesser
    <3> QED BY <2>1, <3>2, Zenon
  <2>2. CASE ~guarded
    <3>1. u = w
      BY <2>2 DEF UpToPolicy
    <3> HIDE DEF u, w
    <3> QED BY <1>3, <3>1, Zenon
  <2> QED BY <2>1, <2>2
<1>5. bucket'.credit = c /\ bucket'.updated = Now
  BY <1>1 DEF Store
<1> HIDE DEF c, w, u
<1>6. CASE Now = wall
  <2>1. promise'.rpm = rpm /\ promise'.at = elapsed + u
    BY <1>1, <1>6
  <2>2. promise'.rpm \in Rpm /\ promise'.at \in Nat /\ promise'.at - elapsed = u
    BY <1>2, <1>4, <2>1
  <2>3. bucket'.updated <= wall
    BY <1>2, <1>5, <1>6
  <2>4. \/ guarded /\ policyUntil - wall <= u
        \/ c + u * rpm >= Minute
    BY <1>2, <1>3, <1>4
  <2>5. wall - bucket'.updated + promise'.at - elapsed = u
    BY <1>2, <1>4, <1>5, <1>6, <2>1
  <2> QED BY <1>1, <1>5, <2>1, <2>2, <2>3, <2>4, <2>5 DEF PromiseInv
<1>7. CASE Now # wall
  BY <1>1, <1>7 DEF PromiseInv
<1> QED BY <1>6, <1>7

\* While time passes the wait and what is left of it shrink together; a bucket
\* that expires is full when it is next asked for.
LEMMA TickKeepsPromise ==
  ASSUME BucketInv, PromiseInv, BucketTick PROVE PromiseInv'
<1>1. /\ elapsed \in Nat /\ wall \in Nat /\ policyUntil \in Nat
      /\ bucket \in Bucket \cup {NoBucket}
  BY BucketConstants DEF BucketInv, BucketTypeOK, Instant
<1>2. /\ elapsed' = elapsed + 1 /\ wall' = wall + 1 /\ guarded' = guarded
      /\ promise' = promise /\ bucket' \in {NoBucket, bucket}
      /\ policyUntil' \in {0, policyUntil}
  BY DEF BucketTick
<1>3. SUFFICES ASSUME promise # NoPromise, bucket' # NoBucket
               PROVE  /\ bucket.updated <= wall'
                      /\ \/ guarded /\ policyUntil' - wall' <= promise.at - elapsed'
                         \/ bucket.credit + (wall' - bucket.updated + promise.at - elapsed') * promise.rpm
                              >= Minute
  BY <1>2 DEF PromiseInv
<1>4. /\ bucket # NoBucket /\ bucket \in Bucket /\ bucket.updated \in Nat
      /\ promise.at \in Nat /\ promise.rpm \in Rpm
  BY <1>1, <1>2, <1>3 DEF Bucket, PromiseInv
<1>5. wall' - bucket.updated + promise.at - elapsed' = wall - bucket.updated + promise.at - elapsed
  BY <1>1, <1>2, <1>4
<1>6. /\ bucket.updated <= wall
      /\ \/ guarded /\ policyUntil - wall <= promise.at - elapsed
         \/ bucket.credit + (wall - bucket.updated + promise.at - elapsed) * promise.rpm >= Minute
  BY <1>3, <1>4 DEF PromiseInv
<1>7. guarded /\ policyUntil - wall <= promise.at - elapsed
        => guarded /\ policyUntil' - wall' <= promise.at - elapsed'
  BY <1>1, <1>2, <1>4
<1> QED BY <1>1, <1>2, <1>4, <1>5, <1>6, <1>7

\* Once the wait is over there is a token, or no policy that would ask for one.
LEMMA PromiseIsKept == BucketInv /\ PromiseInv => WaitSuffices
<1> SUFFICES ASSUME BucketInv, PromiseInv, promise # NoPromise, elapsed >= promise.at, Standing
             PROVE  Credit(promise.rpm) >= Minute
  BY DEF WaitSuffices
<1> DEFINE r == promise.rpm
<1>1. /\ elapsed \in Nat /\ wall \in Nat /\ policyUntil \in Nat /\ Minute \in Nat
      /\ bucket \in Bucket \cup {NoBucket}
  BY BucketConstants DEF BucketInv, BucketTypeOK, Instant
<1>2. r \in Rpm /\ promise.at \in Nat
  BY DEF PromiseInv
<1>3. r \in Nat /\ Capacity(r) \in Nat /\ Capacity(r) >= Minute
  BY <1>2, CapacityHoldsToken, BucketConstants
<1>4. CASE bucket = NoBucket
  BY <1>3, <1>4 DEF Credit
<1>5. CASE bucket # NoBucket
  <2> DEFINE n == wall - bucket.updated
             k == wall - bucket.updated + promise.at - elapsed
  <2>1. bucket \in Bucket /\ bucket.updated \in Nat /\ bucket.credit \in Nat
    BY <1>1, <1>5 DEF Bucket
  <2>2. /\ bucket.updated <= wall
        /\ \/ guarded /\ policyUntil - wall <= promise.at - elapsed
           \/ bucket.credit + k * r >= Minute
    BY <1>5 DEF PromiseInv
  <2>3. Now = wall
    BY <1>1, <1>5, <2>1, <2>2 DEF Now, Larger
  <2>4. Credit(r) = Lesser(Capacity(r), bucket.credit + n * r)
    BY <1>5, <2>3 DEF Credit
  <2>5. ~(guarded /\ policyUntil - wall <= promise.at - elapsed)
    <3> SUFFICES ASSUME guarded, policyUntil - wall <= promise.at - elapsed PROVE FALSE
      OBVIOUS
    <3>1. policyUntil > wall
      BY DEF Standing
    <3> QED BY <1>1, <1>2, <3>1
  <2>6. n \in Nat /\ k \in Int /\ n - k \in Nat
    BY <1>1, <1>2, <2>1, <2>2
  <2>7. bucket.credit + k * r >= Minute
    BY <2>2, <2>5
  <2> HIDE DEF n, k, r
  <2>8. n * r = k * r + (n - k) * r /\ (n - k) * r \in Nat /\ k * r \in Int
    BY <1>3, <2>6
  <2>9. bucket.credit + n * r >= Minute
    BY <1>1, <2>1, <2>7, <2>8
  <2>10. n * r \in Nat
    BY <1>3, <2>6
  <2>11. Credit(r) >= Minute
    BY <1>1, <1>3, <2>1, <2>4, <2>9, <2>10 DEF Lesser
  <2> QED BY <2>11 DEF r
<1> QED BY <1>4, <1>5

\* Whoever comes back after the wait the script told is let through, at any rate
\* and under any policy, unless someone else took the token first.
THEOREM WaitsSuffice == BucketSpec => []WaitSuffices
<1>1. BucketInit => PromiseInv
  BY DEF BucketInit, PromiseInv
<1>2. BucketInv /\ PromiseInv /\ [BucketNext]_bucketVars => PromiseInv'
  <2> SUFFICES ASSUME BucketInv, PromiseInv, [BucketNext]_bucketVars PROVE PromiseInv'
    OBVIOUS
  <2>1. ASSUME NEW rpm \in Rpm, Grant(rpm) PROVE PromiseInv'
    BY <2>1 DEF Grant, PromiseInv
  <2>2. CASE SetBack
    BY <2>2 DEF SetBack, PromiseInv
  <2>3. CASE PolicyGoes
    <3>1. /\ policyUntil' = 0 /\ UNCHANGED <<elapsed, wall, guarded, bucket, promise>>
          /\ policyUntil \in Nat /\ wall \in Nat
      BY <2>3, BucketConstants DEF PolicyGoes, BucketInv, BucketTypeOK, Instant
    <3>2. ASSUME NEW x \in Int, policyUntil - wall <= x PROVE 0 - wall <= x
      BY <3>1, <3>2
    <3>3. elapsed \in Nat /\ (promise # NoPromise => promise.at - elapsed \in Int)
      BY BucketConstants DEF BucketInv, BucketTypeOK, Instant, PromiseInv
    <3> QED BY <3>1, <3>2, <3>3 DEF PromiseInv
  <2>4. CASE UNCHANGED bucketVars
    BY <2>4 DEF bucketVars, PromiseInv
  <2> QED
    BY <2>1, <2>2, <2>3, <2>4, RefusePromises, TickKeepsPromise DEF BucketNext, PassInactive
<1> QED BY <1>1, <1>2, PromiseIsKept, BucketAlways, PTL DEF BucketSpec
=============================================================================

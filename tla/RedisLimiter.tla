---------------------------- MODULE RedisLimiter ----------------------------
(***************************************************************************)
(* The circuit breaker in front of the quota script                        *)
(* (gateway/internal/policy/redis_limiter.go, Take).                       *)
(*                                                                         *)
(* Requests share two atomics: blockedUntil, zero while Redis is trusted,  *)
(* and probing, the flag one request wins to try a Redis that failed.      *)
(* Every request that may not ask Redis is let through at once.  A request *)
(* loads blockedUntil, wins the flag, calls Redis, stores the outcome and  *)
(* releases the flag in separate steps, so results arrive late and in any  *)
(* order.                                                                  *)
(***************************************************************************)
EXTENDS Naturals

CONSTANTS
  Request,      \* requests that may be inside Take at once
  Backoff       \* how long Redis is left alone after a failure

ASSUME LimiterConstants == Backoff \in Nat \ {0}

VARIABLES
  healthy,      \* whether a call made now is answered: Redis is up and in time,
                \* and the caller, whose context bounds the call, stays
  open,         \* blockedUntil # 0
  left,         \* how much of the back-off is still to run
  probing,      \* the flag
  take          \* per request: where in Take it is

limiterVars == <<healthy, open, left, probing, take>>

Stage == {"out", "cas", "calling", "answered", "failed", "returning"}

\* "probe": this request holds the flag and will release it.
Take == [stage : Stage, probe : BOOLEAN]

Outside == [stage |-> "out", probe |-> FALSE]

LimiterTypeOK ==
  /\ healthy \in BOOLEAN
  /\ open \in BOOLEAN
  /\ left \in 0..Backoff
  /\ probing \in BOOLEAN
  /\ take \in [Request -> Take]

LimiterInit ==
  /\ healthy \in BOOLEAN
  /\ open = FALSE
  /\ left = 0
  /\ probing = FALSE
  /\ take = [r \in Request |-> Outside]

-----------------------------------------------------------------------------
\* The load of blockedUntil and the look at the clock.
Enter(r) ==
  /\ take[r].stage = "out"
  /\ ~open \/ left = 0
  /\ take' = [take EXCEPT ![r].stage = IF open THEN "cas" ELSE "calling"]
  /\ UNCHANGED <<healthy, open, left, probing>>

\* Mutant: the flag is loaded and stored instead of compared and swapped.
WinProbeLoadStore(r) ==
  /\ take[r].stage = "cas"
  /\ probing' = TRUE
  /\ take' = [take EXCEPT ![r] = [stage |-> "calling", probe |-> TRUE]]
  /\ UNCHANGED <<healthy, open, left>>

\* CompareAndSwap: who loses it is let through.
WinProbe(r) ==
  /\ take[r].stage = "cas"
  /\ probing' = TRUE
  /\ take' = [take EXCEPT ![r] =
                IF probing THEN Outside
                           ELSE [stage |-> "calling", probe |-> TRUE]]
  /\ UNCHANGED <<healthy, open, left>>

\* The round trip, under its own timeout and the request's context: a caller that
\* hangs up is an error like any other.
Answer(r) ==
  /\ take[r].stage = "calling"
  /\ take' = [take EXCEPT ![r].stage = IF healthy THEN "answered" ELSE "failed"]
  /\ UNCHANGED <<healthy, open, left, probing>>

\* blockedUntil is stored, whatever has become of it since it was loaded.
Settle(r) ==
  /\ take[r].stage \in {"answered", "failed"}
  /\ open' = (take[r].stage = "failed")
  /\ left' = IF take[r].stage = "failed" THEN Backoff ELSE 0
  /\ take' = IF take[r].probe THEN [take EXCEPT ![r].stage = "returning"]
                              ELSE [take EXCEPT ![r] = Outside]
  /\ UNCHANGED <<healthy, probing>>

\* Mutant: the flag is released only when the back-off has been lifted.
ReleaseOnSuccess(r) ==
  /\ take[r].stage = "returning"
  /\ probing' = open
  /\ take' = [take EXCEPT ![r] = Outside]
  /\ UNCHANGED <<healthy, open, left>>

\* The deferred release.
Release(r) ==
  /\ take[r].stage = "returning"
  /\ probing' = FALSE
  /\ take' = [take EXCEPT ![r] = Outside]
  /\ UNCHANGED <<healthy, open, left>>

BackoffRuns ==
  /\ left > 0
  /\ left' = left - 1
  /\ UNCHANGED <<healthy, open, probing, take>>

\* Redis goes or comes back, or one caller hangs up: a pair of flips around one
\* Answer fails that call alone.
RedisFlips ==
  /\ healthy' = ~healthy
  /\ UNCHANGED <<open, left, probing, take>>

Step(r) == WinProbe(r) \/ Answer(r) \/ Settle(r) \/ Release(r)

LimiterNext ==
  \/ \E r \in Request : Enter(r) \/ Step(r)
  \/ BackoffRuns \/ RedisFlips

\* Requests under a limit keep coming, each runs to its end, time passes.
LimiterSpec ==
  /\ LimiterInit
  /\ [][LimiterNext]_limiterVars
  /\ \A r \in Request : WF_limiterVars(Enter(r)) /\ WF_limiterVars(Step(r))
  /\ WF_limiterVars(BackoffRuns)

-----------------------------------------------------------------------------
(* Properties. *)

Holds(r) == take[r].probe

\* At most one request at a time probes a Redis that failed, also when others
\* loaded the old back-off before its probe settled, and the flag is up exactly
\* while such a request is on its way: it cannot be left behind.
OneProbe ==
  /\ \A r, s \in Request : Holds(r) /\ Holds(s) => r = s
  /\ probing <=> \E r \in Request : Holds(r)

\* What every step preserves: besides, only requests past the swap hold the
\* flag, only holders return through the release, and a back-off that is
\* running has the breaker open.
LimiterInv ==
  /\ LimiterTypeOK
  /\ OneProbe
  /\ \A r \in Request :
       /\ take[r].stage \in {"out", "cas"} => ~take[r].probe
       /\ take[r].stage = "returning" => take[r].probe
  /\ ~open => left = 0

\* Once calls are answered for good, limits are enforced again for good: no late
\* failure, lost race or forgotten flag leaves requests passing unmetered.
LimitsReturn == <>[]healthy => <>[](~open)
=============================================================================

------------------------------ MODULE MCLimits ------------------------------
(* The gateway's two local limits, one at a time: "part" picks the module that *)
(* moves and the other rests in an initial state.                              *)
(*                                                                             *)
(* Reflex has two requests in flight and the settings an operator moves        *)
(* between: off, on with a short block, on with a long block and the address   *)
(* exempt, and two that are refused (an advisory signal, a bad exempt list).   *)
(* RedisLimiter has three requests inside Take at once: one that probes, one   *)
(* that holds an old load of the back-off, one whose answer is late.           *)
EXTENDS Reflex, RedisLimiter

CONSTANTS a1, a2, flood, objects

VARIABLE part

Cfg(on, sigs, d, exempt, ok) ==
  [enabled |-> on, signals |-> sigs, minScore |-> 2, duration |-> d,
   exempt |-> exempt, parses |-> ok]

MCConfig == {Cfg(FALSE, {flood}, 1, {}, TRUE),
             Cfg(TRUE, {flood}, 1, {a2}, TRUE),
             Cfg(TRUE, {flood}, 2, {a1, a2}, TRUE),
             Cfg(TRUE, {objects}, 1, {}, TRUE),
             Cfg(TRUE, {flood}, 2, {}, FALSE)}

LimitsInit ==
  /\ part \in {"reflex", "limiter"}
  /\ ReflexInit
  /\ part = "limiter" => ~tun.enabled
  /\ LimiterInit
  /\ part = "reflex" => healthy

LimitsNext ==
  /\ UNCHANGED part
  /\ \/ part = "reflex" /\ ReflexNext /\ UNCHANGED limiterVars
     \/ part = "limiter" /\ LimiterNext /\ UNCHANGED reflexVars

\* The fairness of both modules.  Requests enter Take in the limiter's part only.
LimitsFairness ==
  /\ WF_reflexVars(Sweep)
  /\ \A r \in Request :
       WF_limiterVars(part = "limiter" /\ Enter(r)) /\ WF_limiterVars(Step(r))
  /\ WF_limiterVars(BackoffRuns)

LimitsSpec ==
  LimitsInit /\ [][LimitsNext]_<<reflexVars, limiterVars, part>> /\ LimitsFairness
=============================================================================

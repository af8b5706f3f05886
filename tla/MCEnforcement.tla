--------------------------- MODULE MCEnforcement ---------------------------
(* The request path and the quota script it calls, one at a time: "part" picks *)
(* the module that moves and the other rests in an initial state.              *)
(*                                                                             *)
(* Enforcement has one address and one endpoint, so that an address-wide and a *)
(* scoped policy compete, with the reflex off or armed: every action without   *)
(* a baseline limit, throttles alone with one.  TokenBucket has two            *)
(* rates that share a bucket, a minute long enough for a wait to be rounded    *)
(* up, and a clock that is set back in two steps.                              *)
EXTENDS Enforcement, TokenBucket

CONSTANT flood

VARIABLE part

Cfg(on) ==
  [enabled |-> on, signals |-> {flood}, minScore |-> 1, duration |-> 1,
   exempt |-> {}, parses |-> TRUE]

MCConfig == {Cfg(FALSE), Cfg(TRUE)}

EnforcementInit ==
  /\ part \in {"request", "baseline", "script"}
  /\ Init
  /\ part = "script" => ~gate /\ ~tun.enabled
  /\ BucketInit
  /\ part # "script" => ~guarded

EnforcementNext ==
  /\ UNCHANGED part
  /\ \/ part = "request" /\ Next /\ ~enforcer'.baseline /\ UNCHANGED bucketVars
     \/ /\ part = "baseline" /\ Next /\ UNCHANGED bucketVars
        /\ \A k \in Key : snapshot'[k] # NoDecision => snapshot'[k].action = "throttle"
     \/ part = "script" /\ BucketNext /\ UNCHANGED vars

EnforcementSpec ==
  EnforcementInit /\ [][EnforcementNext]_<<vars, bucketVars, part>>
=============================================================================

----------------------------- MODULE Enforcement -----------------------------
(***************************************************************************)
(* The request path: the enforcer at the front of the chain                *)
(* (policy/middleware.go), the chain of decision sources it consults       *)
(* (policy/chain.go, policy/gate.go), and the reflex's observer behind the *)
(* detectors (enforcement/middleware.go), composed with the policy source  *)
(* and the reflex.                                                         *)
(*                                                                         *)
(* A request loads the enforcer's tunables, asks the decision engine's     *)
(* source, then the reflex, and is refused, limited or forwarded; a        *)
(* forwarded request is observed when its handler returns.  Snapshots are  *)
(* swapped, blocks armed and swept, and settings moved between any two of  *)
(* these steps.                                                            *)
(***************************************************************************)
EXTENDS PolicySource

CONSTANTS
  Worker,       \* requests that may be inside the chain at once
  Signal, Advisory, Score, Duration, Config, NoBlock, NotObserving, MaxClock,
  EntryLife,    \* how far ahead the deadlines of swapped-in entries lie
  Quota         \* answers of the quota limiter: "granted", "exhausted", "error"

VARIABLES
  tun, blocked, observing, blockable,   \* the reflex
  gate,         \* whether the policy source is consulted
  enforcer,     \* the enforcer's tunables: policyOn, baseline, exempt
  req           \* per worker: the request it serves

R == INSTANCE Reflex

reflexState == <<tun, blocked, observing, blockable>>
vars == <<clock, snapshot, reflexState, gate, enforcer, req>>

Tunables == [policyOn : BOOLEAN, baseline : BOOLEAN, exempt : SUBSET IP]

\* The reflex's answer.
ReflexBlock == [action |-> "temp_block", origin |-> "agent"]

Idle == [stage |-> "idle"]

\* What the enforcer did: refused (403), rate limited (429), or forwarded.
Outcome == {"refused", "rate_limited", "forwarded"}

Refusing == {"block", "temp_block", "temporary_block", "escalate"}

\* What a source may say of a request.
Opinion == [action : Action \cup {"temp_block"}, origin : Origin \cup {"agent"}]

ASSUME EnforcementConstants == NoDecision \notin Opinion /\ EntryLife \subseteq Nat

Severity(action) ==
  CASE action = "throttle" -> 1
    [] action \in {"block", "temp_block", "temporary_block"} -> 2
    [] action = "escalate" -> 3
    [] OTHER -> 0

Init ==
  /\ SourceInit
  /\ R!ReflexInit
  /\ gate \in BOOLEAN
  /\ enforcer = [policyOn |-> gate \/ R!Active, baseline |-> FALSE, exempt |-> {}]
  /\ req = [w \in Worker |-> Idle]

-----------------------------------------------------------------------------
(* A request. *)

\* The tunables are loaded once, the exempt list with the baseline it goes
\* with; with nothing switched on the request passes.
Arrive(w, ip, ep) ==
  /\ req[w].stage = "idle"
  /\ req' = [req EXCEPT ![w] =
       [stage |-> IF enforcer.policyOn THEN "engine"
                  ELSE IF enforcer.baseline THEN "act" ELSE "inside",
        ip |-> ip, ep |-> ep,
        baseline |-> enforcer.baseline /\ ip \notin enforcer.exempt,
        human |-> FALSE, engine |-> NoDecision, chosen |-> NoDecision,
        reflex |-> FALSE, outcome |-> "forwarded"]]
  /\ UNCHANGED <<clock, snapshot, reflexState, gate, enforcer>>

\* Whether a person's decision about this request is in force.
HumanSpoke(ip, ep) ==
  \E d \in {snapshot[<<ip, Everywhere>>], snapshot[<<ip, ep>>]} :
    Live(d) /\ Matches(d, ep) /\ d.origin = "human"

\* First source of the chain: the gate in front of the policy store.  A
\* person's decision ends the search.
AskEngine(w) ==
  LET r == req[w]
      d == IF gate THEN LookupRequest(r.ip, r.ep) ELSE NoDecision
      o == IF d = NoDecision THEN d
           ELSE [action |-> d.action, origin |-> d.origin]
      h == d # NoDecision /\ DecisionPriority(d) = 3
  IN
  /\ r.stage = "engine"
  /\ req' = [req EXCEPT ![w].engine = o,
                        ![w].human = gate /\ HumanSpoke(r.ip, r.ep),
                        ![w].chosen = IF h THEN o ELSE NoDecision,
                        ![w].stage = IF h THEN "act" ELSE "reflex"]
  /\ UNCHANGED <<clock, snapshot, reflexState, gate, enforcer>>

\* Mutant: the engine's opinion replaces the reflex's, however mild.
PickEngineFirst(d, blocks) ==
  IF d # NoDecision THEN d ELSE IF blocks THEN ReflexBlock ELSE NoDecision

\* The more severe of the two, the engine's among equals.
Pick(d, blocks) ==
  IF blocks /\ (d = NoDecision \/ Severity(d.action) < 2) THEN ReflexBlock ELSE d

\* Second source: the reflex.
AskReflex(w) ==
  LET r == req[w] IN
  /\ r.stage = "reflex"
  /\ req' = [req EXCEPT ![w].reflex = R!Refuses(r.ip),
                        ![w].chosen = Pick(r.engine, R!Refuses(r.ip)),
                        ![w].stage = "act"]
  /\ UNCHANGED <<clock, snapshot, reflexState, gate, enforcer>>

RefuseWith(w, outcome) ==
  req' = [req EXCEPT ![w].stage = "idle", ![w].outcome = outcome]

Forward(w) == req' = [req EXCEPT ![w].stage = "inside"]

\* limited(): only an exhausted allowance turns a request away; a limiter that
\* fails lets it through.
Limited(w, quota) ==
  IF quota = "exhausted" THEN RefuseWith(w, "rate_limited") ELSE Forward(w)

\* What the enforcer does with the decision it found.  A permissive or unknown
\* action passes, the baseline included.
Act(w, quota) ==
  LET r == req[w] IN
  /\ r.stage = "act"
  /\ CASE r.chosen = NoDecision ->
            IF r.baseline THEN Limited(w, quota) ELSE Forward(w)
       [] r.chosen # NoDecision /\ r.chosen.action \in Refusing ->
            RefuseWith(w, "refused")
       [] r.chosen # NoDecision /\ r.chosen.action = "throttle" ->
            Limited(w, quota)
       [] OTHER -> Forward(w)
  /\ UNCHANGED <<clock, snapshot, reflexState, gate, enforcer>>

\* The handler returns and the observer shows the reflex what was recorded.
Return(w, evidence) ==
  LET r == req[w] IN
  /\ r.stage = "inside"
  /\ R!ObserveLoad(w, r.ip, evidence)
  /\ req' = [req EXCEPT ![w].stage = "observing"]
  /\ UNCHANGED <<snapshot, gate, enforcer>>

Decided(w) ==
  /\ req[w].stage = "observing"
  /\ R!ObserveDecide(w)
  /\ req' = [req EXCEPT ![w].stage =
                IF observing'[w] = NotObserving THEN "idle" ELSE "arming"]
  /\ UNCHANGED <<snapshot, gate, enforcer>>

Armed(w) ==
  /\ req[w].stage = "arming"
  /\ R!ObserveArm(w)
  /\ req' = [req EXCEPT ![w].stage = "idle"]
  /\ UNCHANGED <<snapshot, gate, enforcer>>

-----------------------------------------------------------------------------
(* Everything else that moves. *)

\* A refresh changes one entry; several in a row make any new map.
SwapEntry(k, d) ==
  /\ snapshot' = [snapshot EXCEPT ![k] = d]
  /\ Promised(d)
  /\ UNCHANGED <<clock, reflexState, gate, enforcer, req>>

Entries(k) ==
  {NoDecision} \cup
  {[action |-> a, origin |-> o, only |-> k[2], expiresAt |-> clock + l,
    cacheUntil |-> clock + CacheMaxAge, serial |-> 1, due |-> clock + l] :
      a \in Action, o \in Origin, l \in EntryLife}

\* The parts of live.apply, each an atomic swap.
SetReflex(cfg) ==
  /\ R!Apply(cfg)
  /\ UNCHANGED <<snapshot, gate, enforcer, req>>

SetGate(on) ==
  /\ gate' = on
  /\ UNCHANGED <<clock, snapshot, reflexState, enforcer, req>>

\* Without a baseline there is no exempt list to carry.
SetEnforcer(baseline, exempt) ==
  /\ baseline \/ exempt = {}
  /\ enforcer' = [policyOn |-> gate \/ R!Active, baseline |-> baseline,
                  exempt |-> exempt]
  /\ UNCHANGED <<clock, snapshot, reflexState, gate, req>>

Sweep == R!Sweep /\ UNCHANGED <<snapshot, gate, enforcer, req>>

Tick == R!ReflexTick /\ UNCHANGED <<snapshot, gate, enforcer, req>>

Next ==
  \/ \E w \in Worker :
       \/ \E ip \in IP, ep \in Endpoint : Arrive(w, ip, ep)
       \/ AskEngine(w) \/ AskReflex(w)
       \/ \E q \in Quota : Act(w, q)
       \/ \E e \in SUBSET R!Evidence : Return(w, e)
       \/ Decided(w) \/ Armed(w)
  \/ \E k \in Key : \E d \in Entries(k) : SwapEntry(k, d)
  \/ \E cfg \in Config : SetReflex(cfg)
  \/ \E on \in BOOLEAN : SetGate(on)
  \/ \E b \in BOOLEAN, x \in SUBSET IP : SetEnforcer(b, x)
  \/ Sweep \/ Tick

Spec == Init /\ [][Next]_vars

-----------------------------------------------------------------------------
(* Properties. *)

Finished(r) == r.stage = "idle" /\ "outcome" \in DOMAIN r

\* A throttled request may still be forwarded, a blocked one may not.
MeetsAction(r, action) == Severity(action) >= 2 => r.outcome = "refused"

\* When a person has decided about a request, the verdict is the one that
\* person asked for: an allow releases an address that both the engine and the
\* reflex would refuse.
HumanDecides ==
  \A w \in Worker :
    LET r == req[w] IN
    Finished(r) /\ r.human =>
      /\ r.chosen # NoDecision
      /\ r.chosen.origin = "human"
      /\ r.outcome = "refused" <=> r.chosen.action \in Refusing

\* Without a person's decision the stricter opinion stands: a milder one, or a
\* setting moved while the request was being judged, never lifts a block that
\* either source had in force when it was asked.
StrictestStands ==
  \A w \in Worker :
    LET r == req[w] IN
    Finished(r) /\ ~r.human =>
      /\ r.engine # NoDecision => MeetsAction(r, r.engine.action)
      /\ r.reflex => r.outcome = "refused"
      /\ r.outcome = "refused" =>
           \/ r.reflex
           \/ r.engine # NoDecision /\ r.engine.action \in Refusing

\* A request between its arrival and the next one: what it carries through the
\* chain.
Request ==
  [stage : {"engine", "reflex", "act", "inside", "observing", "arming", "idle"},
   ip : IP, ep : Endpoint, baseline : BOOLEAN, human : BOOLEAN,
   engine : Opinion \cup {NoDecision}, chosen : Opinion \cup {NoDecision},
   reflex : BOOLEAN, outcome : Outcome]

EnforcementTypeOK ==
  /\ clock \in Nat
  /\ snapshot \in [Key -> Decision \cup {NoDecision}]
  /\ gate \in BOOLEAN
  /\ enforcer \in Tunables
  /\ req \in [Worker -> Request \cup {Idle}]

\* The verdict is a person's decision, for which the reflex was not asked, or the
\* stricter of the two opinions.
Judged(r) ==
  \/ r.engine # NoDecision /\ r.engine.origin = "human" /\ r.chosen = r.engine /\ ~r.reflex
  \/ ~r.human /\ r.chosen = Pick(r.engine, r.reflex)

\* How far a request has been judged at each stage of the chain, and that it is
\* turned away with 403 exactly when the verdict says so.
InChain(r) ==
  /\ r.stage \in {"engine", "reflex"} => ~r.human /\ ~r.reflex
  /\ r.stage \notin {"engine", "reflex"} => Judged(r)
  /\ r.stage \in {"engine", "reflex", "act"} => r.outcome = "forwarded"
  /\ r.stage \notin {"engine", "reflex", "act"} =>
       (r.outcome = "refused" <=> r.chosen # NoDecision /\ r.chosen.action \in Refusing)

\* What every step preserves, and both properties follow from.
EnforcementInv ==
  EnforcementTypeOK /\ \A w \in Worker : req[w] # Idle => InChain(req[w])
=============================================================================

------------------------- MODULE Enforcement_proofs -------------------------
(* Whose opinion decides about a request, for any number of requests in the   *)
(* chain, any policies, blocks and settings, and every bound on time.         *)
EXTENDS Enforcement, TLAPS

\* A person's decisions, and only they, have the highest priority.
LEMMA HighestPriority ==
  ASSUME NEW d PROVE DecisionPriority(d) \in 1..3 /\ (DecisionPriority(d) = 3 <=> d.origin = "human")
BY DEF DecisionPriority

\* A lookup finds an entry of the snapshot or nothing.
LEMMA LookupFinds ==
  ASSUME EnforcementTypeOK, NEW ip \in IP, NEW ep \in Endpoint
  PROVE  LookupRequest(ip, ep) \in Decision \cup {NoDecision}
<1>1. <<ip, Everywhere>> \in Key /\ <<ip, ep>> \in Key
  BY DEF Key, Scope
<1>2. snapshot[<<ip, Everywhere>>] \in Decision \cup {NoDecision}
  BY <1>1 DEF EnforcementTypeOK
<1>3. snapshot[<<ip, ep>>] \in Decision \cup {NoDecision}
  BY <1>1 DEF EnforcementTypeOK
<1>4. QED
  BY <1>2, <1>3 DEF LookupRequest

\* Where a person's decision is in force, the lookup finds a person's decision:
\* no other one in force outranks it, under its address or its endpoint.
LEMMA PersonIsHeard ==
  ASSUME NEW ip, NEW ep, HumanSpoke(ip, ep)
  PROVE  LookupRequest(ip, ep) # NoDecision /\ LookupRequest(ip, ep).origin = "human"
<1> DEFINE g == snapshot[<<ip, Everywhere>>]
           s == snapshot[<<ip, ep>>]
<1>1. \/ Live(g) /\ Matches(g, ep) /\ g.origin = "human"
      \/ Live(s) /\ Matches(s, ep) /\ s.origin = "human"
  BY DEF HumanSpoke
<1>2. LookupRequest(ip, ep) =
        IF Live(g) /\ Matches(g, ep) /\ (Live(s) => DecisionPriority(g) > DecisionPriority(s))
        THEN g ELSE IF Live(s) THEN s ELSE NoDecision
  BY DEF LookupRequest
<1>3. /\ DecisionPriority(g) \in 1..3 /\ (DecisionPriority(g) = 3 <=> g.origin = "human")
      /\ DecisionPriority(s) \in 1..3 /\ (DecisionPriority(s) = 3 <=> s.origin = "human")
  BY HighestPriority
<1>4. (Live(g) => g # NoDecision) /\ (Live(s) => s # NoDecision)
  BY DEF Live
<1> HIDE DEF g, s
<1>5. QED
  BY <1>1, <1>2, <1>3, <1>4

\* A request that has arrived is not the mark of a worker that has none.
LEMMA ArrivedFacts ==
  ASSUME EnforcementInv, NEW w \in Worker, req[w].stage # "idle"
  PROVE  req[w] \in Request /\ InChain(req[w])
<1>1. req[w] # Idle
  BY DEF Idle
<1>2. QED
  BY <1>1 DEF EnforcementInv, EnforcementTypeOK

\* The steps of one request.
LEMMA OneMoves ==
  ASSUME EnforcementInv, NEW w \in Worker, NEW r \in Request, InChain(r),
         req' = [req EXCEPT ![w] = r],
         UNCHANGED <<clock, snapshot, gate, enforcer>>
  PROVE  EnforcementInv'
<1>1. req \in [Worker -> Request \cup {Idle}]
  BY DEF EnforcementInv, EnforcementTypeOK
<1>2. req' \in [Worker -> Request \cup {Idle}]
  BY <1>1
<1>3. EnforcementTypeOK'
  BY <1>2 DEF EnforcementInv, EnforcementTypeOK
<1>4. \A v \in Worker : req'[v] # Idle => InChain(req'[v])
  BY <1>1 DEF EnforcementInv
<1>5. QED
  BY <1>3, <1>4 DEF EnforcementInv, InChain, Judged, Pick

\* A step that touches no request.
LEMMA NoneMoves ==
  ASSUME EnforcementInv, EnforcementTypeOK', UNCHANGED req PROVE EnforcementInv'
BY DEF EnforcementInv, InChain, Judged, Pick

-----------------------------------------------------------------------------
(* The stages of the chain. *)

LEMMA ArriveKeeps ==
  ASSUME EnforcementInv, NEW w \in Worker, NEW ip \in IP, NEW ep \in Endpoint, Arrive(w, ip, ep)
  PROVE  EnforcementInv'
<1> DEFINE r == [stage |-> IF enforcer.policyOn THEN "engine"
                           ELSE IF enforcer.baseline THEN "act" ELSE "inside",
                 ip |-> ip, ep |-> ep,
                 baseline |-> enforcer.baseline /\ ip \notin enforcer.exempt,
                 human |-> FALSE, engine |-> NoDecision, chosen |-> NoDecision,
                 reflex |-> FALSE, outcome |-> "forwarded"]
<1>1. req' = [req EXCEPT ![w] = r] /\ UNCHANGED <<clock, snapshot, gate, enforcer>>
  BY DEF Arrive
<1>2. r.stage \in {"engine", "act", "inside"}
  OBVIOUS
<1>3. /\ r.human = FALSE /\ r.reflex = FALSE /\ r.engine = NoDecision /\ r.chosen = NoDecision
      /\ r.outcome = "forwarded" /\ r.ip \in IP /\ r.ep \in Endpoint /\ r.baseline \in BOOLEAN
  OBVIOUS
<1>4. r \in Request
  BY <1>2, <1>3 DEF Request, Outcome
<1> HIDE DEF r
<1>5. Judged(r)
  BY <1>3 DEF Judged, Pick
<1>6. InChain(r)
  BY <1>2, <1>3, <1>5 DEF InChain
<1>7. QED
  BY <1>1, <1>4, <1>6, OneMoves

LEMMA AskEngineKeeps ==
  ASSUME EnforcementInv, NEW w \in Worker, AskEngine(w) PROVE EnforcementInv'
<1> DEFINE r == req[w]
           d == IF gate THEN LookupRequest(r.ip, r.ep) ELSE NoDecision
           o == IF d = NoDecision THEN d ELSE [action |-> d.action, origin |-> d.origin]
           h == d # NoDecision /\ DecisionPriority(d) = 3
           spoke == gate /\ HumanSpoke(r.ip, r.ep)
           n == [r EXCEPT !.engine = o, !.human = spoke,
                          !.chosen = IF h THEN o ELSE NoDecision,
                          !.stage = IF h THEN "act" ELSE "reflex"]
<1>1. /\ r.stage = "engine"
      /\ req' = [req EXCEPT ![w].engine = o, ![w].human = spoke,
                            ![w].chosen = IF h THEN o ELSE NoDecision,
                            ![w].stage = IF h THEN "act" ELSE "reflex"]
      /\ UNCHANGED <<clock, snapshot, gate, enforcer>>
  BY DEF AskEngine
<1>2. r \in Request /\ InChain(r)
  BY <1>1, ArrivedFacts
<1>3. req \in [Worker -> Request \cup {Idle}]
  BY DEF EnforcementInv, EnforcementTypeOK
<1>4. r.ip \in IP /\ r.ep \in Endpoint
  BY <1>2 DEF Request
<1>5. d \in Decision \cup {NoDecision}
  BY <1>4, LookupFinds DEF EnforcementInv
<1>6. o \in Opinion \cup {NoDecision}
  BY <1>5 DEF Decision, Opinion
<1>7. h => o # NoDecision /\ o.origin = "human"
  <2> SUFFICES ASSUME h PROVE o # NoDecision /\ o.origin = "human"
    OBVIOUS
  <2>1. d \in Decision /\ d.origin = "human" /\ d # NoDecision
    BY <1>5, HighestPriority
  <2> HIDE DEF d
  <2>2. o = [action |-> d.action, origin |-> d.origin]
    BY <2>1
  <2>3. o \in Opinion
    BY <2>1, <2>2 DEF Decision, Opinion
  <2>4. QED
    BY <2>1, <2>2, <2>3, EnforcementConstants
<1>8. spoke => h
  BY PersonIsHeard, HighestPriority
<1>0. spoke \in BOOLEAN
  OBVIOUS
<1> HIDE DEF d, o, h, spoke, r
<1>9. n \in Request
  <2>1. (IF h THEN o ELSE NoDecision) \in Opinion \cup {NoDecision}
    BY <1>6
  <2>2. (IF h THEN "act" ELSE "reflex") \in {"act", "reflex"}
    OBVIOUS
  <2>3. QED
    BY <1>0, <1>2, <1>6, <2>1, <2>2 DEF Request
<1>10. /\ n.engine = o /\ n.chosen = (IF h THEN o ELSE NoDecision)
       /\ n.stage = (IF h THEN "act" ELSE "reflex")
       /\ n.reflex = r.reflex /\ n.outcome = r.outcome
  BY <1>2 DEF Request
<1>11. n.human <=> spoke
  BY <1>2 DEF Request
<1>12. ~r.reflex /\ r.outcome = "forwarded"
  BY <1>1, <1>2 DEF InChain
<1>13. req' = [req EXCEPT ![w] = n]
  BY <1>1, <1>3 DEF r
<1> HIDE DEF n
<1>14. InChain(n)
  <2>1. CASE h
    <3>1. n.stage = "act" /\ n.chosen = n.engine /\ n.engine = o
      BY <1>10, <2>1
    <3>2. Judged(n)
      BY <1>7, <1>10, <1>12, <2>1, <3>1 DEF Judged
    <3>3. QED
      BY <1>10, <1>12, <3>1, <3>2 DEF InChain
  <2>2. CASE ~h
    <3>1. n.stage = "reflex" /\ ~n.human /\ ~n.reflex
      BY <1>8, <1>10, <1>11, <1>12, <2>2
    <3>2. QED
      BY <1>10, <1>12, <3>1 DEF InChain
  <2>3. QED
    BY <2>1, <2>2
<1>15. QED
  BY <1>1, <1>9, <1>13, <1>14, OneMoves

\* The milder opinion never stands beside a block of the reflex.
LEMMA PickFacts ==
  ASSUME NEW d \in Opinion \cup {NoDecision}, NEW blocks \in BOOLEAN
  PROVE  /\ Pick(d, blocks) \in Opinion \cup {NoDecision}
         /\ ~blocks => Pick(d, blocks) = d
         /\ ReflexBlock \in Opinion /\ ReflexBlock # NoDecision /\ ReflexBlock.action = "temp_block"
<1>1. ReflexBlock \in Opinion /\ ReflexBlock.action = "temp_block"
  BY DEF ReflexBlock, Opinion
<1>2. ReflexBlock # NoDecision
  BY <1>1, EnforcementConstants
<1>3. QED
  BY <1>1, <1>2 DEF Pick

LEMMA AskReflexKeeps ==
  ASSUME EnforcementInv, NEW w \in Worker, AskReflex(w) PROVE EnforcementInv'
<1> DEFINE r == req[w]
           b == R!Refuses(r.ip)
           n == [r EXCEPT !.reflex = b, !.chosen = Pick(r.engine, b), !.stage = "act"]
<1>1. /\ r.stage = "reflex"
      /\ req' = [req EXCEPT ![w].reflex = b, ![w].chosen = Pick(r.engine, b), ![w].stage = "act"]
      /\ UNCHANGED <<clock, snapshot, gate, enforcer>>
  BY DEF AskReflex
<1>2. r \in Request /\ InChain(r)
  BY <1>1, ArrivedFacts
<1>3. req \in [Worker -> Request \cup {Idle}]
  BY DEF EnforcementInv, EnforcementTypeOK
<1>4. b \in BOOLEAN
  BY DEF R!Refuses
<1> HIDE DEF b, r
<1>5. r.engine \in Opinion \cup {NoDecision}
  BY <1>2 DEF Request
<1>6. Pick(r.engine, b) \in Opinion \cup {NoDecision}
  BY <1>4, <1>5, PickFacts
<1>7. n \in Request
  BY <1>2, <1>4, <1>6 DEF Request
<1>8. /\ n.stage = "act" /\ n.chosen = Pick(r.engine, b) /\ n.engine = r.engine
      /\ n.reflex = b /\ n.human = r.human /\ n.outcome = r.outcome
  BY <1>2 DEF Request
<1>9. req' = [req EXCEPT ![w] = n]
  BY <1>1, <1>3 DEF r
<1>10. ~r.human /\ r.outcome = "forwarded"
  BY <1>1, <1>2 DEF InChain
<1> HIDE DEF n
<1>11. Judged(n)
  BY <1>8, <1>10 DEF Judged
<1>12. InChain(n)
  BY <1>8, <1>10, <1>11 DEF InChain
<1>13. QED
  BY <1>1, <1>7, <1>9, <1>12, OneMoves

\* The enforcer's switch: 403 exactly for a verdict that refuses.
LEMMA ActKeeps ==
  ASSUME EnforcementInv, NEW w \in Worker, NEW quota \in Quota, Act(w, quota)
  PROVE  EnforcementInv'
<1> DEFINE r == req[w]
           Away(x) == [r EXCEPT !.stage = "idle", !.outcome = x]
           In == [r EXCEPT !.stage = "inside"]
<1>1. r.stage = "act" /\ UNCHANGED <<clock, snapshot, gate, enforcer>>
  BY DEF Act
<1>2. r \in Request /\ InChain(r)
  BY <1>1, ArrivedFacts
<1>3. req \in [Worker -> Request \cup {Idle}]
  BY DEF EnforcementInv, EnforcementTypeOK
<1>4. Judged(r) /\ r.outcome = "forwarded"
  BY <1>1, <1>2 DEF InChain
<1>5. \A x : RefuseWith(w, x) => req' = [req EXCEPT ![w] = Away(x)]
  BY <1>3 DEF RefuseWith
<1>6. Forward(w) => req' = [req EXCEPT ![w] = In]
  BY <1>3 DEF Forward
<1>7. Limited(w, quota) => RefuseWith(w, "rate_limited") \/ Forward(w)
  BY DEF Limited
<1>8. \/ r.chosen # NoDecision /\ r.chosen.action \in Refusing /\ RefuseWith(w, "refused")
      \/ /\ ~(r.chosen # NoDecision /\ r.chosen.action \in Refusing)
         /\ RefuseWith(w, "rate_limited") \/ Forward(w)
  BY <1>7 DEF Act, Refusing
<1> HIDE DEF r
<1>9. ASSUME NEW x \in {"refused", "rate_limited"},
             x = "refused" <=> r.chosen # NoDecision /\ r.chosen.action \in Refusing
      PROVE  Away(x) \in Request /\ InChain(Away(x))
  <2> DEFINE n == Away(x)
  <2>1. n \in Request
    BY <1>2 DEF Request, Outcome
  <2>2. /\ n.stage = "idle" /\ n.outcome = x /\ n.chosen = r.chosen /\ n.engine = r.engine
        /\ n.reflex = r.reflex /\ n.human = r.human
    BY <1>2 DEF Request
  <2> HIDE DEF n
  <2>3. Judged(n)
    BY <1>4, <2>2 DEF Judged
  <2>4. InChain(n)
    BY <1>9, <2>2, <2>3 DEF InChain
  <2>5. QED
    BY <2>1, <2>4 DEF n
<1>10. ASSUME ~(r.chosen # NoDecision /\ r.chosen.action \in Refusing)
       PROVE  In \in Request /\ InChain(In)
  <2>1. In \in Request
    BY <1>2 DEF Request
  <2>2. /\ In.stage = "inside" /\ In.outcome = r.outcome /\ In.chosen = r.chosen
        /\ In.engine = r.engine /\ In.reflex = r.reflex /\ In.human = r.human
    BY <1>2 DEF Request
  <2> HIDE DEF In
  <2>3. Judged(In)
    BY <1>4, <2>2 DEF Judged
  <2>4. QED
    BY <1>4, <1>10, <2>1, <2>2, <2>3 DEF InChain
<1> HIDE DEF In, Away
<1>11. CASE r.chosen # NoDecision /\ r.chosen.action \in Refusing
  <2>1. req' = [req EXCEPT ![w] = Away("refused")]
    BY <1>5, <1>8, <1>11
  <2>2. QED
    BY <1>1, <1>9, <1>11, <2>1, OneMoves
<1>12. CASE ~(r.chosen # NoDecision /\ r.chosen.action \in Refusing)
  <2>1. \/ req' = [req EXCEPT ![w] = Away("rate_limited")]
        \/ req' = [req EXCEPT ![w] = In]
    BY <1>5, <1>6, <1>8, <1>12
  <2>2. Away("rate_limited") \in Request /\ InChain(Away("rate_limited"))
    BY <1>9, <1>12
  <2>3. QED
    BY <1>1, <1>10, <1>12, <2>1, <2>2, OneMoves
<1>13. QED
  BY <1>11, <1>12

\* A request that was forwarded keeps its verdict while the observer sees it.
LEMMA ObservedKeeps ==
  ASSUME EnforcementInv, NEW w \in Worker,
         \/ Decided(w) \/ Armed(w)
         \/ \E e \in SUBSET R!Evidence : Return(w, e)
  PROVE  EnforcementInv'
<1> DEFINE r == req[w]
           n(s) == [r EXCEPT !.stage = s]
           After == {"inside", "observing", "arming", "idle"}
<1>1. /\ r.stage \in {"inside", "observing", "arming"}
      /\ UNCHANGED <<clock, snapshot, gate, enforcer>>
  BY DEF Decided, Armed, Return, R!ObserveDecide, R!ObserveArm, R!ObserveLoad
<1>2. PICK s \in After : req' = [req EXCEPT ![w].stage = s]
  BY DEF Decided, Armed, Return
<1>3. r \in Request /\ InChain(r)
  BY <1>1, ArrivedFacts
<1>4. req \in [Worker -> Request \cup {Idle}]
  BY DEF EnforcementInv, EnforcementTypeOK
<1>5. req' = [req EXCEPT ![w] = n(s)]
  BY <1>2, <1>4
<1> HIDE DEF r
<1>6. n(s) \in Request
  BY <1>2, <1>3 DEF Request
<1>7. /\ n(s).stage = s /\ n(s).outcome = r.outcome /\ n(s).chosen = r.chosen
      /\ n(s).engine = r.engine /\ n(s).reflex = r.reflex /\ n(s).human = r.human
  BY <1>3 DEF Request
<1> HIDE DEF n
<1>8. Judged(r) /\ (r.outcome = "refused" <=> r.chosen # NoDecision /\ r.chosen.action \in Refusing)
  BY <1>1, <1>3 DEF InChain
<1>9. Judged(n(s))
  BY <1>7, <1>8 DEF Judged
<1>10. InChain(n(s))
  BY <1>2, <1>7, <1>8, <1>9 DEF InChain
<1>11. QED
  BY <1>1, <1>5, <1>6, <1>10, OneMoves

-----------------------------------------------------------------------------
(* Everything else that moves. *)

LEMMA SwapKeeps ==
  ASSUME EnforcementInv, NEW k \in Key, NEW d \in Entries(k), SwapEntry(k, d)
  PROVE  EnforcementInv'
<1>1. /\ clock \in Nat /\ CacheMaxAge \in Nat /\ EntryLife \subseteq Nat
      /\ snapshot \in [Key -> Decision \cup {NoDecision}]
  BY SourceConstants, EnforcementConstants DEF EnforcementInv, EnforcementTypeOK
<1>2. k[2] \in Scope
  BY DEF Key
<1>3. d \in Decision \cup {NoDecision}
  BY <1>1, <1>2 DEF Entries, Decision
<1>4. snapshot' \in [Key -> Decision \cup {NoDecision}]
  BY <1>1, <1>3 DEF SwapEntry
<1>5. UNCHANGED <<clock, gate, enforcer, req>>
  BY DEF SwapEntry
<1>6. EnforcementTypeOK'
  BY <1>4, <1>5 DEF EnforcementInv, EnforcementTypeOK
<1>7. QED
  BY <1>5, <1>6, NoneMoves

LEMMA SettingsKeep ==
  ASSUME EnforcementInv,
         \/ \E cfg \in Config : SetReflex(cfg)
         \/ \E on \in BOOLEAN : SetGate(on)
         \/ \E b \in BOOLEAN, x \in SUBSET IP : SetEnforcer(b, x)
         \/ Sweep \/ Tick \/ UNCHANGED vars
  PROVE  EnforcementInv'
<1>1. UNCHANGED <<snapshot, req>>
  BY DEF SetReflex, SetGate, SetEnforcer, Sweep, Tick, vars
<1>2. clock' \in Nat
  <2>1. clock \in Nat
    BY DEF EnforcementInv, EnforcementTypeOK
  <2>2. clock' = clock \/ clock' = clock + 1
    BY DEF SetReflex, SetGate, SetEnforcer, Sweep, Tick, vars, R!Apply, R!Sweep, R!ReflexTick
  <2>3. QED
    BY <2>1, <2>2
<1>3. gate' \in BOOLEAN
  <2>1. gate \in BOOLEAN
    BY DEF EnforcementInv, EnforcementTypeOK
  <2>2. gate' = gate \/ \E on \in BOOLEAN : gate' = on
    BY DEF SetReflex, SetGate, SetEnforcer, Sweep, Tick, vars
  <2>3. QED
    BY <2>1, <2>2
<1>4. enforcer' \in Tunables
  <2>1. enforcer \in Tunables
    BY DEF EnforcementInv, EnforcementTypeOK
  <2>2. ASSUME NEW b \in BOOLEAN, NEW x \in SUBSET IP, SetEnforcer(b, x)
        PROVE  enforcer' \in Tunables
    <3>1. enforcer' = [policyOn |-> gate \/ R!Active, baseline |-> b, exempt |-> x]
      BY <2>2 DEF SetEnforcer
    <3>2. (gate \/ R!Active) \in BOOLEAN
      OBVIOUS
    <3>3. QED
      BY <3>1, <3>2 DEF Tunables
  <2>3. CASE UNCHANGED enforcer
    BY <2>1, <2>3
  <2>4. QED
    BY <2>2, <2>3 DEF SetReflex, SetGate, Sweep, Tick, vars
<1>5. EnforcementTypeOK'
  BY <1>1, <1>2, <1>3, <1>4 DEF EnforcementInv, EnforcementTypeOK
<1>6. QED
  BY <1>1, <1>5, NoneMoves

\* A gateway that starts serves nobody.
LEMMA EnforcementStart == Init => EnforcementInv
<1> SUFFICES ASSUME Init PROVE EnforcementInv
  OBVIOUS
<1>1. clock \in Nat /\ snapshot \in [Key -> Decision \cup {NoDecision}]
  BY DEF Init, SourceInit, EmptySnapshot
<1>2. gate \in BOOLEAN
  BY DEF Init
<1>3. (gate \/ R!Active) \in BOOLEAN
  OBVIOUS
<1>4. enforcer \in Tunables
  BY <1>3 DEF Init, Tunables
<1>5. req \in [Worker -> Request \cup {Idle}] /\ \A w \in Worker : req[w] = Idle
  BY DEF Init
<1>6. QED
  BY <1>1, <1>2, <1>4, <1>5 DEF EnforcementInv, EnforcementTypeOK

\* Every request is judged as its stage says, whatever moves between its stages.
THEOREM EnforcementAlways == Spec => []EnforcementInv
<1>1. EnforcementInv /\ [Next]_vars => EnforcementInv'
  BY ArriveKeeps, AskEngineKeeps, AskReflexKeeps, ActKeeps, ObservedKeeps, SwapKeeps,
     SettingsKeep DEF Next
<1>2. QED
  BY EnforcementStart, <1>1, PTL DEF Spec

\* A request that is through has a verdict.
LEMMA FinishedFacts ==
  ASSUME EnforcementInv, NEW w \in Worker, Finished(req[w])
  PROVE  /\ req[w] \in Request /\ Judged(req[w])
         /\ (req[w].outcome = "refused" <=>
              req[w].chosen # NoDecision /\ req[w].chosen.action \in Refusing)
<1>1. req[w] # Idle
  <2>1. "outcome" \notin DOMAIN Idle
    BY DEF Idle
  <2>2. QED
    BY <2>1 DEF Finished
<1>2. req[w] \in Request /\ InChain(req[w]) /\ req[w].stage = "idle"
  BY <1>1 DEF EnforcementInv, EnforcementTypeOK, Finished
<1>3. QED
  BY <1>2 DEF InChain

\* When a person has decided about a request, that person's decision is the
\* verdict and is carried out (chain.go, middleware.go).
THEOREM PersonDecides == Spec => []HumanDecides
<1>1. EnforcementInv => HumanDecides
  <2> SUFFICES ASSUME EnforcementInv, NEW w \in Worker, Finished(req[w]), req[w].human
               PROVE  /\ req[w].chosen # NoDecision /\ req[w].chosen.origin = "human"
                      /\ (req[w].outcome = "refused" <=> req[w].chosen.action \in Refusing)
    BY DEF HumanDecides
  <2>1. QED
    BY FinishedFacts DEF Judged
<1>2. QED
  BY <1>1, EnforcementAlways, PTL

\* Severity and refusal agree on every action.
LEMMA SevereIsRefused ==
  ASSUME NEW a PROVE Severity(a) \in Nat /\ (Severity(a) >= 2 <=> a \in Refusing)
BY DEF Severity, Refusing

\* Without one the stricter opinion stands: a milder one, or settings that move
\* while the request is judged, never lift a block a source had in force.
THEOREM StricterStands == Spec => []StrictestStands
<1>1. EnforcementInv => StrictestStands
  <2> SUFFICES ASSUME EnforcementInv, NEW w \in Worker, Finished(req[w]), ~req[w].human
               PROVE  /\ req[w].engine # NoDecision => MeetsAction(req[w], req[w].engine.action)
                      /\ req[w].reflex => req[w].outcome = "refused"
                      /\ req[w].outcome = "refused" =>
                           \/ req[w].reflex
                           \/ req[w].engine # NoDecision /\ req[w].engine.action \in Refusing
    BY DEF StrictestStands
  <2> DEFINE r == req[w]
  <2>1. /\ r \in Request /\ Judged(r)
        /\ (r.outcome = "refused" <=> r.chosen # NoDecision /\ r.chosen.action \in Refusing)
    BY FinishedFacts
  <2>2. r.engine \in Opinion \cup {NoDecision} /\ r.reflex \in BOOLEAN
    BY <2>1 DEF Request
  <2>3. ReflexBlock # NoDecision /\ ReflexBlock.action \in Refusing
    BY <2>2, PickFacts DEF Refusing
  <2>4. \A a : Severity(a) \in Nat /\ (Severity(a) >= 2 <=> a \in Refusing)
    BY SevereIsRefused
  <2>5. \/ r.chosen = r.engine /\ ~r.reflex
        \/ r.chosen = Pick(r.engine, r.reflex)
    BY <2>1 DEF Judged
  <2> HIDE DEF r
  <2>6. CASE r.reflex
    <3>1. \/ r.chosen = ReflexBlock
          \/ r.chosen = r.engine /\ r.engine # NoDecision /\ ~(Severity(r.engine.action) < 2)
      BY <2>5, <2>6 DEF Pick
    <3>2. r.chosen # NoDecision /\ r.chosen.action \in Refusing
      BY <2>3, <2>4, <3>1
    <3>3. QED
      BY <2>1, <2>6, <3>2 DEF MeetsAction, r
  <2>7. CASE ~r.reflex
    <3>1. r.chosen = r.engine
      BY <2>5, <2>7 DEF Pick
    <3>2. r.outcome = "refused" <=> r.engine # NoDecision /\ r.engine.action \in Refusing
      BY <2>1, <3>1
    <3>3. r.engine # NoDecision => MeetsAction(r, r.engine.action)
      BY <2>4, <3>2 DEF MeetsAction
    <3>4. QED
      BY <2>7, <3>2, <3>3 DEF r
  <2>8. QED
    BY <2>2, <2>6, <2>7
<1>2. QED
  BY <1>1, EnforcementAlways, PTL
=============================================================================

----------------------------- MODULE ConsoleLive -----------------------------
(***************************************************************************)
(* The console's live state (store.jsx): one poller for all pages, the     *)
(* escalations it has already shown, and the two writes an operator can    *)
(* make, an instruction to the decision engine and the deletion of a       *)
(* policy, with the routes they call and the Redis they reach.             *)
(*                                                                         *)
(* What a poll reads is abstracted to the policy row of each address and   *)
(* the ids of the alerts; the engine is external.                          *)
(***************************************************************************)
EXTENDS Naturals, FiniteSets

CONSTANTS
  Addr,       \* addresses
  Action,     \* the actions that write a policy key
  Slot,       \* bound: polls of the timer on their way at once
  Own,        \* the refresh a write waits for
  None,       \* no policy, no poll, no baseline
  Window,     \* how many alerts a poll reads
  MaxAlerts,  \* bound: escalations
  MaxWrites,  \* bound: the operator's writes and the engine's own
  MaxFaults   \* bound: outages and lost answers

ASSUME LiveConstants ==
  /\ {Window, MaxAlerts, MaxWrites, MaxFaults} \subseteq Nat
  /\ Own \notin Slot /\ None \notin Action /\ "temp_block" \in Action

VARIABLES
  up,         \* Redis answers
  policy,     \* the row of each address
  alerts,     \* how many escalations there were
  queue,      \* overrides the engine has not read
  accepted,   \* every override that reached the stream
  writes, faults,
  plane,      \* what the pages show
  paused,
  polls,      \* answers on their way
  seen,       \* seenAlertIds
  shownIds,   \* escalations flashed, or there at the first poll
  flash,      \* flashEscalate
  pending,    \* pendingPolicyActions
  busy,
  call        \* the write busy stands for: its requests and their results

redisVars == <<up, policy, alerts, queue, accepted, writes, faults>>
pageVars  == <<plane, paused, polls, seen, shownIds, flash, pending, busy, call>>
liveVars  == <<redisVars, pageVars>>

Override == Addr \X (Action \cup {"monitor"})
NoCall   == [kind |-> "none", res |-> <<>>, action |-> None]

\* GET /api/campaigns: readPolicies and readAlerts, or empty without Redis.
Snapshot ==
  IF up THEN [policy |-> policy, alerts |-> {i \in 1..alerts : i + Window > alerts}]
  ELSE [policy |-> [a \in Addr |-> None], alerts |-> {}]

PlaneTypeOK(s) == s.policy \in [Addr -> Action \cup {None}] /\ s.alerts \subseteq 1..MaxAlerts

LiveTypeOK ==
  /\ up \in BOOLEAN /\ paused \in BOOLEAN
  /\ policy \in [Addr -> Action \cup {None}]
  /\ alerts \in 0..MaxAlerts
  /\ queue \subseteq Override /\ accepted \subseteq Override
  /\ writes \in 0..MaxWrites /\ faults \in 0..MaxFaults
  /\ PlaneTypeOK(plane)
  /\ DOMAIN polls = Slot \cup {Own}
  /\ \A s \in Slot \cup {Own} : polls[s] = None \/ PlaneTypeOK(polls[s])
  /\ seen = None \/ seen \subseteq 1..MaxAlerts
  /\ shownIds \subseteq 1..MaxAlerts
  /\ flash \in (1..MaxAlerts) \cup {None}
  /\ pending \in [Addr -> Action \cup {None}]
  /\ busy \in {"", "instruct", "delete-policy"}
  /\ DOMAIN call.res \subseteq Addr
  /\ \A a \in DOMAIN call.res : call.res[a] \in {"sent", "ok", "failed"}

LiveInit ==
  /\ up \in BOOLEAN
  /\ policy = [a \in Addr |-> None]
  /\ alerts \in 0..MaxAlerts
  /\ queue = {} /\ accepted = {} /\ writes = 0 /\ faults = 0
  /\ plane = [policy |-> [a \in Addr |-> None], alerts |-> {}]
  /\ paused = FALSE
  /\ polls = [s \in Slot \cup {Own} |-> None]
  /\ seen = None /\ shownIds = {} /\ flash = None
  /\ pending = [a \in Addr |-> None]
  /\ busy = "" /\ call = NoCall

-----------------------------------------------------------------------------
(* The poller.                                                             *)

Fetch(s) == polls[s] = None /\ polls' = [polls EXCEPT ![s] = Snapshot]

\* Mutant: the page loads once and sets no interval.
PollFiresOnce(s) ==
  /\ ~paused /\ seen = None
  /\ Fetch(s)
  /\ UNCHANGED redisVars
  /\ UNCHANGED <<plane, paused, seen, shownIds, flash, pending, busy, call>>

PollFires(s) ==
  /\ ~paused
  /\ Fetch(s)
  /\ UNCHANGED redisVars
  /\ UNCHANGED <<plane, paused, seen, shownIds, flash, pending, busy, call>>

\* The button of the header; pausing and resuming refresh as well.
RefreshNow(s) ==
  /\ paused' \in BOOLEAN
  /\ Fetch(s)
  /\ UNCHANGED redisVars
  /\ UNCHANGED <<plane, seen, shownIds, flash, pending, busy, call>>

\* Where a write was waiting for this refresh, it is over.
WaitedFor(s) ==
  IF s = Own THEN busy' = "" /\ call' = NoCall ELSE UNCHANGED <<busy, call>>

\* Mutant: the baseline is replaced before it is compared with.
ArrivesBlind(s) ==
  LET new == polls[s] IN
  /\ new # None
  /\ polls' = [polls EXCEPT ![s] = None]
  /\ plane' = new
  /\ seen' = new.alerts
  /\ shownIds' = IF seen = None THEN new.alerts ELSE shownIds
  /\ pending' = [a \in Addr |-> IF new.policy[a] = pending[a] THEN None ELSE pending[a]]
  /\ WaitedFor(s)
  /\ UNCHANGED redisVars /\ UNCHANGED <<paused, flash>>

\* An answer is applied, whatever was applied since it was asked for.
Arrives(s) ==
  LET new == polls[s] IN
  /\ new # None
  /\ polls' = [polls EXCEPT ![s] = None]
  /\ plane' = new
  /\ seen' = new.alerts
  /\ shownIds' = IF seen = None THEN new.alerts ELSE shownIds \cup (new.alerts \ seen)
  /\ flash' = IF seen # None /\ new.alerts \ seen # {}
              THEN CHOOSE i \in new.alerts \ seen : \A j \in new.alerts \ seen : j <= i
              ELSE flash
  /\ pending' = [a \in Addr |-> IF new.policy[a] = pending[a] THEN None ELSE pending[a]]
  /\ WaitedFor(s)
  /\ UNCHANGED redisVars /\ UNCHANGED paused

PollLost(s) ==
  /\ polls[s] # None
  /\ faults < MaxFaults /\ faults' = faults + 1
  /\ polls' = [polls EXCEPT ![s] = None]
  /\ WaitedFor(s)
  /\ UNCHANGED <<up, policy, alerts, queue, accepted, writes>>
  /\ UNCHANGED <<plane, paused, seen, shownIds, flash, pending>>

FlashEnds ==
  /\ flash # None
  /\ flash' = None
  /\ UNCHANGED redisVars
  /\ UNCHANGED <<plane, paused, polls, seen, shownIds, pending, busy, call>>

-----------------------------------------------------------------------------
(* The operator's writes.  Every button is disabled while one is busy.     *)

Start(b, c) ==
  /\ busy = ""
  /\ writes < MaxWrites /\ writes' = writes + 1
  /\ busy' = b
  /\ call' = c
  /\ UNCHANGED <<up, policy, alerts, queue, accepted, faults>>
  /\ UNCHANGED <<plane, paused, polls, seen, shownIds, flash, pending>>

\* One request per address.
Instruct(T, x) ==
  Start("instruct", [kind |-> "instruct", action |-> x, res |-> [a \in T |-> "sent"]])

\* A row of the Policy page offers what it does not show, and nothing while an
\* earlier instruction is pending.
InstructRow(a, x) ==
  /\ plane.policy[a] \notin {None, x} /\ pending[a] = None
  /\ Instruct({a}, x)

\* The form takes any address, and so does the page of an address.
InstructAddress(a, x) == Instruct({a}, x)

\* All addresses of a campaign, with any action ...
InstructCampaign(T, x) == Instruct(T, x)

\* ... or of the campaigns selected, or in view: these are blocked.
InstructBulk(T) == Instruct(T, "temp_block")

DeletePolicy(a) ==
  /\ plane.policy[a] # None
  /\ Start("delete-policy", [kind |-> "delete", action |-> None, res |-> [t \in {a} |-> "sent"]])

\* POST /api/overrides and DELETE /api/policies.
Handled(a) ==
  /\ a \in DOMAIN call.res /\ call.res[a] = "sent"
  /\ call' = [call EXCEPT !.res[a] = IF up THEN "ok" ELSE "failed"]
  /\ IF up /\ call.kind = "instruct"
     THEN /\ queue' = queue \cup {<<a, call.action>>}
          /\ accepted' = accepted \cup {<<a, call.action>>}
     ELSE UNCHANGED <<queue, accepted>>
  /\ policy' = IF up /\ call.kind = "delete" THEN [policy EXCEPT ![a] = None] ELSE policy
  /\ UNCHANGED <<up, alerts, writes, faults>>
  /\ UNCHANGED <<plane, paused, polls, seen, shownIds, flash, pending, busy>>

AllHandled == call.res # <<>> /\ \A a \in DOMAIN call.res : call.res[a] # "sent"

\* One request refused fails the whole instruction, the accepted ones included.
SomeRefused ==
  /\ AllHandled
  /\ \E a \in DOMAIN call.res : call.res[a] = "failed"
  /\ busy' = "" /\ call' = NoCall
  /\ UNCHANGED redisVars
  /\ UNCHANGED <<plane, paused, polls, seen, shownIds, flash, pending>>

\* Mutant: what was accepted of a refused instruction is pending too, and so is
\* what was refused.
AllAcceptedAlways ==
  /\ AllHandled
  /\ pending' = [a \in Addr |-> IF a \in DOMAIN call.res /\ call.action \in Action
                                THEN call.action ELSE pending[a]]
  /\ Fetch(Own)
  /\ call' = [NoCall EXCEPT !.kind = "refresh"]
  /\ UNCHANGED redisVars
  /\ UNCHANGED <<plane, paused, seen, shownIds, flash, busy>>

\* Mutant: an instruction to monitor waits for its policy row, too.
AllAcceptedMonitor ==
  /\ AllHandled
  /\ \A a \in DOMAIN call.res : call.res[a] = "ok"
  /\ pending' = [a \in Addr |-> IF a \in DOMAIN call.res THEN call.action ELSE pending[a]]
  /\ Fetch(Own)
  /\ call' = [NoCall EXCEPT !.kind = "refresh"]
  /\ UNCHANGED redisVars
  /\ UNCHANGED <<plane, paused, seen, shownIds, flash, busy>>

\* Monitor writes no key that could acknowledge it.
AllAccepted ==
  /\ AllHandled
  /\ \A a \in DOMAIN call.res : call.res[a] = "ok"
  /\ pending' = [a \in Addr |-> IF a \in DOMAIN call.res /\ call.action \in Action
                                THEN call.action ELSE pending[a]]
  /\ Fetch(Own)
  /\ call' = [NoCall EXCEPT !.kind = "refresh"]
  /\ UNCHANGED redisVars
  /\ UNCHANGED <<plane, paused, seen, shownIds, flash, busy>>

\* A request fails on the way: the page gives up on all of them, and those
\* still under way may reach the stream all the same.
CallLost ==
  /\ call.res # <<>>
  /\ faults < MaxFaults /\ faults' = faults + 1
  /\ busy' = "" /\ call' = NoCall
  /\ \E T \in SUBSET {a \in DOMAIN call.res : call.res[a] = "sent"} :
       IF call.kind = "instruct" /\ up
       THEN /\ queue' = queue \cup (T \X {call.action})
            /\ accepted' = accepted \cup (T \X {call.action})
       ELSE T = {} /\ UNCHANGED <<queue, accepted>>
  /\ UNCHANGED <<up, policy, alerts, writes>>
  /\ UNCHANGED <<plane, paused, polls, seen, shownIds, flash, pending>>

-----------------------------------------------------------------------------
(* The decision engine and Redis.                                          *)

\* An override is applied, or refused (an allowlisted address).
EngineApplies(o) ==
  /\ up /\ o \in queue
  /\ queue' = queue \ {o}
  /\ policy' \in {policy} \cup {[policy EXCEPT ![o[1]] = x] : x \in {o[2]} \cap Action}
  /\ UNCHANGED <<up, alerts, accepted, writes, faults>> /\ UNCHANGED pageVars

\* The engine's own decision, or a key that expires.
EngineWrites(a, x) ==
  /\ up /\ policy[a] # x
  /\ writes < MaxWrites /\ writes' = writes + 1
  /\ policy' = [policy EXCEPT ![a] = x]
  /\ UNCHANGED <<up, alerts, queue, accepted, faults>> /\ UNCHANGED pageVars

Escalates ==
  /\ up /\ alerts < MaxAlerts
  /\ alerts' = alerts + 1
  /\ UNCHANGED <<up, policy, queue, accepted, writes, faults>> /\ UNCHANGED pageVars

RedisFails ==
  /\ up /\ faults < MaxFaults /\ faults' = faults + 1
  /\ up' = FALSE
  /\ UNCHANGED <<policy, alerts, queue, accepted, writes>> /\ UNCHANGED pageVars

RedisReturns ==
  /\ ~up
  /\ up' = TRUE
  /\ UNCHANGED <<policy, alerts, queue, accepted, writes, faults>> /\ UNCHANGED pageVars

-----------------------------------------------------------------------------

PollNext ==
  \/ \E s \in Slot : PollFires(s) \/ RefreshNow(s)
  \/ \E s \in Slot \cup {Own} : Arrives(s) \/ PollLost(s)
  \/ RedisFails \/ RedisReturns

AlertNext == Escalates \/ FlashEnds

WriteNext ==
  \/ \E a \in Addr, x \in Action \cup {"monitor"} : InstructRow(a, x) \/ InstructAddress(a, x)
  \/ \E T \in SUBSET Addr \ {{}} : InstructBulk(T) \/ \E x \in Action \cup {"monitor"} : InstructCampaign(T, x)
  \/ \E a \in Addr : DeletePolicy(a) \/ Handled(a)
  \/ SomeRefused \/ AllAccepted \/ CallLost
  \/ \E o \in queue : EngineApplies(o)
  \/ \E a \in Addr, x \in Action \cup {None} : EngineWrites(a, x)

LiveNext == PollNext \/ AlertNext \/ WriteNext

\* The browser's timers fire and what was asked is answered in the end; an
\* outage ends.
AnswerFairness ==
  /\ \A s \in Slot \cup {Own} : WF_liveVars(Arrives(s))
  /\ WF_liveVars(\E a \in Addr : Handled(a))
  /\ WF_liveVars(SomeRefused \/ AllAccepted)
  /\ WF_liveVars(RedisReturns)

LiveFairness == AnswerFairness /\ \A s \in Slot : WF_liveVars(PollFires(s))

LiveSpec == LiveInit /\ [][LiveNext]_liveVars /\ LiveFairness

-----------------------------------------------------------------------------

\* What a page calls "changing to ..." was accepted by the stream, although an
\* instruction is several requests of which some may fail.
PendingWasAccepted ==
  \A a \in Addr : pending[a] # None => <<a, pending[a]>> \in accepted

\* Every escalation an answer brought was reported, or was there when the page
\* opened, in whatever order answers come in: none that the baseline is replaced
\* with passes unnoticed.  It says nothing of one that enters and leaves the window
\* between two answers, which nobody sees, nor of one an older or empty answer drops
\* from the baseline, which the next answer reports again.
SeenWasShown == seen # None => seen \subseteq shownIds

\* Once nobody pauses it any more, the console shows what Redis holds, however
\* late the answers of earlier polls come in.
CatchesUp == <>[](~paused) => <>[](plane = Snapshot)

\* The buttons come back after every write.
BusySettles == busy # "" ~> busy = ""

\* Inductive: whatever a request of the instruction under way was answered with
\* "ok" for is in the stream.
LiveInv ==
  /\ PendingWasAccepted
  /\ SeenWasShown
  /\ call = [kind |-> call.kind, res |-> call.res, action |-> call.action]
  /\ call.kind \in {"none", "instruct", "delete", "refresh"}
  /\ call.kind = "delete" => call.action = None
  /\ call.kind \in {"none", "refresh"} => call.res = <<>>
  /\ DOMAIN call.res \subseteq Addr
  /\ call.kind = "instruct" =>
       \A a \in DOMAIN call.res : call.res[a] = "ok" => <<a, call.action>> \in accepted

\* Inductive, with the types: an instruction under way names an action.
LiveTypeInv ==
  /\ LiveTypeOK /\ LiveInv
  /\ polls = [s \in Slot \cup {Own} |-> polls[s]]
  /\ call.kind = "instruct" => call.action \in Action \cup {"monitor"}
=============================================================================

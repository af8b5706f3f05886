---------------------------- MODULE LiveSettings ----------------------------
(***************************************************************************)
(* Live enforcement settings: the console's override key in Redis, the     *)
(* gateway's watcher that polls it (settings/watcher.go), the apply that   *)
(* moves the running chain to it (proxy/live.go), the effective key the    *)
(* gateway publishes, and the order in which a gateway starts              *)
(* (proxy/server.go): components from the file, one synchronous poll, and  *)
(* only then the middleware chain.                                         *)
(*                                                                         *)
(* The chain reads its settings from separate atomics: the reflex's        *)
(* tunables, the gate in front of the policy store and the enforcer's      *)
(* switch and baseline.  apply stores them one after the other.            *)
(***************************************************************************)

CONSTANTS
  Setting,      \* enforcement blocks an override or the file may hold
  File,         \* the block of the config file
  NoOverride,   \* iasg:settings does not exist
  NoValue       \* iasg:settings:effective does not exist

\* What the properties tell apart in an enforcement block: whether decisions
\* are enforced, whether the reflex is armed (enabled, signals named), whether
\* a baseline rate is enforced, and what becomes of the block: it does not
\* decode, it decodes and a part refuses it (an exempt CIDR that does not
\* parse, an advisory signal), or it is usable.
EnforcementConfig == [name : STRING, policy : BOOLEAN, armed : BOOLEAN,
                      baseline : BOOLEAN,
                      fate : {"usable", "refused", "undecodable"}]

ASSUME SettingsConstants ==
  /\ Setting \subseteq EnforcementConfig
  /\ File \in Setting
  /\ File.fate = "usable"
  /\ NoOverride \notin Setting
  /\ NoValue \notin [cfg : Setting, source : {"file", "console"}]

VARIABLES
  override,     \* Redis: iasg:settings
  effective,    \* Redis: iasg:settings:effective
  phase,        \* the gateway: "down", "starting", "polled", "serving"
  pc,           \* the watcher: "idle", "reflex", "gate", "enforcer", "publish"
  target,       \* the block being applied, and where it came from
  seen,         \* the raw override last looked at
  applied,      \* what the watcher believes is in force, and its source
  tun,          \* the reflex's settings
  gate,         \* whether the policy source is consulted
  enforcer,     \* the enforcer's switch and baseline
  observer      \* whether the chain was built with the reflex's observer

vars == <<override, effective, phase, pc, target, seen, applied, tun, gate,
          enforcer, observer>>

watcher == <<pc, target, seen, applied>>
chain   == <<tun, gate, enforcer>>

Sourced == [cfg : Setting, source : {"file", "console"}]

\* ApplyAll(anySourceOn(reflex, gate), baseline)
EnforcerFor(cfg, on) == [policyOn |-> on, baseline |-> cfg.baseline]

TypeOK ==
  /\ override \in Setting \cup {NoOverride}
  /\ effective \in Sourced \cup {NoValue}
  /\ phase \in {"down", "starting", "polled", "serving"}
  /\ pc \in {"idle", "reflex", "gate", "enforcer", "publish"}
  /\ target \in Sourced
  /\ seen \in Setting \cup {NoOverride}
  /\ applied \in Sourced
  /\ tun \in Setting
  /\ gate \in BOOLEAN
  /\ enforcer \in [policyOn : BOOLEAN, baseline : BOOLEAN]
  /\ observer \in BOOLEAN

FromFile == [cfg |-> File, source |-> "file"]

\* New reflex, gate and enforcer from the file; a fresh watcher.
Init ==
  /\ override \in Setting \cup {NoOverride}
  /\ effective = NoValue
  /\ phase = "starting"
  /\ pc = "idle"
  /\ target = FromFile
  /\ seen = NoOverride
  /\ applied = FromFile
  /\ tun = File
  /\ gate = File.policy
  /\ enforcer = EnforcerFor(File, File.policy \/ File.armed)
  /\ observer = FALSE

-----------------------------------------------------------------------------
(* The console and the process. *)

PutOverride(cfg) ==
  /\ override' = cfg
  /\ UNCHANGED <<effective, phase, watcher, chain, observer>>

ClearOverride ==
  /\ override' = NoOverride
  /\ UNCHANGED <<effective, phase, watcher, chain, observer>>

Stop ==
  /\ phase # "down"
  /\ phase' = "down"
  /\ UNCHANGED <<override, effective, watcher, chain, observer>>

Boot ==
  /\ phase = "down"
  /\ phase' = "starting"
  /\ pc' = "idle"
  /\ target' = FromFile
  /\ seen' = NoOverride
  /\ applied' = FromFile
  /\ tun' = File
  /\ gate' = File.policy
  /\ enforcer' = EnforcerFor(File, File.policy \/ File.armed)
  /\ observer' = FALSE
  /\ UNCHANGED <<override, effective>>

\* The published key lives for four intervals: it outlives the gateway by no more,
\* and goes while the gateway runs when Redis does not answer it for that long.
Lapse ==
  /\ effective # NoValue
  /\ effective' = NoValue
  /\ UNCHANGED <<override, phase, watcher, chain, observer>>

-----------------------------------------------------------------------------
(* The watcher. *)

Polling == phase # "down" /\ pc = "idle"

\* The synchronous poll publishes even when it failed; a later one does not.
PollFails ==
  /\ Polling
  /\ phase = "starting"
  /\ pc' = "publish"
  /\ UNCHANGED <<override, effective, phase, target, seen, applied, chain,
                 observer>>

\* Nothing new: no override and none seen, or the override already looked at.
PollUnchanged ==
  /\ Polling
  /\ override = seen
  /\ pc' = "publish"
  /\ UNCHANGED <<override, effective, phase, target, seen, applied, chain,
                 observer>>

\* The override is gone: back to the file.
PollCleared ==
  /\ Polling
  /\ override = NoOverride
  /\ seen # NoOverride
  /\ target' = FromFile
  /\ pc' = "reflex"
  /\ UNCHANGED <<override, effective, phase, seen, applied, chain, observer>>

\* A new override, recorded as seen before it is decoded or applied.
PollOffered ==
  /\ Polling
  /\ override # NoOverride
  /\ override # seen
  /\ seen' = override
  /\ IF override.fate = "undecodable"
     THEN pc' = "publish" /\ UNCHANGED target
     ELSE /\ pc' = "reflex"
          /\ target' = [cfg |-> override, source |-> "console"]
  /\ UNCHANGED <<override, effective, phase, applied, chain, observer>>

\* Mutant: the watcher counts an override as applied before anything took it.
ApplyReflexOptimistic ==
  /\ phase # "down"
  /\ pc = "reflex"
  /\ IF target.cfg.fate = "refused"
     THEN pc' = "publish" /\ UNCHANGED tun
     ELSE pc' = "gate" /\ tun' = target.cfg
  /\ applied' = target
  /\ UNCHANGED <<override, effective, phase, target, seen, gate, enforcer,
                 observer>>

\* baselineFrom and reflex.Apply make every check; a refusal changes nothing.
ApplyReflex ==
  /\ phase # "down"
  /\ pc = "reflex"
  /\ IF target.cfg.fate = "refused"
     THEN pc' = "publish" /\ UNCHANGED tun
     ELSE pc' = "gate" /\ tun' = target.cfg
  /\ UNCHANGED <<override, effective, phase, target, seen, applied, gate,
                 enforcer, observer>>

\* The gate, after the detectors' own tunables (not modelled here).
ApplyGate ==
  /\ phase # "down"
  /\ pc = "gate"
  /\ gate' = target.cfg.policy
  /\ pc' = "enforcer"
  /\ UNCHANGED <<override, effective, phase, target, seen, applied, tun,
                 enforcer, observer>>

\* Mutant: the switch follows the policy section alone.
ApplyEnforcerPolicyOnly ==
  /\ phase # "down"
  /\ pc = "enforcer"
  /\ enforcer' = EnforcerFor(target.cfg, gate)
  /\ applied' = target
  /\ seen' = IF target.source = "file" THEN NoOverride ELSE seen
  /\ pc' = "publish"
  /\ UNCHANGED <<override, effective, phase, target, tun, gate, observer>>

\* Mutant: clearing the override forgets to forget it.
ApplyEnforcerKeepsSeen ==
  /\ phase # "down"
  /\ pc = "enforcer"
  /\ enforcer' = EnforcerFor(target.cfg, gate \/ tun.armed)
  /\ applied' = target
  /\ pc' = "publish"
  /\ UNCHANGED <<override, effective, phase, target, seen, tun, gate, observer>>

\* The enforcer's swap ends apply; the watcher then records what is in force
\* and, when it went back to the file, that no override is seen.
ApplyEnforcer ==
  /\ phase # "down"
  /\ pc = "enforcer"
  /\ enforcer' = EnforcerFor(target.cfg, gate \/ tun.armed)
  /\ applied' = target
  /\ seen' = IF target.source = "file" THEN NoOverride ELSE seen
  /\ pc' = "publish"
  /\ UNCHANGED <<override, effective, phase, target, tun, gate, observer>>

\* SET of the effective key, which may fail.
Publish ==
  /\ phase # "down"
  /\ pc = "publish"
  /\ effective' \in {applied, effective}
  /\ pc' = "idle"
  /\ phase' = IF phase = "starting" THEN "polled" ELSE phase
  /\ UNCHANGED <<override, target, seen, applied, chain, observer>>

\* handler(): the chain is assembled once.  The observer is left out when the
\* reflex is not armed at this moment.
BuildChain ==
  /\ phase = "polled"
  /\ phase' = "serving"
  /\ observer' = tun.armed
  /\ UNCHANGED <<override, effective, watcher, chain>>

Watch == PollUnchanged \/ PollCleared \/ PollOffered \/ ApplyReflex
         \/ ApplyGate \/ ApplyEnforcer \/ Publish

Next ==
  \/ \E cfg \in Setting : PutOverride(cfg)
  \/ ClearOverride \/ Stop \/ Boot \/ Lapse
  \/ PollFails \/ Watch \/ BuildChain

\* The watcher's goroutine polls for as long as the gateway runs, Redis answers
\* now and then, and a gateway that is starting gets to serve.
Spec == Init /\ [][Next]_vars /\ WF_vars(Watch) /\ WF_vars(BuildChain)

-----------------------------------------------------------------------------
(* Properties. *)

Runs(s) ==
  /\ tun = s.cfg
  /\ gate = s.cfg.policy
  /\ enforcer = EnforcerFor(s.cfg, s.cfg.policy \/ s.cfg.armed)

\* Outside an apply, the reflex, the gate and the enforcer all run the one
\* block the watcher believes is in force, a refused override included: it
\* leaves nothing behind in any of them.
ChainRunsApplied ==
  phase # "down" /\ pc \notin {"gate", "enforcer"} => Runs(applied)

\* Why that holds: an apply that has begun moves every part to one and the same
\* usable block before the watcher says so.
SettingsInv ==
  /\ TypeOK
  /\ pc \notin {"gate", "enforcer"} => Runs(applied)
  /\ applied.cfg.fate = "usable"
  /\ pc = "reflex" => target.cfg.fate # "undecodable"
  /\ pc \in {"gate", "enforcer"} => target.cfg.fate = "usable" /\ tun = target.cfg
  /\ pc = "enforcer" => gate = target.cfg.policy

\* What the gateway publishes as effective is what the chain runs at that
\* moment, never what was only asked for.
PublishesWhatRuns ==
  [][effective' # effective /\ effective' # NoValue =>
       effective'.cfg.fate = "usable" /\ Runs(effective')]_vars

\* A usable override that stays in place is eventually in force and stays in
\* force, whatever was offered, refused or cleared before it.
OverrideLands ==
  \A cfg \in {c \in Setting : c.fate = "usable"} :
    <>[](override = cfg /\ phase = "serving") => <>[]Runs([cfg |-> cfg])

\* Once the override is gone for good the gateway is back on its file.
ClearedReverts ==
  <>[](override = NoOverride /\ phase = "serving") => <>[]Runs(FromFile)

\* What the console asks for and leaves in place takes effect, a usable override
\* as well as its removal: the watcher remembers an attempt before it makes it,
\* and must not take a later one for it.
RequestTakesEffect == OverrideLands /\ ClearedReverts

\* What newEnforcer's comment says: both sources are wired in whether or not
\* they are active at boot, because the console can turn either on later.  For
\* the reflex that takes the observer that shows it evidence.
ArmedReflexObserves ==
  phase = "serving" /\ pc = "idle" /\ tun.armed => observer
=============================================================================

------------------------------- MODULE Reflex -------------------------------
(***************************************************************************)
(* The gateway's own blocking (gateway/internal/enforcement/reflex.go).    *)
(*                                                                         *)
(* Every request that was let through is shown to the reflex after its     *)
(* detectors have run.  Observe loads the settings, decides, and takes the *)
(* lock to record a block; meanwhile other requests observe, the console   *)
(* swaps the settings and the sweeper removes blocks that are over.        *)
(***************************************************************************)
EXTENDS Naturals

CONSTANTS
  IP,           \* client addresses
  Worker,       \* requests that may be inside the chain at once
  Signal,       \* detector names
  Advisory,     \* signals the reflex may never act on
  Score,        \* evidence scores and score floors
  Duration,     \* block durations
  Config,       \* the enforcement.block settings that are ever offered
  NoBlock,      \* the address has no entry in the block map
  NotObserving, \* the request is not inside Observe
  MaxClock      \* bound: last instant of the model

VARIABLES
  clock,
  tun,        \* the tunables in force, swapped whole
  blocked,    \* the block map
  observing,  \* per request: the Observe call it is in, with what it loaded
  blockable   \* history: addresses some accepted settings did not exempt

reflexVars == <<clock, tun, blocked, observing, blockable>>

\* enforcement.block as the file or the console states it.  "parses" is false
\* when a CIDR of the exempt list does not.
BlockConfig == [enabled : BOOLEAN, signals : SUBSET Signal, minScore : Score,
                duration : Duration, exempt : SUBSET IP, parses : BOOLEAN]

ASSUME ReflexConstants ==
  /\ Config \subseteq BlockConfig
  /\ Advisory \subseteq Signal
  /\ Score \subseteq Nat
  /\ Duration \subseteq Nat \ {0}
  /\ MaxClock \in Nat

Tunables == [enabled : BOOLEAN, signals : SUBSET Signal, minScore : Score,
             duration : Duration, exempt : SUBSET IP]

\* Evidence that crossed its detector's threshold; Observe ignores any other.
Evidence == [signal : Signal, score : Score]

Block == [until : Nat]

\* A call of Observe: the settings it loaded and, once it has decided to block,
\* the instant it took for the block.
Call == [ip : IP, evidence : SUBSET Evidence, t : Tunables,
         decided : BOOLEAN, now : Nat]

BuildTunables(cfg) ==
  [enabled |-> cfg.enabled, signals |-> cfg.signals, minScore |-> cfg.minScore,
   duration |-> cfg.duration, exempt |-> cfg.exempt]

Acceptable(cfg) == cfg.parses /\ cfg.signals \cap Advisory = {}

Active == tun.enabled /\ tun.signals # {}

Running(b) == b # NoBlock /\ clock < b.until

ReflexTypeOK ==
  /\ clock \in Nat
  /\ tun \in Tunables
  /\ blocked \in [IP -> Block \cup {NoBlock}]
  /\ observing \in [Worker -> Call \cup {NotObserving}]
  /\ blockable \subseteq IP

\* New: an unusable configuration stops the gateway.
ReflexInit ==
  /\ clock = 0
  /\ \E cfg \in Config : Acceptable(cfg) /\ tun = BuildTunables(cfg)
  /\ blocked = [ip \in IP |-> NoBlock]
  /\ observing = [w \in Worker |-> NotObserving]
  /\ blockable = IP \ tun.exempt

-----------------------------------------------------------------------------
\* Apply: refused settings change nothing; blocks in force are kept.
Apply(cfg) ==
  /\ IF Acceptable(cfg)
     THEN /\ tun' = BuildTunables(cfg)
          /\ blockable' = blockable \cup (IP \ cfg.exempt)
     ELSE UNCHANGED <<tun, blockable>>
  /\ UNCHANGED <<clock, blocked, observing>>

\* Observe: the load of the tunables.
ObserveLoad(w, ip, evidence) ==
  /\ observing[w] = NotObserving
  /\ observing' = [observing EXCEPT ![w] =
                     [ip |-> ip, evidence |-> evidence, t |-> tun,
                      decided |-> FALSE, now |-> 0]]
  /\ UNCHANGED <<clock, tun, blocked, blockable>>

Justifies(e, t) == e.signal \in t.signals /\ e.score >= t.minScore

\* Mutant: the exempt list is not consulted.
ObserveDecideAnyone(w) ==
  LET c == observing[w]
      yes == Active /\ \E e \in c.evidence : Justifies(e, c.t)
  IN
  /\ c # NotObserving
  /\ ~c.decided
  /\ observing' = [observing EXCEPT ![w] =
       IF yes THEN [c EXCEPT !.decided = TRUE, !.now = clock, !.evidence = {}]
              ELSE NotObserving]
  /\ UNCHANGED <<clock, tun, blocked, blockable>>

\* Observe decides: Active() loads the tunables again; the exemption, the signal
\* list and the floor are those of the first load.  The instant of the block is
\* taken before the lock is asked for.
ObserveDecide(w) ==
  LET c == observing[w]
      yes == /\ Active
             /\ c.ip \notin c.t.exempt
             /\ \E e \in c.evidence : Justifies(e, c.t)
  IN
  /\ c # NotObserving
  /\ ~c.decided
  /\ observing' = [observing EXCEPT ![w] =
       IF yes THEN [c EXCEPT !.decided = TRUE, !.now = clock, !.evidence = {}]
              ELSE NotObserving]
  /\ UNCHANGED <<clock, tun, blocked, blockable>>

\* Mutant: a caller that keeps knocking has its block renewed.
ObserveArmRenewing(w) ==
  LET c == observing[w] IN
  /\ c # NotObserving
  /\ c.decided
  /\ blocked' = [blocked EXCEPT ![c.ip] = [until |-> c.now + c.t.duration]]
  /\ observing' = [observing EXCEPT ![w] = NotObserving]
  /\ UNCHANGED <<clock, tun, blockable>>

\* Observe holds the lock: a block that runs at the instant taken is kept.
ObserveArm(w) ==
  LET c == observing[w]
      held == blocked[c.ip] # NoBlock /\ c.now < blocked[c.ip].until
  IN
  /\ c # NotObserving
  /\ c.decided
  /\ blocked' = IF held THEN blocked
                ELSE [blocked EXCEPT ![c.ip] = [until |-> c.now + c.t.duration]]
  /\ observing' = [observing EXCEPT ![w] = NotObserving]
  /\ UNCHANGED <<clock, tun, blockable>>

Over(ip) == blocked[ip] # NoBlock /\ ~Running(blocked[ip])

\* Mutant: the sweeper exists only while blocking is on.
SweepWhileArmed ==
  /\ Active
  /\ \E ip \in IP : Over(ip)
  /\ blocked' = [ip \in IP |-> IF Over(ip) THEN NoBlock ELSE blocked[ip]]
  /\ UNCHANGED <<clock, tun, observing, blockable>>

\* The background sweep, on or off.
Sweep ==
  /\ \E ip \in IP : Over(ip)
  /\ blocked' = [ip \in IP |-> IF Over(ip) THEN NoBlock ELSE blocked[ip]]
  /\ UNCHANGED <<clock, tun, observing, blockable>>

ReflexTick ==
  /\ clock < MaxClock
  /\ clock' = clock + 1
  /\ UNCHANGED <<tun, blocked, observing, blockable>>

ReflexNext ==
  \/ \E cfg \in Config : Apply(cfg)
  \/ \E w \in Worker, ip \in IP, e \in Evidence : ObserveLoad(w, ip, {e})
  \/ \E w \in Worker : ObserveDecide(w) \/ ObserveArm(w)
  \/ Sweep \/ ReflexTick

\* The sweeper goroutine runs from Start to Close.
ReflexSpec == ReflexInit /\ [][ReflexNext]_reflexVars /\ WF_reflexVars(Sweep)

\* Lookup: expiry is checked on read too.
Refuses(ip) == Active /\ Running(blocked[ip])

-----------------------------------------------------------------------------
(* Properties. *)

\* A block that is running is neither extended, shortened nor dropped: not by
\* more evidence, not by new settings, not by the sweeper.
RunningBlockKept ==
  [][\A ip \in IP : Running(blocked[ip]) => blocked'[ip] = blocked[ip]]_reflexVars

\* An address that every accepted configuration exempted is never refused,
\* whichever generation of settings an observation in flight had loaded.
AlwaysExemptNeverRefused ==
  \A ip \in IP : ip \notin blockable => ~Refuses(ip)

\* The invariants behind it: what an observation loaded exempts at least the
\* addresses that were always exempt, and only other addresses are about to be
\* blocked or are.  No observation is ahead of the clock, which is why a running
\* block is never replaced.
ReflexInv ==
  /\ ReflexTypeOK
  /\ IP \ tun.exempt \subseteq blockable
  /\ \A w \in Worker : observing[w] # NotObserving =>
       /\ IP \ observing[w].t.exempt \subseteq blockable
       /\ observing[w].decided => observing[w].ip \in blockable
       /\ observing[w].now <= clock
  /\ \A ip \in IP : blocked[ip] # NoBlock => ip \in blockable

\* Blocks that are over leave the map even when blocking was switched off, so
\* the map cannot grow without bound.
SweptEventually ==
  \A ip \in IP : Over(ip) ~> ~Over(ip)
=============================================================================

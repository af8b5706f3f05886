---------------------------- MODULE PolicySource ----------------------------
(***************************************************************************)
(* What the policy store promises the request path                         *)
(* (gateway/internal/policy/store.go, Lookup and LookupRequest): a map     *)
(* that is only ever swapped whole, whose entries carry two deadlines, and *)
(* the rule by which a request picks at most one entry of it.              *)
(*                                                                         *)
(* PolicyStore shows how the refresh goroutine keeps the promise;          *)
(* Enforcement is built on the promise alone.                              *)
(*                                                                         *)
(* A key is an address and a scope: Everywhere for policy:<ip>, or one     *)
(* endpoint (method and route template) for policy:<ip>:<digest>.          *)
(***************************************************************************)
EXTENDS Naturals

CONSTANTS
  IP,           \* client addresses
  Endpoint,     \* normalised (method, route template) pairs
  Everywhere,   \* the scope of an address-wide policy
  Action,       \* the action labels that are written
  Origin,       \* who decided: "human", "approved" or "agent"
  NoDecision,   \* a lookup that finds nothing
  CacheMaxAge   \* policy cache max age

VARIABLES
  clock,        \* one clock: the gateway's and Redis's advance together
  snapshot      \* the map requests read; nil and empty answer alike

Scope == Endpoint \cup {Everywhere}
Key   == IP \X Scope

\* What the gateway keeps of a policy.  "only" is the endpoint named inside the
\* JSON, which an address-wide key may carry as well.  "serial" and "due" are
\* the policy's own number and deadline, for the properties only.
Decision == [action : Action, origin : Origin, only : Scope,
             expiresAt : Nat, cacheUntil : Nat, serial : Nat, due : Nat]

ASSUME SourceConstants ==
  /\ Everywhere \notin Endpoint
  /\ NoDecision \notin Decision
  /\ CacheMaxAge \in Nat

EmptySnapshot == [k \in Key |-> NoDecision]

-----------------------------------------------------------------------------
(* Lookups, as the request path evaluates them. *)

\* Mutant: entries are trusted until their deadline, however old the copy is.
LiveWhateverItsAge(d) == d # NoDecision /\ clock < d.expiresAt

Live(d) == d # NoDecision /\ clock < d.expiresAt /\ clock < d.cacheUntil

Matches(d, ep) == d.only \in {Everywhere, ep}

\* Mutant: a person's decision ranks with an approved one.
DecisionPriorityFlat(d) ==
  IF d.origin \in {"human", "approved"} THEN 2 ELSE 1

DecisionPriority(d) ==
  CASE d.origin = "human" -> 3 [] d.origin = "approved" -> 2 [] OTHER -> 1

LookupRequest(ip, ep) ==
  LET global   == snapshot[<<ip, Everywhere>>]
      scoped   == snapshot[<<ip, ep>>]
      globalOK == Live(global) /\ Matches(global, ep)
  IN  IF globalOK /\ (Live(scoped) =>
                        DecisionPriority(global) > DecisionPriority(scoped))
      THEN global
      ELSE IF Live(scoped) THEN scoped ELSE NoDecision

-----------------------------------------------------------------------------
(* The promise. *)

NoExpiry == 0

\* An entry comes from a key with a deadline, is dated no later than it, and is
\* dated no later than CacheMaxAge from the moment it is installed.
Promised(d) ==
  d # NoDecision =>
    /\ d.due # NoExpiry
    /\ d.expiresAt <= d.due
    /\ d.cacheUntil <= clock + CacheMaxAge

SourceInit == clock = 0 /\ snapshot = EmptySnapshot

Advance == clock' = clock + 1 /\ UNCHANGED snapshot

Swap ==
  /\ DOMAIN snapshot' = Key
  /\ \A k \in Key : Promised(snapshot'[k])
  /\ UNCHANGED clock

\* The abstract specification of a policy source.
SourceSpec == SourceInit /\ [][Advance \/ Swap]_<<clock, snapshot>>
=============================================================================

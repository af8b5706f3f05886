----------------------------- MODULE ConsoleReads -----------------------------
(***************************************************************************)
(* What the console's read routes compute from Redis, as operators on an   *)
(* abstract input: one page of /api/events, the policy rows, the           *)
(* attackers and setup warnings of the overview, the tallies of an         *)
(* address.  Stream ids are 1, 2, ..., newest highest; a list of events is *)
(* a sequence, newest first.                                               *)
(***************************************************************************)
EXTENDS Integers, Sequences, FiniteSets, FiniteSetsExt

CONSTANTS
  MAX_SCAN_BATCHES,    \* batches one request of /api/events may read
  TOP,                 \* attackers the overview lists
  MIN_ROUTE_CLIENTS, MIN_ROUTE_REQUESTS,
  Client, Method,      \* addresses and methods of events
  Segment, Variable,   \* what paths consist of; the segments that name one resource
  Signal,              \* names a detector may report
  Null                 \* no cursor, a value that does not parse

ASSUME ReadsConstants ==
  /\ {MAX_SCAN_BATCHES, TOP, MIN_ROUTE_CLIENTS, MIN_ROUTE_REQUESTS} \subseteq Nat \ {0}
  /\ {"traversal", "enumeration", "flood"} \subseteq Signal
  /\ Variable \subseteq Segment
  /\ Null \notin Nat

VARIABLE input   \* [kind |-> what is read, ...]

-----------------------------------------------------------------------------
(* /api/events: the newest "limit" matching events below "before".         *)

\* Up to "limit" entries below the cursor.
XRevRange(cursor, limit) == {i \in 1..(cursor - 1) : i >= cursor - limit}

\* Mutant: the scan goes on from the end of the batch, whatever it took of it.
TakenAll(batch, hits, room) == batch

\* The entries of a batch that are looked at: it stops when the page is full.
Taken(batch, hits, room) ==
  {i \in batch : Cardinality({j \in hits \cap batch : j > i}) < room}

NextBatch(s, hits, limit) ==
  LET batch == XRevRange(s.cursor, limit)
      taken == Taken(batch, hits, limit - Cardinality(s.events))
  IN IF s.reachedStart \/ Cardinality(s.events) >= limit THEN s
     ELSE IF batch = {} THEN [s EXCEPT !.reachedStart = TRUE]
     ELSE [events |-> s.events \cup (hits \cap taken), cursor |-> Min(taken),
           lastSeenId |-> Min(taken), reachedStart |-> Cardinality(batch) < limit]

Scan(hits, before, limit) ==
  LET after[n \in 0..MAX_SCAN_BATCHES] ==
        IF n = 0
        THEN [events |-> {}, cursor |-> before, lastSeenId |-> Null, reachedStart |-> FALSE]
        ELSE NextBatch(after[n - 1], hits, limit)
  IN after[MAX_SCAN_BATCHES]

EventsPage(hits, before, limit) ==
  LET s == Scan(hits, before, limit)
  IN [events |-> s.events,
      cursor |-> IF s.reachedStart THEN Null ELSE s.lastSeenId]

-----------------------------------------------------------------------------
(* The policy rows: keys is a function from <<address, scope>> to the value *)
(* of the key, Null where there is none or it does not parse.              *)

ACTION_PRIORITY == [monitor |-> 0, throttle |-> 1, temp_block |-> 2, escalate |-> 3]

PolicyKeys(keys, ip) == {k \in DOMAIN keys : k[1] = ip /\ keys[k] # Null}

Primary(keys, ip) ==
  CHOOSE k \in PolicyKeys(keys, ip) :
    \A l \in PolicyKeys(keys, ip) :
      ACTION_PRIORITY[keys[l].action] <= ACTION_PRIORITY[keys[k].action]

coalescePolicies(keys) ==
  [ip \in {k[1] : k \in {l \in DOMAIN keys : keys[l] # Null}} |->
     LET group == PolicyKeys(keys, ip) IN
     [action    |-> keys[Primary(keys, ip)].action,
      scopes    |-> {k[2] : k \in group},
      expiresIn |-> Min({keys[k].ttl : k \in group})]]

\* What the page shows of it: the seconds, or the words "no expiry".
formatTtl(seconds) == IF seconds < 0 THEN Null ELSE seconds

-----------------------------------------------------------------------------
(* The overview: where the gateway has ranked nobody, its attackers are    *)
(* those who alert in the visible window.                                  *)

Count(events, P(_)) == Cardinality({i \in DOMAIN events : P(events[i])})

summarizeSources(events) ==
  [ip \in {events[i].ip : i \in DOMAIN events} |->
     [requests |-> Count(events, LAMBDA e : e.ip = ip),
      alerts   |-> Count(events, LAMBDA e : e.ip = ip /\ e.fired # <<>>)]]

\* The first n of a set that is sorted by falling key; ties in any order.
Firsts(S, n, key(_)) ==
  CHOOSE T \in SUBSET S :
    /\ Cardinality(T) = Min({n, Cardinality(S)})
    /\ \A x \in T, y \in S \ T : key(x) >= key(y)

Ranked(events) ==
  LET rows == summarizeSources(events)
  IN Firsts({ip \in DOMAIN rows : rows[ip].alerts > 0}, TOP, LAMBDA x : rows[x].alerts)

-----------------------------------------------------------------------------
(* The setup warnings: endpoints the route table misses.                   *)

PATH_ATTACK_SIGNALS == {"traversal", "enumeration"}

Unmatched(e) ==
  /\ e.unmatched
  /\ \A n \in DOMAIN e.fired : e.fired[n] \notin PATH_ATTACK_SIGNALS

\* /users/1 and /users/2 are the one endpoint /users/{id}.
suggestTemplate(path) == [n \in DOMAIN path |-> IF path[n] \in Variable THEN "{id}" ELSE path[n]]

Endpoint(e) == <<e.method, suggestTemplate(e.path)>>

\* Mutant: one visit by each of several clients is enough.
missingRoutesVisited(events) ==
  {t \in {Endpoint(events[i]) : i \in DOMAIN events} :
     LET mine == {i \in DOMAIN events : Unmatched(events[i]) /\ Endpoint(events[i]) = t}
     IN /\ Cardinality({events[i].ip : i \in mine}) >= MIN_ROUTE_CLIENTS
        /\ Cardinality(mine) >= MIN_ROUTE_REQUESTS}

missingRoutes(events) ==
  {t \in {Endpoint(events[i]) : i \in DOMAIN events} :
     LET mine == {i \in DOMAIN events : Unmatched(events[i]) /\ Endpoint(events[i]) = t}
         clients == {events[i].ip : i \in mine}
     IN /\ Cardinality(clients) >= MIN_ROUTE_CLIENTS
        /\ Cardinality(mine) >= MIN_ROUTE_REQUESTS
        /\ Cardinality(mine) >= 2 * Cardinality(clients)}

-----------------------------------------------------------------------------
(* The page of an address: how often each signal fired.                    *)

LEGACY_SIGNAL_ALIASES(name) == IF name = "enumeration" THEN "traversal" ELSE name

canonicalSignals(fired) ==
  LET ids == [n \in DOMAIN fired |-> LEGACY_SIGNAL_ALIASES(fired[n])]
      firsts == {n \in DOMAIN ids : \A m \in 1..(n - 1) : ids[m] # ids[n]}
  IN [k \in 1..Cardinality(firsts) |->
        ids[CHOOSE n \in firsts : Cardinality({m \in firsts : m <= n}) = k]]

\* The tally adds one for every element of the list; the page shows a name and
\* its alias under one label.
SignalCount(events, label) ==
  Cardinality({p \in (DOMAIN events) \X (1..Max({Len(events[j].fired) : j \in DOMAIN events})) :
     /\ p[2] \in DOMAIN canonicalSignals(events[p[1]].fired)
     /\ LEGACY_SIGNAL_ALIASES(canonicalSignals(events[p[1]].fired)[p[2]]) = label})

-----------------------------------------------------------------------------

\* A key's remaining life: -1 when it never lapses, -2 when it just went.
TTL == {n \in Int : n >= -2}

Event == [ip : Client, method : Method, path : Seq(Segment), unmatched : BOOLEAN, fired : Seq(Signal)]

\* What the routes may be given: any stream, cursor and limit, any keys that parse
\* or not, any list of events.
ReadsTypeOK ==
  \/ input.kind = "none"
  \/ input \in [kind : {"events"}, hits : SUBSET (Nat \ {0}), before : Nat \ {0}, limit : Nat \ {0}]
  \/ /\ input.kind = "policies"
     /\ input.keys \in [DOMAIN input.keys -> {Null} \cup [action : DOMAIN ACTION_PRIORITY, ttl : TTL]]
  \/ /\ input.kind = "overview"
     /\ input.events \in Seq(Event)

\* One page of /api/events is what a reader of the whole stream would find
\* between its bounds, however its batches fell: nothing at or above the cursor
\* is left out, and nothing of the previous page is repeated.
PageGapless ==
  input.kind = "events" =>
    LET page == EventsPage(input.hits, input.before, input.limit)
        last == Scan(input.hits, input.before, input.limit).lastSeenId
    IN /\ page.cursor # Null => last < input.before
       /\ page.events = IF last = Null THEN {} ELSE {i \in input.hits : last <= i /\ i < input.before}
       /\ Cardinality(page.events) <= input.limit

\* "Null only once the scan genuinely reached the start of the stream"
\* (api/events/route.js:95): without a cursor there is nothing left to find.
NullOnlyAtStart ==
  input.kind = "events" =>
    LET page == EventsPage(input.hits, input.before, input.limit)
    IN page.cursor = Null => {i \in input.hits : i < input.before} \subseteq page.events

\* The one row of an address hides none of its keys: there is a row wherever a
\* key stands, it names the strictest action and every scope, and where all its
\* keys lapse it shows a lapse, and none that comes after that of a key.  (A key
\* that never lapses makes the row say "no expiry", whatever stands beside it.)
RowHidesNoKey ==
  input.kind = "policies" =>
    LET rows == coalescePolicies(input.keys) IN
    \A k \in DOMAIN input.keys : input.keys[k] # Null =>
      /\ k[1] \in DOMAIN rows
      /\ ACTION_PRIORITY[input.keys[k].action] <= ACTION_PRIORITY[rows[k[1]].action]
      /\ k[2] \in rows[k[1]].scopes
      /\ (\A l \in PolicyKeys(input.keys, k[1]) : formatTtl(input.keys[l].ttl) # Null)
           => LET shown == formatTtl(rows[k[1]].expiresIn)
              IN shown # Null /\ shown <= formatTtl(input.keys[k].ttl)

\* The address with the most alerts is among the attackers, however little it
\* sends besides.
LoudestListed ==
  input.kind = "overview" =>
    LET rows == summarizeSources(input.events) IN
    \A ip \in DOMAIN rows :
      (rows[ip].alerts > 0 /\ \A other \in DOMAIN rows \ {ip} : rows[other].alerts < rows[ip].alerts)
      => ip \in Ranked(input.events)

\* "repetition across clients is what separates an unlisted endpoint from
\* reconnaissance" (setup-checks.mjs:31-33): a sweep in which no client asks for
\* an endpoint twice, under whatever ids, makes none look like a missing route,
\* however many take part in it; nor do requests that were attacks on their path.
SweepIsNoRoute ==
  input.kind = "overview" =>
    \A t \in missingRoutes(input.events) :
      \E i, j \in DOMAIN input.events :
        /\ i # j /\ input.events[i].ip = input.events[j].ip
        /\ \A n \in {i, j} : Unmatched(input.events[n]) /\ Endpoint(input.events[n]) = t

\* An event counts once under a label, also when it carries the names the
\* detector had before and after it was consolidated.
TalliedOnce ==
  input.kind = "overview" =>
    \A label \in {"traversal", "flood"} :
      input.events # <<>> => SignalCount(input.events, label) <= Len(input.events)

\* What the read routes compute loses and repeats nothing of what Redis holds.
RoutesSound ==
  /\ PageGapless
  /\ RowHidesNoKey
  /\ LoudestListed /\ SweepIsNoRoute /\ TalliedOnce

\* Why the pages are gapless: after any number of batches, what was found is what
\* there is to find from the cursor up.
ScanSound(s, hits, before, limit) ==
  /\ s \in [events : SUBSET hits, cursor : Nat \ {0}, lastSeenId : Nat \cup {Null}, reachedStart : BOOLEAN]
  /\ s.cursor = IF s.lastSeenId = Null THEN before ELSE s.lastSeenId
  /\ s.lastSeenId # Null => s.lastSeenId < before
  /\ s.events = {i \in hits : s.cursor <= i /\ i < before}
  /\ Cardinality(s.events) <= limit

\* How a scan ends that says it reached the start: at the oldest entry, unless the
\* page is full, and then less than a page of entries from it.
ScanEnds(s, hits, limit) ==
  s.reachedStart =>
    /\ s.cursor = 1 \/ s.cursor < limit
    /\ \A i \in hits : i < s.cursor => Cardinality(s.events) = limit

\* Paging through /api/events (events/page.jsx, "load older"): every page but the
\* first is asked for with the cursor of the one before.
PagesThrough(cursors, hits, limit) ==
  /\ cursors \in Seq(Nat \ {0}) /\ cursors # <<>>
  /\ \A n \in 1..(Len(cursors) - 1) : EventsPage(hits, cursors[n], limit).cursor = cursors[n + 1]
=============================================================================

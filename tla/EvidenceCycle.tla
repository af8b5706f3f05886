---------------------------- MODULE EvidenceCycle ----------------------------
(***************************************************************************)
(* The decision engine's cycle (decision-engine/iasg/runner.py) over the   *)
(* streams it consumes: evidence through a consumer group whose entries    *)
(* are acknowledged when the cycle ends (evidence/consumer.py), a person's *)
(* instructions acknowledged as they are read (feedback/overrides.py), the *)
(* campaigns it keeps in Redis (campaigns/repository.py) and the console's *)
(* "clear campaigns" that runs beside it (clear-campaigns/route.js).       *)
(*                                                                         *)
(* The process may crash at any step and start again, a step may raise and *)
(* end the cycle while the process lives on, and the reply to a call that  *)
(* Redis carried out may be lost.  The Redis-only deployment is modelled.  *)
(***************************************************************************)
EXTENDS Naturals, Sequences, FiniteSets

CONSTANTS
  IP,             \* addresses evidence and instructions are about
  Clean,          \* a stream entry that no campaign comes of
  Batch,          \* entries one read of the evidence stream returns
  OverrideBatch,  \* instructions one read returns
  MaxEntries,     \* bound: evidence entries appended
  MaxOverrides,   \* bound: instructions given
  MaxNow,         \* bound: last instant of the model
  MaxFaults       \* bound: crashes, raised steps and lost replies

ASSUME CycleConstants ==
  /\ Clean \notin IP
  /\ Batch \in Nat \ {0}
  /\ OverrideBatch \in Nat \ {0}
  /\ {MaxEntries, MaxOverrides, MaxNow, MaxFaults} \subseteq Nat

VARIABLES
  now,          \* the clock stream ids and the watermark are taken from
  stream,       \* Redis: iasg:events
  cursor,       \* the group's last delivered entry
  pel,          \* the group's pending entries list
  watermark,    \* iasg:reset_at, 0 when never set
  campaigns,    \* campaign:* keys: the entries each address's campaign has
  overrides,    \* the override stream
  ovCursor,     \* the override group's last delivered entry
  pc,           \* the cycle: what it does next, "sleep" between cycles
  recovered,    \* consumer._recovered
  readIds,      \* consumer._read_ids
  entries,      \* what fetch has read so far
  evidence,     \* what fetch returned
  pending,      \* the instruction in hand about each address, if any
  held,         \* campaigns in memory, to be saved
  todo,         \* addresses the current loop has not come to
  clear,        \* the console's clear in progress
  handled,      \* history: entries a cycle took into account
  dropped,      \* history: entries in hand when a cycle raised
  orphans,      \* history: pending entries no process has in hand
  acted,        \* history: instructions that were put through
  faults        \* how many faults have happened

redis   == <<stream, cursor, pel, watermark, campaigns, overrides, ovCursor>>
memory  == <<recovered, readIds, entries, evidence, pending, held, todo>>
history == <<handled, dropped, orphans, acted, faults>>
vars    == <<now, redis, pc, memory, clear, history>>

Ids  == 1..MaxEntries
None == [ip \in IP |-> {}]

NotClearing == [step |-> "idle", keys |-> {}, done |-> FALSE, carried |-> FALSE]

StreamsOK ==
  /\ stream \in Seq([ip : IP \cup {Clean}, at : Nat])
  /\ cursor \in 0..Len(stream)
  /\ overrides \in Seq(IP)
  /\ ovCursor \in 0..Len(overrides)

IdsOK ==
  /\ pel \subseteq 1..cursor
  /\ readIds \subseteq 1..cursor
  /\ entries \subseteq 1..cursor
  /\ evidence \subseteq 1..cursor

StateOK ==
  /\ now \in Nat
  /\ watermark \in Nat
  /\ campaigns \in [IP -> SUBSET Nat]
  /\ pc \in {"sleep", "overrides", "pending", "new", "filter", "merge", "save",
             "respond", "loose", "review"}
  /\ recovered \in BOOLEAN
  /\ pending \in [IP -> SUBSET Nat]
  /\ held \in [IP -> SUBSET Nat]
  /\ todo \subseteq IP
  /\ clear \in [step : {"idle", "scan", "del"}, keys : SUBSET IP,
                done : BOOLEAN, carried : BOOLEAN]

HistoryOK ==
  /\ handled \subseteq Nat
  /\ dropped \subseteq Nat
  /\ orphans \subseteq Nat
  /\ acted \subseteq Nat
  /\ faults \in Nat

CycleTypeOK == StreamsOK /\ IdsOK /\ StateOK /\ HistoryOK

Init ==
  /\ now = 1 /\ watermark = 0 /\ faults = 0
  /\ stream = <<>> /\ cursor = 0 /\ pel = {}
  /\ overrides = <<>> /\ ovCursor = 0
  /\ campaigns = None /\ held = None
  /\ pc = "sleep" /\ recovered = FALSE
  /\ readIds = {} /\ entries = {} /\ evidence = {} /\ todo = {}
  /\ pending = None
  /\ clear = NotClearing
  /\ handled = {} /\ dropped = {} /\ orphans = {} /\ acted = {}

-----------------------------------------------------------------------------
(* The gateway, a person, and time. *)

Arrive(ip) ==
  /\ Len(stream) < MaxEntries
  /\ stream' = Append(stream, [ip |-> ip, at |-> now])
  /\ UNCHANGED <<now, cursor, pel, watermark, campaigns, overrides, ovCursor,
                 pc, memory, clear, history>>

Instruct(ip) ==
  /\ Len(overrides) < MaxOverrides
  /\ overrides' = Append(overrides, ip)
  /\ UNCHANGED <<now, stream, cursor, pel, watermark, campaigns, ovCursor, pc,
                 memory, clear, history>>

Tick ==
  /\ now < MaxNow
  /\ now' = now + 1
  /\ UNCHANGED <<redis, pc, memory, clear, history>>

-----------------------------------------------------------------------------
(* The cycle. *)

Smaller(a, b) == IF a < b THEN a ELSE b

\* cycle() up to the override read; its own writes are other modules' subject.
Begin ==
  /\ pc = "sleep"
  /\ pc' = "overrides"
  /\ UNCHANGED <<now, redis, memory, clear, history>>

NextOverrides == (ovCursor + 1)..Smaller(ovCursor + OverrideBatch, Len(overrides))

\* The newest of the instructions about an address.
Newest(ids, ip) ==
  {i \in ids : overrides[i] = ip /\ \A j \in ids : overrides[j] = ip => j <= i}

\* Mutant: the read goes over the entries again instead of past them.
ReadOverridesAgain ==
  LET ids == 1..Smaller(ovCursor + OverrideBatch, Len(overrides)) IN
  /\ pc = "overrides"
  /\ ovCursor' = Smaller(ovCursor + OverrideBatch, Len(overrides))
  /\ pending' = [ip \in IP |-> Newest(ids, ip)]
  /\ pc' = IF recovered THEN "new" ELSE "pending"
  /\ UNCHANGED <<now, stream, cursor, pel, watermark, campaigns, overrides,
                 recovered, readIds, entries, evidence, held, todo, clear,
                 history>>

\* OverrideChannel.pending: read what was never delivered, acknowledge it, and
\* keep the newest instruction about each address.
ReadOverrides ==
  /\ pc = "overrides"
  /\ ovCursor' = Smaller(ovCursor + OverrideBatch, Len(overrides))
  /\ pending' = [ip \in IP |-> Newest(NextOverrides, ip)]
  /\ pc' = IF recovered THEN "new" ELSE "pending"
  /\ UNCHANGED <<now, stream, cursor, pel, watermark, campaigns, overrides,
                 recovered, readIds, entries, evidence, held, todo, clear,
                 history>>

Oldest(S, n) == {x \in S : Cardinality({y \in S : y <= x}) <= n}

\* fetch, once per process: what an earlier process left unacknowledged.
FetchPending ==
  /\ pc = "pending"
  /\ entries' = Oldest(pel, Batch)
  /\ recovered' = TRUE
  /\ orphans' = orphans \ Oldest(pel, Batch)
  /\ pc' = "new"
  /\ UNCHANGED <<now, redis, readIds, evidence, pending, held, todo, clear,
                 handled, dropped, acted, faults>>

Undelivered == (cursor + 1)..Smaller(cursor + Batch, Len(stream))

\* Mutant: entries are acknowledged as they are read.
FetchNewAcking ==
  /\ pc = "new"
  /\ cursor' = Smaller(cursor + Batch, Len(stream))
  /\ readIds' = readIds \cup entries \cup Undelivered
  /\ entries' = entries \cup Undelivered
  /\ pc' = "filter"
  /\ UNCHANGED <<now, stream, pel, watermark, campaigns, overrides, ovCursor,
                 recovered, evidence, pending, held, todo, clear, history>>

\* fetch: what was never delivered; every entry read is to be acknowledged.
FetchNew ==
  /\ pc = "new"
  /\ cursor' = Smaller(cursor + Batch, Len(stream))
  /\ pel' = pel \cup Undelivered
  /\ readIds' = readIds \cup entries \cup Undelivered
  /\ entries' = entries \cup Undelivered
  /\ pc' = "filter"
  /\ UNCHANGED <<now, stream, watermark, campaigns, overrides, ovCursor,
                 recovered, evidence, pending, held, todo, clear, history>>

Old(e) == stream[e].at < watermark

\* Mutant: the watermark is not looked at.
FilterNothing ==
  LET kept == {e \in entries : stream[e].ip # Clean} IN
  /\ pc = "filter"
  /\ evidence' = kept
  /\ handled' = handled \cup (entries \ kept)
  /\ entries' = {}
  /\ pc' = "merge"
  /\ UNCHANGED <<now, redis, recovered, readIds, pending, held, todo, clear,
                 dropped, orphans, acted, faults>>

\* fetch: entries older than the reset watermark become no evidence.
Filter ==
  LET kept == {e \in entries : stream[e].ip # Clean /\ ~Old(e)} IN
  /\ pc = "filter"
  /\ evidence' = kept
  /\ handled' = handled \cup (entries \ kept)
  /\ entries' = {}
  /\ pc' = "merge"
  /\ UNCHANGED <<now, redis, recovered, readIds, pending, held, todo, clear,
                 dropped, orphans, acted, faults>>

About(ip) == {e \in evidence : stream[e].ip = ip}

Covered == {ip \in IP : About(ip) # {}}

Loose == {ip \in IP : pending[ip] # {}} \ Covered

\* merge reads the campaigns there are and absorbs this cycle's clusters.
Merge ==
  /\ pc = "merge"
  /\ held' = [ip \in IP |->
       IF ip \in Covered THEN campaigns[ip] \cup About(ip) ELSE {}]
  /\ IF Covered = {} THEN pc' = "loose" /\ todo' = Loose
                     ELSE pc' = "save" /\ todo' = Covered
  /\ UNCHANGED <<now, redis, recovered, readIds, entries, evidence, pending,
                 clear, history>>

\* merge's last loop: one save per campaign.
Save(ip) ==
  /\ pc = "save"
  /\ ip \in todo
  /\ campaigns' = [campaigns EXCEPT ![ip] = held[ip]]
  /\ IF todo = {ip} THEN pc' = "respond" /\ todo' = Covered
                    ELSE pc' = pc /\ todo' = todo \ {ip}
  /\ UNCHANGED <<now, stream, cursor, pel, watermark, overrides, ovCursor,
                 recovered, readIds, entries, evidence, pending, held, clear,
                 history>>

\* _respond: decide, let the instruction in hand overrule, write, save.
Respond(ip) ==
  /\ pc = "respond"
  /\ ip \in todo
  /\ acted' = acted \cup pending[ip]
  /\ campaigns' = [campaigns EXCEPT ![ip] = held[ip]]
  /\ handled' = handled \cup About(ip)
  /\ IF todo = {ip} THEN pc' = "loose" /\ todo' = Loose
                    ELSE pc' = pc /\ todo' = todo \ {ip}
  /\ UNCHANGED <<now, stream, cursor, pel, watermark, overrides, ovCursor,
                 recovered, readIds, entries, evidence, pending, held, clear,
                 dropped, orphans, faults>>

\* Instructions about addresses no campaign mentioned.
Standalone(ip) ==
  /\ pc = "loose"
  /\ ip \in todo
  /\ acted' = acted \cup pending[ip]
  /\ todo' = todo \ {ip}
  /\ UNCHANGED <<now, redis, pc, recovered, readIds, entries, evidence, pending,
                 held, clear, handled, dropped, orphans, faults>>

\* review reads the campaigns that saw no evidence this cycle ...
Review ==
  /\ pc = "loose"
  /\ todo = {}
  /\ held' = [ip \in IP |-> IF ip \in Covered THEN {} ELSE campaigns[ip]]
  /\ todo' = {ip \in IP \ Covered : campaigns[ip] # {}}
  /\ pc' = "review"
  /\ UNCHANGED <<now, redis, recovered, readIds, entries, evidence, pending,
                 clear, history>>

\* ... counts the quiet cycle and saves them back, one by one.
SaveReviewed(ip) ==
  /\ pc = "review"
  /\ ip \in todo
  /\ campaigns' = [campaigns EXCEPT ![ip] = held[ip]]
  /\ todo' = todo \ {ip}
  /\ UNCHANGED <<now, stream, cursor, pel, watermark, overrides, ovCursor, pc,
                 recovered, readIds, entries, evidence, pending, held, clear,
                 history>>

\* The frame of a process that is between cycles: the locals are gone.
NoLocals ==
  /\ pc' = "sleep"
  /\ entries' = {} /\ evidence' = {} /\ todo' = {}
  /\ pending' = None /\ held' = None

\* Mutant: the ack is skipped when the cycle produced no evidence.
AckWhenEvidence ==
  /\ pc = "review"
  /\ todo = {}
  /\ IF evidence = {} THEN UNCHANGED <<pel, readIds>>
                      ELSE pel' = pel \ readIds /\ readIds' = {}
  /\ NoLocals
  /\ UNCHANGED <<now, stream, cursor, watermark, campaigns, overrides, ovCursor,
                 recovered, clear, history>>

\* Mutant: only what became evidence is acknowledged.
AckEvidence ==
  /\ pc = "review"
  /\ todo = {}
  /\ pel' = pel \ evidence
  /\ readIds' = {}
  /\ NoLocals
  /\ UNCHANGED <<now, stream, cursor, watermark, campaigns, overrides, ovCursor,
                 recovered, clear, history>>

\* The last step of a cycle: everything this process has read is acknowledged.
Ack ==
  /\ pc = "review"
  /\ todo = {}
  /\ pel' = pel \ readIds
  /\ readIds' = {}
  /\ NoLocals
  /\ UNCHANGED <<now, stream, cursor, watermark, campaigns, overrides, ovCursor,
                 recovered, clear, history>>

-----------------------------------------------------------------------------
(* What goes wrong. *)

Fault == faults < MaxFaults /\ faults' = faults + 1

\* The process dies and is started again.
Crash ==
  /\ Fault
  /\ NoLocals
  /\ recovered' = FALSE
  /\ readIds' = {}
  /\ orphans' = pel
  /\ UNCHANGED <<now, redis, clear, handled, dropped, acted>>

\* A step raises: run_forever reports it and the process lives on.
Raise ==
  /\ Fault
  /\ pc # "sleep"
  /\ NoLocals
  /\ dropped' = dropped \cup (readIds \ handled)
  /\ orphans' = orphans \cup ((entries \cap pel) \ readIds)
  /\ UNCHANGED <<now, redis, recovered, readIds, clear, handled, acted>>

\* XREADGROUP was carried out, its reply was lost and the cycle raised.
ReadReplyLost ==
  /\ Fault
  /\ pc = "new"
  /\ cursor' = Smaller(cursor + Batch, Len(stream))
  /\ pel' = pel \cup Undelivered
  /\ orphans' = orphans \cup ((entries \cap pel) \ readIds) \cup Undelivered
  /\ dropped' = dropped \cup (readIds \ handled)
  /\ NoLocals
  /\ UNCHANGED <<now, stream, watermark, campaigns, overrides, ovCursor,
                 recovered, readIds, clear, handled, acted>>

\* XACK was carried out, its reply was lost: the ids are kept and acked again.
AckReplyLost ==
  /\ Fault
  /\ pc = "review"
  /\ todo = {}
  /\ pel' = pel \ readIds
  /\ NoLocals
  /\ UNCHANGED <<now, stream, cursor, watermark, campaigns, overrides, ovCursor,
                 recovered, readIds, clear, handled, dropped, orphans, acted>>

-----------------------------------------------------------------------------
(* The console's "clear campaigns". *)

Stale(S) == \E e \in S : Old(e)

\* The cycle has evidence or campaigns in hand that predate the watermark.
Carrying == Stale(evidence) \/ \E ip \in IP : Stale(held[ip])

\* The watermark is written before anything else.
ClearMark ==
  /\ clear.step = "idle"
  /\ watermark' = now
  /\ clear' = [step |-> "scan", keys |-> {}, done |-> FALSE, carried |-> FALSE]
  /\ UNCHANGED <<now, stream, cursor, pel, campaigns, overrides, ovCursor, pc,
                 memory, history>>

ClearScan ==
  /\ clear.step = "scan"
  /\ clear' = [clear EXCEPT !.step = "del", !.carried = Carrying,
                            !.keys = {ip \in IP : campaigns[ip] # {}}]
  /\ UNCHANGED <<now, redis, pc, memory, history>>

ClearDel ==
  /\ clear.step = "del"
  /\ campaigns' = [ip \in IP |-> IF ip \in clear.keys THEN {} ELSE campaigns[ip]]
  /\ clear' = [clear EXCEPT !.step = "idle", !.done = TRUE,
                            !.carried = @ \/ Carrying]
  /\ UNCHANGED <<now, stream, cursor, pel, watermark, overrides, ovCursor, pc,
                 memory, history>>

\* A call of the clear fails after the watermark is written.
ClearFails ==
  /\ Fault
  /\ clear.step # "idle"
  /\ clear' = NotClearing
  /\ UNCHANGED <<now, redis, pc, memory, handled, dropped, orphans, acted>>

-----------------------------------------------------------------------------
Cycle ==
  \/ Begin \/ ReadOverrides \/ FetchPending \/ FetchNew \/ Filter \/ Merge
  \/ \E ip \in IP : Save(ip) \/ Respond(ip) \/ Standalone(ip) \/ SaveReviewed(ip)
  \/ Review \/ Ack

Clearing == ClearMark \/ ClearScan \/ ClearDel

World ==
  \/ \E ip \in IP \cup {Clean} : Arrive(ip)
  \/ \E ip \in IP : Instruct(ip)
  \/ Tick

Next ==
  \/ Cycle \/ Clearing \/ World
  \/ Crash \/ Raise \/ ReadReplyLost \/ AckReplyLost \/ ClearFails

\* The process is started again whenever it ends and cycles for ever.
Spec == Init /\ [][Next]_vars /\ WF_vars(Cycle)

\* The same without a step that raises: the process only ever crashes.
CrashSpec == Init /\ [][Cycle \/ Clearing \/ World \/ Crash]_vars

-----------------------------------------------------------------------------
(* Properties. *)

Acked == 1..cursor \ pel

\* An entry leaves the pending list only when a cycle took it into account, or
\* it was in hand when a cycle raised: a crash at any step, a lost reply or a
\* clear at any moment loses nothing.
AckedAccounted == Acked \subseteq handled \cup dropped

\* Every pending entry is in the hands of the running process, which will
\* acknowledge it, or was left behind by a fault: none is simply forgotten, the
\* clean and the outdated ones included.
NothingForgotten == pel \subseteq readIds \cup entries \cup orphans

\* Where the entries this process has read are, step by step: already taken
\* into account or dropped by a cycle that raised, still raw, in the evidence,
\* or about an address the response has not come to.
InHand ==
  /\ evidence # {} => pc \in {"merge", "save", "respond", "loose", "review"}
  /\ entries # {} => pc \in {"new", "filter"}
  /\ pc = "filter" => entries \subseteq readIds
  /\ \A e \in evidence : stream[e].ip \in IP
  /\ readIds \subseteq handled \cup dropped \cup entries \cup evidence
  /\ pc = "respond" => \A e \in evidence \ handled : stream[e].ip \in todo
  /\ pc \in {"loose", "review"} => evidence \subseteq handled
  /\ pc = "new" => readIds \subseteq handled \cup dropped

\* The invariant behind the two: together they are inductive.
CycleInv == CycleTypeOK /\ InHand /\ AckedAccounted /\ NothingForgotten

\* An instruction is put through by one cycle at most, whatever is replayed.
ActedOnce ==
  [][\A ip \in IP :
       pending'[ip] \cap acted # {} => pending[ip] = pending'[ip]]_vars

\* After a clear that no cycle carried old evidence or old campaigns across,
\* no campaign stands that has an entry from before it: neither entries that
\* are replayed after a crash nor a consumer that fell behind bring it back.
ClearedStaysCleared ==
  clear.done /\ ~clear.carried => \A ip \in IP : ~Stale(campaigns[ip])

\* Nothing old is left where a clear that removes the campaigns of K does not
\* reach: neither in the evidence nor in or on its way to another campaign.
ClearOf(K) ==
  /\ ~Stale(evidence)
  /\ \A ip \in IP \ K : ~Stale(campaigns[ip]) /\ ~Stale(held[ip])

\* Why that holds: campaigns consist of entries that exist, and from the scan of
\* a clear that nothing was carried across, only what it is about to delete, and
\* after it nothing, predates the watermark.
ClearInv ==
  /\ \A ip \in IP : campaigns[ip] \cup held[ip] \subseteq 1..Len(stream)
  /\ clear.done => clear.step = "idle"
  /\ clear.step = "del" /\ ~clear.carried => ClearOf(clear.keys)
  /\ clear.done /\ ~clear.carried => ClearOf({})

\* Instructions in hand and put through are among those read.
InstructionsRead == acted \subseteq 1..ovCursor /\ \A ip \in IP : pending[ip] \subseteq 1..ovCursor

\* Every entry that is appended is eventually read and acknowledged, or left
\* behind by a fault.
EntriesSettle ==
  \A e \in Ids :
    e <= Len(stream) ~> e <= cursor /\ (e \notin pel \/ e \in orphans)

\* What the runner says: evidence is acknowledged only once a cycle completes,
\* so that it is replayed rather than lost.
AckedWasHandled == Acked \subseteq handled
=============================================================================

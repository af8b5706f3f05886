------------------------ MODULE EvidenceCycle_proofs ------------------------
(* No evidence is lost or forgotten except where the invariants say so, for   *)
(* every set of addresses, every batch size and any number of entries,        *)
(* instructions and faults.                                                    *)
EXTENDS EvidenceCycle, TLAPS

\* The ids a read delivers are the ones after the cursor, and no others.
LEMMA Delivery ==
  ASSUME StreamsOK
  PROVE  /\ Smaller(cursor + Batch, Len(stream)) \in cursor..Len(stream)
         /\ 1..cursor \cup Undelivered
              = 1..Smaller(cursor + Batch, Len(stream))
         /\ cursor \in Nat /\ Len(stream) \in Nat /\ cursor <= Len(stream)
         /\ 1..cursor \subseteq Nat /\ 1..cursor \subseteq 1..Len(stream)
<1>1. Len(stream) \in Nat /\ cursor \in 0..Len(stream) /\ Batch \in Nat \ {0}
  BY CycleConstants DEF StreamsOK
<1>2. QED
  BY <1>1 DEF Smaller, Undelivered

\* Ids in the engine's hands are ids of the stream.
LEMMA IdFacts ==
  ASSUME CycleInv
  PROVE  /\ pel \subseteq Nat /\ readIds \subseteq Nat
         /\ entries \subseteq Nat /\ evidence \subseteq Nat
         /\ evidence \subseteq 1..Len(stream) /\ entries \subseteq 1..Len(stream)
         /\ StreamsOK /\ IdsOK /\ StateOK /\ HistoryOK
BY Delivery DEF CycleInv, CycleTypeOK, IdsOK

\* An engine that has read nothing.
LEMMA CycleStart == Init => CycleInv
<1> SUFFICES ASSUME Init PROVE CycleInv
  OBVIOUS
<1>1. StreamsOK
  BY DEF Init, StreamsOK
<1>2. IdsOK
  BY DEF Init, IdsOK
<1>3. StateOK
  <2>1. recovered \in BOOLEAN
    BY DEF Init
  <2>2. QED
    BY <2>1 DEF Init, StateOK, None, NotClearing
<1>4. HistoryOK
  BY DEF Init, HistoryOK
<1>5. InHand /\ AckedAccounted /\ NothingForgotten
  BY DEF Init, InHand, AckedAccounted, NothingForgotten, Acked
<1>6. QED
  BY <1>1, <1>2, <1>3, <1>4, <1>5 DEF CycleInv, CycleTypeOK

-----------------------------------------------------------------------------
(* The world around the cycle. *)

\* A new entry changes nothing about the ones already delivered.
LEMMA ArriveStep ==
  ASSUME CycleInv, NEW ip \in IP \cup {Clean}, Arrive(ip)
  PROVE  CycleInv'
<1> DEFINE new == [ip |-> ip, at |-> now]
<1>1. stream' = Append(stream, new) /\ new \in [ip : IP \cup {Clean}, at : Nat]
  BY IdFacts DEF Arrive, StateOK
<1>2. UNCHANGED <<now, cursor, pel, watermark, campaigns, overrides, ovCursor,
                  pc, memory, clear, history>>
  BY DEF Arrive
<1>3. \A e \in 1..Len(stream) : stream'[e] = stream[e]
  BY <1>1, IdFacts DEF StreamsOK
<1>4. StreamsOK'
  BY <1>1, <1>2, IdFacts DEF StreamsOK
<1>5. IdsOK' /\ HistoryOK'
  BY <1>2, IdFacts DEF IdsOK, HistoryOK, memory, history
<1>6. StateOK'
  BY <1>2, IdFacts DEF StateOK, memory
<1>7. \A e \in evidence : stream'[e] = stream[e]
  BY <1>3, IdFacts
<1>8. InHand'
  BY <1>2, <1>7 DEF CycleInv, InHand, memory, history
<1>9. AckedAccounted' /\ NothingForgotten'
  BY <1>2 DEF CycleInv, AckedAccounted, NothingForgotten, Acked, memory, history
<1>10. QED
  BY <1>4, <1>5, <1>6, <1>8, <1>9 DEF CycleInv, CycleTypeOK

\* A step that touches neither the evidence stream nor what the engine holds of
\* it keeps the parts of the invariant about it.
LEMMA ElsewhereStep ==
  ASSUME CycleInv, CycleTypeOK',
         UNCHANGED <<stream, cursor, pel, pc, readIds, entries, evidence, todo,
                     handled, dropped, orphans>>
  PROVE  CycleInv'
BY DEF CycleInv, InHand, AckedAccounted, NothingForgotten, Acked

\* The people and the clock around it.
LEMMA WorldStep ==
  ASSUME CycleInv, World PROVE CycleInv'
<1>1. ASSUME NEW ip \in IP, Instruct(ip) PROVE CycleInv'
  <2>1. overrides' \in Seq(IP) /\ Len(overrides') = Len(overrides) + 1
    BY <1>1, IdFacts DEF Instruct, StreamsOK
  <2>2. UNCHANGED <<now, stream, cursor, pel, watermark, campaigns, ovCursor, pc,
                    memory, clear, history>>
    BY <1>1 DEF Instruct
  <2>3. StreamsOK'
    BY <2>1, <2>2, IdFacts DEF StreamsOK
  <2>4. IdsOK' /\ HistoryOK'
    BY <2>2, IdFacts DEF IdsOK, HistoryOK, memory, history
  <2>5. StateOK'
    BY <2>2, IdFacts DEF StateOK, memory
  <2>6. QED
    BY <2>2, <2>3, <2>4, <2>5, ElsewhereStep DEF CycleTypeOK, memory, history
<1>2. CASE Tick
  <2>1. now' = now + 1 /\ UNCHANGED <<redis, pc, memory, clear, history>>
    BY <1>2 DEF Tick
  <2>2. StreamsOK' /\ IdsOK' /\ HistoryOK'
    BY <2>1, IdFacts DEF StreamsOK, IdsOK, HistoryOK, memory, history, redis
  <2>3. now' \in Nat
    BY <2>1, IdFacts DEF StateOK
  <2>4. StateOK'
    BY <2>1, <2>3, IdFacts DEF StateOK, memory, redis
  <2>5. QED
    BY <2>1, <2>2, <2>4, ElsewhereStep DEF CycleTypeOK, memory, history, redis
<1>3. QED
  BY <1>1, <1>2, ArriveStep DEF World

\* The console's clear touches the watermark and the campaigns only.
LEMMA ClearingStep ==
  ASSUME CycleInv, Clearing \/ ClearFails PROVE CycleInv'
<1>1. UNCHANGED <<now, stream, cursor, pel, overrides, ovCursor, pc, memory,
                  handled, dropped, orphans, acted>>
  BY DEF Clearing, ClearMark, ClearScan, ClearDel, ClearFails, redis, history
<1>2. StreamsOK' /\ IdsOK'
  BY <1>1, IdFacts DEF StreamsOK, IdsOK, memory
<1>3. faults' \in Nat
  BY IdFacts DEF Clearing, ClearMark, ClearScan, ClearDel, ClearFails, Fault,
       history, HistoryOK
<1>4. HistoryOK'
  BY <1>1, <1>3, IdFacts DEF HistoryOK
<1>5. watermark' \in Nat /\ campaigns' \in [IP -> SUBSET Nat]
  BY IdFacts DEF Clearing, ClearMark, ClearScan, ClearDel, ClearFails, redis,
       StateOK
<1>6. Carrying \in BOOLEAN
  BY DEF Carrying, Stale
<1> DEFINE Clears == [step : {"idle", "scan", "del"}, keys : SUBSET IP,
                      done : BOOLEAN, carried : BOOLEAN]
<1>7. clear' \in Clears
  <2>0. clear \in Clears
    BY IdFacts DEF StateOK
  <2>1. CASE ClearMark
    BY <2>1 DEF ClearMark
  <2>2. CASE ClearScan
    <3> DEFINE standing == {ip \in IP : campaigns[ip] # {}}
    <3>1. clear' = [clear EXCEPT !.step = "del", !.carried = Carrying,
                                 !.keys = standing]
      BY <2>2 DEF ClearScan
    <3>2. standing \in SUBSET IP
      OBVIOUS
    <3> HIDE DEF standing
    <3>3. QED
      BY <1>6, <2>0, <3>1, <3>2
  <2>3. CASE ClearDel
    <3>1. (clear.carried \/ Carrying) \in BOOLEAN
      OBVIOUS
    <3>2. clear' = [clear EXCEPT !.step = "idle", !.done = TRUE,
                                 !.carried = clear.carried \/ Carrying]
      BY <2>3 DEF ClearDel
    <3>3. QED
      BY <2>0, <3>1, <3>2
  <2>4. CASE ClearFails
    BY <2>4 DEF ClearFails, NotClearing
  <2>5. QED
    BY <2>1, <2>2, <2>3, <2>4 DEF Clearing
<1>8. StateOK'
  BY <1>1, <1>5, <1>7, IdFacts DEF StateOK, memory
<1>9. QED
  BY <1>1, <1>2, <1>4, <1>8, ElsewhereStep DEF CycleTypeOK, memory

-----------------------------------------------------------------------------
(* The steps between two cycles or before a fetch. *)

\* Going on before anything was fetched.
LEMMA EarlyStep ==
  ASSUME CycleInv, Begin \/ ReadOverrides PROVE CycleInv'
<1>1. UNCHANGED <<now, stream, cursor, pel, watermark, campaigns, overrides,
                  recovered, readIds, entries, evidence, held, todo, clear,
                  history>>
  BY DEF Begin, ReadOverrides, redis, memory
<1>2. /\ pc \in {"sleep", "overrides"}
      /\ pc' \in {"overrides", "pending", "new"}
  BY DEF Begin, ReadOverrides
<1>3. ovCursor' \in 0..Len(overrides) /\ pending' \in [IP -> SUBSET Nat]
  <2>1. /\ Len(overrides) \in Nat /\ ovCursor \in 0..Len(overrides)
        /\ OverrideBatch \in Nat \ {0} /\ pending \in [IP -> SUBSET Nat]
    BY IdFacts, CycleConstants DEF StreamsOK, StateOK
  <2>2. CASE Begin
    BY <2>1, <2>2 DEF Begin, redis, memory
  <2>3. CASE ReadOverrides
    <3>1. ovCursor' \in 0..Len(overrides)
      BY <2>1, <2>3 DEF ReadOverrides, Smaller
    <3>2. NextOverrides \subseteq Nat
      BY <2>1 DEF NextOverrides, Smaller
    <3>3. QED
      BY <2>3, <3>1, <3>2 DEF ReadOverrides, Newest
  <2>4. QED
    BY <2>2, <2>3
<1>4. StreamsOK' /\ IdsOK' /\ HistoryOK'
  BY <1>1, <1>3, IdFacts DEF StreamsOK, IdsOK, HistoryOK, history
<1>5. StateOK'
  BY <1>1, <1>2, <1>3, IdFacts DEF StateOK
<1>6. QED
  BY <1>1, <1>2, <1>4, <1>5 DEF history, CycleInv, CycleTypeOK, InHand,
       AckedAccounted, NothingForgotten, Acked

\* Reclaiming: what is reclaimed is in hand, the rest stays left behind.
LEMMA FetchPendingStep ==
  ASSUME CycleInv, FetchPending PROVE CycleInv'
<1>1. Oldest(pel, Batch) \subseteq pel
  BY DEF Oldest
<1>2. /\ pc = "pending" /\ pc' = "new" /\ entries' = Oldest(pel, Batch)
      /\ recovered' = TRUE /\ orphans' = orphans \ Oldest(pel, Batch)
      /\ UNCHANGED <<now, redis, readIds, evidence, pending, held, todo, clear,
                     handled, dropped, acted, faults>>
  BY DEF FetchPending
<1>3. StreamsOK' /\ IdsOK' /\ HistoryOK'
  BY <1>1, <1>2, IdFacts DEF StreamsOK, IdsOK, HistoryOK, redis
<1>4. recovered' \in BOOLEAN
  BY <1>2
<1>5. StateOK'
  BY <1>2, <1>4, IdFacts DEF StateOK, redis
<1>6. InHand'
  BY <1>1, <1>2 DEF CycleInv, InHand, redis
<1>7. entries = {}
  BY <1>2 DEF CycleInv, InHand
<1>8. AckedAccounted' /\ NothingForgotten'
  BY <1>1, <1>2, <1>7 DEF CycleInv, AckedAccounted, NothingForgotten, Acked, redis
<1>9. QED
  BY <1>3, <1>5, <1>6, <1>8 DEF CycleInv, CycleTypeOK

\* Reading new entries: all of them become pending and are noted for the ack.
LEMMA FetchNewStep ==
  ASSUME CycleInv, FetchNew PROVE CycleInv'
<1> DEFINE c == Smaller(cursor + Batch, Len(stream))
<1>1. /\ c \in cursor..Len(stream) /\ cursor \in Nat /\ Len(stream) \in Nat
      /\ 1..cursor \cup Undelivered = 1..c
  BY Delivery, IdFacts
<1>2. /\ cursor' = c /\ pel' = pel \cup Undelivered
      /\ readIds' = readIds \cup entries \cup Undelivered
      /\ entries' = entries \cup Undelivered /\ pc' = "filter" /\ pc = "new"
  BY DEF FetchNew
<1>3. UNCHANGED <<now, stream, watermark, campaigns, overrides, ovCursor,
                  recovered, evidence, pending, held, todo, clear, history>>
  BY DEF FetchNew
<1> HIDE DEF c
<1>4. StreamsOK'
  BY <1>1, <1>2, <1>3, IdFacts DEF StreamsOK
<1>5. IdsOK'
  BY <1>1, <1>2, <1>3, IdFacts DEF IdsOK
<1>6. StateOK' /\ HistoryOK'
  BY <1>2, <1>3, IdFacts DEF StateOK, HistoryOK, history
<1>7. InHand'
  BY <1>2, <1>3 DEF CycleInv, InHand, history
<1>8. AckedAccounted'
  BY <1>1, <1>2, <1>3 DEF CycleInv, AckedAccounted, Acked, history
<1>9. NothingForgotten'
  BY <1>2, <1>3 DEF CycleInv, NothingForgotten, history
<1>10. QED
  BY <1>4, <1>5, <1>6, <1>7, <1>8, <1>9 DEF CycleInv, CycleTypeOK

\* Filtering: what becomes evidence names an address, the rest is done with.
LEMMA FilterStep ==
  ASSUME CycleInv, Filter PROVE CycleInv'
<1> DEFINE kept == {e \in entries : stream[e].ip # Clean /\ ~Old(e)}
<1>1. /\ pc = "filter" /\ pc' = "merge" /\ evidence' = kept /\ entries' = {}
      /\ handled' = handled \cup (entries \ kept)
  BY DEF Filter
<1>2. UNCHANGED <<now, redis, recovered, readIds, pending, held, todo, clear,
                  dropped, orphans, acted, faults>>
  BY DEF Filter
<1>3. \A e \in kept : stream[e].ip \in IP
  <2> DEFINE Logged == [ip : IP \cup {Clean}, at : Nat]
  <2>1. stream \in Seq(Logged)
    BY IdFacts DEF StreamsOK
  <2>2. \A e \in 1..Len(stream) : stream[e] \in Logged
    <3> HIDE DEF Logged
    <3> QED BY <2>1
  <2>3. \A e \in entries : stream[e].ip \in IP \cup {Clean}
    BY <2>2, IdFacts
  <2>4. QED
    BY <2>3
<1>4. kept \subseteq entries
  OBVIOUS
<1> HIDE DEF kept
<1>5. StreamsOK' /\ IdsOK' /\ HistoryOK'
  BY <1>1, <1>2, <1>4, IdFacts DEF StreamsOK, IdsOK, HistoryOK, redis
<1>6. StateOK'
  BY <1>1, <1>2, IdFacts DEF StateOK, redis
<1>7. InHand'
  BY <1>1, <1>2, <1>3, <1>4 DEF CycleInv, InHand, redis
<1>8. AckedAccounted' /\ NothingForgotten'
  BY <1>1, <1>2 DEF CycleInv, InHand, AckedAccounted, NothingForgotten, Acked,
       redis
<1>9. QED
  BY <1>5, <1>6, <1>7, <1>8 DEF CycleInv, CycleTypeOK

-----------------------------------------------------------------------------
(* The steps over the campaigns. *)

\* The addresses the evidence is about.
LEMMA CoveredFacts ==
  ASSUME CycleInv
  PROVE  /\ Covered \subseteq IP /\ Loose \subseteq IP
         /\ \A e \in evidence : stream[e].ip \in Covered
         /\ \A ip \in IP : About(ip) \subseteq Nat
BY IdFacts DEF Covered, Loose, About, CycleInv, InHand

\* Merging starts the loop over every address in the evidence.
LEMMA MergeStep ==
  ASSUME CycleInv, Merge PROVE CycleInv'
<1>1. UNCHANGED <<now, redis, recovered, readIds, entries, evidence, pending,
                  clear, history>> /\ pc = "merge"
  BY DEF Merge
<1>2. \/ pc' = "loose" /\ todo' = Loose /\ Covered = {}
      \/ pc' = "save" /\ todo' = Covered
  BY DEF Merge
<1>3. held' \in [IP -> SUBSET Nat]
  <2>1. \A ip \in IP : campaigns[ip] \subseteq Nat
    BY IdFacts DEF StateOK
  <2>2. QED
    BY <2>1, CoveredFacts DEF Merge
<1>4. StreamsOK' /\ IdsOK' /\ HistoryOK'
  BY <1>1, IdFacts DEF StreamsOK, IdsOK, HistoryOK, redis, history
<1>5. StateOK'
  BY <1>1, <1>2, <1>3, CoveredFacts, IdFacts DEF StateOK, redis
<1>6. InHand'
  BY <1>1, <1>2, CoveredFacts DEF CycleInv, InHand, redis, history
<1>7. AckedAccounted' /\ NothingForgotten'
  BY <1>1 DEF CycleInv, AckedAccounted, NothingForgotten, Acked, redis, history
<1>8. QED
  BY <1>4, <1>5, <1>6, <1>7 DEF CycleInv, CycleTypeOK

\* Saving a campaign; after the last one the response loops over all of them.
LEMMA SaveStep ==
  ASSUME CycleInv, NEW ip \in IP, Save(ip) PROVE CycleInv'
<1>1. UNCHANGED <<now, stream, cursor, pel, watermark, overrides, ovCursor,
                  recovered, readIds, entries, evidence, pending, held, clear,
                  history>> /\ pc = "save"
  BY DEF Save
<1>2. \/ pc' = "respond" /\ todo' = Covered
      \/ pc' = "save" /\ todo' = todo \ {ip}
  BY DEF Save
<1>3. campaigns' \in [IP -> SUBSET Nat]
  BY IdFacts DEF Save, StateOK
<1>4. StreamsOK' /\ IdsOK' /\ HistoryOK'
  BY <1>1, IdFacts DEF StreamsOK, IdsOK, HistoryOK, history
<1>5. StateOK'
  BY <1>1, <1>2, <1>3, CoveredFacts, IdFacts DEF StateOK
<1>6. InHand'
  BY <1>1, <1>2, CoveredFacts DEF CycleInv, InHand, history
<1>7. AckedAccounted' /\ NothingForgotten'
  BY <1>1 DEF CycleInv, AckedAccounted, NothingForgotten, Acked, history
<1>8. QED
  BY <1>4, <1>5, <1>6, <1>7 DEF CycleInv, CycleTypeOK

\* Responding to one campaign takes the evidence about its address into account.
LEMMA RespondStep ==
  ASSUME CycleInv, NEW ip \in IP, Respond(ip) PROVE CycleInv'
<1>1. UNCHANGED <<now, stream, cursor, pel, watermark, overrides, ovCursor,
                  recovered, readIds, entries, evidence, pending, held, clear,
                  dropped, orphans, faults>> /\ pc = "respond" /\ ip \in todo
  BY DEF Respond
<1>2. handled' = handled \cup About(ip) /\ acted' = acted \cup pending[ip]
  BY DEF Respond
<1>3. \/ pc' = "loose" /\ todo' = Loose /\ todo = {ip}
      \/ pc' = "respond" /\ todo' = todo \ {ip}
  BY DEF Respond
<1>4. campaigns' \in [IP -> SUBSET Nat]
  BY IdFacts DEF Respond, StateOK
<1>5. StreamsOK' /\ IdsOK'
  BY <1>1, IdFacts DEF StreamsOK, IdsOK
<1>6. HistoryOK'
  <2>1. pending[ip] \subseteq Nat
    BY IdFacts DEF StateOK
  <2>2. QED
    BY <1>1, <1>2, <2>1, CoveredFacts, IdFacts DEF HistoryOK
<1>7. StateOK'
  BY <1>1, <1>3, <1>4, CoveredFacts, IdFacts DEF StateOK
<1>8. InHand'
  BY <1>1, <1>2, <1>3 DEF CycleInv, InHand, About
<1>9. AckedAccounted' /\ NothingForgotten'
  BY <1>1, <1>2 DEF CycleInv, AckedAccounted, NothingForgotten, Acked
<1>10. QED
  BY <1>5, <1>6, <1>7, <1>8, <1>9 DEF CycleInv, CycleTypeOK

\* The loose instructions and the review of the quiet campaigns.
LEMMA LateStep ==
  ASSUME CycleInv,
         Review \/ \E ip \in IP : Standalone(ip) \/ SaveReviewed(ip)
  PROVE  CycleInv'
<1>1. /\ UNCHANGED <<now, stream, cursor, pel, watermark, overrides, ovCursor,
                     recovered, readIds, entries, evidence, pending, clear,
                     handled, dropped, orphans, faults>>
      /\ pc \in {"loose", "review"} /\ pc' \in {"loose", "review"}
  BY DEF Review, Standalone, SaveReviewed, redis, history
<1>2. acted' \subseteq Nat
  BY IdFacts DEF Review, Standalone, SaveReviewed, history, HistoryOK, StateOK
<1>3. campaigns' \in [IP -> SUBSET Nat] /\ held' \in [IP -> SUBSET Nat]
  BY IdFacts DEF Review, Standalone, SaveReviewed, redis, StateOK
<1>4. todo' \subseteq IP
  BY IdFacts DEF Review, Standalone, SaveReviewed, StateOK
<1>5. StreamsOK' /\ IdsOK' /\ HistoryOK'
  BY <1>1, <1>2, IdFacts DEF StreamsOK, IdsOK, HistoryOK
<1>6. StateOK'
  BY <1>1, <1>3, <1>4, IdFacts DEF StateOK
<1>7. InHand' /\ AckedAccounted' /\ NothingForgotten'
  BY <1>1 DEF CycleInv, InHand, AckedAccounted, NothingForgotten, Acked
<1>8. QED
  BY <1>5, <1>6, <1>7 DEF CycleInv, CycleTypeOK

-----------------------------------------------------------------------------
(* The end of a cycle, and what goes wrong. *)

\* A process between cycles has the type of one.
LEMMA NoLocalsType ==
  ASSUME CycleInv, NoLocals, recovered' \in BOOLEAN,
         UNCHANGED <<now, watermark, campaigns, clear>>
  PROVE  StateOK'
BY IdFacts DEF NoLocals, None, StateOK

\* Acknowledging, with or without the reply: everything read has been taken
\* into account or dropped.
LEMMA AckStep ==
  ASSUME CycleInv, Ack \/ AckReplyLost PROVE CycleInv'
<1>1. /\ UNCHANGED <<now, stream, cursor, watermark, campaigns, overrides,
                     ovCursor, recovered, clear, handled, dropped, orphans,
                     acted>>
      /\ pc = "review" /\ pel' = pel \ readIds /\ NoLocals
      /\ readIds' \in {{}, readIds}
  BY DEF Ack, AckReplyLost, history
<1>2. faults' \in Nat
  BY IdFacts DEF Ack, AckReplyLost, Fault, history, HistoryOK
<1>3. StreamsOK' /\ IdsOK' /\ HistoryOK'
  BY <1>1, <1>2, IdFacts DEF StreamsOK, IdsOK, HistoryOK, NoLocals
<1>4. StateOK'
  BY <1>1, NoLocalsType, IdFacts DEF StateOK
<1>5. readIds \subseteq handled \cup dropped /\ entries = {}
  BY <1>1 DEF CycleInv, InHand
<1>6. InHand' /\ AckedAccounted' /\ NothingForgotten'
  BY <1>1, <1>5 DEF NoLocals, CycleInv, InHand, AckedAccounted,
       NothingForgotten, Acked
<1>7. QED
  BY <1>3, <1>4, <1>6 DEF CycleInv, CycleTypeOK

\* A crash leaves every pending entry behind.
LEMMA CrashStep ==
  ASSUME CycleInv, Crash PROVE CycleInv'
<1>1. /\ NoLocals /\ recovered' = FALSE /\ readIds' = {} /\ orphans' = pel
      /\ faults' = faults + 1
      /\ UNCHANGED <<now, redis, clear, handled, dropped, acted>>
  BY DEF Crash, Fault
<1>2. StreamsOK' /\ IdsOK' /\ HistoryOK'
  BY <1>1, IdFacts DEF StreamsOK, IdsOK, HistoryOK, NoLocals, redis
<1>3. recovered' \in BOOLEAN
  BY <1>1
<1>4. StateOK'
  BY <1>1, <1>3, NoLocalsType DEF redis
<1>5. InHand' /\ AckedAccounted' /\ NothingForgotten'
  BY <1>1 DEF NoLocals, redis, CycleInv, InHand, AckedAccounted,
       NothingForgotten, Acked
<1>6. QED
  BY <1>2, <1>4, <1>5 DEF CycleInv, CycleTypeOK

\* A step that raises drops what was in hand.
LEMMA RaiseStep ==
  ASSUME CycleInv, Raise PROVE CycleInv'
<1>1. /\ NoLocals /\ faults' = faults + 1
      /\ dropped' = dropped \cup (readIds \ handled)
      /\ orphans' = orphans \cup ((entries \cap pel) \ readIds)
      /\ UNCHANGED <<now, redis, recovered, readIds, clear, handled, acted>>
  BY DEF Raise, Fault
<1>2. StreamsOK' /\ IdsOK' /\ HistoryOK'
  BY <1>1, IdFacts DEF StreamsOK, IdsOK, HistoryOK, NoLocals, redis
<1>3. recovered' \in BOOLEAN
  BY <1>1, IdFacts DEF StateOK
<1>4. StateOK'
  BY <1>1, <1>3, NoLocalsType DEF redis
<1>5. InHand' /\ AckedAccounted' /\ NothingForgotten'
  BY <1>1 DEF NoLocals, redis, CycleInv, InHand, AckedAccounted,
       NothingForgotten, Acked
<1>6. QED
  BY <1>2, <1>4, <1>5 DEF CycleInv, CycleTypeOK

\* A read whose reply is lost leaves what it delivered behind.
LEMMA ReadReplyLostStep ==
  ASSUME CycleInv, ReadReplyLost PROVE CycleInv'
<1> DEFINE c == Smaller(cursor + Batch, Len(stream))
<1>1. /\ c \in cursor..Len(stream) /\ cursor \in Nat /\ Len(stream) \in Nat
      /\ 1..cursor \cup Undelivered = 1..c
  BY Delivery, IdFacts
<1>2. /\ cursor' = c /\ pel' = pel \cup Undelivered
      /\ orphans' = orphans \cup ((entries \cap pel) \ readIds) \cup Undelivered
      /\ dropped' = dropped \cup (readIds \ handled)
      /\ NoLocals /\ faults' = faults + 1
      /\ UNCHANGED <<now, stream, watermark, campaigns, overrides, ovCursor,
                     recovered, readIds, clear, handled, acted>>
  BY DEF ReadReplyLost, Fault
<1> HIDE DEF c
<1>3. StreamsOK'
  BY <1>1, <1>2, IdFacts DEF StreamsOK
<1>4. IdsOK'
  BY <1>1, <1>2, IdFacts DEF IdsOK, NoLocals
<1>5. HistoryOK'
  BY <1>1, <1>2, IdFacts DEF HistoryOK
<1>6. recovered' \in BOOLEAN
  BY <1>2, IdFacts DEF StateOK
<1>7. StateOK'
  BY <1>2, <1>6, NoLocalsType
<1>8. InHand'
  BY <1>2 DEF CycleInv, InHand, NoLocals
<1>9. AckedAccounted'
  BY <1>1, <1>2 DEF CycleInv, AckedAccounted, Acked
<1>10. NothingForgotten'
  BY <1>2 DEF CycleInv, NothingForgotten, NoLocals
<1>11. QED
  BY <1>3, <1>4, <1>5, <1>7, <1>8, <1>9, <1>10 DEF CycleInv, CycleTypeOK

-----------------------------------------------------------------------------
\* Every step keeps CycleInv.
LEMMA CycleStep == CycleInv /\ [Next]_vars => CycleInv'
<1> SUFFICES ASSUME CycleInv, [Next]_vars PROVE CycleInv'
  OBVIOUS
<1>1. CASE UNCHANGED vars
  <2>1. CycleTypeOK'
    BY <1>1, IdFacts DEF vars, redis, memory, history, CycleTypeOK, StreamsOK,
         IdsOK, StateOK, HistoryOK
  <2>2. QED
    BY <1>1, <2>1, ElsewhereStep DEF vars, redis, memory, history
<1>2. CASE Cycle
  BY <1>2, EarlyStep, FetchPendingStep, FetchNewStep, FilterStep, MergeStep,
     SaveStep, RespondStep, LateStep, AckStep DEF Cycle
<1>3. CASE Clearing \/ ClearFails
  BY <1>3, ClearingStep
<1>4. CASE World
  BY <1>4, WorldStep
<1>5. CASE Crash \/ Raise \/ ReadReplyLost \/ AckReplyLost
  BY <1>5, CrashStep, RaiseStep, ReadReplyLostStep, AckStep
<1>6. QED
  BY <1>1, <1>2, <1>3, <1>4, <1>5 DEF Next

\* CycleInv holds at all times.
THEOREM CycleAlways == Spec => []CycleInv
BY CycleStart, CycleStep, PTL DEF Spec

\* The ack at the end of a cycle acknowledges only what a cycle took into
\* account or what a cycle that raised had in hand.
THEOREM EvidenceAccounted == Spec => []AckedAccounted
<1>1. CycleInv => AckedAccounted
  BY DEF CycleInv
<1>2. QED
  BY <1>1, CycleAlways, PTL

\* The consumer never forgets an entry it has read: it is noted for the ack or a
\* fault left it behind.
THEOREM EvidenceNotForgotten == Spec => []NothingForgotten
<1>1. CycleInv => NothingForgotten
  BY DEF CycleInv
<1>2. QED
  BY <1>1, CycleAlways, PTL

-----------------------------------------------------------------------------
(* The console's clear. *)

\* A step that only moves entries along, from the evidence and the campaigns to
\* the campaigns in memory and from there to the keys, brings nothing old back.
LEMMA MovesAlong ==
  ASSUME CycleInv, ClearInv, UNCHANGED <<stream, watermark, clear>>,
         \A e \in evidence' : e \in evidence \/ ~Old(e),
         \A ip \in IP : held'[ip] \subseteq held[ip] \cup campaigns[ip] \cup About(ip),
         \A ip \in IP : campaigns'[ip] \subseteq campaigns[ip] \cup held[ip]
  PROVE  ClearInv'
<1>1. \A ip \in IP : About(ip) \subseteq evidence /\ About(ip) \subseteq 1..Len(stream)
  BY IdFacts DEF About
<1>2. \A ip \in IP : campaigns'[ip] \cup held'[ip] \subseteq 1..Len(stream)
  BY <1>1 DEF ClearInv
<1>3. ASSUME NEW K, ClearOf(K) PROVE ClearOf(K)'
  BY <1>1, <1>3 DEF ClearOf, Stale, Old
<1>4. QED
  BY <1>2, <1>3 DEF ClearInv

\* A new entry leaves every campaign as it was.
LEMMA ArriveKeepsClear ==
  ASSUME CycleInv, ClearInv, NEW ip \in IP \cup {Clean}, Arrive(ip)
  PROVE  ClearInv'
<1>1. /\ stream' = Append(stream, [ip |-> ip, at |-> now])
      /\ UNCHANGED <<watermark, clear, campaigns, held, evidence>>
  BY DEF Arrive, memory
<1>2. /\ Len(stream) \in Nat /\ Len(stream') = Len(stream) + 1
      /\ \A e \in 1..Len(stream) : stream'[e] = stream[e]
  BY <1>1, IdFacts DEF StreamsOK
<1>3. \A e \in 1..Len(stream) : Old(e)' <=> Old(e)
  BY <1>1, <1>2 DEF Old
<1>4. /\ evidence \subseteq 1..Len(stream)
      /\ \A a \in IP : campaigns[a] \subseteq 1..Len(stream) /\ held[a] \subseteq 1..Len(stream)
  BY IdFacts DEF ClearInv
<1>5. ASSUME NEW K, ClearOf(K) PROVE ClearOf(K)'
  BY <1>1, <1>3, <1>4, <1>5 DEF ClearOf, Stale
<1>6. \A a \in IP : campaigns'[a] \cup held'[a] \subseteq 1..Len(stream')
  BY <1>1, <1>2, <1>4
<1>7. QED
  BY <1>1, <1>5, <1>6 DEF ClearInv

\* The cycle, a fault, and the rest of the world only move entries along.
LEMMA CycleKeepsClear ==
  ASSUME CycleInv, ClearInv,
         \/ Cycle \/ Crash \/ Raise \/ ReadReplyLost \/ AckReplyLost \/ Tick
         \/ \E ip \in IP : Instruct(ip)
         \/ UNCHANGED vars
  PROVE  ClearInv'
<1>1. /\ campaigns \in [IP -> SUBSET Nat] /\ held \in [IP -> SUBSET Nat]
  BY IdFacts DEF StateOK
<1>2. CASE Merge
  <2>1. held' = [ip \in IP |-> IF ip \in Covered THEN campaigns[ip] \cup About(ip) ELSE {}]
    BY <1>2 DEF Merge
  <2>2. UNCHANGED <<stream, watermark, clear, evidence, campaigns>>
    BY <1>2 DEF Merge, redis
  <2>3. QED
    BY <2>1, <2>2, MovesAlong
<1>3. CASE Review
  <2>1. held' = [ip \in IP |-> IF ip \in Covered THEN {} ELSE campaigns[ip]]
    BY <1>3 DEF Review
  <2>2. UNCHANGED <<stream, watermark, clear, evidence, campaigns>>
    BY <1>3 DEF Review, redis
  <2>3. QED
    BY <2>1, <2>2, MovesAlong
<1>4. ASSUME NEW ip \in IP, Save(ip) \/ Respond(ip) \/ SaveReviewed(ip) PROVE ClearInv'
  <2>1. campaigns' = [campaigns EXCEPT ![ip] = held[ip]]
    BY <1>4 DEF Save, Respond, SaveReviewed
  <2>2. UNCHANGED <<stream, watermark, clear, evidence, held>>
    BY <1>4 DEF Save, Respond, SaveReviewed
  <2>3. QED
    BY <1>1, <2>1, <2>2, MovesAlong
<1>5. CASE Filter
  <2>1. \A e \in evidence' : ~Old(e)
    BY <1>5 DEF Filter
  <2>2. UNCHANGED <<stream, watermark, clear, held, campaigns>>
    BY <1>5 DEF Filter, redis
  <2>3. QED
    BY <2>1, <2>2, MovesAlong
<1>6. CASE Crash \/ Raise \/ ReadReplyLost \/ AckReplyLost \/ Ack
  <2>1. NoLocals /\ UNCHANGED <<stream, watermark, clear, campaigns>>
    BY <1>6 DEF Crash, Raise, ReadReplyLost, AckReplyLost, Ack, redis
  <2>2. evidence' = {} /\ \A ip \in IP : held'[ip] = {}
    BY <2>1 DEF NoLocals, None
  <2>3. QED
    BY <2>1, <2>2, MovesAlong
<1>7. CASE \/ Begin \/ ReadOverrides \/ FetchPending \/ FetchNew \/ Tick
           \/ \E ip \in IP : Standalone(ip) \/ Instruct(ip)
           \/ UNCHANGED vars
  <2>1. UNCHANGED <<stream, watermark, clear, evidence, held, campaigns>>
    BY <1>7 DEF Begin, ReadOverrides, FetchPending, FetchNew, Standalone, Tick, Instruct,
         vars, redis, memory
  <2>2. QED
    BY <2>1, MovesAlong
<1>8. QED
  BY <1>2, <1>3, <1>4, <1>5, <1>6, <1>7 DEF Cycle

\* The steps of the clear itself: the scan finds every campaign there is, and the
\* deletion leaves none of those it found.
LEMMA ClearingKeepsClear ==
  ASSUME CycleInv, ClearInv, Clearing \/ ClearFails
  PROVE  ClearInv'
<1> DEFINE Clears == [step : {"idle", "scan", "del"}, keys : SUBSET IP,
                      done : BOOLEAN, carried : BOOLEAN]
<1>1. clear \in Clears /\ campaigns \in [IP -> SUBSET Nat]
  BY IdFacts DEF StateOK
<1>2. UNCHANGED <<stream, evidence, held>>
  BY DEF Clearing, ClearMark, ClearScan, ClearDel, ClearFails, redis, memory
<1>3. \A ip \in IP : campaigns'[ip] \subseteq campaigns[ip]
  BY <1>1 DEF Clearing, ClearMark, ClearScan, ClearDel, ClearFails, redis
<1>4. \A ip \in IP : campaigns'[ip] \cup held'[ip] \subseteq 1..Len(stream')
  BY <1>2, <1>3 DEF ClearInv
<1>5. CASE ClearMark \/ ClearFails
  <2>1. clear'.step # "del" /\ ~clear'.done
    BY <1>5 DEF ClearMark, ClearFails, NotClearing
  <2>2. QED
    BY <1>4, <2>1 DEF ClearInv
<1>6. CASE ClearScan
  <2> DEFINE standing == {ip \in IP : campaigns[ip] # {}}
  <2>1. clear' = [clear EXCEPT !.step = "del", !.carried = Carrying, !.keys = standing]
    BY <1>6 DEF ClearScan
  <2>2. UNCHANGED <<watermark, campaigns>> /\ clear.step = "scan"
    BY <1>6 DEF ClearScan, redis
  <2>3. ~clear.done
    BY <2>2 DEF ClearInv
  <2>4. clear'.step = "del" /\ clear'.keys = standing /\ ~clear'.done
    BY <1>1, <2>1, <2>3
  <2>5. clear'.carried <=> Carrying
    BY <1>1, <2>1
  <2>6. ~Carrying => ClearOf(clear.keys)'
    BY <1>2, <2>2, <2>4 DEF Carrying, ClearOf, Stale, Old
  <2>7. QED
    BY <1>4, <2>4, <2>5, <2>6 DEF ClearInv
<1>7. CASE ClearDel
  <2>1. clear' = [clear EXCEPT !.step = "idle", !.done = TRUE,
                               !.carried = clear.carried \/ Carrying]
    BY <1>7 DEF ClearDel
  <2>2. /\ campaigns' = [ip \in IP |-> IF ip \in clear.keys THEN {} ELSE campaigns[ip]]
        /\ UNCHANGED watermark /\ clear.step = "del"
    BY <1>7 DEF ClearDel
  <2>3. clear'.step = "idle"
    BY <1>1, <2>1
  <2>4. clear'.carried <=> clear.carried \/ Carrying
    BY <1>1, <2>1
  <2>5. ~clear.carried /\ ~Carrying => ClearOf({})'
    <3>1. SUFFICES ASSUME ~clear.carried, ~Carrying PROVE ClearOf({})'
      OBVIOUS
    <3>2. ClearOf(clear.keys)
      BY <2>2, <3>1 DEF ClearInv
    <3>3. QED
      BY <1>2, <2>2, <3>1, <3>2 DEF ClearOf, Carrying, Stale, Old
  <2>6. QED
    BY <1>4, <2>3, <2>4, <2>5 DEF ClearInv
<1>8. QED
  BY <1>5, <1>6, <1>7 DEF Clearing

\* A clear that no cycle carried old evidence or campaigns across stays cleared:
\* neither a replay after a crash nor a consumer that fell behind undoes it.
THEOREM ClearsLast == Spec => []ClearedStaysCleared
<1>1. Init => ClearInv
  BY DEF Init, None, NotClearing, ClearInv
<1>2. CycleInv /\ ClearInv /\ [Next]_vars => ClearInv'
  BY ArriveKeepsClear, CycleKeepsClear, ClearingKeepsClear DEF Next, World
<1>3. ClearInv => ClearedStaysCleared
  BY DEF ClearInv, ClearedStaysCleared, ClearOf
<1>4. QED
  BY <1>1, <1>2, <1>3, CycleAlways, PTL DEF Spec

-----------------------------------------------------------------------------
(* A person's instructions. *)

\* Instructions are read in order, each once, and put through as they are in hand.
LEMMA InstructionsStep ==
  ASSUME CycleInv, InstructionsRead, [Next]_vars
  PROVE  /\ InstructionsRead'
         /\ \A ip \in IP : pending'[ip] \cap acted # {} => pending[ip] = pending'[ip]
<1>1. /\ Len(overrides) \in Nat /\ ovCursor \in 0..Len(overrides)
      /\ OverrideBatch \in Nat \ {0} /\ pending \in [IP -> SUBSET Nat]
  BY IdFacts, CycleConstants DEF StreamsOK, StateOK
<1>2. CASE ReadOverrides
  <2>1. /\ ovCursor' = Smaller(ovCursor + OverrideBatch, Len(overrides))
        /\ pending' = [ip \in IP |-> Newest(NextOverrides, ip)]
        /\ acted' = acted
    BY <1>2 DEF ReadOverrides, history
  <2>2. ovCursor' \in Nat /\ ovCursor <= ovCursor' /\ NextOverrides = (ovCursor + 1)..ovCursor'
    BY <1>1, <2>1 DEF Smaller, NextOverrides
  <2>3. \A ip \in IP : pending'[ip] \subseteq (ovCursor + 1)..ovCursor'
    BY <2>1, <2>2 DEF Newest
  <2>4. QED
    BY <1>1, <2>1, <2>2, <2>3 DEF InstructionsRead
<1>3. CASE \E ip \in IP : Respond(ip) \/ Standalone(ip)
  BY <1>3 DEF Respond, Standalone, InstructionsRead, redis
<1>4. CASE Ack \/ Crash \/ Raise \/ ReadReplyLost \/ AckReplyLost
  <2>1. NoLocals /\ UNCHANGED <<ovCursor, acted>>
    BY <1>4 DEF Ack, Crash, Raise, ReadReplyLost, AckReplyLost, redis, history
  <2>2. QED
    BY <2>1 DEF NoLocals, None, InstructionsRead
<1>5. CASE \/ Begin \/ FetchPending \/ FetchNew \/ Filter \/ Merge \/ Review
           \/ \E ip \in IP : Save(ip) \/ SaveReviewed(ip) \/ Instruct(ip)
           \/ \E ip \in IP \cup {Clean} : Arrive(ip)
           \/ Tick \/ Clearing \/ ClearFails \/ UNCHANGED vars
  <2>1. UNCHANGED <<ovCursor, acted, pending>>
    BY <1>5 DEF Begin, FetchPending, FetchNew, Filter, Merge, Review, Save, SaveReviewed,
         Instruct, Arrive, Tick, Clearing, ClearMark, ClearScan, ClearDel, ClearFails,
         vars, redis, memory, history
  <2>2. QED
    BY <2>1 DEF InstructionsRead
<1>6. QED
  BY <1>2, <1>3, <1>4, <1>5 DEF Next, Cycle, World

\* No instruction is put through twice, whatever is replayed after a crash.
THEOREM InstructionsActedOnce == Spec => ActedOnce
<1>1. Init => InstructionsRead
  BY DEF Init, None, InstructionsRead
<1>2. CycleInv /\ InstructionsRead /\ [Next]_vars => InstructionsRead'
  BY InstructionsStep
<1>3. CycleInv /\ InstructionsRead /\ [Next]_vars =>
        [\A ip \in IP : pending'[ip] \cap acted # {} => pending[ip] = pending'[ip]]_vars
  BY InstructionsStep
<1>4. QED
  BY <1>1, <1>2, <1>3, CycleAlways, PTL DEF Spec, ActedOnce
=============================================================================

---------------------------- MODULE Console_proofs ----------------------------
(***************************************************************************)
(* The console's live state, its reset, its Protection page and its Events *)
(* page, for any addresses, requests, tabs, checks and views at once, and  *)
(* its read routes for whatever Redis holds; then all of it together, as   *)
(* the runs explore it.                                                    *)
(***************************************************************************)
EXTENDS MCConsole, WellFoundedInduction, FiniteSetTheorems, TLAPS

-----------------------------------------------------------------------------
(* The live state. *)

\* A write starts: nothing of it was answered.
LEMMA StartKeeps ==
  ASSUME LiveInv, NEW b, NEW T \in SUBSET Addr, NEW k \in {"instruct", "delete"}, NEW x,
         k = "delete" => x = None,
         Start(b, [kind |-> k, action |-> x, res |-> [a \in T |-> "sent"]])
  PROVE  LiveInv'
<1>1. UNCHANGED <<accepted, pending, seen, shownIds>>
  BY DEF Start
<1>2. PendingWasAccepted' /\ SeenWasShown'
  BY <1>1 DEF LiveInv, PendingWasAccepted, SeenWasShown
<1>3. call' = [kind |-> k, action |-> x, res |-> [a \in T |-> "sent"]]
  BY DEF Start
<1>4. call'.kind = k /\ call'.action = x /\ call'.res = [a \in T |-> "sent"]
  BY <1>3
<1>5. DOMAIN call'.res = T /\ \A a \in DOMAIN call'.res : call'.res[a] = "sent"
  BY <1>4
<1>6. call' = [kind |-> call'.kind, res |-> call'.res, action |-> call'.action]
  BY <1>3, <1>4
<1> QED BY <1>2, <1>4, <1>5, <1>6 DEF LiveInv

\* A step after which no request of a write is under way.
LEMMA OverKeeps ==
  ASSUME LiveInv, call' = NoCall \/ call' = [NoCall EXCEPT !.kind = "refresh"],
         accepted \subseteq accepted', UNCHANGED <<seen, shownIds>>,
         \A a \in Addr : pending'[a] # None => <<a, pending'[a]>> \in accepted'
  PROVE  LiveInv'
<1>1. PendingWasAccepted' /\ SeenWasShown'
  BY DEF LiveInv, PendingWasAccepted, SeenWasShown
<1>2. /\ call'.kind \in {"none", "refresh"} /\ call'.res = <<>> /\ call'.action = None
      /\ call' = [kind |-> call'.kind, res |-> call'.res, action |-> call'.action]
  BY DEF NoCall
<1>3. DOMAIN call'.res = {}
  BY <1>2
<1> QED BY <1>1, <1>2, <1>3 DEF LiveInv

\* A step that leaves the write under way alone.
LEMMA CallKept ==
  ASSUME LiveInv, UNCHANGED call, accepted \subseteq accepted', PendingWasAccepted', SeenWasShown'
  PROVE  LiveInv'
BY DEF LiveInv

LEMMA PageKept ==
  ASSUME LiveInv, UNCHANGED <<pending, seen, shownIds>>, accepted \subseteq accepted'
  PROVE  PendingWasAccepted' /\ SeenWasShown'
BY DEF LiveInv, PendingWasAccepted, SeenWasShown

LEMMA WaitKeeps ==
  ASSUME LiveInv, NEW s, WaitedFor(s), UNCHANGED accepted, PendingWasAccepted', SeenWasShown'
  PROVE  LiveInv'
<1>1. CASE UNCHANGED call
  BY <1>1, CallKept
<1>2. CASE call' = NoCall
  <2>1. call'.kind = "none" /\ call'.res = <<>> /\ call'.action = None
        /\ call' = [kind |-> call'.kind, res |-> call'.res, action |-> call'.action]
    BY <1>2 DEF NoCall
  <2>2. DOMAIN call'.res = {}
    BY <2>1
  <2> QED BY <2>1, <2>2 DEF LiveInv
<1> QED BY <1>1, <1>2 DEF WaitedFor

\* An answer that comes late, or empty, takes nothing back that was shown.
LEMMA ArrivesKeeps ==
  ASSUME LiveInv, NEW s, Arrives(s)
  PROVE  LiveInv'
<1>1. UNCHANGED accepted /\ WaitedFor(s)
  BY DEF Arrives, redisVars
<1>2. SeenWasShown'
  BY DEF LiveInv, SeenWasShown, Arrives
<1>3. PendingWasAccepted'
  <2>1. \A a \in Addr : pending'[a] = None \/ pending'[a] = pending[a]
    BY DEF Arrives
  <2> QED BY <1>1, <2>1 DEF LiveInv, PendingWasAccepted
<1> QED BY <1>1, <1>2, <1>3, WaitKeeps

LEMMA HandledKeeps ==
  ASSUME LiveInv, NEW a \in Addr, Handled(a)
  PROVE  LiveInv'
<1>1. UNCHANGED <<pending, seen, shownIds>> /\ accepted \subseteq accepted'
  BY DEF Handled
<1>2. PendingWasAccepted' /\ SeenWasShown'
  BY <1>1, PageKept
<1> DEFINE how == IF up THEN "ok" ELSE "failed"
<1>3. /\ call'.kind = call.kind /\ call'.action = call.action
      /\ call'.res = [call.res EXCEPT ![a] = how]
      /\ call' = [kind |-> call'.kind, res |-> call'.res, action |-> call'.action]
  <2>1. call = [kind |-> call.kind, res |-> call.res, action |-> call.action]
    BY DEF LiveInv
  <2>2. call' = [call EXCEPT !.res = [call.res EXCEPT ![a] = how]]
    BY DEF Handled
  <2> HIDE DEF how
  <2>3. call' = [kind |-> call.kind, res |-> [call.res EXCEPT ![a] = how], action |-> call.action]
    BY <2>1, <2>2
  <2> QED BY <2>3
<1>4. DOMAIN call'.res = DOMAIN call.res
  BY <1>3
<1>5. a \in DOMAIN call.res /\ call.kind \notin {"none", "refresh"}
  BY DEF Handled, LiveInv
<1>6. ASSUME call'.kind = "instruct", NEW b \in DOMAIN call'.res, call'.res[b] = "ok"
      PROVE  <<b, call'.action>> \in accepted'
  <2>1. CASE b = a
    <3>1. up
      BY <1>3, <1>5, <1>6, <2>1
    <3> QED BY <1>3, <1>6, <2>1, <3>1 DEF Handled
  <2>2. CASE b # a
    BY <1>1, <1>3, <1>4, <1>6, <2>2 DEF LiveInv
  <2> QED BY <2>1, <2>2
<1> QED BY <1>2, <1>3, <1>4, <1>5, <1>6 DEF LiveInv

LEMMA AllAcceptedKeeps == ASSUME LiveInv, AllAccepted PROVE LiveInv'
<1>1. UNCHANGED <<accepted, seen, shownIds>> /\ call' = [NoCall EXCEPT !.kind = "refresh"]
  BY DEF AllAccepted, redisVars
<1>2. ASSUME NEW a \in Addr, pending'[a] # None
      PROVE  <<a, pending'[a]>> \in accepted'
  <2>1. CASE a \in DOMAIN call.res /\ call.action \in Action
    <3>1. pending'[a] = call.action /\ call.res[a] = "ok"
      BY <2>1 DEF AllAccepted
    <3>2. call.kind = "instruct"
      <4>1. call.kind # "delete"
        BY <2>1, LiveConstants DEF LiveInv
      <4>2. DOMAIN <<>> = {}
        OBVIOUS
      <4>3. call.kind \notin {"none", "refresh"}
        BY <2>1, <4>2 DEF LiveInv
      <4> QED BY <4>1, <4>3 DEF LiveInv
    <3> QED BY <1>1, <2>1, <3>1, <3>2 DEF LiveInv
  <2>2. CASE ~(a \in DOMAIN call.res /\ call.action \in Action)
    <3>1. pending'[a] = pending[a]
      BY <2>2 DEF AllAccepted
    <3> QED BY <1>1, <1>2, <3>1 DEF LiveInv, PendingWasAccepted
  <2> QED BY <2>1, <2>2
<1> QED BY <1>1, <1>2, OverKeeps

LEMMA LiveInvInitially == LiveInit => LiveInv
<1> SUFFICES ASSUME LiveInit PROVE LiveInv
  OBVIOUS
<1>1. PendingWasAccepted /\ SeenWasShown
  BY DEF LiveInit, PendingWasAccepted, SeenWasShown
<1>2. call.kind = "none" /\ call.res = <<>> /\ call.action = None
      /\ call = [kind |-> call.kind, res |-> call.res, action |-> call.action]
  BY DEF LiveInit, NoCall
<1>3. DOMAIN call.res = {}
  BY <1>2
<1> QED BY <1>1, <1>2, <1>3 DEF LiveInv

LEMMA LiveInvKept == LiveInv /\ [LiveNext]_liveVars => LiveInv'
<1> SUFFICES ASSUME LiveInv, [LiveNext]_liveVars PROVE LiveInv'
  OBVIOUS
<1>1. ASSUME NEW s \in Slot, PollFires(s) \/ RefreshNow(s) PROVE LiveInv'
  <2>1. UNCHANGED <<accepted, call, pending, seen, shownIds>>
    BY <1>1 DEF PollFires, RefreshNow, redisVars
  <2> QED BY <2>1, CallKept, PageKept
<1>2. ASSUME NEW s \in Slot \cup {Own}, Arrives(s) PROVE LiveInv'
  BY <1>2, ArrivesKeeps
<1>3. ASSUME NEW s \in Slot \cup {Own}, PollLost(s) PROVE LiveInv'
  <2>1. UNCHANGED <<accepted, pending, seen, shownIds>> /\ WaitedFor(s)
    BY <1>3 DEF PollLost
  <2> QED BY <2>1, PageKept, WaitKeeps
<1>4. CASE RedisFails \/ RedisReturns \/ Escalates \/ FlashEnds
  <2>1. UNCHANGED <<accepted, call, pending, seen, shownIds>>
    BY <1>4 DEF RedisFails, RedisReturns, Escalates, FlashEnds, redisVars, pageVars
  <2> QED BY <2>1, CallKept, PageKept
<1>5. ASSUME NEW T \in SUBSET Addr, NEW x, Instruct(T, x) PROVE LiveInv'
  BY <1>5, StartKeeps DEF Instruct
<1>6. ASSUME NEW a \in Addr, NEW x, InstructRow(a, x) \/ InstructAddress(a, x) PROVE LiveInv'
  <2>1. {a} \in SUBSET Addr /\ Instruct({a}, x)
    BY <1>6 DEF InstructRow, InstructAddress
  <2> QED BY <1>5, <2>1
<1>7. ASSUME NEW T \in SUBSET Addr, InstructBulk(T) \/ \E x : InstructCampaign(T, x) PROVE LiveInv'
  BY <1>5, <1>7 DEF InstructBulk, InstructCampaign
<1>8. ASSUME NEW a \in Addr, DeletePolicy(a) PROVE LiveInv'
  <2>1. {a} \in SUBSET Addr
    OBVIOUS
  <2> QED BY <1>8, <2>1, StartKeeps DEF DeletePolicy
<1>9. ASSUME NEW a \in Addr, Handled(a) PROVE LiveInv'
  BY <1>9, HandledKeeps
<1>10. CASE SomeRefused
  <2>1. UNCHANGED <<accepted, pending, seen, shownIds>> /\ call' = NoCall
    BY <1>10 DEF SomeRefused, redisVars
  <2> QED BY <2>1, OverKeeps DEF LiveInv, PendingWasAccepted
<1>11. CASE AllAccepted
  BY <1>11, AllAcceptedKeeps
<1>12. CASE CallLost
  <2>1. UNCHANGED <<pending, seen, shownIds>> /\ call' = NoCall /\ accepted \subseteq accepted'
    BY <1>12 DEF CallLost
  <2> QED BY <2>1, OverKeeps DEF LiveInv, PendingWasAccepted
<1>13. ASSUME NEW o, EngineApplies(o) PROVE LiveInv'
  <2>1. UNCHANGED <<accepted, call, pending, seen, shownIds>>
    BY <1>13 DEF EngineApplies, pageVars
  <2> QED BY <2>1, CallKept, PageKept
<1>14. ASSUME NEW a, NEW x, EngineWrites(a, x) PROVE LiveInv'
  <2>1. UNCHANGED <<accepted, call, pending, seen, shownIds>>
    BY <1>14 DEF EngineWrites, pageVars
  <2> QED BY <2>1, CallKept, PageKept
<1>15. CASE UNCHANGED liveVars
  <2>1. UNCHANGED <<accepted, call, pending, seen, shownIds>>
    BY <1>15 DEF liveVars, redisVars, pageVars
  <2> QED BY <2>1, CallKept, PageKept
<1>16. CASE PollNext
  BY <1>1, <1>2, <1>3, <1>4, <1>16 DEF PollNext
<1>17. CASE AlertNext
  BY <1>4, <1>17 DEF AlertNext
<1>18. CASE WriteNext
  BY <1>6, <1>7, <1>8, <1>9, <1>10, <1>11, <1>12, <1>13, <1>14, <1>18 DEF WriteNext
<1> QED BY <1>15, <1>16, <1>17, <1>18 DEF LiveNext

\* LiveInv is inductive, for any addresses, actions and polls in flight.
THEOREM LiveAlways == LiveSpec => []LiveInv
BY LiveInvInitially, LiveInvKept, PTL DEF LiveSpec

\* "changing to ..." is only said of an address whose override is in the stream,
\* although one instruction is a request per address and any of them may fail.
THEOREM PendingIsAccepted == LiveSpec => []PendingWasAccepted
<1>1. LiveInv => PendingWasAccepted
  BY DEF LiveInv
<1> QED BY <1>1, LiveAlways, PTL

\* No answer of a poll, in whatever order it arrives, lets an escalation into the
\* baseline that was neither flashed nor there when the page opened.
THEOREM NoEscalationPasses == LiveSpec => []SeenWasShown
<1>1. LiveInv => SeenWasShown
  BY DEF LiveInv
<1> QED BY <1>1, LiveAlways, PTL

-----------------------------------------------------------------------------
(* The reset. *)

\* A step that touches neither lane nor key, stream and group.
LEMMA LanesKept ==
  ASSUME AdminInv, UNCHANGED <<storeVars, laneVars>>,
         dialog' \in [open : BOOLEAN, typed : BOOLEAN, busy : BOOLEAN], awaits' \subseteq Reset
  PROVE  AdminInv'
<1>1. AdminTypeOK'
  BY DEF AdminInv, AdminTypeOK, storeVars, laneVars
<1>2. ResetSound' /\ \A r \in Reset : pg'[r] \in {"setval", "commit"}
                                       => txn'[r].state \in {"truncated", "lost"}
  BY DEF AdminInv, ResetSound, ReportedIsCommitted, SystemSurvives, storeVars, laneVars
<1> QED BY <1>1, <1>2 DEF AdminInv

LEMMA DialogKeeps == ASSUME AdminInv, DialogNext PROVE AdminInv'
<1> DEFINE D == [open : BOOLEAN, typed : BOOLEAN, busy : BOOLEAN]
<1>1. dialog \in D /\ awaits \subseteq Reset /\ Closed \in D
  BY DEF AdminInv, AdminTypeOK, Closed
<1>2. CASE OpenDialog \/ Close \/ TypeWord
  <2>1. UNCHANGED <<storeVars, laneVars, awaits>>
    BY <1>2 DEF OpenDialog, Close, TypeWord
  <2>2. dialog' \in D
    <3>1. (~dialog.typed) \in BOOLEAN
      OBVIOUS
    <3> QED BY <1>1, <1>2, <3>1 DEF OpenDialog, Close, TypeWord
  <2> QED BY <1>1, <2>1, <2>2, LanesKept
<1>3. ASSUME NEW r \in Reset, Answered(r) \/ Aborts(r) PROVE AdminInv'
  <2>1. UNCHANGED <<storeVars, laneVars>> /\ awaits' \subseteq Reset
    BY <1>1, <1>3 DEF Answered, Aborts
  <2>2. dialog' \in D
    BY <1>1, <1>3 DEF Answered, Aborts
  <2> QED BY <2>1, <2>2, LanesKept
<1>4. ASSUME NEW r \in Reset, Run(r) PROVE AdminInv'
  <2>1. /\ UNCHANGED <<storeVars, txn, emptied>>
        /\ pg[r] = "idle" /\ pg' = [pg EXCEPT ![r] = "connect"]
        /\ redis' = [redis EXCEPT ![r].at = "watermark"]
        /\ awaits' = awaits \cup {r} /\ dialog' = [dialog EXCEPT !.busy = TRUE]
    BY <1>4 DEF Run
  <2>2. AdminTypeOK'
    BY <1>1, <2>1 DEF AdminInv, AdminTypeOK, storeVars
  <2>3. ResetSound' /\ \A q \in Reset : pg'[q] \in {"setval", "commit"}
                                         => txn'[q].state \in {"truncated", "lost"}
    BY <2>1 DEF AdminInv, AdminTypeOK, ResetSound, ReportedIsCommitted, SystemSurvives, storeVars
  <2> QED BY <2>2, <2>3 DEF AdminInv
<1> QED BY <1>2, <1>3, <1>4 DEF DialogNext

\* A step of one request's transaction: to is where it goes, t what it has done.
LEMMA PostgresStep ==
  ASSUME AdminInv, NEW r \in Reset,
         NEW to \in {"ask", "begin", "truncate", "setval", "commit", "ok", "failed", "threw"},
         NEW t \in [state : {"none", "open", "truncated", "aborted", "lost"}, sequence : BOOLEAN],
         pg' = [pg EXCEPT ![r] = to], txn' = [txn EXCEPT ![r] = t],
         to \in {"setval", "commit"} => t.state \in {"truncated", "lost"},
         emptied \subseteq emptied', emptied' \subseteq Reset, to = "ok" => r \in emptied',
         UNCHANGED <<storeVars, redis, pageSide>>
  PROVE  AdminInv'
<1>1. AdminTypeOK'
  BY DEF AdminInv, AdminTypeOK, storeVars, pageSide
<1>2. ReportedIsCommitted'
  BY DEF AdminInv, AdminTypeOK, ResetSound, ReportedIsCommitted
<1>3. SystemSurvives'
  BY DEF AdminInv, ResetSound, SystemSurvives, storeVars
<1>4. \A q \in Reset : pg'[q] \in {"setval", "commit"} => txn'[q].state \in {"truncated", "lost"}
  BY DEF AdminInv, AdminTypeOK
<1> QED BY <1>1, <1>2, <1>3, <1>4 DEF AdminInv, ResetSound

LEMMA StatementKeeps ==
  ASSUME AdminInv, NEW r \in Reset, NEW from,
         NEW to \in {"begin", "truncate", "setval", "commit", "failed"},
         NEW t \in [state : {"none", "open", "truncated", "aborted", "lost"}, sequence : BOOLEAN],
         Connected(r) /\ to \in {"setval", "commit"} => t.state \in {"truncated", "lost"},
         PgStep(r, from, to, t), UNCHANGED <<storeVars, redis, emptied, pageSide>>
  PROVE  AdminInv'
<1>1. emptied \subseteq Reset
  BY DEF AdminInv, AdminTypeOK
<1>2. CASE Connected(r)
  BY <1>1, <1>2, PostgresStep DEF PgStep
<1>3. CASE ~Connected(r)
  <2>1. NoTxn \in [state : {"none", "open", "truncated", "aborted", "lost"}, sequence : BOOLEAN]
    BY DEF NoTxn
  <2>2. pg' = [pg EXCEPT ![r] = "failed"] /\ txn' = [txn EXCEPT ![r] = NoTxn]
    BY <1>3 DEF PgStep
  <2> QED BY <1>1, <2>1, <2>2, PostgresStep
<1> QED BY <1>2, <1>3

\* The truncation a COMMIT would commit is there: nothing aborted it on the way.
LEMMA CommitKeeps == ASSUME AdminInv, NEW r \in Reset, Commit(r) PROVE AdminInv'
<1>1. PICK to \in {"ok", "failed"} : PgStep(r, "commit", to, NoTxn)
  BY DEF Commit
<1>2. pg[r] = "commit" /\ txn[r].state \in {"truncated", "lost"}
  BY <1>1 DEF PgStep, AdminInv
<1>3. NoTxn \in [state : {"none", "open", "truncated", "aborted", "lost"}, sequence : BOOLEAN]
  BY DEF NoTxn
<1>4. txn' = [txn EXCEPT ![r] = NoTxn] /\ UNCHANGED <<storeVars, redis, pageSide>>
  BY <1>1 DEF PgStep, Commit
<1>5. emptied \subseteq Reset
  BY DEF AdminInv, AdminTypeOK
<1>6. CASE Connected(r)
  <2>1. emptied' = emptied \cup {r} /\ pg' = [pg EXCEPT ![r] = to]
    BY <1>1, <1>2, <1>6 DEF PgStep, Commit, Connected
  <2> QED BY <1>3, <1>4, <1>5, <2>1, PostgresStep
<1>7. CASE ~Connected(r)
  <2>1. emptied' = emptied /\ pg' = [pg EXCEPT ![r] = "failed"]
    BY <1>1, <1>7 DEF PgStep, Commit
  <2> QED BY <1>3, <1>4, <1>5, <2>1, PostgresStep
<1> QED BY <1>6, <1>7

LEMMA PostgresKeeps == ASSUME AdminInv, PostgresNext PROVE AdminInv'
<1> DEFINE T == [state : {"none", "open", "truncated", "aborted", "lost"}, sequence : BOOLEAN]
<1>1. CASE EngineStarts
  <2>1. AdminTypeOK'
    BY <1>1 DEF EngineStarts, AdminInv, AdminTypeOK, laneVars, pageSide
  <2>2. ResetSound' /\ \A r \in Reset : pg'[r] \in {"setval", "commit"}
                                         => txn'[r].state \in {"truncated", "lost"}
    BY <1>1 DEF EngineStarts, AdminInv, ResetSound, ReportedIsCommitted, SystemSurvives, laneVars
  <2> QED BY <2>1, <2>2 DEF AdminInv
<1>2. ASSUME NEW r \in Reset PROVE txn[r] \in T /\ sequence \in BOOLEAN
  BY DEF AdminInv, AdminTypeOK
<1>3. ASSUME NEW r \in Reset, Connect(r) PROVE AdminInv'
  <2>1. PICK to \in {"ask", "failed", "threw"} : pg' = [pg EXCEPT ![r] = to]
    BY <1>3 DEF Connect
  <2>2. txn' = [txn EXCEPT ![r] = txn[r]]
    BY <1>3 DEF Connect, AdminInv, AdminTypeOK
  <2>3. emptied' = emptied /\ emptied \subseteq Reset /\ UNCHANGED <<storeVars, redis, pageSide>>
    BY <1>3 DEF Connect, AdminInv, AdminTypeOK
  <2> QED BY <1>2, <2>1, <2>2, <2>3, PostgresStep
<1>4. ASSUME NEW r \in Reset, AskSequence(r) PROVE AdminInv'
  <2>1. [state |-> "none", sequence |-> sequence] \in T
    BY <1>2
  <2> QED BY <1>4, <2>1, StatementKeeps DEF AskSequence
<1>5. ASSUME NEW r \in Reset, Begin(r) PROVE AdminInv'
  <2>1. [txn[r] EXCEPT !.state = "open"] \in T
    BY <1>2
  <2> QED BY <1>5, <2>1, StatementKeeps DEF Begin
<1>6. ASSUME NEW r \in Reset, Truncate(r) PROVE AdminInv'
  <2>1. /\ [txn[r] EXCEPT !.state = "truncated"] \in T
        /\ [txn[r] EXCEPT !.state = "truncated"].state = "truncated"
    BY <1>2
  <2> QED BY <1>6, <2>1, StatementKeeps DEF Truncate
<1>7. ASSUME NEW r \in Reset, Setval(r) PROVE AdminInv'
  <2>1. txn[r] \in T /\ txn[r].state \in {"truncated", "lost"}
    BY <1>2, <1>7 DEF Setval, PgStep, AdminInv
  <2>2. PICK to \in {"commit", "failed"} : PgStep(r, "setval", to, txn[r])
    BY <1>7 DEF Setval
  <2> QED BY <1>7, <2>1, <2>2, StatementKeeps DEF Setval
<1> QED BY <1>1, <1>3, <1>4, <1>5, <1>6, <1>7, CommitKeeps DEF PostgresNext

\* What clearRedis removes, family by family, is never one that must stay.
LEMMA RedisKeeps == ASSUME AdminInv, RedisNext PROVE AdminInv'
<1> DEFINE L == [at : {"idle", "watermark", "trim", "sweep", "ok", "failed"}, left : SUBSET Stream]
<1>1. ASSUME NEW r \in Reset, NEW from, NEW to \in L, RedisStep(r, from, to), UNCHANGED groups,
             entries' \subseteq entries, keys' \subseteq keys, Kept \subseteq keys'
      PROVE  AdminInv'
  <2>1. redis' \in [Reset -> L]
    <3>1. redis \in [Reset -> L] /\ redis[r] \in L /\ [redis[r] EXCEPT !.at = "failed"] \in L
      BY DEF AdminInv, AdminTypeOK
    <3> QED BY <1>1, <3>1 DEF RedisStep
  <2>2. UNCHANGED <<store, changes, sequence, pg, txn, emptied, dialog, awaits>>
    BY <1>1 DEF RedisStep, pageSide
  <2>3. AdminTypeOK'
    BY <1>1, <2>1, <2>2 DEF AdminInv, AdminTypeOK
  <2>4. ResetSound' /\ \A q \in Reset : pg'[q] \in {"setval", "commit"}
                                         => txn'[q].state \in {"truncated", "lost"}
    BY <1>1, <2>2 DEF AdminInv, ResetSound, ReportedIsCommitted, SystemSurvives
  <2> QED BY <2>3, <2>4 DEF AdminInv
<1>2. Kept \subseteq keys
  BY DEF AdminInv, ResetSound, SystemSurvives
<1>3. ASSUME NEW r \in Reset, Watermark(r) PROVE AdminInv'
  <2>1. [at |-> "trim", left |-> Stream] \in L
    OBVIOUS
  <2> QED BY <1>1, <1>2, <1>3, <2>1 DEF Watermark
<1>4. ASSUME NEW r \in Reset, Trim(r) PROVE AdminInv'
  <2>1. PICK s \in redis[r].left :
          /\ RedisStep(r, "trim", [at |-> IF redis[r].left = {s} THEN "sweep" ELSE "trim",
                                   left |-> redis[r].left \ {s}])
          /\ entries' = IF store.redis THEN entries \ {s} ELSE entries
          /\ UNCHANGED <<groups, keys>>
    BY <1>4 DEF Trim
  <2>2. redis[r].left \subseteq Stream
    BY DEF AdminInv, AdminTypeOK
  <2>3. [at |-> IF redis[r].left = {s} THEN "sweep" ELSE "trim", left |-> redis[r].left \ {s}] \in L
    BY <2>2
  <2>4. entries' \subseteq entries
    BY <2>1
  <2> QED BY <1>1, <1>2, <2>1, <2>3, <2>4
<1>5. ASSUME NEW r \in Reset, Sweep(r) PROVE AdminInv'
  <2>1. [at |-> "ok", left |-> {}] \in L
    OBVIOUS
  <2>2. keys' \subseteq keys /\ Kept \subseteq keys'
    BY <1>2, <1>5, AdminConstants DEF Sweep
  <2> QED BY <1>1, <1>5, <2>1, <2>2 DEF Sweep
<1> QED BY <1>3, <1>4, <1>5 DEF RedisNext

\* A database that goes away takes the transactions under way with it.
LEMMA StoreKeeps == ASSUME AdminInv, StoreChanges PROVE AdminInv'
<1> DEFINE T == [state : {"none", "open", "truncated", "aborted", "lost"}, sequence : BOOLEAN]
<1>1. UNCHANGED <<sequence, entries, groups, keys, pg, redis, emptied, dialog, awaits>>
  BY DEF StoreChanges, pageSide
<1>2. \A r \in Reset : txn[r] \in T /\ [txn[r] EXCEPT !.state = "lost"] \in T
                       /\ [txn[r] EXCEPT !.state = "lost"].state = "lost"
  BY DEF AdminInv, AdminTypeOK
<1>3. txn' \in [Reset -> T]
  BY <1>2 DEF StoreChanges
<1>4. \A r \in Reset : pg'[r] \in {"setval", "commit"} => txn'[r].state \in {"truncated", "lost"}
  BY <1>1, <1>2 DEF StoreChanges, AdminInv
<1>5. store' \in [pg : {"unset", "down", "up"}, redis : BOOLEAN] /\ changes' \in 0..MaxChanges
  BY AdminConstants DEF StoreChanges, AdminInv, AdminTypeOK
<1>6. AdminTypeOK'
  BY <1>1, <1>3, <1>5 DEF AdminInv, AdminTypeOK
<1>7. ResetSound'
  BY <1>1 DEF AdminInv, ResetSound, ReportedIsCommitted, SystemSurvives
<1> QED BY <1>4, <1>6, <1>7 DEF AdminInv

LEMMA AdminInvInitially == AdminInit => AdminInv
<1> SUFFICES ASSUME AdminInit PROVE AdminInv
  OBVIOUS
<1>1. AdminTypeOK
  BY AdminConstants DEF AdminInit, AdminTypeOK, NoTxn
<1>2. ResetSound /\ \A r \in Reset : pg[r] \notin {"setval", "commit"}
  BY DEF AdminInit, ResetSound, ReportedIsCommitted, SystemSurvives
<1> QED BY <1>1, <1>2 DEF AdminInv

LEMMA AdminInvKept == AdminInv /\ [AdminNext]_adminVars => AdminInv'
<1> SUFFICES ASSUME AdminInv, [AdminNext]_adminVars PROVE AdminInv'
  OBVIOUS
<1>1. CASE UNCHANGED adminVars
  <2>1. dialog' \in [open : BOOLEAN, typed : BOOLEAN, busy : BOOLEAN] /\ awaits' \subseteq Reset
    BY <1>1 DEF AdminInv, AdminTypeOK, adminVars, pageSide
  <2> QED BY <1>1, <2>1, LanesKept DEF adminVars
<1> QED BY <1>1, DialogKeeps, PostgresKeeps, RedisKeeps, StoreKeeps DEF AdminNext

\* AdminInv is inductive, for any number of resets that run at once.
THEOREM AdminAlways == AdminSpec => []AdminInv
BY AdminInvInitially, AdminInvKept, PTL DEF AdminSpec

\* A reset that reports success has committed its truncation, and none touches
\* the policies, the settings or a consumer group, for any number of them and any
\* store failing at any statement.
THEOREM ResetIsSound == AdminSpec => []ResetSound
<1>1. AdminInv => ResetSound
  BY DEF AdminInv
<1> QED BY <1>1, AdminAlways, PTL

-----------------------------------------------------------------------------
(* The Protection page. *)

LEMMA ProtectionBounds == MaxApplies \in Nat /\ File \in Value
BY ProtectionConstants

LEMMA OneMore ==
  ASSUME NEW m \in Nat, NEW n \in 0..m, n < m
  PROVE  n + 1 \in 0..m
OBVIOUS

LEMMA NoCheckIsChecking == NoCheck \in Checking
BY DEF NoCheck, Checking

\* No request is made.
LEMMA RequestsStand ==
  ASSUME RequestsTyped, UNCHANGED <<requests, reached>>
  PROVE  RequestsTyped'
BY DEF RequestsTyped

\* A request is made.
LEMMA RequestsGrow ==
  ASSUME RequestsTyped, UNCHANGED reached,
         requests' = requests \/ \E r \in Value \cup {Unset} : requests' = Append(requests, r)
  PROVE  RequestsTyped'
<1>1. requests \in Seq(Value \cup {Unset}) /\ reached \in 0..Len(requests) /\ Len(requests) \in Nat
  BY DEF RequestsTyped
<1>2. CASE requests' = requests
  BY <1>1, <1>2 DEF RequestsTyped
<1>3. ASSUME NEW r \in Value \cup {Unset}, requests' = Append(requests, r) PROVE RequestsTyped'
  <2>1. requests' \in Seq(Value \cup {Unset}) /\ Len(requests') = Len(requests) + 1
    BY <1>1, <1>3
  <2> QED BY <1>1, <2>1 DEF RequestsTyped
<1> QED BY <1>2, <1>3

\* The parts of ProtectionInv, one by one.
LEMMA ProtectionParts ==
  ASSUME ProtectionInv
  PROVE  /\ tab \in [Tab -> Page] /\ due \in [Tab -> [Check -> Checking]]
         /\ write \in [Tab -> [kind : {"none", "apply", "revert"}, value : Value \cup {Unset}]]
         /\ RequestsTyped /\ effective \in Settings \cup {Unset}
         /\ applies \in 0..MaxApplies
         /\ \A t \in Tab : tab[t].toast # "unfounded"
BY DEF ProtectionInv, EnforcingIsFounded

\* What is left to show of a step that keeps the gateway and the checks.
LEMMA PageStepKeeps ==
  ASSUME ProtectionInv, UNCHANGED <<effective, due, load>>,
         tab' \in [Tab -> Page], \A t \in Tab : tab'[t].toast # "unfounded",
         write' \in [Tab -> [kind : {"none", "apply", "revert"}, value : Value \cup {Unset}]],
         RequestsTyped', applies' \in 0..MaxApplies
  PROVE  ProtectionInv'
<1>1. due' \in [Tab -> [Check -> Checking]] /\ effective' \in Settings \cup {Unset}
  BY ProtectionParts
<1>2. EnforcingIsFounded'
  BY DEF EnforcingIsFounded
<1> QED BY <1>1, <1>2 DEF ProtectionInv, Page, Checking, Settings

\* A change of one tab that says nothing of the gateway.
LEMMA TabChanges ==
  ASSUME ProtectionInv, NEW t \in Tab, NEW n \in Page, n.toast # "unfounded",
         tab' = [tab EXCEPT ![t] = n]
  PROVE  tab' \in [Tab -> Page] /\ \A u \in Tab : tab'[u].toast # "unfounded"
BY ProtectionParts

LEMMA OpensKeeps == ASSUME ProtectionInv, NEW t \in Tab, Opens(t) PROVE ProtectionInv'
<1>1. load' = [load EXCEPT ![t] = <<NoCheck, effective>>] /\ load = [u \in Tab |-> load[u]]
  BY DEF Opens, AskSettings, GET, ProtectionInv
<1>2. UNCHANGED <<requests, reached, effective, applies, tab, write, due>>
  BY DEF Opens
<1>3. load' = [u \in Tab |-> IF u = t THEN <<NoCheck, effective>> ELSE load[u]]
  BY <1>1
<1>4. NoCheck \in Checking /\ NoCheck.kind # "apply" /\ effective \in Settings \cup {Unset}
  BY NoCheckIsChecking, ProtectionParts DEF NoCheck
<1>5. \A u \in Tab : load'[u] # <<>> =>
        /\ load'[u][1] \in Checking /\ load'[u][2] \in Settings \cup {Unset}
        /\ load'[u][1].kind = "apply" /\ load'[u][2] # Unset => load'[u][2].value \in load'[u][1].since
  BY <1>3, <1>4 DEF ProtectionInv
<1>6. load' = [u \in Tab |-> load'[u]]
  BY <1>3
<1>7. EnforcingIsFounded'
  BY <1>2 DEF ProtectionInv, EnforcingIsFounded
<1> QED BY <1>2, <1>5, <1>6, <1>7, ProtectionParts, RequestsStand DEF ProtectionInv, Page, Checking, Settings

\* A check takes with it what was in force since its write, and reads what is.
LEMMA DueNowKeeps ==
  ASSUME ProtectionInv, NEW t \in Tab, NEW c \in Check, DueNow(t, c)
  PROVE  ProtectionInv'
<1> DEFINE d == due[t][c]
<1>1. load' = [load EXCEPT ![t] = <<d, effective>>] /\ load = [u \in Tab |-> load[u]]
  BY DEF DueNow, AskSettings, GET, ProtectionInv
<1>2. UNCHANGED <<requests, reached, effective, applies, tab, write>>
  BY DEF DueNow
<1>3. load' = [u \in Tab |-> IF u = t THEN <<d, effective>> ELSE load[u]]
  BY <1>1
<1>4. /\ d \in Checking /\ effective \in Settings \cup {Unset}
      /\ effective # Unset => effective.value \in d.since
  BY ProtectionParts DEF DueNow, ProtectionInv
<1>5. \A u \in Tab : load'[u] # <<>> =>
        /\ load'[u][1] \in Checking /\ load'[u][2] \in Settings \cup {Unset}
        /\ load'[u][1].kind = "apply" /\ load'[u][2] # Unset => load'[u][2].value \in load'[u][1].since
  <2> HIDE DEF d
  <2> QED BY <1>3, <1>4 DEF ProtectionInv
<1>6. load' = [u \in Tab |-> load'[u]]
  BY <1>3
<1>7. due' = [due EXCEPT ![t] = [due[t] EXCEPT ![c] = NoCheck]]
  BY DEF DueNow
<1>8. due' \in [Tab -> [Check -> Checking]]
  BY <1>7, NoCheckIsChecking, ProtectionParts
<1>9. \A u \in Tab, x \in Check :
        due'[u][x].kind # "none" /\ effective # Unset => effective.value \in due'[u][x].since
  <2>1. NoCheck.kind = "none"
    BY DEF NoCheck
  <2>2. \A u \in Tab, x \in Check : due'[u][x] = NoCheck \/ due'[u][x] = due[u][x]
    BY <1>7, ProtectionParts
  <2> QED BY <2>1, <2>2 DEF ProtectionInv
<1>10. EnforcingIsFounded'
  BY <1>2 DEF ProtectionInv, EnforcingIsFounded
<1> QED BY <1>2, <1>5, <1>6, <1>8, <1>9, <1>10, ProtectionParts, RequestsStand DEF ProtectionInv, Page, Checking, Settings

\* What a check says of its answer is founded.
LEMMA LoadedKeeps == ASSUME ProtectionInv, NEW t \in Tab, Loaded(t) PROVE ProtectionInv'
<1> DEFINE for == load[t][1]
           answer == load[t][2]
           n == IF answer = Unset THEN [tab[t] EXCEPT !.error = TRUE]
                ELSE [tab[t] EXCEPT !.error = FALSE, !.saved = answer.value, !.source = answer.source,
                  !.draft = IF for.kind = "apply" /\ answer.value = for.value THEN @ ELSE answer.value,
                  !.toast = IF for.kind = "apply" THEN Verdict(for, answer.value) ELSE @]
<1>1. /\ load[t] # <<>> /\ load' = [load EXCEPT ![t] = <<>>] /\ tab' = [tab EXCEPT ![t] = n]
      /\ UNCHANGED <<requests, reached, effective, applies, write, due>>
  BY DEF Loaded
<1>2. /\ for \in Checking /\ answer \in Settings \cup {Unset}
      /\ for.kind = "apply" /\ answer # Unset => answer.value \in for.since
  BY <1>1 DEF ProtectionInv
<1>3. tab[t] \in Page /\ tab[t].toast # "unfounded"
  BY ProtectionParts
<1>4. ASSUME for.kind = "apply", answer # Unset
      PROVE  Verdict(for, answer.value) \in {"rejected", "enforcing"}
  <2>1. answer.value \in for.since
    BY <1>2, <1>4
  <2> HIDE DEF for, answer
  <2> QED BY <1>4, <2>1 DEF Verdict
<1>5. n \in Page /\ n.toast # "unfounded"
  <2>1. CASE answer = Unset
    BY <1>3, <2>1 DEF Page
  <2>2. CASE answer # Unset
    <3> DEFINE toast == IF for.kind = "apply" THEN Verdict(for, answer.value) ELSE tab[t].toast
               draft == IF for.kind = "apply" /\ answer.value = for.value THEN tab[t].draft
                        ELSE answer.value
    <3>1. n = [tab[t] EXCEPT !.error = FALSE, !.saved = answer.value, !.source = answer.source,
                             !.draft = draft, !.toast = toast]
      BY <2>2
    <3>2. toast \in {"", "sent", "failed", "rejected", "enforcing"}
      BY <1>3, <1>4, <2>2 DEF Page
    <3>3. answer.value \in Value /\ answer.source \in {"file", "console"}
      BY <1>2, <2>2 DEF Settings
    <3>4. draft \in Value \cup {Unset}
      BY <1>3, <3>3 DEF Page
    <3> HIDE DEF n, toast, draft, answer, for
    <3> QED BY <1>3, <3>1, <3>2, <3>3, <3>4 DEF Page
  <2> QED BY <2>1, <2>2
<1> HIDE DEF n, for, answer
<1>6. tab' \in [Tab -> Page] /\ \A u \in Tab : tab'[u].toast # "unfounded"
  BY <1>1, <1>5, TabChanges
<1>7. load' = [u \in Tab |-> IF u = t THEN <<>> ELSE load[u]]
  BY <1>1 DEF ProtectionInv
<1>8. \A u \in Tab : load'[u] # <<>> =>
        /\ load'[u][1] \in Checking /\ load'[u][2] \in Settings \cup {Unset}
        /\ load'[u][1].kind = "apply" /\ load'[u][2] # Unset => load'[u][2].value \in load'[u][1].since
  BY <1>7 DEF ProtectionInv
<1>9. load' = [u \in Tab |-> load'[u]]
  BY <1>7
<1>10. EnforcingIsFounded'
  BY <1>6 DEF EnforcingIsFounded
<1> QED BY <1>1, <1>6, <1>8, <1>9, <1>10, ProtectionParts, RequestsStand DEF ProtectionInv, Page, Checking, Settings

\* What a tab does by itself: edit, ask and send.
LEMMA TabKeeps ==
  ASSUME ProtectionInv, NEW t \in Tab,
         \/ \E v \in Value : Edit(t, v)
         \/ \E m \in {"", "apply", "revert"} : Confirm(t, m)
         \/ Send(t) \/ NotStored(t)
  PROVE  ProtectionInv'
<1>1. tab[t] \in Page /\ tab[t].toast # "unfounded"
  BY ProtectionParts
<1>2. ASSUME NEW v \in Value, Edit(t, v) PROVE ProtectionInv'
  <2>1. tab' = [tab EXCEPT ![t] = [tab[t] EXCEPT !.draft = v]]
        /\ UNCHANGED <<requests, reached, effective, applies, write, load, due>>
    BY <1>2 DEF Edit
  <2>2. [tab[t] EXCEPT !.draft = v] \in Page /\ [tab[t] EXCEPT !.draft = v].toast # "unfounded"
    BY <1>1 DEF Page
  <2>3. tab' \in [Tab -> Page] /\ \A u \in Tab : tab'[u].toast # "unfounded"
    BY <2>1, <2>2, TabChanges
  <2> QED BY <2>1, <2>3, ProtectionParts, RequestsStand, PageStepKeeps
<1>3. ASSUME NEW m \in {"", "apply", "revert"}, Confirm(t, m) PROVE ProtectionInv'
  <2>1. tab' = [tab EXCEPT ![t] = [tab[t] EXCEPT !.confirming = m]]
        /\ UNCHANGED <<requests, reached, effective, applies, write, load, due>>
    BY <1>3 DEF Confirm
  <2>2. [tab[t] EXCEPT !.confirming = m] \in Page /\ [tab[t] EXCEPT !.confirming = m].toast # "unfounded"
    BY <1>1 DEF Page
  <2>3. tab' \in [Tab -> Page] /\ \A u \in Tab : tab'[u].toast # "unfounded"
    BY <2>1, <2>2, TabChanges
  <2> QED BY <2>1, <2>3, ProtectionParts, RequestsStand, PageStepKeeps
<1>4. CASE Send(t)
  <2>1. /\ UNCHANGED <<requests, reached, effective, tab, load, due>>
        /\ applies < MaxApplies /\ applies' = applies + 1
        /\ write' = [write EXCEPT ![t] = [kind |-> tab[t].confirming, value |-> tab[t].draft]]
        /\ tab[t].confirming # ""
    BY <1>4 DEF Send
  <2>2. applies' \in 0..MaxApplies
    <3>1. applies \in 0..MaxApplies
      BY ProtectionParts
    <3>2. applies < MaxApplies /\ applies' = applies + 1
      BY <2>1
    <3> QED BY <3>1, <3>2, ProtectionBounds, OneMore
  <2>3. [kind |-> tab[t].confirming, value |-> tab[t].draft]
          \in [kind : {"none", "apply", "revert"}, value : Value \cup {Unset}]
    BY <1>1, <2>1 DEF Page
  <2>4. write' \in [Tab -> [kind : {"none", "apply", "revert"}, value : Value \cup {Unset}]]
    BY <2>1, <2>3, ProtectionParts
  <2> QED BY <2>1, <2>2, <2>4, ProtectionParts, RequestsStand, PageStepKeeps
<1>5. CASE NotStored(t)
  <2>1. /\ tab' = [tab EXCEPT ![t] = [tab[t] EXCEPT !.toast = "failed"]]
        /\ write' = [write EXCEPT ![t] = NoRequest]
        /\ UNCHANGED <<reached, effective, applies, load, due>>
    BY <1>5 DEF NotStored
  <2>2. RequestsTyped'
    <3>1. requests' = requests \/ \E r \in Valid \cup {Unset} : requests' = Append(requests, r)
      BY <1>5 DEF NotStored
    <3> QED BY <2>1, <3>1, ProtectionParts, ProtectionConstants, RequestsGrow
  <2>3. [tab[t] EXCEPT !.toast = "failed"] \in Page /\ [tab[t] EXCEPT !.toast = "failed"].toast # "unfounded"
    BY <1>1 DEF Page
  <2>4. tab' \in [Tab -> Page] /\ \A u \in Tab : tab'[u].toast # "unfounded"
    BY <2>1, <2>3, TabChanges
  <2>5. NoRequest \in [kind : {"none", "apply", "revert"}, value : Value \cup {Unset}]
    BY DEF NoRequest
  <2>6. write' \in [Tab -> [kind : {"none", "apply", "revert"}, value : Value \cup {Unset}]]
    BY <2>1, <2>5, ProtectionParts
  <2> QED BY <2>1, <2>2, <2>4, <2>6, ProtectionParts, PageStepKeeps
<1> QED BY <1>2, <1>3, <1>4, <1>5

\* What is left to show of a step after which other checks stand, or another block
\* is in force.
LEMMA CheckStepKeeps ==
  ASSUME ProtectionInv, UNCHANGED <<applies, load>>,
         tab' \in [Tab -> Page], \A t \in Tab : tab'[t].toast # "unfounded",
         write' \in [Tab -> [kind : {"none", "apply", "revert"}, value : Value \cup {Unset}]],
         RequestsTyped', effective' \in Settings \cup {Unset},
         due' \in [Tab -> [Check -> Checking]],
         \A t \in Tab, c \in Check :
           due'[t][c].kind # "none" /\ effective' # Unset => effective'.value \in due'[t][c].since
  PROVE  ProtectionInv'
<1>1. applies' \in 0..MaxApplies
  BY ProtectionParts
<1>2. EnforcingIsFounded'
  BY DEF EnforcingIsFounded
<1> QED BY <1>1, <1>2 DEF ProtectionInv, Page, Checking, Settings

\* A check starts with what is in force when its write was answered.
LEMMA StoredKeeps == ASSUME ProtectionInv, NEW t \in Tab, Stored(t) PROVE ProtectionInv'
<1> DEFINE w == write[t]
           k == [kind |-> w.kind, value |-> w.value,
                 since |-> IF effective = Unset THEN {} ELSE {effective.value}]
           n == [tab[t] EXCEPT !.confirming = "", !.toast = "sent"]
<1>1. w \in [kind : {"none", "apply", "revert"}, value : Value \cup {Unset}] /\ tab[t] \in Page
  BY ProtectionParts
<1>2. UNCHANGED <<effective, applies, load>>
  BY DEF Stored
<1>3. PICK c \in Check : due' = [due EXCEPT ![t] = [due[t] EXCEPT ![c] = k]]
  BY DEF Stored, Later
<1>4. k \in Checking /\ (effective # Unset => effective.value \in k.since)
  <2>1. effective # Unset => effective.value \in Value
    BY ProtectionParts DEF Settings
  <2> QED BY <1>1, <2>1 DEF Checking
<1>5. tab' = [tab EXCEPT ![t] = n]
  BY DEF Stored
<1>6. n \in Page /\ n.toast # "unfounded"
  BY <1>1 DEF Page
<1>7. RequestsTyped'
  <2>1. requests' = Append(requests, IF w.kind = "apply" THEN w.value ELSE Unset) /\ UNCHANGED reached
    BY DEF Stored
  <2>2. (IF w.kind = "apply" THEN w.value ELSE Unset) \in Value \cup {Unset}
    BY <1>1
  <2> HIDE DEF w
  <2> QED BY <2>1, <2>2, ProtectionParts, RequestsGrow
<1>8. write' \in [Tab -> [kind : {"none", "apply", "revert"}, value : Value \cup {Unset}]]
  BY ProtectionParts DEF Stored, NoRequest
<1> HIDE DEF k, n
<1>9. tab' \in [Tab -> Page] /\ \A u \in Tab : tab'[u].toast # "unfounded"
  BY <1>5, <1>6, TabChanges
<1>10. due' \in [Tab -> [Check -> Checking]]
  BY <1>3, <1>4, ProtectionParts
<1>11. \A u \in Tab, x \in Check : due'[u][x] = k \/ due'[u][x] = due[u][x]
  BY <1>3, ProtectionParts
<1>12. \A u \in Tab, x \in Check :
         due'[u][x].kind # "none" /\ effective' # Unset => effective'.value \in due'[u][x].since
  BY <1>2, <1>4, <1>11 DEF ProtectionInv
<1>13. effective' \in Settings \cup {Unset}
  BY <1>2, ProtectionParts
<1> QED BY <1>2, <1>7, <1>8, <1>9, <1>10, <1>12, <1>13, CheckStepKeeps

\* The gateway's change is noted by every check that is still to come.
LEMMA PublishKeeps ==
  ASSUME ProtectionInv, NEW e \in Settings \cup {Unset}, Publish(e), reached' \in 0..Len(requests)
  PROVE  ProtectionInv'
<1>0. RequestsTyped'
  BY ProtectionParts DEF Publish, RequestsTyped
<1>1. UNCHANGED <<requests, applies, tab, write, load>> /\ effective' = e
  BY DEF Publish
<1>2. due' = [t \in Tab |-> [c \in Check |->
        IF due[t][c].kind = "none" \/ e = Unset THEN due[t][c]
        ELSE [due[t][c] EXCEPT !.since = @ \cup {e.value}]]]
  BY DEF Publish
<1>3. ASSUME NEW t \in Tab, NEW c \in Check
      PROVE  /\ due'[t][c] \in Checking
             /\ due'[t][c].kind # "none" /\ e # Unset => e.value \in due'[t][c].since
  <2> DEFINE d == due[t][c]
  <2>1. d \in Checking
    BY ProtectionParts
  <2>2. CASE d.kind = "none" \/ e = Unset
    <3>1. due'[t][c] = d
      BY <1>2, <2>2
    <3> QED BY <2>1, <2>2, <3>1
  <2>3. CASE ~(d.kind = "none" \/ e = Unset)
    <3>1. due'[t][c] = [d EXCEPT !.since = d.since \cup {e.value}]
      BY <1>2, <2>3
    <3>2. e.value \in Value
      BY <2>3 DEF Settings
    <3> HIDE DEF d
    <3> QED BY <2>1, <3>1, <3>2 DEF Checking
  <2> QED BY <2>2, <2>3
<1>4. due' \in [Tab -> [Check -> Checking]]
  <2>1. due' = [t \in Tab |-> [c \in Check |-> due'[t][c]]]
    BY <1>2
  <2> QED BY <1>3, <2>1
<1>5. \A t \in Tab, c \in Check :
        due'[t][c].kind # "none" /\ effective' # Unset => effective'.value \in due'[t][c].since
  BY <1>1, <1>3
<1> QED BY <1>0, <1>1, <1>4, <1>5, ProtectionParts, CheckStepKeeps

\* What a request asks for is a block of settings.
LEMMA SettingsOfAreSettings ==
  ASSUME RequestsTyped, NEW n \in 0..Len(requests)
  PROVE  SettingsOf(n) \in Settings \cup {Unset}
<1>1. CASE n = 0 \/ requests[n] = Unset
  BY <1>1, ProtectionBounds DEF SettingsOf, FileInForce, Settings
<1>2. CASE ~(n = 0 \/ requests[n] = Unset)
  <2>1. n \in 1..Len(requests) /\ requests \in Seq(Value \cup {Unset})
    BY <1>2 DEF RequestsTyped
  <2>2. requests[n] \in Value
    BY <1>2, <2>1
  <2> QED BY <1>2, <2>2 DEF SettingsOf, Settings
<1> QED BY <1>1, <1>2

LEMMA ProtectionInvInitially == ProtectionInit => ProtectionInv
<1> SUFFICES ASSUME ProtectionInit PROVE ProtectionInv
  OBVIOUS
<1>1. tab \in [Tab -> Page] /\ \A t \in Tab : tab[t].toast = ""
  BY DEF ProtectionInit, Page
<1>2. due \in [Tab -> [Check -> Checking]] /\ \A t \in Tab, c \in Check : due[t][c].kind = "none"
  BY NoCheckIsChecking DEF ProtectionInit, NoCheck
<1>3. write \in [Tab -> [kind : {"none", "apply", "revert"}, value : Value \cup {Unset}]]
  BY DEF ProtectionInit, NoRequest
<1>4. RequestsTyped /\ effective \in Settings \cup {Unset}
  <2>1. requests = <<>> /\ reached = 0 /\ effective \in {Unset, FileInForce}
    BY DEF ProtectionInit
  <2>2. RequestsTyped
    BY <2>1 DEF RequestsTyped
  <2>3. effective \in Settings \cup {Unset}
    BY <2>1, ProtectionBounds DEF Settings, FileInForce
  <2> QED BY <2>2, <2>3
<1>7. applies \in 0..MaxApplies
  <2>1. applies = 0
    BY DEF ProtectionInit
  <2> QED BY <2>1, ProtectionBounds
<1>5. load = [t \in Tab |-> load[t]] /\ \A t \in Tab : load[t] = <<>>
  BY DEF ProtectionInit
<1>6. EnforcingIsFounded
  BY <1>1 DEF EnforcingIsFounded
<1> QED BY <1>1, <1>2, <1>3, <1>4, <1>5, <1>6, <1>7 DEF ProtectionInv

LEMMA ProtectionInvKept == ProtectionInv /\ [ProtectionNext]_protectionVars => ProtectionInv'
<1> SUFFICES ASSUME ProtectionInv, [ProtectionNext]_protectionVars PROVE ProtectionInv'
  OBVIOUS
<1>1. ASSUME NEW t \in Tab, Opens(t) \/ Loaded(t) \/ Send(t) \/ Stored(t) \/ NotStored(t)
      PROVE  ProtectionInv'
  BY <1>1, OpensKeeps, LoadedKeeps, TabKeeps, StoredKeeps
<1>2. ASSUME NEW t \in Tab, NEW c \in Check, DueNow(t, c) PROVE ProtectionInv'
  BY <1>2, DueNowKeeps
<1>3. ASSUME NEW t \in Tab, NEW v \in Value, Edit(t, v) PROVE ProtectionInv'
  BY <1>3, TabKeeps
<1>4. ASSUME NEW t \in Tab, NEW m \in {"", "apply", "revert"}, Confirm(t, m) PROVE ProtectionInv'
  BY <1>4, TabKeeps
<1>5. CASE GatewayTakes
  <2>1. PICK n \in reached..Len(requests) : Publish(SettingsOf(n)) /\ reached' = n
    BY <1>5 DEF GatewayTakes
  <2>2. n \in 0..Len(requests)
    BY <2>1, ProtectionParts DEF RequestsTyped
  <2>3. SettingsOf(n) \in Settings \cup {Unset}
    BY <2>2, ProtectionParts, SettingsOfAreSettings
  <2> QED BY <2>1, <2>2, <2>3, PublishKeeps
<1>6. CASE GatewayRestarts \/ GatewayLapses
  <2>1. FileInForce \in Settings \cup {Unset}
    BY ProtectionBounds DEF FileInForce, Settings
  <2>2. reached \in 0..Len(requests)
    BY ProtectionParts DEF RequestsTyped
  <2> QED BY <1>6, <2>1, <2>2, PublishKeeps DEF GatewayRestarts, GatewayLapses
<1>7. CASE UNCHANGED protectionVars
  BY <1>7, ProtectionParts, RequestsStand, PageStepKeeps DEF protectionVars
<1> QED BY <1>1, <1>2, <1>3, <1>4, <1>5, <1>6, <1>7 DEF ProtectionNext

\* ProtectionInv is inductive, for any tabs, checks and settings blocks.
THEOREM ProtectionAlways == ProtectionSpec => []ProtectionInv
BY ProtectionInvInitially, ProtectionInvKept, PTL DEF ProtectionSpec

\* "The gateway is enforcing the new protection settings" is never said of a block
\* that was not in force at some time after it was sent, for any number of tabs,
\* of checks that are due and of changes of the gateway in between.
THEOREM EnforcingIsNeverUnfounded == ProtectionSpec => []EnforcingIsFounded
<1>1. ProtectionInv => EnforcingIsFounded
  BY DEF ProtectionInv
<1> QED BY <1>1, ProtectionAlways, PTL

\* As the contract begins, so does the page.
LEMMA ContractInitially == ProtectionInit => Contract!Init
BY DEF ProtectionInit, Contract!Init, FileInForce, Contract!FileInForce

\* Whatever the gateway publishes here, the contract lets it.
LEMMA PublishMeetsContract ==
  ASSUME NEW e, Publish(e), reached' \in reached..Len(requests),
         e \in {Contract!FileInForce, Contract!SettingsOf(reached')}
  PROVE  Contract!Next
<1>1. effective' = e /\ UNCHANGED requests
  BY DEF Publish
<1>2. Contract!Publish
  BY <1>1 DEF Contract!Publish
<1> QED BY <1>2 DEF Contract!Next

LEMMA ContractKept ==
  ProtectionInv /\ [ProtectionNext]_protectionVars => [Contract!Next]_<<requests, reached, effective>>
<1> SUFFICES ASSUME ProtectionInv, [ProtectionNext]_protectionVars
             PROVE  Contract!Next \/ UNCHANGED <<requests, reached, effective>>
  OBVIOUS
<1>1. reached \in 0..Len(requests) /\ Len(requests) \in Nat
  BY ProtectionParts DEF RequestsTyped
<1>2. ASSUME NEW r \in Value \cup {Unset}, requests' = Append(requests, r), UNCHANGED <<reached, effective>>
      PROVE  Contract!Next
  BY <1>2 DEF Contract!Next, Contract!Ask
<1>3. ASSUME NEW t \in Tab, Stored(t) PROVE Contract!Next
  <2> DEFINE r == IF write[t].kind = "apply" THEN write[t].value ELSE Unset
  <2>1. requests' = Append(requests, r) /\ UNCHANGED <<reached, effective>>
    BY <1>3 DEF Stored
  <2>2. r \in Value \cup {Unset}
    BY <1>3, ProtectionParts
  <2> HIDE DEF r
  <2> QED BY <1>2, <2>1, <2>2
<1>4. ASSUME NEW t \in Tab, NotStored(t) PROVE Contract!Next \/ UNCHANGED <<requests, reached, effective>>
  <2>1. requests' = requests \/ \E r \in Valid \cup {Unset} : requests' = Append(requests, r)
    BY <1>4 DEF NotStored
  <2>2. UNCHANGED <<reached, effective>>
    BY <1>4 DEF NotStored
  <2> QED BY <1>2, <2>1, <2>2, ProtectionConstants
<1>5. ASSUME NEW t \in Tab,
             \/ Opens(t) \/ Loaded(t) \/ Send(t)
             \/ \E c \in Check : DueNow(t, c)
             \/ \E v \in Value : Edit(t, v)
             \/ \E m \in {"", "apply", "revert"} : Confirm(t, m)
      PROVE  UNCHANGED <<requests, reached, effective>>
  BY <1>5 DEF Opens, Loaded, Send, DueNow, Edit, Confirm
<1>6. CASE GatewayTakes
  <2>1. PICK n \in reached..Len(requests) : Publish(SettingsOf(n)) /\ reached' = n
    BY <1>6 DEF GatewayTakes
  <2>2. SettingsOf(n) = Contract!SettingsOf(n)
    BY DEF SettingsOf, Contract!SettingsOf, FileInForce, Contract!FileInForce
  <2>3. SettingsOf(n) \in {Contract!FileInForce, Contract!SettingsOf(reached')}
    BY <2>1, <2>2
  <2>4. Publish(SettingsOf(n)) /\ reached' \in reached..Len(requests)
    BY <2>1
  <2> QED BY <2>3, <2>4, PublishMeetsContract
<1>7. CASE GatewayRestarts
  <2>1. reached' \in reached..Len(requests)
    BY <1>1, <1>7 DEF GatewayRestarts
  <2>2. FileInForce = Contract!FileInForce
    BY DEF FileInForce, Contract!FileInForce
  <2> QED BY <1>7, <2>1, <2>2, PublishMeetsContract DEF GatewayRestarts
<1>8. CASE GatewayLapses
  BY <1>8 DEF GatewayLapses, Publish, Contract!Next, Contract!Lapse
<1>9. CASE UNCHANGED protectionVars
  BY <1>9 DEF protectionVars
<1> QED BY <1>3, <1>4, <1>5, <1>6, <1>7, <1>8, <1>9 DEF ProtectionNext

\* The page expects of the gateway what the contract promises and no more: whatever
\* two tabs write, lose and revert, ProtectionSpec implements SettingsContract, which
\* LiveSettings implements from the gateway's side (LiveSettingsMeetContract).
THEOREM ProtectionMeetsContract == ProtectionSpec => GatewayKeepsContract
BY ContractInitially, ContractKept, ProtectionAlways, PTL DEF ProtectionSpec, GatewayKeepsContract, Contract!Spec

-----------------------------------------------------------------------------
(* Induction.  The library's induction theorems take an operator; stated for *)
(* a set they follow from the well-foundedness of < on the naturals.         *)

LEMMA Least ==
  ASSUME NEW S \in SUBSET Nat, S # {}
  PROVE  \E m \in S : \A n \in S : m <= n
<1> DEFINE R == OpToRel(<, Nat)
<1>1. IsWellFoundedOn(R, Nat)
  BY NatLessThanWellFounded
<1>2. \A n, m \in Nat : n < m => <<n, m>> \in R
  BY DEF OpToRel
<1> HIDE DEF R
<1>3. PICK m \in S : \A n \in S : ~(<<n, m>> \in R)
  BY <1>1, WFMin
<1>4. ASSUME NEW n \in S PROVE m <= n
  <2>1. m \in Nat /\ n \in Nat
    OBVIOUS
  <2>2. ~(n < m)
    BY <1>2, <1>3, <2>1
  <2> QED BY <2>1, <2>2
<1> QED BY <1>4

LEMMA Induction ==
  ASSUME NEW T, 0 \in T, \A n \in Nat : n \in T => n + 1 \in T
  PROVE  \A n \in Nat : n \in T
<1> SUFFICES ASSUME Nat \ T # {} PROVE FALSE
  OBVIOUS
<1>1. PICK m \in Nat \ T : \A n \in Nat \ T : m <= n
  BY Least
<1>2. m \in Nat /\ m # 0 /\ m - 1 \in Nat /\ (m - 1) + 1 = m /\ ~(m <= m - 1)
  BY <1>1
<1>3. m - 1 \in T
  BY <1>1, <1>2
<1> QED BY <1>1, <1>2, <1>3

LEMMA MinIs ==
  ASSUME NEW S \in SUBSET Nat, S # {}
  PROVE  Min(S) \in S /\ \A n \in S : Min(S) <= n
BY Least DEF Min

\* The least of integers that are bounded below; the greatest of bounded naturals.
LEMMA LeastInt ==
  ASSUME NEW S \in SUBSET Int, S # {}, NEW b \in Int, \A n \in S : b <= n
  PROVE  \E m \in S : \A n \in S : m <= n
<1> DEFINE T == {k \in Nat : k + b \in S}
<1>1. PICK s \in S : TRUE
  OBVIOUS
<1>2. s - b \in Nat /\ (s - b) + b = s
  BY <1>1
<1>3. T \in SUBSET Nat /\ T # {}
  BY <1>2
<1> HIDE DEF T
<1>4. PICK k \in T : \A j \in T : k <= j
  BY <1>3, Least
<1>5. k \in Nat /\ k + b \in S
  BY <1>4 DEF T
<1>6. ASSUME NEW n \in S PROVE k + b <= n
  <2>1. n \in Int /\ b <= n /\ n - b \in Nat /\ (n - b) + b = n
    BY <1>6
  <2>2. n - b \in T
    BY <2>1 DEF T
  <2>3. k <= n - b
    BY <1>4, <2>2
  <2> QED BY <1>5, <2>1, <2>3
<1> QED BY <1>5, <1>6

LEMMA Greatest ==
  ASSUME NEW S, S # {}, NEW key, NEW b \in Nat, \A x \in S : key[x] \in Nat /\ key[x] <= b
  PROVE  \E m \in S : \A x \in S : key[x] <= key[m]
<1> DEFINE T == {k \in Nat : \E x \in S : k = b - key[x]}
<1>1. PICK s \in S : TRUE
  OBVIOUS
<1>2. b - key[s] \in Nat
  BY <1>1
<1>3. T \in SUBSET Nat /\ T # {}
  BY <1>2
<1> HIDE DEF T
<1>4. PICK k \in T : \A j \in T : k <= j
  BY <1>3, Least
<1>5. PICK m \in S : k = b - key[m]
  BY <1>4 DEF T
<1>6. ASSUME NEW x \in S PROVE key[x] <= key[m]
  <2>1. key[x] \in Nat /\ key[x] <= b /\ key[m] \in Nat /\ key[m] <= b
    OBVIOUS
  <2>2. b - key[x] \in T
    BY <2>1 DEF T
  <2>3. b - key[m] <= b - key[x]
    BY <1>4, <1>5, <2>2
  <2> QED BY <2>1, <2>3
<1> QED BY <1>6

\* The k-th of a finite set of naturals.
LEMMA Ranks ==
  ASSUME NEW F \in SUBSET Nat, IsFiniteSet(F)
  PROVE  \A k \in 1..Cardinality(F) : \E n \in F : Cardinality({m \in F : m <= n}) = k
<1> DEFINE upto(n) == {m \in F : m <= n}
           T == {k \in Nat : k + 1 <= Cardinality(F) => \E n \in F : Cardinality(upto(n)) = k + 1}
<1>1. Cardinality(F) \in Nat
  BY FS_CardinalityType
<1>2. 0 \in T
  <2> SUFFICES ASSUME 1 <= Cardinality(F) PROVE \E n \in F : Cardinality(upto(n)) = 1
    OBVIOUS
  <2>1. F # {}
    BY FS_EmptySet
  <2>2. PICK n \in F : \A m \in F : n <= m
    BY <2>1, Least
  <2>3. upto(n) = {n}
    <3>1. ASSUME NEW m \in F PROVE m <= n <=> m = n
      <4>1. m \in Nat /\ n \in Nat /\ n <= m
        BY <2>2
      <4> QED BY <4>1
    <3> QED BY <2>2, <3>1
  <2> QED BY <2>3, FS_Singleton
<1>3. ASSUME NEW k \in Nat, k \in T PROVE k + 1 \in T
  <2> SUFFICES ASSUME (k + 1) + 1 <= Cardinality(F)
               PROVE  \E n \in F : Cardinality(upto(n)) = (k + 1) + 1
    OBVIOUS
  <2>1. k + 1 <= Cardinality(F) /\ k + 1 # Cardinality(F)
    BY <1>1
  <2>2. PICK n \in F : Cardinality(upto(n)) = k + 1
    BY <1>3, <2>1
  <2>3. F \ upto(n) # {}
    <3>1. upto(n) # F
      BY <2>1, <2>2
    <3> QED BY <3>1
  <2>4. PICK l \in F \ upto(n) : \A m \in F \ upto(n) : l <= m
    BY <2>3, Least
  <2>5. l \in Nat /\ n \in Nat /\ ~(l <= n)
    BY <2>4
  <2>6. upto(l) = upto(n) \cup {l}
    <3>1. ASSUME NEW m \in F PROVE m <= l <=> (m <= n \/ m = l)
      <4>1. m \in Nat
        OBVIOUS
      <4>2. m <= n \/ l <= m
        BY <2>4
      <4> QED BY <2>5, <4>1, <4>2
    <3> QED BY <3>1, <2>4
  <2>7. IsFiniteSet(upto(n)) /\ l \notin upto(n)
    BY <2>4, FS_Subset
  <2> HIDE DEF upto
  <2>8. Cardinality(upto(l)) = Cardinality(upto(n)) + 1
    BY <2>6, <2>7, FS_AddElement
  <2> QED BY <2>2, <2>4, <2>8
<1> HIDE DEF T
<1>4. \A k \in Nat : k \in T
  BY <1>2, <1>3, Induction
<1>5. ASSUME NEW k \in 1..Cardinality(F) PROVE \E n \in F : Cardinality(upto(n)) = k
  <2>1. k - 1 \in Nat /\ (k - 1) + 1 = k /\ k <= Cardinality(F)
    BY <1>1
  <2>2. k - 1 \in T
    BY <1>4, <2>1
  <2>3. (k - 1) + 1 <= Cardinality(F) => \E n \in F : Cardinality(upto(n)) = (k - 1) + 1
    BY <2>2 DEF T
  <2> QED BY <2>1, <2>3
<1> QED BY <1>5

-----------------------------------------------------------------------------
(* /api/events. *)

\* The scan's states exist, and each is the next batch after the one before.
LEMMA ScanUnfolds ==
  ASSUME NEW hits, NEW before, NEW limit
  PROVE  \E after :
           /\ after[0] = [events |-> {}, cursor |-> before, lastSeenId |-> Null, reachedStart |-> FALSE]
           /\ \A n \in 1..MAX_SCAN_BATCHES : after[n] = NextBatch(after[n - 1], hits, limit)
           /\ Scan(hits, before, limit) = after[MAX_SCAN_BATCHES]
<1> DEFINE a == [events |-> {}, cursor |-> before, lastSeenId |-> Null, reachedStart |-> FALSE]
           Upto(m, f) == f = [n \in 0..m |-> IF n = 0 THEN a ELSE NextBatch(f[n - 1], hits, limit)]
           T == {m \in Nat : \E f : Upto(m, f)}
<1> HIDE DEF a
<1>1. 0 \in T
  <2> DEFINE g == [n \in 0..0 |-> a]
  <2>1. Upto(0, g)
    OBVIOUS
  <2> QED BY <2>1
<1>2. ASSUME NEW m \in Nat, m \in T PROVE m + 1 \in T
  <2>1. PICK f : Upto(m, f)
    BY <1>2
  <2> DEFINE g == [n \in 0..(m + 1) |-> IF n = m + 1 THEN NextBatch(f[m], hits, limit) ELSE f[n]]
  <2>2. ASSUME NEW n \in 0..(m + 1) PROVE g[n] = IF n = 0 THEN a ELSE NextBatch(g[n - 1], hits, limit)
    <3>1. CASE n = m + 1
      <4>1. n # 0 /\ n - 1 = m /\ m \in 0..(m + 1) /\ m # m + 1
        BY <3>1
      <4>2. g[n] = NextBatch(f[m], hits, limit) /\ g[m] = f[m]
        BY <3>1, <4>1
      <4> QED BY <4>1, <4>2
    <3>2. CASE n = 0 /\ n # m + 1
      <4>1. f[0] = a
        BY <2>1
      <4> QED BY <3>2, <4>1
    <3>3. CASE n # 0 /\ n # m + 1
      <4>1. n \in 0..m /\ n - 1 \in 0..(m + 1) /\ n - 1 # m + 1
        BY <3>3
      <4>2. g[n] = f[n] /\ g[n - 1] = f[n - 1]
        BY <3>3, <4>1
      <4>3. f[n] = NextBatch(f[n - 1], hits, limit)
        BY <2>1, <3>3, <4>1
      <4> QED BY <3>3, <4>2, <4>3
    <3> QED BY <3>1, <3>2, <3>3
  <2>3. g = [n \in 0..(m + 1) |-> g[n]]
    OBVIOUS
  <2> HIDE DEF g
  <2>4. Upto(m + 1, g)
    BY <2>2, <2>3
  <2> QED BY <2>4
<1>3. \E f : Upto(MAX_SCAN_BATCHES, f)
  <2> HIDE DEF T
  <2>1. MAX_SCAN_BATCHES \in T
    BY <1>1, <1>2, Induction, ReadsConstants
  <2> QED BY <2>1 DEF T
<1> DEFINE f == CHOOSE f : Upto(MAX_SCAN_BATCHES, f)
<1>4. Upto(MAX_SCAN_BATCHES, f)
  BY <1>3
<1>5. Scan(hits, before, limit) = f[MAX_SCAN_BATCHES]
  BY DEF Scan, a
<1> HIDE DEF f
<1>6. f[0] = a /\ \A n \in 1..MAX_SCAN_BATCHES : f[n] = NextBatch(f[n - 1], hits, limit)
  <2>1. 0 \in 0..MAX_SCAN_BATCHES /\ \A n \in 1..MAX_SCAN_BATCHES : n \in 0..MAX_SCAN_BATCHES /\ n # 0
    BY ReadsConstants
  <2> QED BY <1>4, <2>1
<1> QED BY <1>5, <1>6 DEF a

\* A batch ends where it was left, with everything above it looked at.
LEMMA TakenIs ==
  ASSUME NEW hits \in SUBSET Nat, NEW c \in Nat \ {0}, NEW limit \in Nat \ {0}, NEW room \in Nat \ {0},
         XRevRange(c, limit) # {}
  PROVE  LET taken == Taken(XRevRange(c, limit), hits, room)
         IN /\ Min(taken) \in 1..(c - 1)
            /\ taken = Min(taken)..(c - 1)
            /\ IsFiniteSet(hits \cap taken)
            /\ Cardinality(hits \cap taken) <= room
<1> DEFINE batch == XRevRange(c, limit)
           above(i) == {j \in hits \cap batch : j > i}
           taken == Taken(batch, hits, room)
<1>1. batch \subseteq 1..(c - 1) /\ \A i \in batch : i >= c - limit
  BY DEF XRevRange
<1>2. c - 1 \in batch /\ c - 1 \in Nat
  BY DEF XRevRange
<1>3. IsFiniteSet(batch)
  <2>1. 1 \in Int /\ c - 1 \in Int
    OBVIOUS
  <2>2. IsFiniteSet(1..(c - 1))
    BY <2>1, FS_Interval
  <2> HIDE DEF batch
  <2> QED BY <1>1, <2>2, FS_Subset
<1>4. \A i : IsFiniteSet(above(i)) /\ Cardinality(above(i)) \in Nat
  BY <1>3, FS_Subset, FS_CardinalityType
<1>5. c - 1 \in taken
  <2>1. above(c - 1) = {}
    BY <1>1, <1>2
  <2>2. Cardinality(above(c - 1)) = 0
    BY <2>1, FS_EmptySet
  <2> QED BY <1>2, <2>2 DEF Taken
<1>6. \A i \in taken : i \in batch /\ Cardinality(above(i)) < room
  BY DEF Taken
<1>7. \A i \in batch : Cardinality(above(i)) < room => i \in taken
  BY DEF Taken
<1> HIDE DEF taken, batch
<1>8. taken \in SUBSET Nat /\ taken # {}
  <2>1. \A i \in 1..(c - 1) : i \in Nat
    OBVIOUS
  <2> QED BY <1>1, <1>5, <1>6, <2>1
<1>9. Min(taken) \in taken /\ \A i \in taken : Min(taken) <= i
  BY <1>8, MinIs
<1> DEFINE m == Min(taken)
<1> HIDE DEF m
<1>10. m \in taken /\ m \in 1..(c - 1) /\ m >= c - limit /\ \A i \in taken : m <= i
  BY <1>1, <1>6, <1>9 DEF m
<1>11. ASSUME NEW i \in m..(c - 1) PROVE i \in taken
  <2>1. i \in batch
    BY <1>10 DEF batch, XRevRange
  <2>2. above(i) \in SUBSET above(m)
    <3>1. m \in Nat /\ i \in Nat /\ m <= i
      BY <1>10
    <3>2. \A j \in Nat : j > i => j > m
      BY <3>1
    <3> QED BY <3>2
  <2>3. Cardinality(above(i)) <= Cardinality(above(m))
    BY <1>4, <2>2, FS_Subset
  <2>4. Cardinality(above(m)) < room
    BY <1>6, <1>10
  <2>5. Cardinality(above(i)) < room
    BY <1>4, <2>3, <2>4
  <2> QED BY <1>7, <2>1, <2>5
<1>12. taken = m..(c - 1)
  <2>1. ASSUME NEW i \in taken PROVE i \in m..(c - 1)
    <3>1. i \in 1..(c - 1) /\ m <= i /\ m \in 1..(c - 1)
      BY <1>1, <1>6, <1>10
    <3> QED BY <3>1
  <2> QED BY <1>11, <2>1
<1>13. IsFiniteSet(hits \cap taken)
  BY <1>3, <1>6, FS_Subset
<1>14. Cardinality(hits \cap taken) <= room
  <2>1. CASE hits \cap taken = {}
    BY <2>1, FS_EmptySet
  <2>2. CASE hits \cap taken # {}
    <3> DEFINE H == hits \cap taken
    <3>1. H \in SUBSET Nat /\ H # {} /\ IsFiniteSet(H)
      BY <1>13, <2>2
    <3>2. H \subseteq hits \cap batch /\ H \subseteq taken
      BY <1>6
    <3> HIDE DEF H
    <3>3. PICK h \in H : \A j \in H : h <= j
      BY <3>1, Least
    <3>4. H \ {h} \in SUBSET above(h)
      BY <3>1, <3>2, <3>3
    <3>5. Cardinality(H \ {h}) <= Cardinality(above(h)) /\ Cardinality(above(h)) < room
      BY <1>4, <1>6, <3>2, <3>3, <3>4, FS_Subset
    <3>6. Cardinality(H \ {h}) = Cardinality(H) - 1 /\ Cardinality(H) \in Nat /\ Cardinality(H \ {h}) \in Nat
      BY <3>1, <3>3, FS_RemoveElement, FS_CardinalityType
    <3>7. Cardinality(H) <= room
      BY <1>4, <3>5, <3>6
    <3> QED BY <3>7 DEF H
  <2> QED BY <2>1, <2>2
<1> QED BY <1>10, <1>12, <1>13, <1>14 DEF m, taken, batch

\* What one more batch adds is what lies between the two cursors.
LEMMA NextBatchKeeps ==
  ASSUME NEW hits \in SUBSET (Nat \ {0}), NEW before \in Nat \ {0}, NEW limit \in Nat \ {0},
         NEW s, ScanSound(s, hits, before, limit)
  PROVE  ScanSound(NextBatch(s, hits, limit), hits, before, limit)
<1> DEFINE batch == XRevRange(s.cursor, limit)
           room == limit - Cardinality(s.events)
           taken == Taken(batch, hits, room)
           done == s.reachedStart \/ Cardinality(s.events) >= limit
           n == [events |-> s.events \cup (hits \cap taken), cursor |-> Min(taken),
                 lastSeenId |-> Min(taken), reachedStart |-> Cardinality(batch) < limit]
<1>1. /\ s \in [events : SUBSET hits, cursor : Nat \ {0}, lastSeenId : Nat \cup {Null}, reachedStart : BOOLEAN]
      /\ s.cursor = IF s.lastSeenId = Null THEN before ELSE s.lastSeenId
      /\ s.lastSeenId # Null => s.lastSeenId < before
      /\ s.events = {i \in hits : s.cursor <= i /\ i < before}
      /\ Cardinality(s.events) <= limit
  BY DEF ScanSound
<1>2. IsFiniteSet(s.events) /\ Cardinality(s.events) \in Nat
  <2>1. IsFiniteSet(1..before)
    BY FS_Interval
  <2>2. ASSUME NEW i \in s.events PROVE i \in 1..before
    <3>1. i \in Nat \ {0} /\ i < before
      BY <1>1
    <3> QED BY <3>1
  <2>3. s.events \in SUBSET (1..before)
    BY <2>2
  <2> QED BY <2>1, <2>3, FS_Subset, FS_CardinalityType
<1>3. NextBatch(s, hits, limit) = IF done THEN s
                                  ELSE IF batch = {} THEN [s EXCEPT !.reachedStart = TRUE] ELSE n
  BY DEF NextBatch
<1> HIDE DEF batch, taken, n, done
<1>4. CASE done
  <2>1. NextBatch(s, hits, limit) = s
    BY <1>3, <1>4
  <2> QED BY <2>1
<1>5. CASE ~done /\ batch = {}
  <2>1. NextBatch(s, hits, limit) = [s EXCEPT !.reachedStart = TRUE]
    BY <1>3, <1>5
  <2> DEFINE r == [s EXCEPT !.reachedStart = TRUE]
  <2>2. /\ r \in [events : SUBSET hits, cursor : Nat \ {0}, lastSeenId : Nat \cup {Null}, reachedStart : BOOLEAN]
        /\ r.events = s.events /\ r.cursor = s.cursor /\ r.lastSeenId = s.lastSeenId
    BY <1>1
  <2> HIDE DEF r
  <2>3. ScanSound(r, hits, before, limit)
    BY <1>1, <2>2 DEF ScanSound
  <2> QED BY <2>1, <2>3 DEF r
<1>6. CASE ~done /\ batch # {}
  <2>1. NextBatch(s, hits, limit) = n
    BY <1>3, <1>6
  <2>2. room \in Nat \ {0}
    BY <1>1, <1>2, <1>6 DEF done
  <2>3. s.cursor \in Nat \ {0} /\ s.cursor <= before
    BY <1>1
  <2>4. /\ Min(taken) \in 1..(s.cursor - 1)
        /\ taken = Min(taken)..(s.cursor - 1)
        /\ IsFiniteSet(hits \cap taken)
        /\ Cardinality(hits \cap taken) <= room
    BY <1>6, <2>2, <2>3, TakenIs DEF taken, batch
  <2> DEFINE m == Min(taken)
  <2> HIDE DEF m, room
  <2>5. m \in Nat \ {0} /\ m < s.cursor /\ taken = m..(s.cursor - 1) /\ m # Null
    BY <2>3, <2>4, ReadsConstants DEF m
  <2>6. /\ n.events = s.events \cup (hits \cap taken) /\ n.cursor = m /\ n.lastSeenId = m
        /\ n = [events |-> n.events, cursor |-> n.cursor, lastSeenId |-> n.lastSeenId, reachedStart |-> n.reachedStart]
        /\ n.reachedStart = (Cardinality(batch) < limit)
    BY DEF n, m
  <2>7. n.reachedStart \in BOOLEAN
    BY <2>6
  <2>8. n.events = {i \in hits : m <= i /\ i < before}
    <3>1. ASSUME NEW i \in hits PROVE (i \in s.events \/ i \in taken) <=> (m <= i /\ i < before)
      <4>1. i \in Nat
        OBVIOUS
      <4>2. i \in s.events <=> (s.cursor <= i /\ i < before)
        BY <1>1
      <4>3. i \in taken <=> (m <= i /\ i <= s.cursor - 1)
        BY <2>3, <2>5, <4>1
      <4> QED BY <2>3, <2>5, <4>1, <4>2, <4>3
    <3>2. s.events \subseteq hits
      BY <1>1
    <3> QED BY <2>6, <3>1, <3>2
  <2>9. Cardinality(n.events) <= limit
    <3>1. s.events \cap (hits \cap taken) \in SUBSET s.events
      OBVIOUS
    <3>2. Cardinality(s.events \cap (hits \cap taken)) \in Nat
      BY <1>2, <3>1, FS_Subset, FS_CardinalityType
    <3>3. Cardinality(n.events) = Cardinality(s.events) + Cardinality(hits \cap taken)
                                   - Cardinality(s.events \cap (hits \cap taken))
      BY <1>2, <2>4, <2>6, FS_Union
    <3>4. Cardinality(hits \cap taken) \in Nat
      BY <2>4, FS_CardinalityType
    <3>5. room = limit - Cardinality(s.events)
      BY DEF room
    <3> QED BY <1>2, <2>4, <3>2, <3>3, <3>4, <3>5
  <2>10. n \in [events : SUBSET hits, cursor : Nat \ {0}, lastSeenId : Nat \cup {Null}, reachedStart : BOOLEAN]
    BY <2>5, <2>6, <2>7, <2>8
  <2>11. ScanSound(n, hits, before, limit)
    BY <2>3, <2>5, <2>6, <2>8, <2>9, <2>10 DEF ScanSound
  <2> QED BY <2>1, <2>11
<1> QED BY <1>4, <1>5, <1>6

LEMMA ScanIsSound ==
  ASSUME NEW hits \in SUBSET (Nat \ {0}), NEW before \in Nat \ {0}, NEW limit \in Nat \ {0}
  PROVE  ScanSound(Scan(hits, before, limit), hits, before, limit)
<1>1. PICK after :
        /\ after[0] = [events |-> {}, cursor |-> before, lastSeenId |-> Null, reachedStart |-> FALSE]
        /\ \A n \in 1..MAX_SCAN_BATCHES : after[n] = NextBatch(after[n - 1], hits, limit)
        /\ Scan(hits, before, limit) = after[MAX_SCAN_BATCHES]
  BY ScanUnfolds
<1> DEFINE T == {n \in Nat : n <= MAX_SCAN_BATCHES => ScanSound(after[n], hits, before, limit)}
<1>2. 0 \in T
  <2>1. after[0] \in [events : SUBSET hits, cursor : Nat \ {0}, lastSeenId : Nat \cup {Null}, reachedStart : BOOLEAN]
    BY <1>1
  <2>2. after[0].events = {} /\ after[0].cursor = before /\ after[0].lastSeenId = Null
    BY <1>1
  <2>3. {i \in hits : before <= i /\ i < before} = {}
    <3>1. \A i \in hits : ~(before <= i /\ i < before)
      OBVIOUS
    <3> QED BY <3>1
  <2>4. Cardinality({}) = 0
    BY FS_EmptySet
  <2>5. ScanSound(after[0], hits, before, limit)
    BY <2>1, <2>2, <2>3, <2>4 DEF ScanSound
  <2> QED BY <2>5
<1>3. ASSUME NEW n \in Nat, n \in T PROVE n + 1 \in T
  <2> SUFFICES ASSUME n + 1 <= MAX_SCAN_BATCHES PROVE ScanSound(after[n + 1], hits, before, limit)
    OBVIOUS
  <2>1. n <= MAX_SCAN_BATCHES /\ n + 1 \in 1..MAX_SCAN_BATCHES /\ (n + 1) - 1 = n
    BY ReadsConstants
  <2>2. ScanSound(after[n], hits, before, limit)
    BY <1>3, <2>1
  <2>3. after[n + 1] = NextBatch(after[n], hits, limit)
    BY <1>1, <2>1
  <2> QED BY <2>2, <2>3, NextBatchKeeps
<1> HIDE DEF T
<1>4. MAX_SCAN_BATCHES \in T /\ MAX_SCAN_BATCHES \in Nat
  BY <1>2, <1>3, Induction, ReadsConstants
<1>5. ScanSound(after[MAX_SCAN_BATCHES], hits, before, limit)
  <2>1. MAX_SCAN_BATCHES <= MAX_SCAN_BATCHES
    BY <1>4
  <2> QED BY <1>4, <2>1 DEF T
<1> QED BY <1>1, <1>5

LEMMA PagesAreGapless ==
  ASSUME NEW hits \in SUBSET (Nat \ {0}), NEW before \in Nat \ {0}, NEW limit \in Nat \ {0}
  PROVE  LET page == EventsPage(hits, before, limit)
             last == Scan(hits, before, limit).lastSeenId
         IN /\ page.cursor # Null => last < before
            /\ page.events = IF last = Null THEN {} ELSE {i \in hits : last <= i /\ i < before}
            /\ Cardinality(page.events) <= limit
<1> DEFINE s == Scan(hits, before, limit)
           page == EventsPage(hits, before, limit)
<1>1. ScanSound(s, hits, before, limit)
  BY ScanIsSound
<1>2. page.events = s.events /\ page.cursor = (IF s.reachedStart THEN Null ELSE s.lastSeenId)
  BY DEF EventsPage
<1> HIDE DEF s, page
<1>3. s.lastSeenId = Null => s.events = {}
  <2>1. {i \in hits : before <= i /\ i < before} = {}
    <3>1. \A i \in hits : ~(before <= i /\ i < before)
      OBVIOUS
    <3> QED BY <3>1
  <2> QED BY <1>1, <2>1 DEF ScanSound
<1>4. s.lastSeenId # Null => s.events = {i \in hits : s.lastSeenId <= i /\ i < before}
  BY <1>1 DEF ScanSound
<1>5. page.cursor # Null => s.lastSeenId < before
  BY <1>1, <1>2 DEF ScanSound
<1>6. Cardinality(page.events) <= limit
  BY <1>1, <1>2 DEF ScanSound
<1> QED BY <1>2, <1>3, <1>4, <1>5, <1>6 DEF s, page

-----------------------------------------------------------------------------
(* The policy rows. *)

LEMMA RowsHideNoKey ==
  ASSUME NEW stored, stored \in [DOMAIN stored -> {Null} \cup [action : DOMAIN ACTION_PRIORITY, ttl : TTL]],
         NEW k \in DOMAIN stored, stored[k] # Null
  PROVE  LET rows == coalescePolicies(stored)
         IN /\ k[1] \in DOMAIN rows
            /\ ACTION_PRIORITY[stored[k].action] <= ACTION_PRIORITY[rows[k[1]].action]
            /\ k[2] \in rows[k[1]].scopes
            /\ (\A l \in PolicyKeys(stored, k[1]) : formatTtl(stored[l].ttl) # Null)
                 => LET shown == formatTtl(rows[k[1]].expiresIn)
                    IN shown # Null /\ shown <= formatTtl(stored[k].ttl)
<1> DEFINE rows == coalescePolicies(stored)
           ip == k[1]
           group == PolicyKeys(stored, ip)
           prio == [l \in group |-> ACTION_PRIORITY[stored[l].action]]
           p == Primary(stored, ip)
           ttls == {stored[l].ttl : l \in group}
<1>1. k \in group /\ \A l \in group : stored[l] \in [action : DOMAIN ACTION_PRIORITY, ttl : TTL]
  BY DEF PolicyKeys
<1>2. /\ ip \in DOMAIN rows
      /\ rows[ip].action = stored[p].action
      /\ rows[ip].scopes = {l[2] : l \in group}
      /\ rows[ip].expiresIn = Min(ttls)
  BY DEF coalescePolicies
<1> HIDE DEF rows, group, p
<1>3. p \in group /\ \A l \in group : ACTION_PRIORITY[stored[l].action] <= ACTION_PRIORITY[stored[p].action]
  <2>1. \A a \in DOMAIN ACTION_PRIORITY : ACTION_PRIORITY[a] \in 0..3
    BY DEF ACTION_PRIORITY
  <2>2. \A l \in group : prio[l] \in Nat /\ prio[l] <= 3
    BY <1>1, <2>1
  <2>3. PICK m \in group : \A l \in group : prio[l] <= prio[m]
    BY <1>1, <2>2, Greatest
  <2>4. \A l \in group : ACTION_PRIORITY[stored[l].action] <= ACTION_PRIORITY[stored[m].action]
    BY <2>3
  <2> QED BY <2>4 DEF p, Primary, group
<1>4. /\ Min(ttls) \in ttls /\ Min(ttls) <= stored[k].ttl
      /\ \A l \in group : stored[l].ttl \in Int
  <2>1. \A l \in group : stored[l].ttl \in Int /\ -2 <= stored[l].ttl
    BY <1>1 DEF TTL
  <2>2. ttls \in SUBSET Int /\ stored[k].ttl \in ttls /\ \A n \in ttls : -2 <= n
    BY <1>1, <2>1
  <2> HIDE DEF ttls
  <2> DEFINE b == -2
  <2>4. b \in Int /\ (\A n \in ttls : b <= n) /\ ttls # {}
    BY <2>2
  <2> HIDE DEF b
  <2>3. \E m \in ttls : \A n \in ttls : m <= n
    BY <2>2, <2>4, LeastInt
  <2>5. Min(ttls) \in ttls /\ Min(ttls) <= stored[k].ttl
    BY <2>2, <2>3 DEF Min
  <2> QED BY <2>1, <2>5
<1>5. ASSUME \A l \in group : formatTtl(stored[l].ttl) # Null
      PROVE  formatTtl(Min(ttls)) # Null /\ formatTtl(Min(ttls)) <= formatTtl(stored[k].ttl)
  <2>1. PICK m \in group : Min(ttls) = stored[m].ttl
    BY <1>4
  <2>2. stored[m].ttl \in Int /\ stored[k].ttl \in Int /\ stored[m].ttl <= stored[k].ttl
    BY <1>1, <1>4, <2>1
  <2>3. formatTtl(stored[m].ttl) # Null
    BY <1>5
  <2>4. stored[m].ttl >= 0
    BY <2>2, <2>3 DEF formatTtl
  <2>5. formatTtl(stored[m].ttl) = stored[m].ttl /\ formatTtl(stored[k].ttl) = stored[k].ttl
    BY <2>2, <2>4 DEF formatTtl
  <2> QED BY <2>1, <2>2, <2>3, <2>5
<1>6. (\A l \in group : formatTtl(stored[l].ttl) # Null)
        => formatTtl(rows[ip].expiresIn) # Null /\ formatTtl(rows[ip].expiresIn) <= formatTtl(stored[k].ttl)
  BY <1>2, <1>5
<1> QED BY <1>1, <1>2, <1>3, <1>6 DEF rows, group

-----------------------------------------------------------------------------
(* The overview and the page of an address. *)

LEMMA SweepsAreNoRoutes ==
  ASSUME NEW events \in Seq(Event),
         NEW t \in missingRoutes(events)
  PROVE  \E i, j \in DOMAIN events :
           /\ i # j /\ events[i].ip = events[j].ip
           /\ \A n \in {i, j} : Unmatched(events[n]) /\ Endpoint(events[n]) = t
<1> DEFINE mine == {i \in DOMAIN events : Unmatched(events[i]) /\ Endpoint(events[i]) = t}
           clients == {events[i].ip : i \in mine}
           f == [i \in mine |-> events[i].ip]
<1>1. /\ Cardinality(clients) >= MIN_ROUTE_CLIENTS
      /\ Cardinality(mine) >= 2 * Cardinality(clients)
  BY DEF missingRoutes
<1>2. mine \subseteq 1..Len(events) /\ Len(events) \in Nat
  OBVIOUS
<1>3. f \in Surjection(mine, clients)
  BY DEF Surjection
<1>4. f \in [mine -> clients] /\ \A i \in mine : f[i] = events[i].ip
  OBVIOUS
<1>5. \A i \in mine : i \in DOMAIN events /\ Unmatched(events[i]) /\ Endpoint(events[i]) = t
  OBVIOUS
<1> HIDE DEF mine, clients, f
<1>6. IsFiniteSet(mine)
  <2>1. IsFiniteSet(1..Len(events))
    BY <1>2, FS_Interval
  <2> QED BY <1>2, <2>1, FS_Subset
<1>7. IsFiniteSet(clients) /\ Cardinality(clients) \in Nat /\ Cardinality(mine) \in Nat
  BY <1>3, <1>6, FS_Surjection, FS_CardinalityType
<1>8. Cardinality(clients) < Cardinality(mine)
  BY <1>1, <1>7, ReadsConstants
<1>9. PICK i, j \in mine : i # j /\ f[i] = f[j]
  BY <1>4, <1>6, <1>7, <1>8, FS_PigeonHole
<1> QED BY <1>4, <1>5, <1>9

\* The first n of a finite set in the order of a key exist.
LEMMA FirstsExist ==
  ASSUME NEW S, IsFiniteSet(S), NEW key, NEW b \in Nat, \A x \in S : key[x] \in Nat /\ key[x] <= b
  PROVE  \A n \in Nat : n <= Cardinality(S) =>
           \E T \in SUBSET S : Cardinality(T) = n /\ \A x \in T, y \in S \ T : key[x] >= key[y]
<1> DEFINE Top(T, n) == T \in SUBSET S /\ Cardinality(T) = n /\ \A x \in T, y \in S \ T : key[x] >= key[y]
           N == {n \in Nat : n <= Cardinality(S) => \E T : Top(T, n)}
<1>1. 0 \in N
  <2>1. Top({}, 0)
    BY FS_EmptySet
  <2> QED BY <2>1
<1>2. ASSUME NEW n \in Nat, n \in N PROVE n + 1 \in N
  <2> SUFFICES ASSUME n + 1 <= Cardinality(S) PROVE \E T : Top(T, n + 1)
    OBVIOUS
  <2>1. Cardinality(S) \in Nat /\ n <= Cardinality(S) /\ n # Cardinality(S)
    BY FS_CardinalityType
  <2>2. PICK T : Top(T, n)
    BY <1>2, <2>1
  <2>3. S \ T # {} /\ IsFiniteSet(T)
    BY <2>1, <2>2, FS_Subset
  <2>4. \A x \in S \ T : key[x] \in Nat /\ key[x] <= b
    OBVIOUS
  <2>5. PICK z \in S \ T : \A x \in S \ T : key[x] <= key[z]
    BY <2>3, <2>4, Greatest
  <2>6. Cardinality(T \cup {z}) = n + 1
    BY <2>2, <2>3, <2>5, FS_AddElement
  <2>7. ASSUME NEW x \in T \cup {z}, NEW y \in S \ (T \cup {z}) PROVE key[x] >= key[y]
    <3>1. key[x] \in Nat /\ key[y] \in Nat /\ key[z] \in Nat /\ y \in S \ T
      BY <2>2, <2>5
    <3>2. CASE x = z
      BY <2>5, <3>1, <3>2
    <3>3. CASE x \in T
      BY <2>2, <3>1, <3>3
    <3> QED BY <3>2, <3>3
  <2>8. Top(T \cup {z}, n + 1)
    BY <2>2, <2>5, <2>6, <2>7
  <2> QED BY <2>8
<1> HIDE DEF N
<1>3. \A n \in Nat : n \in N
  BY <1>1, <1>2, Induction
<1> QED BY <1>3 DEF N

LEMMA LoudestIsListed ==
  ASSUME NEW events \in Seq(Event),
         NEW ip \in DOMAIN summarizeSources(events),
         summarizeSources(events)[ip].alerts > 0,
         \A other \in DOMAIN summarizeSources(events) \ {ip} :
            summarizeSources(events)[other].alerts < summarizeSources(events)[ip].alerts
  PROVE  ip \in Ranked(events)
<1> DEFINE rows == summarizeSources(events)
           alerting(x) == {i \in DOMAIN events : events[i].ip = x /\ events[i].fired # <<>>}
           sources == {events[i].ip : i \in DOMAIN events}
           f == [i \in DOMAIN events |-> events[i].ip]
           S == {x \in DOMAIN rows : rows[x].alerts > 0}
           key == [x \in DOMAIN rows |-> rows[x].alerts]
           Listed(T) == /\ Cardinality(T) = Min({TOP, Cardinality(S)})
                        /\ \A x \in T, y \in S \ T : rows[x].alerts >= rows[y].alerts
<1>1. IsFiniteSet(DOMAIN events) /\ Cardinality(DOMAIN events) \in Nat
  <2>1. DOMAIN events = 1..Len(events) /\ Len(events) \in Int /\ 1 \in Int
    OBVIOUS
  <2> QED BY <2>1, FS_Interval, FS_CardinalityType
<1>2. DOMAIN rows = sources /\ \A x \in sources : rows[x].alerts = Cardinality(alerting(x))
  BY DEF summarizeSources, Count
<1>3. Ranked(events) = CHOOSE T \in SUBSET S : Listed(T)
  BY DEF Ranked, Firsts
<1> HIDE DEF rows
<1>4. f \in Surjection(DOMAIN events, sources)
  BY DEF Surjection
<1> HIDE DEF f, sources
<1>5. IsFiniteSet(sources)
  BY <1>1, <1>4, FS_Surjection
<1>6. IsFiniteSet(S) /\ Cardinality(S) \in Nat
  BY <1>2, <1>5, FS_Subset, FS_CardinalityType
<1>7. \A x \in DOMAIN rows : rows[x].alerts \in Nat /\ rows[x].alerts <= Cardinality(DOMAIN events)
  <2>1. \A x : alerting(x) \in SUBSET DOMAIN events
    OBVIOUS
  <2> HIDE DEF alerting
  <2> QED BY <1>1, <1>2, <2>1, FS_Subset, FS_CardinalityType
<1>8. ip \in S /\ \A other \in S \ {ip} : rows[other].alerts < rows[ip].alerts
  BY DEF rows
<1>9. \A x \in S : key[x] = rows[x].alerts /\ key[x] \in Nat /\ key[x] <= Cardinality(DOMAIN events)
  BY <1>7
<1>10. S \subseteq DOMAIN rows
  OBVIOUS
<1> HIDE DEF S, key
<1> DEFINE n == Min({TOP, Cardinality(S)})
<1>11. n \in Nat /\ n <= Cardinality(S) /\ n # 0
  <2>1. Cardinality(S) # 0
    BY <1>6, <1>8, FS_EmptySet
  <2>2. {TOP, Cardinality(S)} \in SUBSET Nat /\ TOP # 0
    BY <1>6, ReadsConstants
  <2>3. n \in {TOP, Cardinality(S)} /\ \A k \in {TOP, Cardinality(S)} : n <= k
    BY <2>2, MinIs
  <2> QED BY <2>1, <2>2, <2>3
<1> HIDE DEF n
<1>12. PICK T \in SUBSET S : Cardinality(T) = n /\ \A x \in T, y \in S \ T : key[x] >= key[y]
  BY <1>1, <1>6, <1>9, <1>11, FirstsExist
<1>13. Listed(T)
  BY <1>9, <1>12 DEF n
<1>14. Ranked(events) \in SUBSET S /\ Listed(Ranked(events))
  BY <1>3, <1>12, <1>13
<1>15. Ranked(events) # {}
  BY <1>11, <1>14, FS_EmptySet DEF n
<1>16. PICK x \in Ranked(events) : TRUE
  BY <1>15
<1>17. ASSUME ip \notin Ranked(events) PROVE FALSE
  <2>1. rows[x].alerts >= rows[ip].alerts
    BY <1>8, <1>14, <1>16, <1>17
  <2>2. x \in S \ {ip}
    BY <1>14, <1>16, <1>17
  <2>3. rows[x].alerts < rows[ip].alerts
    BY <1>8, <2>2
  <2>4. rows[x].alerts \in Nat /\ rows[ip].alerts \in Nat
    BY <1>7, <1>8, <1>10, <2>2
  <2> QED BY <2>1, <2>3, <2>4
<1> QED BY <1>17

\* A list of canonical signals holds each one once.
LEMMA CanonicalIsDistinct ==
  ASSUME NEW fired \in Seq(Signal)
  PROVE  LET c == canonicalSignals(fired)
         IN /\ \A k \in DOMAIN c : LEGACY_SIGNAL_ALIASES(c[k]) = c[k]
            /\ \A k, l \in DOMAIN c : c[k] = c[l] => k = l
<1> DEFINE ids == [n \in DOMAIN fired |-> LEGACY_SIGNAL_ALIASES(fired[n])]
           firsts == {n \in DOMAIN ids : \A m \in 1..(n - 1) : ids[m] # ids[n]}
           upto(n) == {m \in firsts : m <= n}
           pick(k) == CHOOSE n \in firsts : Cardinality(upto(n)) = k
           c == canonicalSignals(fired)
<1>1. c = [k \in 1..Cardinality(firsts) |-> ids[pick(k)]]
  BY DEF canonicalSignals
<1>2. DOMAIN ids = 1..Len(fired) /\ Len(fired) \in Nat
  OBVIOUS
<1>3. \A n \in DOMAIN ids : LEGACY_SIGNAL_ALIASES(ids[n]) = ids[n]
  BY DEF LEGACY_SIGNAL_ALIASES
<1> HIDE DEF ids, c
<1>4. firsts \in SUBSET (1..Len(fired)) /\ firsts \in SUBSET Nat
  BY <1>2
<1>5. ASSUME NEW n \in firsts, NEW m \in firsts, ids[n] = ids[m] PROVE n = m
  <2>1. n \in Nat /\ m \in Nat /\ n # 0 /\ m # 0
    BY <1>2
  <2>2. ~(n < m)
    BY <1>5, <2>1
  <2>3. ~(m < n)
    BY <1>5, <2>1
  <2> QED BY <2>1, <2>2, <2>3
<1>6. firsts \subseteq DOMAIN ids
  OBVIOUS
<1> HIDE DEF firsts
<1>7. IsFiniteSet(firsts)
  <2>1. IsFiniteSet(1..Len(fired))
    BY <1>2, FS_Interval
  <2> QED BY <1>4, <2>1, FS_Subset
<1>8. \A k \in 1..Cardinality(firsts) : \E n \in firsts : Cardinality(upto(n)) = k
  BY <1>4, <1>7, Ranks
<1>9. \A k \in 1..Cardinality(firsts) : pick(k) \in firsts /\ Cardinality(upto(pick(k))) = k
  BY <1>8
<1> HIDE DEF pick, upto
<1>10. \A k \in DOMAIN c : k \in 1..Cardinality(firsts) /\ c[k] = ids[pick(k)]
  BY <1>1
<1>11. \A k \in DOMAIN c : LEGACY_SIGNAL_ALIASES(c[k]) = c[k]
  BY <1>3, <1>6, <1>9, <1>10
<1>12. ASSUME NEW k \in DOMAIN c, NEW l \in DOMAIN c, c[k] = c[l] PROVE k = l
  <2>1. pick(k) = pick(l)
    BY <1>5, <1>9, <1>10, <1>12
  <2> QED BY <1>9, <1>10, <2>1
<1> QED BY <1>11, <1>12 DEF c

LEMMA EventsTallyOnce ==
  ASSUME NEW events \in Seq(Event),
         NEW label
  PROVE  SignalCount(events, label) <= Len(events)
<1> DEFINE longest == Max({Len(events[j].fired) : j \in DOMAIN events})
           c(i) == canonicalSignals(events[i].fired)
           S == {p \in (DOMAIN events) \X (1..longest) :
                   p[2] \in DOMAIN c(p[1]) /\ LEGACY_SIGNAL_ALIASES(c(p[1])[p[2]]) = label}
           f == [p \in S |-> p[1]]
<1>1. SignalCount(events, label) = Cardinality(S)
  BY DEF SignalCount
<1>2. ASSUME NEW i \in DOMAIN events PROVE events[i].fired \in Seq(Signal)
  <2>1. \A e \in Event : e.fired \in Seq(Signal)
    BY DEF Event
  <2>2. events[i] \in Event
    OBVIOUS
  <2> QED BY <2>1, <2>2
<1>3. \A i \in DOMAIN events :
         /\ \A k \in DOMAIN c(i) : LEGACY_SIGNAL_ALIASES(c(i)[k]) = c(i)[k]
         /\ \A k, l \in DOMAIN c(i) : c(i)[k] = c(i)[l] => k = l
  BY <1>2, CanonicalIsDistinct
<1> HIDE DEF longest, c
<1>4. ASSUME NEW p \in S, NEW q \in S, p[1] = q[1] PROVE p = q
  <2>1. p[1] \in DOMAIN events /\ p[2] \in DOMAIN c(p[1]) /\ q[2] \in DOMAIN c(p[1])
    BY <1>4
  <2>2. c(p[1])[p[2]] = label /\ c(p[1])[q[2]] = label
    BY <1>3, <1>4, <2>1
  <2>3. p[2] = q[2]
    BY <1>3, <2>1, <2>2
  <2> QED BY <1>4, <2>3
<1>5. f \in [S -> DOMAIN events] /\ \A p \in S : f[p] = p[1]
  OBVIOUS
<1> HIDE DEF S, f
<1>6. f \in Injection(S, DOMAIN events)
  <2>1. ASSUME NEW p \in S, NEW q \in S, f[p] = f[q] PROVE p = q
    <3>1. p[1] = q[1]
      BY <1>5, <2>1
    <3> QED BY <1>4, <3>1
  <2> QED BY <1>5, <2>1 DEF Injection, IsInjective
<1>7. DOMAIN events = 1..Len(events) /\ Len(events) \in Nat
  OBVIOUS
<1>8. IsFiniteSet(DOMAIN events) /\ Cardinality(DOMAIN events) = Len(events)
  BY <1>7, FS_Interval
<1>9. Cardinality(S) <= Cardinality(DOMAIN events)
  BY <1>6, <1>8, FS_Injection
<1> QED BY <1>1, <1>8, <1>9

\* Whatever Redis holds, the read routes lose and repeat nothing of it: a page of
\* events is gapless however many batches it took, the one row of an address hides
\* none of its keys nor, where all of them lapse, the first to lapse, the loudest
\* address is listed, an endpoint no client asked for twice is no missing route, and
\* an event counts once under a label.
THEOREM ReadsAreSound == ReadsTypeOK => RoutesSound
<1> SUFFICES ASSUME ReadsTypeOK PROVE RoutesSound
  OBVIOUS
<1>1. PageGapless
  <2> SUFFICES ASSUME input.kind = "events" PROVE PageGapless
    BY DEF PageGapless
  <2>1. input.hits \in SUBSET (Nat \ {0}) /\ input.before \in Nat \ {0} /\ input.limit \in Nat \ {0}
    BY DEF ReadsTypeOK
  <2> QED BY <2>1, PagesAreGapless DEF PageGapless
<1>2. RowHidesNoKey
  <2> SUFFICES ASSUME input.kind = "policies" PROVE RowHidesNoKey
    BY DEF RowHidesNoKey
  <2>1. input.keys \in [DOMAIN input.keys -> {Null} \cup [action : DOMAIN ACTION_PRIORITY, ttl : TTL]]
    BY DEF ReadsTypeOK
  <2> QED BY <2>1, RowsHideNoKey DEF RowHidesNoKey
<1>3. LoudestListed /\ SweepIsNoRoute /\ TalliedOnce
  <2> SUFFICES ASSUME input.kind = "overview" PROVE LoudestListed /\ SweepIsNoRoute /\ TalliedOnce
    BY DEF LoudestListed, SweepIsNoRoute, TalliedOnce
  <2>1. input.events \in Seq(Event)
    BY DEF ReadsTypeOK
  <2>2. LoudestListed
    BY <2>1, LoudestIsListed DEF LoudestListed
  <2>3. SweepIsNoRoute
    BY <2>1, SweepsAreNoRoutes DEF SweepIsNoRoute
  <2>4. TalliedOnce
    BY <2>1, EventsTallyOnce DEF TalliedOnce
  <2> QED BY <2>2, <2>3, <2>4
<1> QED BY <1>1, <1>2, <1>3 DEF RoutesSound

-----------------------------------------------------------------------------
(* How a page ends, and what paging through the stream shows. *)

\* A batch shorter than was asked for lies at the start of the stream.
LEMMA ShortBatch ==
  ASSUME NEW c \in Nat \ {0}, NEW limit \in Nat \ {0}, Cardinality(XRevRange(c, limit)) < limit
  PROVE  c <= limit
<1> SUFFICES ASSUME c > limit PROVE FALSE
  OBVIOUS
<1>1. XRevRange(c, limit) = (c - limit)..(c - 1)
  BY DEF XRevRange
<1>2. c - limit \in Int /\ c - 1 \in Int /\ c - limit <= c - 1
  OBVIOUS
<1>3. Cardinality((c - limit)..(c - 1)) = (c - 1) - (c - limit) + 1
  BY <1>2, FS_Interval
<1> QED BY <1>1, <1>3

\* Such a batch is looked at to its end, unless the page is full.
LEMMA TakenToTheStart ==
  ASSUME NEW hits \in SUBSET Nat, NEW c \in Nat \ {0}, NEW limit \in Nat \ {0}, NEW room \in Nat \ {0},
         XRevRange(c, limit) # {}, Cardinality(XRevRange(c, limit)) < limit
  PROVE  LET taken == Taken(XRevRange(c, limit), hits, room)
         IN Cardinality(hits \cap taken) < room => Min(taken) = 1
<1> DEFINE batch == XRevRange(c, limit)
           taken == Taken(batch, hits, room)
           m == Min(taken)
<1>1. m \in 1..(c - 1) /\ taken = m..(c - 1)
  <2>1. /\ m \in 1..(c - 1)
        /\ taken = m..(c - 1)
        /\ IsFiniteSet(hits \cap taken)
        /\ Cardinality(hits \cap taken) <= room
    BY TakenIs
  <2> HIDE DEF taken, m
  <2> QED BY <2>1
<1>2. taken \in SUBSET Nat /\ taken # {}
  <2>1. m \in Nat /\ m <= c - 1 /\ c - 1 \in Nat
    BY <1>1
  <2> HIDE DEF taken, m
  <2>2. \A i \in m..(c - 1) : i \in Nat
    BY <2>1
  <2>3. m \in m..(c - 1)
    BY <2>1
  <2> QED BY <1>1, <2>2, <2>3
<1>3. \A i \in taken : m <= i
  BY <1>2, MinIs
<1>4. \A i \in batch : Cardinality({j \in hits \cap batch : j > i}) < room => i \in taken
  BY DEF Taken
<1>5. batch = 1..(c - 1)
  <2>1. c <= limit
    BY ShortBatch
  <2> QED BY <2>1 DEF XRevRange
<1> HIDE DEF batch, taken, m
<1> SUFFICES ASSUME Cardinality(hits \cap taken) < room, m # 1 PROVE FALSE
  BY DEF m, taken, batch
<1>6. m - 1 \in batch
  BY <1>1, <1>5
<1>7. {j \in hits \cap batch : j > m - 1} = hits \cap taken
  <2>1. ASSUME NEW j \in hits PROVE (j \in batch /\ j > m - 1) <=> j \in taken
    <3>1. j \in Nat
      OBVIOUS
    <3>2. j \in batch <=> (1 <= j /\ j <= c - 1)
      BY <1>5, <3>1
    <3>3. j \in taken <=> (m <= j /\ j <= c - 1)
      BY <1>1, <3>1
    <3> QED BY <1>1, <3>1, <3>2, <3>3
  <2> QED BY <2>1
<1>8. m - 1 \in taken
  BY <1>4, <1>6, <1>7
<1> QED BY <1>1, <1>3, <1>8

\* Once a batch was read the scan has a place to go on from, or is over; and where
\* it says it is over, it is, as far as the page has room.
LEMMA NextBatchEnds ==
  ASSUME NEW hits \in SUBSET (Nat \ {0}), NEW before \in Nat \ {0}, NEW limit \in Nat \ {0},
         NEW s, ScanSound(s, hits, before, limit), ScanEnds(s, hits, limit)
  PROVE  LET next == NextBatch(s, hits, limit)
         IN ScanEnds(next, hits, limit) /\ (next.reachedStart \/ next.lastSeenId # Null)
<1> DEFINE batch == XRevRange(s.cursor, limit)
           room == limit - Cardinality(s.events)
           taken == Taken(batch, hits, room)
           done == s.reachedStart \/ Cardinality(s.events) >= limit
           n == [events |-> s.events \cup (hits \cap taken), cursor |-> Min(taken),
                 lastSeenId |-> Min(taken), reachedStart |-> Cardinality(batch) < limit]
<1>1. /\ s \in [events : SUBSET hits, cursor : Nat \ {0}, lastSeenId : Nat \cup {Null}, reachedStart : BOOLEAN]
      /\ s.cursor = IF s.lastSeenId = Null THEN before ELSE s.lastSeenId
      /\ s.lastSeenId # Null => s.lastSeenId < before
      /\ s.events = {i \in hits : s.cursor <= i /\ i < before}
      /\ Cardinality(s.events) <= limit
  BY DEF ScanSound
<1>2. IsFiniteSet(s.events) /\ Cardinality(s.events) \in Nat
  <2>1. IsFiniteSet(1..before)
    BY FS_Interval
  <2>2. ASSUME NEW i \in s.events PROVE i \in 1..before
    <3>1. i \in Nat \ {0} /\ i < before
      BY <1>1
    <3> QED BY <3>1
  <2>3. s.events \in SUBSET (1..before)
    BY <2>2
  <2> QED BY <2>1, <2>3, FS_Subset, FS_CardinalityType
<1>3. NextBatch(s, hits, limit) = IF done THEN s
                                  ELSE IF batch = {} THEN [s EXCEPT !.reachedStart = TRUE] ELSE n
  BY DEF NextBatch
<1> HIDE DEF batch, taken, n, done
<1>4. CASE done
  <2>1. NextBatch(s, hits, limit) = s
    BY <1>3, <1>4
  <2>2. s.lastSeenId = Null => Cardinality(s.events) = 0
    <3>1. ASSUME s.lastSeenId = Null PROVE s.events = {}
      <4>1. \A i \in hits : ~(before <= i /\ i < before)
        OBVIOUS
      <4> QED BY <1>1, <3>1, <4>1
    <3> QED BY <3>1, FS_EmptySet
  <2>3. s.reachedStart \/ s.lastSeenId # Null
    BY <1>2, <1>4, <2>2 DEF done
  <2> QED BY <2>1, <2>3
<1>5. CASE ~done /\ batch = {}
  <2>1. NextBatch(s, hits, limit) = [s EXCEPT !.reachedStart = TRUE]
    BY <1>3, <1>5
  <2> DEFINE r == [s EXCEPT !.reachedStart = TRUE]
  <2>2. r.events = s.events /\ r.cursor = s.cursor /\ r.reachedStart = TRUE
    BY <1>1
  <2>3. s.cursor = 1
    <3>1. s.cursor - 1 \in Nat /\ s.cursor \in Nat
      BY <1>1
    <3>2. s.cursor - 1 \notin 1..(s.cursor - 1) \/ ~(s.cursor - 1 >= s.cursor - limit)
      BY <1>5 DEF batch, XRevRange
    <3> QED BY <3>1, <3>2
  <2>4. \A i \in hits : ~(i < s.cursor)
    BY <2>3
  <2> HIDE DEF r
  <2>5. ScanEnds(r, hits, limit)
    BY <2>2, <2>3, <2>4 DEF ScanEnds
  <2> QED BY <2>1, <2>2, <2>5 DEF r
<1>6. CASE ~done /\ batch # {}
  <2>1. NextBatch(s, hits, limit) = n
    BY <1>3, <1>6
  <2>2. room \in Nat \ {0}
    BY <1>1, <1>2, <1>6 DEF done
  <2>3. s.cursor \in Nat \ {0}
    BY <1>1
  <2> DEFINE m == Min(taken)
  <2>4. /\ m \in 1..(s.cursor - 1)
        /\ taken = m..(s.cursor - 1)
        /\ IsFiniteSet(hits \cap taken)
        /\ Cardinality(hits \cap taken) <= room
    BY <1>6, <2>2, <2>3, TakenIs DEF taken, batch
  <2>5. Cardinality(batch) < limit /\ Cardinality(hits \cap taken) < room => m = 1
    BY <1>6, <2>2, <2>3, TakenToTheStart DEF taken, batch
  <2>6. Cardinality(batch) < limit => s.cursor <= limit
    BY <2>3, ShortBatch DEF batch
  <2>7. /\ n.events = s.events \cup (hits \cap taken) /\ n.cursor = m /\ n.lastSeenId = m
        /\ n.reachedStart = (Cardinality(batch) < limit)
    BY DEF n
  <2> HIDE DEF m, room
  <2>8. n.lastSeenId # Null
    BY <2>4, <2>7, ReadsConstants
  <2>9. Cardinality(n.events) = Cardinality(s.events) + Cardinality(hits \cap taken)
    <3>1. ASSUME NEW i \in s.events, i \in taken PROVE FALSE
      <4>1. i \in Nat /\ s.cursor <= i /\ i <= s.cursor - 1
        BY <1>1, <2>4, <3>1
      <4> QED BY <2>3, <4>1
    <3>2. s.events \cap (hits \cap taken) = {}
      BY <3>1
    <3>3. Cardinality(n.events) = Cardinality(s.events) + Cardinality(hits \cap taken)
                                   - Cardinality(s.events \cap (hits \cap taken))
      BY <1>2, <2>4, <2>7, FS_Union
    <3>4. Cardinality({}) = 0 /\ Cardinality(hits \cap taken) \in Nat
      BY <2>4, FS_EmptySet, FS_CardinalityType
    <3> QED BY <1>2, <3>2, <3>3, <3>4
  <2>10. ASSUME n.reachedStart PROVE n.cursor = 1 \/ n.cursor < limit
    <3>1. s.cursor <= limit
      BY <2>6, <2>7, <2>10
    <3> QED BY <2>3, <2>4, <2>7, <3>1
  <2>11. ASSUME n.reachedStart, NEW i \in hits, i < n.cursor PROVE Cardinality(n.events) = limit
    <3>1. n.cursor # 1
      BY <2>11
    <3>2. ~(Cardinality(hits \cap taken) < room)
      BY <2>5, <2>7, <2>11, <3>1
    <3>3. Cardinality(hits \cap taken) \in Nat
      BY <2>4, FS_CardinalityType
    <3>4. Cardinality(hits \cap taken) = room
      BY <2>2, <2>4, <3>2, <3>3
    <3>5. room = limit - Cardinality(s.events)
      BY DEF room
    <3> QED BY <1>2, <2>9, <3>4, <3>5
  <2>12. ScanEnds(n, hits, limit)
    BY <2>10, <2>11 DEF ScanEnds
  <2> QED BY <2>1, <2>8, <2>12
<1> QED BY <1>4, <1>5, <1>6

LEMMA ScanEndsWell ==
  ASSUME NEW hits \in SUBSET (Nat \ {0}), NEW before \in Nat \ {0}, NEW limit \in Nat \ {0}
  PROVE  LET s == Scan(hits, before, limit)
         IN ScanSound(s, hits, before, limit) /\ ScanEnds(s, hits, limit)
            /\ (s.reachedStart \/ s.lastSeenId # Null)
<1>1. PICK after :
        /\ after[0] = [events |-> {}, cursor |-> before, lastSeenId |-> Null, reachedStart |-> FALSE]
        /\ \A n \in 1..MAX_SCAN_BATCHES : after[n] = NextBatch(after[n - 1], hits, limit)
        /\ Scan(hits, before, limit) = after[MAX_SCAN_BATCHES]
  BY ScanUnfolds
<1> DEFINE Good(n) == ScanSound(after[n], hits, before, limit) /\ ScanEnds(after[n], hits, limit)
           T == {n \in Nat : n <= MAX_SCAN_BATCHES =>
                   Good(n) /\ (n # 0 => after[n].reachedStart \/ after[n].lastSeenId # Null)}
<1>2. 0 \in T
  <2>1. after[0] \in [events : SUBSET hits, cursor : Nat \ {0}, lastSeenId : Nat \cup {Null}, reachedStart : BOOLEAN]
    BY <1>1
  <2>2. after[0].events = {} /\ after[0].cursor = before /\ after[0].lastSeenId = Null
        /\ after[0].reachedStart = FALSE
    BY <1>1
  <2>3. {i \in hits : before <= i /\ i < before} = {}
    <3>1. \A i \in hits : ~(before <= i /\ i < before)
      OBVIOUS
    <3> QED BY <3>1
  <2>4. Cardinality({}) = 0
    BY FS_EmptySet
  <2>5. ScanSound(after[0], hits, before, limit)
    BY <2>1, <2>2, <2>3, <2>4 DEF ScanSound
  <2>6. ScanEnds(after[0], hits, limit)
    BY <2>2 DEF ScanEnds
  <2> QED BY <2>5, <2>6
<1>3. ASSUME NEW n \in Nat, n \in T PROVE n + 1 \in T
  <2> SUFFICES ASSUME n + 1 <= MAX_SCAN_BATCHES
               PROVE  Good(n + 1) /\ (after[n + 1].reachedStart \/ after[n + 1].lastSeenId # Null)
    OBVIOUS
  <2>1. n <= MAX_SCAN_BATCHES /\ n + 1 \in 1..MAX_SCAN_BATCHES /\ (n + 1) - 1 = n
    BY ReadsConstants
  <2>2. Good(n)
    BY <1>3, <2>1
  <2>3. after[n + 1] = NextBatch(after[n], hits, limit)
    BY <1>1, <2>1
  <2> QED BY <2>2, <2>3, NextBatchKeeps, NextBatchEnds
<1> HIDE DEF T
<1>4. MAX_SCAN_BATCHES \in T /\ MAX_SCAN_BATCHES \in Nat /\ MAX_SCAN_BATCHES # 0
  BY <1>2, <1>3, Induction, ReadsConstants
<1>5. /\ Good(MAX_SCAN_BATCHES)
      /\ after[MAX_SCAN_BATCHES].reachedStart \/ after[MAX_SCAN_BATCHES].lastSeenId # Null
  <2>1. MAX_SCAN_BATCHES <= MAX_SCAN_BATCHES
    BY <1>4
  <2> QED BY <1>4, <2>1 DEF T
<1> QED BY <1>1, <1>5

\* A page with a cursor lies between it and the one the page was asked for with.
LEMMA PageBetween ==
  ASSUME NEW hits \in SUBSET (Nat \ {0}), NEW before \in Nat \ {0}, NEW limit \in Nat \ {0},
         NEW next \in Nat \ {0}, EventsPage(hits, before, limit).cursor = next
  PROVE  /\ next < before
         /\ \A i : i \in EventsPage(hits, before, limit).events <=> i \in hits /\ next <= i /\ i < before
<1> DEFINE s == Scan(hits, before, limit)
           page == EventsPage(hits, before, limit)
<1>1. page.events = s.events /\ page.cursor = (IF s.reachedStart THEN Null ELSE s.lastSeenId)
  BY DEF EventsPage
<1>2. ScanSound(s, hits, before, limit)
  BY ScanIsSound
<1>3. next # Null /\ page.cursor = next
  BY ReadsConstants
<1> HIDE DEF s, page
<1>4. s.lastSeenId = next
  BY <1>1, <1>3
<1>5. next < before /\ s.events = {i \in hits : next <= i /\ i < before}
  BY <1>2, <1>3, <1>4 DEF ScanSound
<1>6. \A i : i \in page.events <=> i \in hits /\ next <= i /\ i < before
  BY <1>1, <1>5
<1> QED BY Zenon, <1>5, <1>6 DEF page

\* /api/events, paged through ("load older", events/page.jsx): the cursors fall, so
\* that there are no more pages than entries; no event is on two pages; and what
\* the pages show together is every matching event from the last cursor up.
THEOREM PagesTile ==
  ASSUME NEW hits \in SUBSET (Nat \ {0}), NEW limit \in Nat \ {0},
         NEW cursors, PagesThrough(cursors, hits, limit)
  PROVE  LET shown(n) == EventsPage(hits, cursors[n], limit).events
             pages == 1..(Len(cursors) - 1)
         IN /\ \A n \in pages : cursors[n + 1] < cursors[n]
            /\ Len(cursors) <= cursors[1]
            /\ \A n, m \in pages : n # m => shown(n) \cap shown(m) = {}
            /\ UNION {shown(n) : n \in pages} = {i \in hits : cursors[Len(cursors)] <= i /\ i < cursors[1]}
<1> DEFINE shown(n) == EventsPage(hits, cursors[n], limit).events
           last == Len(cursors)
           pages == 1..(last - 1)
           follows(n) == EventsPage(hits, cursors[n], limit).cursor = cursors[n + 1]
<1>1. /\ last \in Nat \ {0}
      /\ \A n \in 1..last : cursors[n] \in Nat \ {0}
      /\ \A n \in pages : follows(n)
  <2>1. cursors \in Seq(Nat \ {0}) /\ cursors # <<>>
    BY DEF PagesThrough
  <2>2. \A n \in pages : follows(n)
    BY Zenon DEF PagesThrough
  <2> QED BY <2>1, <2>2
<1>2. ASSUME NEW n \in pages
      PROVE  /\ cursors[n + 1] < cursors[n]
             /\ \A i : i \in shown(n) <=> i \in hits /\ cursors[n + 1] <= i /\ i < cursors[n]
  <2>1. n \in 1..last /\ n + 1 \in 1..last
    BY <1>1
  <2>2. cursors[n] \in Nat \ {0} /\ cursors[n + 1] \in Nat \ {0}
    BY <1>1, <2>1
  <2> HIDE DEF follows
  <2>3. follows(n)
    BY <1>1
  <2>4. /\ cursors[n + 1] < cursors[n]
        /\ \A i : i \in shown(n) <=> i \in hits /\ cursors[n + 1] <= i /\ i < cursors[n]
    <3>1. PICK c \in Nat \ {0} : c = cursors[n]
      BY <2>2
    <3>2. PICK d \in Nat \ {0} : d = cursors[n + 1]
      BY <2>2
    <3>3. EventsPage(hits, c, limit).cursor = d
      BY Zenon, <2>3, <3>1, <3>2 DEF follows
    <3> HIDE DEF shown
    <3>4. d < c
      BY <3>1, <3>2, <3>3, PageBetween
    <3>5. \A i : i \in EventsPage(hits, c, limit).events <=> i \in hits /\ d <= i /\ i < c
      BY Zenon, <3>1, <3>2, <3>3, PageBetween
    <3> QED BY Zenon, <3>1, <3>2, <3>4, <3>5 DEF shown
  <2> QED BY Zenon, <2>4
<1> HIDE DEF shown, last
\* k pages on the cursor is at least k lower.
<1> DEFINE T == {k \in Nat : \A n \in 1..last : n + k <= last => cursors[n + k] + k <= cursors[n]}
<1>3. \A k \in Nat : k \in T
  <2>1. 0 \in T
    BY <1>1
  <2>2. ASSUME NEW k \in Nat, k \in T PROVE k + 1 \in T
    <3> SUFFICES ASSUME NEW n \in 1..last, n + (k + 1) <= last
                 PROVE  cursors[n + (k + 1)] + (k + 1) <= cursors[n]
      OBVIOUS
    <3>1. n + k \in pages /\ n + k \in 1..last /\ n + (k + 1) \in 1..last /\ (n + k) + 1 = n + (k + 1)
      BY <1>1
    <3>2. cursors[n + k] + k <= cursors[n]
      BY <2>2, <1>1
    <3>3. cursors[n + (k + 1)] < cursors[n + k]
      BY <1>2, <3>1
    <3>4. cursors[n] \in Nat /\ cursors[n + k] \in Nat /\ cursors[n + (k + 1)] \in Nat
      BY <1>1, <3>1
    <3> QED BY <3>2, <3>3, <3>4
  <2> HIDE DEF T
  <2> QED BY <2>1, <2>2, Induction
<1>4. ASSUME NEW n \in 1..last, NEW m \in 1..last, n <= m PROVE cursors[m] + (m - n) <= cursors[n]
  <2>1. m - n \in Nat /\ n + (m - n) = m /\ m <= last
    BY <1>1, <1>4
  <2>2. m - n \in T
    BY <1>3, <2>1
  <2> QED BY <2>1, <2>2
<1> HIDE DEF T
<1>5. last <= cursors[1]
  <2>1. 1 \in 1..last /\ last \in 1..last /\ 1 <= last
    BY <1>1
  <2>2. cursors[last] + (last - 1) <= cursors[1]
    BY <1>4, <2>1
  <2>3. cursors[last] \in Nat \ {0} /\ cursors[1] \in Nat \ {0}
    BY <1>1, <2>1
  <2> QED BY <1>1, <2>2, <2>3
<1>6. ASSUME NEW n \in pages, NEW m \in pages, n < m, NEW i \in shown(n), i \in shown(m) PROVE FALSE
  <2>1. n + 1 \in 1..last /\ m \in 1..last /\ n + 1 <= m
    BY <1>1, <1>6
  <2>2. cursors[m] + (m - (n + 1)) <= cursors[n + 1] /\ m - (n + 1) \in Nat
    BY <1>4, <2>1
  <2>3. cursors[m] \in Nat /\ cursors[n + 1] \in Nat
    BY <1>1, <2>1
  <2>4. i \in Nat /\ cursors[n + 1] <= i /\ i < cursors[m]
    BY <1>2, <1>6
  <2> QED BY <2>2, <2>3, <2>4
<1>7. \A n, m \in pages : n # m => shown(n) \cap shown(m) = {}
  <2> SUFFICES ASSUME NEW n \in pages, NEW m \in pages, n # m, NEW i \in shown(n), i \in shown(m)
               PROVE  FALSE
    OBVIOUS
  <2>1. n < m \/ m < n
    BY <1>1
  <2> QED BY <1>6, <2>1
<1>8. ASSUME NEW n \in pages, NEW i \in shown(n)
      PROVE  i \in hits /\ cursors[last] <= i /\ i < cursors[1]
  <2>1. n + 1 \in 1..last /\ n \in 1..last /\ last \in 1..last /\ 1 \in 1..last /\ n + 1 <= last /\ 1 <= n
    BY <1>1
  <2>2. cursors[last] + (last - (n + 1)) <= cursors[n + 1] /\ last - (n + 1) \in Nat
    BY <1>4, <2>1
  <2>3. cursors[n] + (n - 1) <= cursors[1] /\ n - 1 \in Nat
    BY <1>4, <2>1
  <2>4. i \in hits /\ cursors[n + 1] <= i /\ i < cursors[n]
    BY <1>2
  <2>5. cursors[last] \in Nat /\ cursors[n + 1] \in Nat /\ cursors[n] \in Nat /\ cursors[1] \in Nat /\ i \in Nat
    BY <1>1, <2>1, <2>4
  <2> QED BY <2>2, <2>3, <2>4, <2>5
<1>9. ASSUME NEW i \in hits, cursors[last] <= i, i < cursors[1] PROVE \E n \in pages : i \in shown(n)
  <2> DEFINE S == {n \in 1..last : cursors[n] <= i}
  <2>1. S \in SUBSET Nat /\ S # {}
    BY <1>1, <1>9
  <2> HIDE DEF S
  <2>2. PICK n \in S : \A m \in S : n <= m
    BY <2>1, Least
  <2>3. n \in 1..last /\ cursors[n] <= i
    BY <2>2 DEF S
  <2>4. n # 1
    <3>1. 1 \in 1..last
      BY <1>1
    <3>2. cursors[1] \in Nat /\ i \in Nat
      BY <1>1, <3>1
    <3> QED BY <1>9, <2>3, <3>2
  <2>5. n - 1 \in pages /\ n - 1 \in 1..last /\ (n - 1) + 1 = n /\ ~(n <= n - 1)
    BY <1>1, <2>3, <2>4
  <2>6. n - 1 \notin S
    BY <2>2, <2>5
  <2>7. ~(cursors[n - 1] <= i)
    BY <2>5, <2>6 DEF S
  <2>8. cursors[n - 1] \in Nat /\ i \in Nat
    BY <1>1, <2>5
  <2>9. i < cursors[n - 1]
    BY <2>7, <2>8
  <2>10. i \in shown(n - 1)
    BY <1>2, <2>3, <2>5, <2>9
  <2> QED BY <2>5, <2>10
<1>10. UNION {shown(n) : n \in pages} = {i \in hits : cursors[last] <= i /\ i < cursors[1]}
  BY <1>8, <1>9
<1>11. \A n \in pages : cursors[n + 1] < cursors[n]
  BY <1>2
<1> QED BY <1>5, <1>7, <1>10, <1>11 DEF shown, last

\* "Null only once the scan genuinely reached the start of the stream"
\* (api/events/route.js:95) is not what the route does: it also answers no cursor
\* when the last batch was short and the page filled up within it.  What is left out
\* then is exactly this: nothing unless the page is full, and only entries among the
\* limit - 2 oldest of the stream.
THEOREM OnlyFullPagesStopShort ==
  ASSUME NEW hits \in SUBSET (Nat \ {0}), NEW before \in Nat \ {0}, NEW limit \in Nat \ {0}
  PROVE  LET page == EventsPage(hits, before, limit)
         IN page.cursor = Null =>
              \A i \in hits : i < before /\ i \notin page.events =>
                Cardinality(page.events) = limit /\ i <= limit - 2
<1> DEFINE s == Scan(hits, before, limit)
           page == EventsPage(hits, before, limit)
<1>1. page.events = s.events /\ page.cursor = (IF s.reachedStart THEN Null ELSE s.lastSeenId)
  BY DEF EventsPage
<1>2. ScanSound(s, hits, before, limit) /\ ScanEnds(s, hits, limit) /\ (s.reachedStart \/ s.lastSeenId # Null)
  BY ScanEndsWell
<1> HIDE DEF s, page
<1> SUFFICES ASSUME page.cursor = Null, NEW i \in hits, i < before, i \notin page.events
             PROVE  Cardinality(page.events) = limit /\ i <= limit - 2
  BY DEF page
<1>3. s.reachedStart
  BY <1>1, <1>2
<1>4. s.cursor \in Nat \ {0}
  BY <1>2 DEF ScanSound
<1>5. i \in Nat \ {0} /\ i < s.cursor
  <2>1. i \notin s.events
    BY <1>1
  <2>2. s.events = {j \in hits : s.cursor <= j /\ j < before}
    BY <1>2 DEF ScanSound
  <2>3. \A j : j \in s.events <=> j \in hits /\ s.cursor <= j /\ j < before
    BY <2>2
  <2>4. ~(s.cursor <= i)
    BY Zenon, <2>1, <2>3
  <2>5. i \in Nat \ {0}
    OBVIOUS
  <2> QED BY <1>4, <2>4, <2>5
<1>6. (s.cursor = 1 \/ s.cursor < limit) /\ Cardinality(s.events) = limit
  BY <1>2, <1>3, <1>5 DEF ScanEnds
<1>7. s.cursor < limit
  BY <1>4, <1>5, <1>6
<1>8. i <= limit - 2
  BY <1>4, <1>5, <1>7
<1> QED BY <1>1, <1>6, <1>8

-----------------------------------------------------------------------------
\* The types of the live state.

LEMMA LiveBounds == Window \in Nat /\ MaxAlerts \in Nat /\ MaxWrites \in Nat /\ MaxFaults \in Nat
BY LiveConstants

LEMMA NobodyAsked == DOMAIN <<>> = {}
OBVIOUS

LEMMA CountOne ==
  ASSUME NEW m \in Nat, NEW n \in 0..m, n < m
  PROVE  n + 1 \in 0..m
OBVIOUS

\* The latest of the escalations an answer brings.
LEMMA Latest ==
  ASSUME NEW S, S \subseteq 1..MaxAlerts, S # {}
  PROVE  (CHOOSE i \in S : \A j \in S : j <= i) \in 1..MaxAlerts
<1> DEFINE key == [i \in S |-> i]
<1>1. \A x \in S : key[x] \in Nat /\ key[x] <= MaxAlerts
  BY LiveBounds
<1>2. \E m \in S : \A x \in S : key[x] <= key[m]
  <2> HIDE DEF key
  <2> QED BY <1>1, LiveBounds, Greatest
<1>3. \E m \in S : \A x \in S : x <= m
  BY <1>2
<1> QED BY <1>3

LEMMA SnapshotTyped ==
  ASSUME LiveTypeOK
  PROVE  PlaneTypeOK(Snapshot)
<1>1. 1..alerts \subseteq 1..MaxAlerts
  <2>1. alerts \in 0..MaxAlerts
    BY DEF LiveTypeOK
  <2> QED BY <2>1, LiveBounds
<1>2. CASE up
  BY <1>1, <1>2 DEF LiveTypeOK, Snapshot, PlaneTypeOK
<1>3. CASE ~up
  BY <1>3 DEF Snapshot, PlaneTypeOK
<1> QED BY <1>2, <1>3

\* A poll is sent, or its answer is gone.
LEMMA PollTyped ==
  ASSUME LiveTypeInv, NEW s \in Slot \cup {Own}, NEW v, v = None \/ PlaneTypeOK(v),
         polls' = [polls EXCEPT ![s] = v]
  PROVE  /\ DOMAIN polls' = Slot \cup {Own}
         /\ \A q \in Slot \cup {Own} : polls'[q] = None \/ PlaneTypeOK(polls'[q])
         /\ polls' = [q \in Slot \cup {Own} |-> polls'[q]]
<1>1. polls' = [q \in Slot \cup {Own} |-> IF q = s THEN v ELSE polls[q]]
  BY DEF LiveTypeInv
<1>2. \A q \in Slot \cup {Own} : polls[q] = None \/ PlaneTypeOK(polls[q])
  BY DEF LiveTypeInv, LiveTypeOK
<1>3. ASSUME NEW q \in Slot \cup {Own} PROVE polls'[q] = v \/ polls'[q] = polls[q]
  BY <1>1
<1>4. DOMAIN polls' = Slot \cup {Own}
  BY <1>1
<1>5. polls' = [q \in Slot \cup {Own} |-> polls'[q]]
  BY <1>1
<1> QED BY <1>2, <1>3, <1>4, <1>5

\* The write under way, after a step of any kind.
CallTyped ==
  /\ busy \in {"", "instruct", "delete-policy"}
  /\ DOMAIN call.res \subseteq Addr
  /\ \A a \in DOMAIN call.res : call.res[a] \in {"sent", "ok", "failed"}
  /\ call.kind = "instruct" => call.action \in Action \cup {"monitor"}

LEMMA OverTyped ==
  ASSUME busy' \in {"", "instruct", "delete-policy"},
         call' = NoCall \/ call' = [NoCall EXCEPT !.kind = "refresh"]
  PROVE  CallTyped'
<1>1. CASE call' = NoCall
  <2>1. call'.res = <<>> /\ call'.kind = "none"
    BY <1>1 DEF NoCall
  <2>2. DOMAIN call'.res = {}
    BY <2>1, NobodyAsked
  <2> QED BY <2>1, <2>2 DEF CallTyped
<1>2. CASE call' = [NoCall EXCEPT !.kind = "refresh"]
  <2>1. call'.res = <<>> /\ call'.kind = "refresh"
    BY <1>2 DEF NoCall
  <2>2. DOMAIN call'.res = {}
    BY <2>1, NobodyAsked
  <2> QED BY <2>1, <2>2 DEF CallTyped
<1> QED BY <1>1, <1>2

LEMMA WaitTyped ==
  ASSUME CallTyped, NEW s, WaitedFor(s)
  PROVE  CallTyped'
<1>1. CASE busy' = "" /\ call' = NoCall
  BY <1>1, OverTyped
<1>2. CASE UNCHANGED <<busy, call>>
  BY <1>2 DEF CallTyped
<1> QED BY <1>1, <1>2 DEF WaitedFor

\* The parts of LiveTypeInv, in the order of the variables.
RedisTyped ==
  /\ up \in BOOLEAN
  /\ policy \in [Addr -> Action \cup {None}]
  /\ alerts \in 0..MaxAlerts
  /\ queue \subseteq Override /\ accepted \subseteq Override
  /\ writes \in 0..MaxWrites /\ faults \in 0..MaxFaults

ShownTyped ==
  /\ paused \in BOOLEAN
  /\ PlaneTypeOK(plane)
  /\ seen = None \/ seen \subseteq 1..MaxAlerts
  /\ shownIds \subseteq 1..MaxAlerts
  /\ flash \in (1..MaxAlerts) \cup {None}
  /\ pending \in [Addr -> Action \cup {None}]

PollsTyped ==
  /\ DOMAIN polls = Slot \cup {Own}
  /\ \A s \in Slot \cup {Own} : polls[s] = None \/ PlaneTypeOK(polls[s])
  /\ polls = [s \in Slot \cup {Own} |-> polls[s]]

LEMMA LiveParts == LiveTypeInv <=> LiveInv /\ RedisTyped /\ ShownTyped /\ PollsTyped /\ CallTyped
BY DEF LiveTypeInv, LiveTypeOK, RedisTyped, ShownTyped, PollsTyped, CallTyped
LEMMA LiveTypeInitially == LiveInit => LiveTypeInv
<1> SUFFICES ASSUME LiveInit PROVE LiveTypeInv
  OBVIOUS
<1>1. LiveInv
  BY LiveInvInitially
<1>2. RedisTyped
  <2>1. writes = 0 /\ faults = 0 /\ up \in BOOLEAN /\ alerts \in 0..MaxAlerts
        /\ queue = {} /\ accepted = {} /\ policy = [a \in Addr |-> None]
    BY DEF LiveInit
  <2>2. 0 \in 0..MaxWrites /\ 0 \in 0..MaxFaults
    BY LiveBounds
  <2> QED BY <2>1, <2>2 DEF RedisTyped
<1>3. ShownTyped
  BY DEF LiveInit, ShownTyped, PlaneTypeOK
<1>4. PollsTyped
  BY DEF LiveInit, PollsTyped
<1>5. CallTyped
  <2>1. call.res = <<>> /\ call.kind = "none" /\ busy = ""
    BY DEF LiveInit, NoCall
  <2>2. DOMAIN call.res = {}
    BY <2>1, NobodyAsked
  <2> QED BY <2>1, <2>2 DEF CallTyped
<1> QED BY <1>1, <1>2, <1>3, <1>4, <1>5, LiveParts

\* A step that leaves some of the parts alone.
LEMMA RedisSame == ASSUME RedisTyped, UNCHANGED redisVars PROVE RedisTyped'
BY DEF RedisTyped, redisVars

LEMMA ShownSame ==
  ASSUME ShownTyped, UNCHANGED <<plane, seen, shownIds, flash, pending>>, paused' \in BOOLEAN
  PROVE  ShownTyped'
BY DEF ShownTyped, PlaneTypeOK

LEMMA PollsSame == ASSUME PollsTyped, UNCHANGED polls PROVE PollsTyped'
BY DEF PollsTyped, PlaneTypeOK

LEMMA CallSame == ASSUME CallTyped, UNCHANGED <<busy, call>> PROVE CallTyped'
BY DEF CallTyped

LEMMA FetchTyped ==
  ASSUME LiveTypeInv, NEW s \in Slot \cup {Own}, Fetch(s)
  PROVE  PollsTyped'
<1>1. PlaneTypeOK(Snapshot)
  BY SnapshotTyped DEF LiveTypeInv
<1>2. polls' = [polls EXCEPT ![s] = Snapshot]
  BY DEF Fetch
<1> QED BY <1>1, <1>2, PollTyped DEF PollsTyped

\* The poller.
LEMMA ArrivesTyped ==
  ASSUME LiveTypeInv, NEW s \in Slot \cup {Own}, Arrives(s)
  PROVE  RedisTyped' /\ ShownTyped' /\ PollsTyped' /\ CallTyped'
<1> DEFINE new == polls[s]
<1>1. RedisTyped /\ ShownTyped /\ CallTyped /\ PlaneTypeOK(new)
  BY LiveParts DEF Arrives, PollsTyped
<1>2. RedisTyped'
  BY <1>1, RedisSame DEF Arrives
<1>3. PollsTyped'
  BY PollTyped DEF Arrives, PollsTyped
<1>4. CallTyped'
  BY <1>1, WaitTyped DEF Arrives
<1>5. new.alerts \subseteq 1..MaxAlerts
  BY <1>1 DEF PlaneTypeOK
<1>6. ShownTyped'
  <2>1. plane' = new /\ seen' = new.alerts /\ UNCHANGED paused
        /\ shownIds' = (IF seen = None THEN new.alerts ELSE shownIds \cup (new.alerts \ seen))
    BY DEF Arrives
  <2>2. PlaneTypeOK(plane')
    BY <1>1, <2>1
  <2>3. shownIds' \subseteq 1..MaxAlerts
    BY <1>1, <1>5, <2>1 DEF ShownTyped
  <2>4. flash' \in (1..MaxAlerts) \cup {None}
    <3> DEFINE S == new.alerts \ seen
    <3>1. CASE seen # None /\ S # {}
      <4>1. flash' = CHOOSE i \in S : \A j \in S : j <= i
        BY <3>1 DEF Arrives
      <4>2. S \subseteq 1..MaxAlerts
        BY <1>5
      <4> HIDE DEF S
      <4> QED BY <3>1, <4>1, <4>2, Latest
    <3>2. CASE ~(seen # None /\ S # {})
      <4>1. flash' = flash
        BY <3>2 DEF Arrives
      <4> QED BY <1>1, <4>1 DEF ShownTyped
    <3> QED BY <3>1, <3>2
  <2>5. pending' \in [Addr -> Action \cup {None}]
    <3>1. pending' = [a \in Addr |-> IF new.policy[a] = pending[a] THEN None ELSE pending[a]]
      BY DEF Arrives
    <3> QED BY <1>1, <3>1 DEF ShownTyped
  <2> QED BY <1>1, <1>5, <2>1, <2>2, <2>3, <2>4, <2>5 DEF ShownTyped
<1> QED BY <1>2, <1>3, <1>4, <1>6

LEMMA PollerTyped ==
  ASSUME LiveTypeInv, PollNext \/ AlertNext
  PROVE  RedisTyped' /\ ShownTyped' /\ PollsTyped' /\ CallTyped'
<1>1. RedisTyped /\ ShownTyped /\ PollsTyped /\ CallTyped
  BY LiveParts
<1>2. ASSUME NEW s \in Slot, PollFires(s) \/ RefreshNow(s)
      PROVE  RedisTyped' /\ ShownTyped' /\ PollsTyped' /\ CallTyped'
  <2>1. Fetch(s) /\ UNCHANGED redisVars /\ UNCHANGED <<plane, seen, shownIds, flash, pending, busy, call>>
        /\ paused' \in BOOLEAN
    BY <1>1, <1>2 DEF PollFires, RefreshNow, ShownTyped
  <2> QED BY <1>1, <2>1, FetchTyped, RedisSame, ShownSame, CallSame
<1>3. ASSUME NEW s \in Slot \cup {Own}, PollLost(s)
      PROVE  RedisTyped' /\ ShownTyped' /\ PollsTyped' /\ CallTyped'
  <2>1. /\ faults < MaxFaults /\ faults' = faults + 1 /\ WaitedFor(s)
        /\ polls' = [polls EXCEPT ![s] = None]
        /\ UNCHANGED <<up, policy, alerts, queue, accepted, writes>>
        /\ UNCHANGED <<plane, paused, seen, shownIds, flash, pending>>
    BY <1>3 DEF PollLost
  <2>2. faults' \in 0..MaxFaults
    <3>1. faults \in 0..MaxFaults
      BY <1>1 DEF RedisTyped
    <3> QED BY <2>1, <3>1, LiveBounds, CountOne
  <2>3. RedisTyped'
    BY <1>1, <2>1, <2>2 DEF RedisTyped
  <2>4. paused' \in BOOLEAN
    BY <1>1, <2>1 DEF ShownTyped
  <2>5. PollsTyped'
    BY <2>1, PollTyped DEF PollsTyped
  <2> QED BY <1>1, <2>1, <2>3, <2>4, <2>5, WaitTyped, ShownSame
<1>4. ASSUME UNCHANGED pageVars
      PROVE  ShownTyped' /\ PollsTyped' /\ CallTyped'
  <2>1. paused' \in BOOLEAN
    BY <1>1, <1>4 DEF pageVars, ShownTyped
  <2> QED BY <1>1, <1>4, <2>1, ShownSame, PollsSame, CallSame DEF pageVars
<1>5. CASE RedisFails
  <2>1. faults < MaxFaults /\ faults' = faults + 1 /\ up' = FALSE
        /\ UNCHANGED <<policy, alerts, queue, accepted, writes>>
    BY <1>5 DEF RedisFails
  <2>2. faults' \in 0..MaxFaults
    <3>1. faults \in 0..MaxFaults
      BY <1>1 DEF RedisTyped
    <3> QED BY <2>1, <3>1, LiveBounds, CountOne
  <2>3. RedisTyped'
    BY <1>1, <2>1, <2>2 DEF RedisTyped
  <2> QED BY <1>4, <1>5, <2>3 DEF RedisFails
<1>6. CASE RedisReturns
  <2>1. RedisTyped'
    BY <1>1, <1>6 DEF RedisReturns, RedisTyped
  <2> QED BY <1>4, <1>6, <2>1 DEF RedisReturns
<1>7. CASE Escalates
  <2>1. alerts < MaxAlerts /\ alerts' = alerts + 1
        /\ UNCHANGED <<up, policy, queue, accepted, writes, faults>>
    BY <1>7 DEF Escalates
  <2>2. alerts' \in 0..MaxAlerts
    <3>1. alerts \in 0..MaxAlerts
      BY <1>1 DEF RedisTyped
    <3> QED BY <2>1, <3>1, LiveBounds, CountOne
  <2>3. RedisTyped'
    BY <1>1, <2>1, <2>2 DEF RedisTyped
  <2> QED BY <1>4, <1>7, <2>3 DEF Escalates
<1>8. CASE FlashEnds
  <2>1. ShownTyped'
    BY <1>1, <1>8 DEF FlashEnds, ShownTyped, PlaneTypeOK
  <2>2. UNCHANGED redisVars /\ UNCHANGED <<polls, busy, call>>
    BY <1>8 DEF FlashEnds
  <2> QED BY <1>1, <2>1, <2>2, RedisSame, PollsSame, CallSame
<1> QED BY <1>2, <1>3, <1>5, <1>6, <1>7, <1>8, ArrivesTyped DEF PollNext, AlertNext
\* The operator's writes and the engine's.
LEMMA WriteBudget ==
  ASSUME RedisTyped, writes < MaxWrites, writes' = writes + 1
  PROVE  writes' \in 0..MaxWrites
<1>1. writes \in 0..MaxWrites
  BY DEF RedisTyped
<1> QED BY <1>1, LiveBounds, CountOne

LEMMA StartTyped ==
  ASSUME LiveTypeInv, NEW b \in {"instruct", "delete-policy"}, NEW T \in SUBSET Addr, NEW k, NEW x,
         k = "instruct" => x \in Action \cup {"monitor"},
         Start(b, [kind |-> k, action |-> x, res |-> [a \in T |-> "sent"]])
  PROVE  RedisTyped' /\ ShownTyped' /\ PollsTyped' /\ CallTyped'
<1>1. RedisTyped /\ ShownTyped /\ PollsTyped
  BY LiveParts
<1>2. /\ writes < MaxWrites /\ writes' = writes + 1 /\ busy' = b
      /\ call' = [kind |-> k, action |-> x, res |-> [a \in T |-> "sent"]]
      /\ UNCHANGED <<up, policy, alerts, queue, accepted, faults>>
      /\ UNCHANGED <<plane, paused, polls, seen, shownIds, flash, pending>>
  BY DEF Start
<1>3. RedisTyped'
  BY <1>1, <1>2, WriteBudget DEF RedisTyped
<1>4. paused' \in BOOLEAN
  BY <1>1, <1>2 DEF ShownTyped
<1>5. CallTyped'
  <2>1. call'.kind = k /\ call'.action = x /\ call'.res = [a \in T |-> "sent"]
    BY <1>2
  <2>2. DOMAIN call'.res = T /\ \A a \in T : call'.res[a] = "sent"
    BY <2>1
  <2> QED BY <1>2, <2>1, <2>2 DEF CallTyped
<1> QED BY <1>1, <1>2, <1>3, <1>4, <1>5, ShownSame, PollsSame

LEMMA HandledTyped ==
  ASSUME LiveTypeInv, NEW a \in Addr, Handled(a)
  PROVE  RedisTyped' /\ ShownTyped' /\ PollsTyped' /\ CallTyped'
<1>1. RedisTyped /\ ShownTyped /\ PollsTyped /\ CallTyped /\ LiveInv
  BY LiveParts
<1>2. /\ UNCHANGED <<up, alerts, writes, faults>>
      /\ UNCHANGED <<plane, paused, polls, seen, shownIds, flash, pending, busy>>
  BY DEF Handled
<1>3. queue' \subseteq Override /\ accepted' \subseteq Override
  <2>1. CASE up /\ call.kind = "instruct"
    <3>1. <<a, call.action>> \in Override
      BY <1>1, <2>1 DEF CallTyped, Override
    <3>2. queue' = queue \cup {<<a, call.action>>} /\ accepted' = accepted \cup {<<a, call.action>>}
      BY <2>1 DEF Handled
    <3> QED BY <1>1, <3>1, <3>2 DEF RedisTyped
  <2>2. CASE ~(up /\ call.kind = "instruct")
    <3>1. UNCHANGED <<queue, accepted>>
      BY <2>2 DEF Handled
    <3> QED BY <1>1, <3>1 DEF RedisTyped
  <2> QED BY <2>1, <2>2
<1>4. policy' \in [Addr -> Action \cup {None}]
  <2>1. policy' = [policy EXCEPT ![a] = None] \/ policy' = policy
    BY DEF Handled
  <2> QED BY <1>1, <2>1 DEF RedisTyped
<1>5. RedisTyped'
  BY <1>1, <1>2, <1>3, <1>4 DEF RedisTyped
<1>6. paused' \in BOOLEAN
  BY <1>1, <1>2 DEF ShownTyped
<1>7. CallTyped'
  <2> DEFINE how == IF up THEN "ok" ELSE "failed"
  <2>1. call = [kind |-> call.kind, res |-> call.res, action |-> call.action]
    BY <1>1 DEF LiveInv
  <2>2. call' = [call EXCEPT !.res = [call.res EXCEPT ![a] = how]]
    BY DEF Handled
  <2>3. how \in {"ok", "failed"}
    OBVIOUS
  <2> HIDE DEF how
  <2>4. call' = [kind |-> call.kind, res |-> [call.res EXCEPT ![a] = how], action |-> call.action]
    BY <2>1, <2>2
  <2>5. call'.kind = call.kind /\ call'.action = call.action /\ call'.res = [call.res EXCEPT ![a] = how]
    BY <2>4
  <2>6. DOMAIN call'.res = DOMAIN call.res
    BY <2>5
  <2>7. ASSUME NEW b \in DOMAIN call'.res PROVE call'.res[b] \in {"sent", "ok", "failed"}
    <3>1. call'.res[b] = how \/ call'.res[b] = call.res[b]
      BY <2>5, <2>6
    <3> QED BY <1>1, <2>3, <2>6, <3>1 DEF CallTyped
  <2> QED BY <1>1, <1>2, <2>5, <2>6, <2>7 DEF CallTyped
<1> QED BY <1>1, <1>2, <1>5, <1>6, <1>7, ShownSame, PollsSame

LEMMA AllAcceptedTyped ==
  ASSUME LiveTypeInv, AllAccepted
  PROVE  RedisTyped' /\ ShownTyped' /\ PollsTyped' /\ CallTyped'
<1>1. RedisTyped /\ ShownTyped /\ CallTyped
  BY LiveParts
<1>2. /\ Fetch(Own) /\ call' = [NoCall EXCEPT !.kind = "refresh"]
      /\ pending' = [a \in Addr |-> IF a \in DOMAIN call.res /\ call.action \in Action
                                    THEN call.action ELSE pending[a]]
      /\ UNCHANGED redisVars
      /\ UNCHANGED <<plane, paused, seen, shownIds, flash, busy>>
  BY DEF AllAccepted
<1>3. ShownTyped'
  <2>1. pending' \in [Addr -> Action \cup {None}]
    BY <1>1, <1>2 DEF ShownTyped
  <2> QED BY <1>1, <1>2, <2>1 DEF ShownTyped, PlaneTypeOK
<1>4. busy' \in {"", "instruct", "delete-policy"}
  BY <1>1, <1>2 DEF CallTyped
<1> QED BY <1>1, <1>2, <1>3, <1>4, FetchTyped, RedisSame, OverTyped

LEMMA CallLostTyped ==
  ASSUME LiveTypeInv, CallLost
  PROVE  RedisTyped' /\ ShownTyped' /\ PollsTyped' /\ CallTyped'
<1>1. RedisTyped /\ ShownTyped /\ PollsTyped /\ CallTyped
  BY LiveParts
<1>2. /\ faults < MaxFaults /\ faults' = faults + 1 /\ busy' = "" /\ call' = NoCall
      /\ UNCHANGED <<up, policy, alerts, writes>>
      /\ UNCHANGED <<plane, paused, polls, seen, shownIds, flash, pending>>
  BY DEF CallLost
<1>3. queue' \subseteq Override /\ accepted' \subseteq Override
  <2>1. PICK T \in SUBSET {a \in DOMAIN call.res : call.res[a] = "sent"} :
          IF call.kind = "instruct" /\ up
          THEN /\ queue' = queue \cup (T \X {call.action})
               /\ accepted' = accepted \cup (T \X {call.action})
          ELSE T = {} /\ UNCHANGED <<queue, accepted>>
    BY DEF CallLost
  <2>2. CASE call.kind = "instruct" /\ up
    <3>1. T \subseteq Addr
      BY <1>1 DEF CallTyped
    <3>2. T \X {call.action} \subseteq Override
      BY <1>1, <2>2, <3>1 DEF CallTyped, Override
    <3> QED BY <1>1, <2>1, <2>2, <3>2 DEF RedisTyped
  <2>3. CASE ~(call.kind = "instruct" /\ up)
    BY <1>1, <2>1, <2>3 DEF RedisTyped
  <2> QED BY <2>2, <2>3
<1>4. faults' \in 0..MaxFaults
  <2>1. faults \in 0..MaxFaults
    BY <1>1 DEF RedisTyped
  <2> QED BY <1>2, <2>1, LiveBounds, CountOne
<1>5. RedisTyped'
  BY <1>1, <1>2, <1>3, <1>4 DEF RedisTyped
<1>6. paused' \in BOOLEAN
  BY <1>1, <1>2 DEF ShownTyped
<1> QED BY <1>1, <1>2, <1>5, <1>6, ShownSame, PollsSame, OverTyped

LEMMA EngineTyped ==
  ASSUME LiveTypeInv,
         \/ \E o \in queue : EngineApplies(o)
         \/ \E a \in Addr, x \in Action \cup {None} : EngineWrites(a, x)
  PROVE  RedisTyped' /\ ShownTyped' /\ PollsTyped' /\ CallTyped'
<1>1. RedisTyped /\ ShownTyped /\ PollsTyped /\ CallTyped
  BY LiveParts
<1>2. ASSUME NEW o \in queue, EngineApplies(o) PROVE RedisTyped' /\ UNCHANGED pageVars
  <2>1. policy' = policy \/ \E x \in {o[2]} \cap Action : policy' = [policy EXCEPT ![o[1]] = x]
    BY <1>2 DEF EngineApplies
  <2>2. policy' \in [Addr -> Action \cup {None}]
    BY <1>1, <2>1 DEF RedisTyped
  <2>3. queue' \subseteq queue /\ UNCHANGED <<up, alerts, accepted, writes, faults>> /\ UNCHANGED pageVars
    BY <1>2 DEF EngineApplies
  <2> QED BY <1>1, <2>2, <2>3 DEF RedisTyped
<1>3. ASSUME NEW a \in Addr, NEW x \in Action \cup {None}, EngineWrites(a, x)
      PROVE  RedisTyped' /\ UNCHANGED pageVars
  <2>1. /\ writes < MaxWrites /\ writes' = writes + 1 /\ policy' = [policy EXCEPT ![a] = x]
        /\ UNCHANGED <<up, alerts, queue, accepted, faults>> /\ UNCHANGED pageVars
    BY <1>3 DEF EngineWrites
  <2>2. policy' \in [Addr -> Action \cup {None}]
    BY <1>1, <2>1 DEF RedisTyped
  <2> QED BY <1>1, <2>1, <2>2, WriteBudget DEF RedisTyped
<1>4. RedisTyped' /\ UNCHANGED pageVars
  BY <1>2, <1>3
<1>5. paused' \in BOOLEAN
  BY <1>1, <1>4 DEF pageVars, ShownTyped
<1> QED BY <1>1, <1>4, <1>5, ShownSame, PollsSame, CallSame DEF pageVars

LEMMA WritesTyped ==
  ASSUME LiveTypeInv, WriteNext
  PROVE  RedisTyped' /\ ShownTyped' /\ PollsTyped' /\ CallTyped'
<1>1. RedisTyped /\ ShownTyped /\ PollsTyped /\ CallTyped
  BY LiveParts
<1>2. ASSUME NEW T \in SUBSET Addr, NEW x \in Action \cup {"monitor"}, Instruct(T, x)
      PROVE  RedisTyped' /\ ShownTyped' /\ PollsTyped' /\ CallTyped'
  BY <1>2, StartTyped DEF Instruct
<1>3. ASSUME NEW a \in Addr, NEW x \in Action \cup {"monitor"}, InstructRow(a, x) \/ InstructAddress(a, x)
      PROVE  RedisTyped' /\ ShownTyped' /\ PollsTyped' /\ CallTyped'
  <2>1. {a} \in SUBSET Addr /\ Instruct({a}, x)
    BY <1>3 DEF InstructRow, InstructAddress
  <2> QED BY <1>2, <2>1
<1>4. ASSUME NEW T \in SUBSET Addr,
             InstructBulk(T) \/ \E x \in Action \cup {"monitor"} : InstructCampaign(T, x)
      PROVE  RedisTyped' /\ ShownTyped' /\ PollsTyped' /\ CallTyped'
  <2>1. "temp_block" \in Action
    BY LiveConstants
  <2>2. \E x \in Action \cup {"monitor"} : Instruct(T, x)
    BY <1>4, <2>1 DEF InstructBulk, InstructCampaign
  <2> QED BY <1>2, <2>2
<1>5. ASSUME NEW a \in Addr, DeletePolicy(a)
      PROVE  RedisTyped' /\ ShownTyped' /\ PollsTyped' /\ CallTyped'
  <2>1. {a} \in SUBSET Addr
    OBVIOUS
  <2> QED BY <1>5, <2>1, StartTyped DEF DeletePolicy
<1>6. CASE SomeRefused
  <2>1. /\ UNCHANGED redisVars /\ busy' = "" /\ call' = NoCall
        /\ UNCHANGED <<plane, paused, polls, seen, shownIds, flash, pending>>
    BY <1>6 DEF SomeRefused
  <2>2. paused' \in BOOLEAN
    BY <1>1, <2>1 DEF ShownTyped
  <2> QED BY <1>1, <2>1, <2>2, RedisSame, ShownSame, PollsSame, OverTyped
<1> QED BY <1>3, <1>4, <1>5, <1>6, HandledTyped, AllAcceptedTyped, CallLostTyped, EngineTyped DEF WriteNext

LEMMA LiveTypeKept == LiveTypeInv /\ [LiveNext]_liveVars => LiveTypeInv'
<1> SUFFICES ASSUME LiveTypeInv, [LiveNext]_liveVars PROVE LiveTypeInv'
  OBVIOUS
<1>1. LiveInv'
  <2>1. LiveInv
    BY LiveParts
  <2> QED BY <2>1, LiveInvKept
<1>2. RedisTyped' /\ ShownTyped' /\ PollsTyped' /\ CallTyped'
  <2>1. CASE UNCHANGED liveVars
    <3>1. RedisTyped /\ ShownTyped /\ PollsTyped /\ CallTyped
      BY LiveParts
    <3>2. paused' \in BOOLEAN
      BY <2>1, <3>1 DEF liveVars, pageVars, ShownTyped
    <3> QED BY <2>1, <3>1, <3>2, RedisSame, ShownSame, PollsSame, CallSame DEF liveVars, pageVars
  <2> QED BY <2>1, PollerTyped, WritesTyped DEF LiveNext
<1> QED BY <1>1, <1>2 DEF LiveTypeInv, LiveTypeOK, RedisTyped, ShownTyped, PollsTyped, CallTyped

\* The console's live state keeps its types: among them, nothing is pending, in
\* the stream or enforced but an action on an address, and no escalation is shown
\* that never was.
THEOREM LiveTyped == LiveSpec => []LiveTypeOK
<1>1. LiveTypeInv => LiveTypeOK
  BY DEF LiveTypeInv
<1> QED BY <1>1, LiveTypeInitially, LiveTypeKept, PTL DEF LiveSpec

-----------------------------------------------------------------------------
-----------------------------------------------------------------------------
(* The Events page. *)

\* A request is made.
LEMMA AskKeeps ==
  ASSUME EventsInv, NEW kind \in {"load", "older"}, NEW v \in View, AskPage(kind, v),
         kind = "older" => MaxOlder # 0
  PROVE  /\ asked' = [r \in Request |-> asked'[r]] /\ loading' \in BOOLEAN
         /\ \A r \in Request : asked'[r] = Idle \/ (asked'[r].kind \in {"load", "older"} /\ asked'[r].view \in View)
         /\ MaxOlder = 0 => \A r \in Request : asked'[r] # Idle => asked'[r].kind = "load"
<1> DEFINE n == [kind |-> kind, view |-> v]
<1>1. PICK r \in Request : asked' = [asked EXCEPT ![r] = n]
  BY DEF AskPage
<1>2. asked' = [q \in Request |-> IF q = r THEN n ELSE asked[q]]
  BY <1>1 DEF EventsInv
<1>3. n.kind = kind /\ n.view = v
  OBVIOUS
<1> HIDE DEF n
<1>4. \A q \in Request : asked'[q] = n \/ asked'[q] = asked[q]
  BY <1>2
<1>5. \A q \in Request : asked'[q] = Idle \/ (asked'[q].kind \in {"load", "older"} /\ asked'[q].view \in View)
  BY <1>3, <1>4 DEF EventsInv, EventsTypeOK
<1>6. MaxOlder = 0 => \A q \in Request : asked'[q] # Idle => asked'[q].kind = "load"
  BY <1>3, <1>4 DEF EventsInv
<1>7. asked' = [q \in Request |-> asked'[q]]
  BY <1>2
<1>8. loading' \in BOOLEAN
  BY DEF AskPage
<1> QED BY <1>5, <1>6, <1>7, <1>8

\* A request is answered, or lost.
LEMMA AnswerKeeps ==
  ASSUME EventsInv, NEW r \in Request, asked' = [asked EXCEPT ![r] = Idle]
  PROVE  /\ asked' = [q \in Request |-> asked'[q]]
         /\ \A q \in Request : asked'[q] = Idle \/ (asked'[q].kind \in {"load", "older"} /\ asked'[q].view \in View)
         /\ MaxOlder = 0 => \A q \in Request : asked'[q] # Idle => asked'[q].kind = "load"
<1>1. asked' = [q \in Request |-> IF q = r THEN Idle ELSE asked[q]]
  BY DEF EventsInv
<1>2. \A q \in Request : asked'[q] = Idle \/ asked'[q] = asked[q]
  BY <1>1
<1>3. \A q \in Request : asked'[q] = Idle \/ (asked'[q].kind \in {"load", "older"} /\ asked'[q].view \in View)
  BY <1>2 DEF EventsInv, EventsTypeOK
<1>4. MaxOlder = 0 => \A q \in Request : asked'[q] # Idle => asked'[q].kind = "load"
  BY <1>2 DEF EventsInv
<1>5. asked' = [q \in Request |-> asked'[q]]
  BY <1>1
<1> QED BY <1>3, <1>4, <1>5

\* What is left to show of a step that leaves the table alone.
LEMMA TableKept ==
  ASSUME EventsInv, UNCHANGED <<table, older>>,
         view' \in View, frozen' \in BOOLEAN, cursor' \in BOOLEAN, loading' \in BOOLEAN,
         moves' \in 0..MaxMoves,
         asked' = [q \in Request |-> asked'[q]],
         \A q \in Request : asked'[q] = Idle \/ (asked'[q].kind \in {"load", "older"} /\ asked'[q].view \in View),
         MaxOlder = 0 => \A q \in Request : asked'[q] # Idle => asked'[q].kind = "load"
  PROVE  EventsInv'
<1>1. EventsTypeOK'
  BY DEF EventsInv, EventsTypeOK
<1> QED BY <1>1 DEF EventsInv

LEMMA EventsBounds == MaxOlder \in Nat /\ MaxMoves \in Nat
BY EventsConstants

LEMMA MoveCounts ==
  ASSUME EventsInv, Move
  PROVE  moves' \in 0..MaxMoves
<1>1. moves \in 0..MaxMoves /\ moves < MaxMoves /\ moves' = moves + 1
  BY DEF EventsInv, EventsTypeOK, Move
<1> QED BY <1>1, EventsBounds, CountOne

LEMMA LoadArrivesKeeps ==
  ASSUME EventsInv, NEW r \in Request, LoadArrives(r)
  PROVE  EventsInv'
<1>1. asked[r].view \in View /\ asked' = [asked EXCEPT ![r] = Idle]
  BY DEF EventsInv, EventsTypeOK, LoadArrives
<1>2. /\ table' = [newest |-> asked[r].view, pages |-> {}] /\ cursor' \in BOOLEAN
      /\ older' = 0 /\ loading' = FALSE /\ UNCHANGED <<view, frozen, moves>>
  BY DEF LoadArrives
<1>3. table'.newest = asked[r].view /\ table'.pages = {}
  BY <1>2
<1>4. table' \in [newest : View \cup {Idle}, pages : SUBSET View]
  BY <1>1, <1>2
<1>5. older' \in 0..MaxOlder
  BY <1>2, EventsBounds
<1>6. EventsTypeOK'
  BY <1>1, <1>2, <1>3, <1>5, AnswerKeeps DEF EventsInv, EventsTypeOK
<1>7. older' = 0 <=> table'.pages = {}
  BY <1>2, <1>3
<1> QED BY <1>1, <1>4, <1>6, <1>7, AnswerKeeps DEF EventsInv

LEMMA OlderArrivesKeeps ==
  ASSUME EventsInv, NEW r \in Request, OlderArrives(r)
  PROVE  EventsInv'
<1>1. asked[r].view \in View /\ asked' = [asked EXCEPT ![r] = Idle] /\ asked[r] # Idle
      /\ asked[r].kind = "older"
  BY DEF EventsInv, EventsTypeOK, OlderArrives
<1>2. /\ cursor' \in BOOLEAN /\ loading' = FALSE /\ UNCHANGED <<view, frozen, moves>>
      /\ older' = (IF older < MaxOlder THEN older + 1 ELSE older)
  BY DEF OlderArrives
<1>3. table' = [newest |-> table.newest, pages |-> table.pages \cup {asked[r].view}]
  <2>1. table \in [newest : View \cup {Idle}, pages : SUBSET View]
    BY DEF EventsInv
  <2>2. table' = [table EXCEPT !.pages = table.pages \cup {asked[r].view}]
    BY DEF OlderArrives
  <2> QED BY <2>1, <2>2
<1>4. table'.newest = table.newest /\ table'.pages = table.pages \cup {asked[r].view}
  BY <1>3
<1>5. table' \in [newest : View \cup {Idle}, pages : SUBSET View]
  BY <1>1, <1>3 DEF EventsInv
<1>6. MaxOlder # 0
  BY <1>1 DEF EventsInv
<1>7. older' \in 0..MaxOlder /\ older' # 0
  <2>1. older \in 0..MaxOlder
    BY DEF EventsInv, EventsTypeOK
  <2> QED BY <1>2, <1>6, <2>1, EventsBounds
<1>8. EventsTypeOK'
  BY <1>1, <1>2, <1>4, <1>7, AnswerKeeps DEF EventsInv, EventsTypeOK
<1>9. table'.pages # {}
  BY <1>4
<1>10. older' = 0 <=> table'.pages = {}
  BY <1>7, <1>9
<1> QED BY <1>1, <1>5, <1>8, <1>10, AnswerKeeps DEF EventsInv

LEMMA EventsInvKept == EventsInv /\ [EventsNext]_eventsVars => EventsInv'
<1> SUFFICES ASSUME EventsInv, [EventsNext]_eventsVars PROVE EventsInv'
  OBVIOUS
<1>1. /\ view \in View /\ frozen \in BOOLEAN /\ cursor \in BOOLEAN /\ loading \in BOOLEAN
      /\ moves \in 0..MaxMoves /\ older \in 0..MaxOlder
  BY DEF EventsInv, EventsTypeOK
<1>2. CASE Reload
  <2>1. AskPage("load", view) /\ UNCHANGED <<view, frozen, table, cursor, older, moves>>
    BY <1>2 DEF Reload
  <2> QED BY <1>1, <2>1, AskKeeps, TableKept
<1>3. CASE Freeze
  <2>1. Move /\ frozen' = ~frozen /\ UNCHANGED <<view, table, cursor, older, loading, asked>>
    BY <1>3 DEF Freeze
  <2>2. (~frozen) \in BOOLEAN
    OBVIOUS
  <2>3. frozen' \in BOOLEAN
    BY <2>1, <2>2
  <2>4. EventsTypeOK'
    BY <1>1, <2>1, <2>3, MoveCounts DEF EventsInv, EventsTypeOK
  <2> QED BY <2>1, <2>4 DEF EventsInv
<1>4. CASE LoadOlder
  <2>1. /\ Move /\ older < MaxOlder /\ AskPage("older", view)
        /\ UNCHANGED <<view, frozen, table, cursor, older>>
    BY <1>4 DEF LoadOlder
  <2>2. MaxOlder # 0
    BY <1>1, <2>1
  <2> QED BY <1>1, <2>1, <2>2, AskKeeps, TableKept, MoveCounts
<1>5. ASSUME NEW v \in View, SetView(v) PROVE EventsInv'
  <2>1. Move /\ view' = v /\ AskPage("load", v) /\ UNCHANGED <<frozen, table, cursor, older>>
    BY <1>5 DEF SetView
  <2> QED BY <1>1, <2>1, AskKeeps, TableKept, MoveCounts
<1>6. ASSUME NEW r \in Request, Lost(r) PROVE EventsInv'
  <2>1. /\ Move /\ loading' = FALSE /\ asked' = [asked EXCEPT ![r] = Idle]
        /\ UNCHANGED <<view, frozen, table, cursor, older>>
    BY <1>6 DEF Lost
  <2> QED BY <1>1, <2>1, AnswerKeeps, TableKept, MoveCounts
<1>7. CASE UNCHANGED eventsVars
  BY <1>7 DEF eventsVars, EventsInv, EventsTypeOK
<1> QED BY <1>2, <1>3, <1>4, <1>5, <1>6, <1>7, LoadArrivesKeeps, OlderArrivesKeeps DEF EventsNext

LEMMA EventsInvInitially == EventsInit => EventsInv
<1> SUFFICES ASSUME EventsInit PROVE EventsInv
  OBVIOUS
<1>1. view \in View /\ table = [newest |-> Idle, pages |-> {}] /\ older = 0 /\ moves = 0
      /\ frozen = FALSE /\ cursor = FALSE /\ loading = TRUE
  BY DEF EventsInit
<1>2. table.newest = Idle /\ table.pages = {} /\ table \in [newest : View \cup {Idle}, pages : SUBSET View]
  BY <1>1
<1>3. PICK r \in Request :
        asked = [q \in Request |-> IF q = r THEN [kind |-> "load", view |-> view] ELSE Idle]
  BY DEF EventsInit
<1>4. asked = [q \in Request |-> asked[q]]
  BY <1>3
<1>5. \A q \in Request : asked[q] = Idle \/ (asked[q].kind = "load" /\ asked[q].view \in View)
  BY <1>1, <1>3
<1>6. 0 \in 0..MaxOlder /\ 0 \in 0..MaxMoves
  BY EventsBounds
<1>7. EventsTypeOK
  BY <1>1, <1>2, <1>5, <1>6 DEF EventsTypeOK
<1> QED BY <1>1, <1>2, <1>4, <1>5, <1>7 DEF EventsInv

\* EventsInv is inductive, for any filters, requests in flight and older pages.
THEOREM EventsAlways == EventsSpec => []EventsInv
BY EventsInvInitially, EventsInvKept, PTL DEF EventsSpec

\* The rows of a table to which no older page was appended were all asked for with
\* one and the same filter: no answer for another one is mixed with them.
THEOREM TableIsOfOneView == EventsSpec => [](older = 0 => table.pages = {})
<1>1. EventsInv => (older = 0 => table.pages = {})
  BY DEF EventsInv
<1> QED BY <1>1, EventsAlways, PTL

-----------------------------------------------------------------------------
-----------------------------------------------------------------------------
(* The console as it is checked: every module, one at a time.              *)

LEMMA ProtectionTyped == ProtectionInv => ProtectionTypeOK
<1> SUFFICES ASSUME ProtectionInv PROVE ProtectionTypeOK
  OBVIOUS
<1>1. ASSUME NEW t \in Tab
      PROVE  /\ tab[t].saved \in Value \cup {Unset} /\ tab[t].draft \in Value \cup {Unset}
             /\ tab[t].source \in {"file", "console"} /\ tab[t].error \in BOOLEAN
             /\ tab[t].confirming \in {"", "apply", "revert"}
             /\ tab[t].toast \in {"", "sent", "failed", "rejected", "enforcing", "unfounded"}
  <2>1. tab[t] \in Page
    BY ProtectionParts
  <2> QED BY <2>1 DEF Page
<1>2. ASSUME NEW t \in Tab PROVE write[t].kind \in {"none", "apply", "revert", "ok", "failed"}
  <2>1. write[t] \in [kind : {"none", "apply", "revert"}, value : Value \cup {Unset}]
    BY ProtectionParts
  <2> QED BY <2>1
<1>3. ASSUME NEW t \in Tab, NEW c \in Check PROVE due[t][c].since \subseteq Value
  <2>1. due[t][c] \in Checking
    BY ProtectionParts
  <2> QED BY <2>1 DEF Checking
<1>4. RequestsTyped /\ effective \in Settings \cup {Unset} /\ applies \in 0..MaxApplies
  BY ProtectionParts
<1> QED BY <1>1, <1>2, <1>3, <1>4 DEF ProtectionTypeOK

\* The inputs the run enumerates are inputs the routes may be given.
LEMMA InputsTyped ==
  ASSUME input \in Inputs
  PROVE  ReadsTypeOK
<1>1. CASE input \in [kind : {"events"}, hits : SUBSET (1..6), before : 1..7, limit : 1..3]
  <2>1. input \in [kind : {"events"}, hits : SUBSET (Nat \ {0}), before : Nat \ {0}, limit : Nat \ {0}]
    BY <1>1
  <2> QED BY <2>1 DEF ReadsTypeOK
<1>2. CASE input \in [kind : {"policies"},
                      keys : [({"a", "b"} \X {"client", "endpoint"}) ->
                                {Null} \cup [action : {"throttle", "temp_block"}, ttl : {-1, 1, 2}]]]
  <2> DEFINE some == {Null} \cup [action : {"throttle", "temp_block"}, ttl : {-1, 1, 2}]
             all == {Null} \cup [action : DOMAIN ACTION_PRIORITY, ttl : TTL]
  <2>1. {"throttle", "temp_block"} \subseteq DOMAIN ACTION_PRIORITY
    BY DEF ACTION_PRIORITY
  <2>2. {-1, 1, 2} \subseteq TTL
    BY DEF TTL
  <2>3. some \subseteq all
    BY <2>1, <2>2
  <2>4. input.kind = "policies" /\ input.keys \in [({"a", "b"} \X {"client", "endpoint"}) -> some]
    BY <1>2
  <2>5. input.keys \in [DOMAIN input.keys -> all]
    <3> HIDE DEF some, all
    <3> QED BY <2>3, <2>4
  <2> QED BY <2>4, <2>5 DEF ReadsTypeOK
<1>3. CASE input \in [kind : {"overview"}, events : UNION {[1..n -> Events] : n \in 0..3}]
  <2>1. input.kind = "overview" /\ \E n \in 0..3 : input.events \in [1..n -> Events]
    BY <1>3
  <2>2. Events \subseteq Event
    <3> DEFINE one == <<"flood">>
               two == <<"traversal", "enumeration">>
    <3>1. <<>> \in Seq(Signal) /\ one \in Seq(Signal) /\ two \in Seq(Signal)
      BY ReadsConstants
    <3>2. "GET" \in Method /\ <<"users">> \in Seq(Segment)
      BY InputConstants
    <3>3. Events = [ip : Client, method : {"GET"}, path : {<<"users">>}, unmatched : {TRUE},
                    fired : {<<>>, one, two}]
      BY DEF Events
    <3> HIDE DEF one, two
    <3> QED BY <3>1, <3>2, <3>3 DEF Event
  <2>3. input.events \in Seq(Event)
    <3>1. PICK n \in 0..3 : input.events \in [1..n -> Event]
      BY <2>1, <2>2
    <3> QED BY <3>1
  <2> QED BY <2>1, <2>3 DEF ReadsTypeOK
<1>4. CASE input \in [kind : {"overview"}, events : [1..4 -> Calls]]
  <2> DEFINE first == <<"users", "1">>
             second == <<"users", "2">>
             attack == <<"traversal">>
  <2>1. first \in Seq(Segment) /\ second \in Seq(Segment) /\ <<>> \in Seq(Signal) /\ attack \in Seq(Signal)
    BY InputConstants, ReadsConstants
  <2>2. Calls = [ip : {"a", "b"}, method : {"GET"}, path : {first, second},
                 unmatched : BOOLEAN, fired : {<<>>}]
                \cup [ip : {"a", "b"}, method : {"PUT"}, path : {first},
                      unmatched : {TRUE}, fired : {<<>>, attack}]
    BY DEF Calls
  <2> HIDE DEF first, second, attack
  <2>3. Calls \subseteq Event
    BY <2>1, <2>2, InputConstants DEF Event
  <2>4. input.kind = "overview" /\ input.events \in [1..4 -> Event]
    BY <1>4, <2>3
  <2>5. input.events \in Seq(Event)
    <3>1. PICK n \in 0..4 : input.events \in [1..n -> Event]
      BY <2>4
    <3> QED BY <3>1
  <2> QED BY <2>4, <2>5 DEF ReadsTypeOK
<1> QED BY <1>1, <1>2, <1>3, <1>4 DEF Inputs

LEMMA ConsoleInvInitially == ConsoleInit => ConsoleInv
<1> SUFFICES ASSUME ConsoleInit PROVE ConsoleInv
  OBVIOUS
<1>1. LiveTypeInv /\ AdminInv /\ ProtectionInv
  BY LiveTypeInitially, AdminInvInitially, ProtectionInvInitially DEF ConsoleInit
<1>2. EventsInv
  <2>1. CASE part = "events"
    BY <2>1, EventsInvInitially DEF ConsoleInit
  <2>2. CASE part # "events"
    <3>1. /\ view = CHOOSE v \in View : TRUE
          /\ table = [newest |-> view, pages |-> {}]
          /\ frozen = TRUE /\ cursor = FALSE /\ older = 0 /\ loading = FALSE /\ moves = 0
          /\ asked = [r \in Request |-> Idle]
      BY <2>2 DEF ConsoleInit
    <3>2. view \in View
      BY <3>1, EventsConstants
    <3>3. table.newest = view /\ table.pages = {} /\ table \in [newest : View \cup {Idle}, pages : SUBSET View]
      BY <3>1, <3>2
    <3>4. 0 \in 0..MaxOlder /\ 0 \in 0..MaxMoves
      BY EventsBounds
    <3>5. asked = [r \in Request |-> asked[r]] /\ \A r \in Request : asked[r] = Idle
      BY <3>1
    <3>6. EventsTypeOK
      BY <3>1, <3>2, <3>3, <3>4, <3>5 DEF EventsTypeOK
    <3> QED BY <3>1, <3>3, <3>5, <3>6 DEF EventsInv
  <2> QED BY <2>1, <2>2
<1>3. ReadsTypeOK
  <2>1. CASE part = "reads"
    BY <2>1, InputsTyped DEF ConsoleInit
  <2>2. CASE part # "reads"
    BY <2>2 DEF ConsoleInit, ReadsTypeOK
  <2> QED BY <2>1, <2>2
<1> QED BY <1>1, <1>2, <1>3 DEF ConsoleInv

\* Whichever module moves does so by a step of its own, and the others rest.
LEMMA ConsoleSteps ==
  ASSUME [ConsoleNext]_consoleVars
  PROVE  /\ [LiveNext]_liveVars /\ [AdminNext]_adminVars
         /\ [ProtectionNext]_protectionVars /\ [EventsNext]_eventsVars
         /\ UNCHANGED input
<1>1. CASE UNCHANGED consoleVars
  BY <1>1 DEF consoleVars
<1>2. CASE ConsoleNext
  BY <1>2 DEF ConsoleNext, LiveNext, AdminNext
<1> QED BY <1>1, <1>2

LEMMA ConsoleInvKept == ConsoleInv /\ [ConsoleNext]_consoleVars => ConsoleInv'
<1> SUFFICES ASSUME ConsoleInv, [ConsoleNext]_consoleVars PROVE ConsoleInv'
  OBVIOUS
<1>1. LiveTypeInv /\ AdminInv /\ ProtectionInv /\ EventsInv /\ ReadsTypeOK
  BY DEF ConsoleInv
<1>2. LiveTypeInv' /\ AdminInv' /\ ProtectionInv' /\ EventsInv'
  BY <1>1, ConsoleSteps, LiveTypeKept, AdminInvKept, ProtectionInvKept, EventsInvKept
<1>3. ReadsTypeOK'
  BY <1>1, ConsoleSteps DEF ReadsTypeOK
<1> QED BY <1>2, <1>3 DEF ConsoleInv

\* The state of the whole console keeps its types, whatever polls, writes, resets
\* and tabs are under way.
THEOREM ConsoleTyped == ConsoleSpec => []ConsoleTypeOK
<1>1. ConsoleInv => ConsoleTypeOK
  <2>1. AdminInv => AdminTypeOK
    BY DEF AdminInv
  <2>2. LiveTypeInv => LiveTypeOK
    BY DEF LiveTypeInv
  <2>3. EventsInv => EventsTypeOK
    BY DEF EventsInv
  <2> QED BY <2>1, <2>2, <2>3, ProtectionTyped DEF ConsoleInv, ConsoleTypeOK
<1> QED BY <1>1, ConsoleInvInitially, ConsoleInvKept, PTL DEF ConsoleSpec

\* Every safety property the run checks of the console, of the specification that
\* it checks.
THEOREM ConsoleIsSound ==
  ConsoleSpec => [](PendingWasAccepted /\ SeenWasShown /\ RoutesSound /\ ResetSound /\ EnforcingIsFounded)
<1>1. ConsoleInv => PendingWasAccepted /\ SeenWasShown /\ RoutesSound /\ ResetSound /\ EnforcingIsFounded
  BY ReadsAreSound DEF ConsoleInv, LiveTypeInv, LiveInv, AdminInv, ProtectionInv
<1> QED BY <1>1, ConsoleInvInitially, ConsoleInvKept, PTL DEF ConsoleSpec

=============================================================================

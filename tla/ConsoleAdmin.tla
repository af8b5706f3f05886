----------------------------- MODULE ConsoleAdmin -----------------------------
(***************************************************************************)
(* Resetting the console: the dialog that asks for the word (chrome.jsx,   *)
(* TypedConfirmControl) and POST /api/admin/reset, which empties Postgres  *)
(* and Redis side by side.  The dialog gives up on a request after a time; *)
(* its handler goes on all the same, so that two may run at once.          *)
(***************************************************************************)
EXTENDS Naturals, FiniteSets

CONSTANTS
  Reset,      \* bound: requests of the page
  MaxChanges, \* bound: how often a store comes or goes
  Stream,     \* REDIS_STREAMS
  Swept,      \* key families the reset removes
  Kept        \* key families it must not touch: policies, heartbeat, settings

ASSUME AdminConstants == MaxChanges \in Nat /\ Swept \cap Kept = {}

VARIABLES
  store,      \* [pg : unset, down or up, redis : whether it answers]
  changes,    \* how often a store came or went
  sequence,   \* campaign_id_seq exists: the engine has run on this database
  entries,    \* streams that hold something
  groups,     \* streams the engine can read: their consumer groups exist
  keys,       \* key families that are there
  pg,         \* per request: where its truncateTables is
  txn,        \* per request: what its transaction has done
  redis,      \* per request: where its clearRedis is
  emptied,    \* history: requests whose truncation was committed
  dialog,     \* [open, typed, busy]
  awaits      \* requests the page still waits for

storeVars == <<store, changes, sequence, entries, groups, keys>>
laneVars  == <<pg, txn, redis, emptied>>
pageSide  == <<dialog, awaits>>
adminVars == <<storeVars, laneVars, pageSide>>

NoTxn == [state |-> "none", sequence |-> FALSE]

AdminTypeOK ==
  /\ store \in [pg : {"unset", "down", "up"}, redis : BOOLEAN]
  /\ sequence \in BOOLEAN
  /\ changes \in 0..MaxChanges
  /\ entries \subseteq Stream /\ groups \subseteq Stream
  /\ keys \subseteq Swept \cup Kept
  /\ pg \in [Reset -> {"idle", "connect", "ask", "begin", "truncate", "setval", "commit",
                       "ok", "failed", "threw"}]
  /\ txn \in [Reset -> [state : {"none", "open", "truncated", "aborted", "lost"}, sequence : BOOLEAN]]
  /\ redis \in [Reset -> [at : {"idle", "watermark", "trim", "sweep", "ok", "failed"}, left : SUBSET Stream]]
  /\ emptied \subseteq Reset
  /\ dialog \in [open : BOOLEAN, typed : BOOLEAN, busy : BOOLEAN]
  /\ awaits \subseteq Reset

AdminInit ==
  /\ store \in [pg : {"unset", "down", "up"}, redis : BOOLEAN]
  /\ sequence \in BOOLEAN
  /\ changes = 0
  /\ entries = Stream /\ groups = Stream /\ keys = Swept \cup Kept
  /\ pg = [r \in Reset |-> "idle"] /\ txn = [r \in Reset |-> NoTxn]
  /\ redis = [r \in Reset |-> [at |-> "idle", left |-> Stream]] /\ emptied = {}
  /\ dialog = [open |-> FALSE, typed |-> FALSE, busy |-> FALSE]
  /\ awaits = {}

-----------------------------------------------------------------------------
(* The dialog.                                                             *)

Closed == [open |-> FALSE, typed |-> FALSE, busy |-> FALSE]

\* The button stays enabled while a reset runs, and starts the dialog afresh.
OpenDialog ==
  /\ dialog' = [Closed EXCEPT !.open = TRUE]
  /\ UNCHANGED <<storeVars, laneVars, awaits>>

Close ==
  /\ dialog.open /\ ~dialog.busy
  /\ dialog' = Closed
  /\ UNCHANGED <<storeVars, laneVars, awaits>>

TypeWord ==
  /\ dialog.open /\ ~dialog.busy
  /\ dialog' = [dialog EXCEPT !.typed = ~dialog.typed]
  /\ UNCHANGED <<storeVars, laneVars, awaits>>

Run(r) ==
  /\ dialog.open /\ dialog.typed /\ ~dialog.busy
  /\ pg[r] = "idle"
  /\ dialog' = [dialog EXCEPT !.busy = TRUE]
  /\ awaits' = awaits \cup {r}
  /\ pg' = [pg EXCEPT ![r] = "connect"]
  /\ redis' = [redis EXCEPT ![r].at = "watermark"]
  /\ UNCHANGED <<storeVars, txn, emptied>>

\* Promise.all: an exception of either lane answers at once, otherwise both
\* have to end.  The page takes an error page for an unreachable server.
Reply(r) ==
  CASE pg[r] = "threw" -> "error"
    [] pg[r] \in {"ok", "failed"} /\ redis[r].at \in {"ok", "failed"} ->
         IF "ok" \in {pg[r], redis[r].at} THEN "cleared" ELSE "nothing"
    [] OTHER -> "pending"

Answered(r) ==
  /\ r \in awaits /\ Reply(r) # "pending"
  /\ awaits' = awaits \ {r}
  /\ dialog' = IF Reply(r) = "cleared" THEN Closed ELSE [dialog EXCEPT !.busy = FALSE]
  /\ UNCHANGED <<storeVars, laneVars>>

\* Mutant: the request ends, the dialog's state does not.
AbortsSilently(r) ==
  /\ r \in awaits
  /\ awaits' = awaits \ {r}
  /\ UNCHANGED <<storeVars, laneVars, dialog>>

\* The 15 s timer, or a lost connection.
Aborts(r) ==
  /\ r \in awaits
  /\ awaits' = awaits \ {r}
  /\ dialog' = [dialog EXCEPT !.busy = FALSE]
  /\ UNCHANGED <<storeVars, laneVars>>

-----------------------------------------------------------------------------
(* truncateTables.                                                         *)

Connected(r) == store.pg = "up" /\ txn[r].state # "lost"

\* Where Postgres fails a statement the client rolls back and reports it.
PgStep(r, from, to, t) ==
  /\ pg[r] = from
  /\ pg' = [pg EXCEPT ![r] = IF Connected(r) THEN to ELSE "failed"]
  /\ txn' = [txn EXCEPT ![r] = IF Connected(r) THEN t ELSE NoTxn]

\* Without a URL there is no store; connect is outside the try.
Connect(r) ==
  /\ pg[r] = "connect"
  /\ pg' = [pg EXCEPT ![r] = CASE store.pg = "unset" -> "failed"
                               [] store.pg = "down" -> "threw"
                               [] OTHER -> "ask"]
  /\ UNCHANGED <<storeVars, txn, redis, emptied, pageSide>>

\* The rows are counted, and the catalogue is asked for the sequence.
AskSequence(r) ==
  /\ PgStep(r, "ask", "begin", [state |-> "none", sequence |-> sequence])
  /\ UNCHANGED <<storeVars, redis, emptied, pageSide>>

Begin(r) ==
  /\ PgStep(r, "begin", "truncate", [txn[r] EXCEPT !.state = "open"])
  /\ UNCHANGED <<storeVars, redis, emptied, pageSide>>

\* Takes the tables' exclusive locks, which the other transaction may hold.
Truncate(r) ==
  /\ \A q \in Reset \ {r} : txn[q].state # "truncated"
  /\ PgStep(r, "truncate", "setval", [txn[r] EXCEPT !.state = "truncated"])
  /\ UNCHANGED <<storeVars, redis, emptied, pageSide>>

\* Mutant: the sequence is reset in any case, and its absence tolerated; the
\* failed statement has aborted the transaction.
SetvalTolerated(r) ==
  /\ PgStep(r, "setval", "commit", [txn[r] EXCEPT !.state = IF sequence THEN @ ELSE "aborted"])
  /\ UNCHANGED <<storeVars, redis, emptied, pageSide>>

\* Only where the sequence was found; a failure would go to the catch.
Setval(r) ==
  /\ PgStep(r, "setval", IF txn[r].sequence => sequence THEN "commit" ELSE "failed", txn[r])
  /\ UNCHANGED <<storeVars, redis, emptied, pageSide>>

\* COMMIT of an aborted transaction succeeds and rolls back; of one that was
\* committed the answer may be lost.
Commit(r) ==
  /\ \E to \in {"ok", "failed"} : PgStep(r, "commit", to, NoTxn)
  /\ IF Connected(r) /\ txn[r].state = "truncated"
     THEN emptied' = emptied \cup {r}
     ELSE UNCHANGED emptied
  /\ UNCHANGED <<storeVars, redis, pageSide>>

-----------------------------------------------------------------------------
(* clearRedis.  The first command that fails ends it.                      *)

RedisStep(r, from, to) ==
  /\ redis[r].at = from
  /\ redis' = [redis EXCEPT ![r] = IF store.redis THEN to ELSE [@ EXCEPT !.at = "failed"]]
  /\ UNCHANGED <<store, changes, sequence, pg, txn, emptied, pageSide>>

Watermark(r) ==
  /\ RedisStep(r, "watermark", [at |-> "trim", left |-> Stream])
  /\ UNCHANGED <<entries, groups, keys>>

\* One stream after the other is emptied, in some order; its groups survive.
Trim(r) ==
  \E s \in redis[r].left :
    /\ RedisStep(r, "trim", [at |-> IF redis[r].left = {s} THEN "sweep" ELSE "trim",
                             left |-> redis[r].left \ {s}])
    /\ entries' = IF store.redis THEN entries \ {s} ELSE entries
    /\ UNCHANGED <<groups, keys>>

\* SCAN of the patterns, and one DEL of what was found.
Sweep(r) ==
  /\ RedisStep(r, "sweep", [at |-> "ok", left |-> {}])
  /\ keys' = IF store.redis THEN keys \ Swept ELSE keys
  /\ UNCHANGED <<entries, groups>>

-----------------------------------------------------------------------------
(* Around it: either store comes and goes, and an engine that starts       *)
(* creates the sequence.                                                   *)

EngineStarts ==
  /\ store.pg = "up" /\ ~sequence
  /\ sequence' = TRUE
  /\ UNCHANGED <<store, changes, entries, groups, keys, laneVars, pageSide>>

StoreChanges ==
  /\ changes < MaxChanges /\ changes' = changes + 1
  /\ \E up \in BOOLEAN, state \in {"down", "up"} :
       store' = [pg |-> IF store.pg = "unset" THEN "unset" ELSE state, redis |-> up]
  /\ txn' = [r \in Reset |-> IF store'.pg = "down" /\ pg[r] \notin {"idle", "connect", "ok", "failed", "threw"}
                            THEN [txn[r] EXCEPT !.state = "lost"] ELSE txn[r]]
  /\ UNCHANGED <<sequence, entries, groups, keys, pg, redis, emptied, pageSide>>

-----------------------------------------------------------------------------

DialogNext ==
  \/ OpenDialog \/ Close \/ TypeWord
  \/ \E r \in Reset : Run(r) \/ Answered(r) \/ Aborts(r)

PostgresNext ==
  \/ EngineStarts
  \/ \E r \in Reset : Connect(r) \/ AskSequence(r) \/ Begin(r) \/ Truncate(r) \/ Setval(r) \/ Commit(r)

RedisNext == \E r \in Reset : Watermark(r) \/ Trim(r) \/ Sweep(r)

AdminNext == DialogNext \/ PostgresNext \/ RedisNext \/ StoreChanges

\* Nothing is assumed of the server or of the stores: only the browser's timer
\* is sure to fire.
AdminFairness == \A r \in Reset : WF_adminVars(Aborts(r))

AdminSpec == AdminInit /\ [][AdminNext]_adminVars /\ AdminFairness

-----------------------------------------------------------------------------

\* A reset that reports the record as cleared has committed: no failed statement
\* inside the transaction turns its COMMIT into a rollback unnoticed, whether
\* the engine has ever run on this database or starts in between.
ReportedIsCommitted == \A r \in Reset : pg[r] = "ok" => r \in emptied

\* Enforcement, the heartbeat and the settings stay, and the engine can still
\* read every stream, whatever failed half-way and however often it is repeated.
SystemSurvives == Kept \subseteq keys /\ groups = Stream

\* The dialog comes back from every reset, although the server may never answer.
DialogReturns == dialog.busy ~> ~dialog.busy

\* A reset reports nothing it has not done and destroys nothing it must not,
\* although two may run at once and either store may fail at any statement.
ResetSound == ReportedIsCommitted /\ SystemSurvives

\* Inductive: a transaction that has come past its TRUNCATE still holds it, or was
\* cut off from the server.
AdminInv ==
  /\ AdminTypeOK
  /\ ResetSound
  /\ \A r \in Reset : pg[r] \in {"setval", "commit"} => txn[r].state \in {"truncated", "lost"}
=============================================================================

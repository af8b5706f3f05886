-------------------------- MODULE AdaptiveSettings --------------------------
(***************************************************************************)
(* The adaptive settings and the recommendations an analyst decides on:    *)
(* the console's Adaptive page, in several browsers, the routes behind it  *)
(* and the rows of Postgres they lock, and the decision engine, which      *)
(* writes the settings when its file changes, reads them at every cycle    *)
(* and may write them back, and writes the gateway's key of an approved    *)
(* recommendation for what is left of its window.                          *)
(*                                                                         *)
(* A configuration is abstracted to its guardrail on policy duration, the  *)
(* one number both the routes and the decisions depend on; 0 is one that   *)
(* validateAdaptive refuses, and those in Watching have the mode monitor.  *)
(***************************************************************************)
EXTENDS Naturals, FiniteSets

CONSTANTS
  Page,      \* open pages
  MaxCfg,    \* bound: the largest guardrail
  Rec,       \* recommendations
  MaxVer,    \* bound: versions of the settings
  MaxLoads,  \* bound: answers to load() on their way to one page
  MaxNow,    \* bound: the last instant
  Watching,  \* configurations in monitor mode
  None       \* no page, no row, no call

ASSUME AdaptiveConstants ==
  /\ MaxCfg \in Nat \ {0} /\ MaxVer \in Nat \ {0} /\ MaxLoads \in Nat /\ MaxNow \in Nat
  /\ None \notin Page \cup Rec

Cfg == 0..MaxCfg

\* The document in the column "config", which carries a version of its own; an
\* old one has not the form in which this engine would write it.
Doc == [cfg : Cfg, ver : Nat, old : BOOLEAN]
Row == [doc : Doc, ver : Nat, src : {"file", "console"}]

ASSUME AdaptiveNames ==
  /\ None \notin Doc \cup [cfg : Cfg, of : Doc] \cup [cfg : Cfg, ver : Nat]
  /\ Rec \cap Nat = {}

VARIABLES
  row,       \* adaptive_settings: the document, the version and the source
  held,      \* history: the configurations the row has held under its version
  file,      \* its file_config
  lock,      \* who holds its row lock
  draft,     \* the page's draft; of is the document it was cloned from
  busy,      \* what the page is waiting for
  loads,     \* answers to load() on their way
  call,      \* the page's write
  rec,       \* policy_recommendations
  recLock,   \* who holds the row lock of a recommendation
  audit,     \* policy_audit: records about a version or a recommendation
  stage,     \* where the engine's cycle is
  using,     \* the configuration of this cycle
  reading,   \* the document load_config is about to write back
  todo,      \* the approved recommendations the cycle has still to look at
  writing,   \* the one whose key it has written and not yet marked
  now,       \* the clock of the console, the engine and Redis
  key,       \* the policy keys of Redis: the instant they expire, 0 for none
  revoking   \* those whose key an operator deleted, still to be marked

settings   == <<row, held, file, lock>>
pageVars   == <<draft, busy, loads>>
recVars    == <<rec, recLock>>
engineVars == <<stage, using, reading, todo, writing>>
keyVars    == <<now, key, revoking>>
vars == <<settings, pageVars, call, recVars, audit, engineVars, keyVars>>

NoCall == [kind |-> "none", at |-> "idle", cfg |-> 0, of |-> None, rec |-> None]
Subject == (1..MaxVer) \cup Rec

\* validateAdaptive and validateRecommendationEdit.
ValidAdaptive(c)  == c >= 1
ValidEdit(dur, c) == dur >= 1 /\ dur <= c

Draft == [cfg : Cfg, of : Doc]
Call  == [kind : {"none", "apply", "revert", "approve", "reject"},
          at : {"idle", "sent", "locked", "ok", "refused"},
          cfg : Cfg, of : Doc \cup {None}, rec : Rec \cup {None}]
Recommendation ==
  [status : {"pending_approval", "approved", "rejected", "active", "revoked", "expired"},
   bites : BOOLEAN,   \* its action is one the gateway enforces, not monitor
   dur : Cfg,         \* expires_in
   ends : Nat]        \* expires_at

TypeOK ==
  /\ row \in Row /\ row.ver <= MaxVer
  /\ held \in SUBSET Cfg
  /\ file \in Cfg
  /\ lock \in Page \cup {None}
  /\ draft \in [Page -> Draft \cup {None}]
  /\ busy \in [Page -> {"", "apply", "revert", "decide"}]
  /\ loads \in [Page -> SUBSET Doc]
  /\ call \in [Page -> Call]
  /\ rec \in [Rec -> Recommendation]
  /\ recLock \in [Rec -> Page \cup {None}]
  /\ audit \in [Subject -> Nat]
  /\ stage \in {"idle", "loaded", "listed"}
  /\ using \in Cfg
  /\ reading \in Doc \cup {None}
  /\ todo \in SUBSET Rec
  /\ writing \in Rec \cup {None}
  /\ now \in Nat
  /\ key \in [Rec -> Nat]
  /\ revoking \in SUBSET Rec

\* What ensure_config leaves when the engine starts: its file's configuration, or
\* one the console saved, perhaps under an older release.
Init ==
  /\ file \in Cfg \ {0}
  /\ \E c \in Cfg \ {0}, src \in {"file", "console"}, old \in BOOLEAN :
       /\ src = "file" => c = file /\ ~old
       /\ row = [doc |-> [cfg |-> c, ver |-> 1, old |-> old], ver |-> 1, src |-> src]
       /\ held = {c}
  /\ lock = None
  /\ draft = [p \in Page |-> None]
  /\ busy = [p \in Page |-> ""]
  /\ loads = [p \in Page |-> {}]
  /\ call = [p \in Page |-> NoCall]
  /\ rec = [r \in Rec |-> [status |-> "pending_approval", bites |-> TRUE, dur |-> 0, ends |-> 0]]
  /\ recLock = [r \in Rec |-> None]
  /\ audit = [s \in Subject |-> 0]
  /\ stage = "idle" /\ using = 0 /\ reading = None /\ todo = {} /\ writing = None
  /\ now = 0
  /\ key = [r \in Rec |-> 0]
  /\ revoking = {}

-----------------------------------------------------------------------------
(* The page.                                                               *)

BesidesPages == UNCHANGED <<settings, recVars, audit, engineVars, keyVars>>

\* load() reads the document, not the version beside it.  With a draft in place the
\* answer only refreshes what the page displays, which is not kept here.
Load(p) ==
  /\ draft[p] = None
  /\ Cardinality(loads[p]) < MaxLoads
  /\ loads' = [loads EXCEPT ![p] = @ \cup {row.doc}]
  /\ UNCHANGED <<draft, busy, call>> /\ BesidesPages

\* An answer becomes the draft where there is none.
Loaded(p) ==
  /\ \E s \in loads[p] :
       /\ draft' = IF draft[p] = None THEN [draft EXCEPT ![p] = [cfg |-> s.cfg, of |-> s]]
                   ELSE draft
       /\ loads' = [loads EXCEPT ![p] = @ \ {s}]
  /\ UNCHANGED <<busy, call>> /\ BesidesPages

\* The dialog of a save covers the form.
Edit(p, c) ==
  /\ draft[p] # None
  /\ busy[p] \notin {"apply", "revert"}
  /\ draft' = [draft EXCEPT ![p].cfg = c]
  /\ UNCHANGED <<busy, loads, call>> /\ BesidesPages

\* One write of a page is on its way at a time.
Send(p, b, c) ==
  /\ busy[p] = ""
  /\ call[p] = NoCall
  /\ busy' = [busy EXCEPT ![p] = b]
  /\ call' = [call EXCEPT ![p] = c]
  /\ UNCHANGED <<draft, loads>> /\ BesidesPages

\* Whether there is something to apply or to revert is judged by what the page
\* displays, which may be old: any click is possible.
ApplyChanges(p) ==
  /\ draft[p] # None
  /\ Send(p, "apply", [NoCall EXCEPT !.kind = "apply", !.at = "sent",
                                     !.cfg = draft[p].cfg, !.of = draft[p].of])

RevertChanges(p) ==
  /\ draft[p] # None
  /\ Send(p, "revert", [NoCall EXCEPT !.kind = "revert", !.at = "sent"])

Decide(p, r, d, dur) ==
  Send(p, "decide", [NoCall EXCEPT !.kind = d, !.at = "sent", !.cfg = dur, !.rec = r])

\* What a write answered: a save's draft is what was saved.
Answered(p) ==
  /\ call[p].at \in {"ok", "refused"}
  /\ busy' = [busy EXCEPT ![p] = ""]
  /\ call' = [call EXCEPT ![p] = NoCall]
  /\ draft' = IF call[p].at = "ok" /\ call[p].kind \in {"apply", "revert"}
              THEN [draft EXCEPT ![p] = [cfg |-> call[p].of.cfg, of |-> call[p].of]] ELSE draft
  /\ UNCHANGED loads /\ BesidesPages

\* The answer is lost, or is no JSON: nothing on the page catches it, and it
\* stays busy until it is loaded again.
AnswerLost(p) ==
  /\ call[p].at \in {"ok", "refused"}
  /\ call' = [call EXCEPT ![p] = NoCall]
  /\ UNCHANGED pageVars /\ BesidesPages

\* The browser loads the page again; a write on its way goes on without it.
Reload(p) ==
  /\ draft' = [draft EXCEPT ![p] = None]
  /\ busy' = [busy EXCEPT ![p] = ""]
  /\ loads' = [loads EXCEPT ![p] = {}]
  /\ call' = IF call[p].at \in {"ok", "refused"} THEN [call EXCEPT ![p] = NoCall] ELSE call
  /\ BesidesPages

-----------------------------------------------------------------------------
(* The routes.                                                             *)

Refused(p) == call' = [call EXCEPT ![p].at = "refused"]

\* What no route of the settings, and none of the recommendations, writes.
BesidesSettings  == UNCHANGED <<file, pageVars, recVars, engineVars, keyVars>>
BesidesDecisions == UNCHANGED <<settings, pageVars, engineVars, keyVars>>

\* PUT and DELETE of the settings: SELECT ... FOR UPDATE waits for the row.  What
\* is built on an old document may have fields that are refused.
SettingsLocked(p) ==
  LET c == call[p] IN
  /\ c.at = "sent" /\ c.kind \in {"apply", "revert"}
  /\ \/ /\ c.kind = "apply" /\ (~ValidAdaptive(c.cfg) \/ c.of.old)
        /\ Refused(p) /\ UNCHANGED lock
     \/ /\ c.kind = "apply" => ValidAdaptive(c.cfg)
        /\ lock = None /\ lock' = p
        /\ call' = [call EXCEPT ![p].at = "locked"]
  /\ UNCHANGED <<row, held, audit>> /\ BesidesSettings

\* The transaction commits configuration c under the next version, with its
\* audit record.
Commit(p, c, src, old) ==
  LET doc == [cfg |-> c, ver |-> row.ver + 1, old |-> old] IN
  /\ row.ver < MaxVer
  /\ row' = [doc |-> doc, ver |-> doc.ver, src |-> src]
  /\ held' = {c}
  /\ audit' = [audit EXCEPT ![doc.ver] = @ + 1]
  /\ call' = [call EXCEPT ![p].at = "ok", ![p].of = doc]

\* Mutant: the version is not compared with the row's.
PutUnchecked(p) ==
  /\ call[p].at = "locked" /\ call[p].kind = "apply"
  /\ lock' = None
  /\ Commit(p, call[p].cfg, "console", FALSE)
  /\ BesidesSettings

\* The document's version is compared with the row's; fields it lacks stay out.
Put(p) ==
  LET c == call[p] IN
  /\ c.at = "locked" /\ c.kind = "apply"
  /\ lock' = None
  /\ IF c.of.ver = row.ver
     THEN \E old \in {FALSE, c.of.old} : Commit(p, c.cfg, "console", old)
     ELSE Refused(p) /\ UNCHANGED <<row, held, audit>>
  /\ BesidesSettings

\* DELETE compares no version.
Delete(p) ==
  /\ call[p].at = "locked" /\ call[p].kind = "revert"
  /\ lock' = None
  /\ IF ValidAdaptive(file)
     THEN Commit(p, file, "file", FALSE)
     ELSE Refused(p) /\ UNCHANGED <<row, held, audit>>
  /\ BesidesSettings

\* PATCH of a recommendation locks its row and reads the settings unlocked.
PatchLocked(p) ==
  /\ call[p].at = "sent" /\ call[p].kind \in {"approve", "reject"}
  /\ recLock[call[p].rec] = None
  /\ recLock' = [recLock EXCEPT ![call[p].rec] = p]
  /\ call' = [call EXCEPT ![p].at = "locked", ![p].of = row.doc]
  /\ UNCHANGED <<rec, audit>> /\ BesidesDecisions

\* What a decision makes of a recommendation: the window opens at the approval.
Verdict(c) ==
  IF c.kind = "approve"
  THEN [status : {"approved"}, bites : BOOLEAN, dur : {c.cfg}, ends : {now + c.cfg}]
  ELSE [status : {"rejected"}, bites : {TRUE}, dur : {0}, ends : {0}]

\* Mutant: a recommendation is decided whatever its status.
PatchAgain(p) ==
  LET c == call[p] IN
  /\ c.at = "locked" /\ c.kind \in {"approve", "reject"}
  /\ recLock' = [recLock EXCEPT ![c.rec] = None]
  /\ IF c.kind = "approve" => ValidEdit(c.cfg, c.of.cfg)
     THEN /\ \E v \in Verdict(c) : rec' = [rec EXCEPT ![c.rec] = v]
          /\ audit' = [audit EXCEPT ![c.rec] = @ + 1]
          /\ call' = [call EXCEPT ![p].at = "ok"]
     ELSE Refused(p) /\ UNCHANGED <<rec, audit>>
  /\ BesidesDecisions

Patch(p) ==
  LET c == call[p] IN
  /\ c.at = "locked" /\ c.kind \in {"approve", "reject"}
  /\ recLock' = [recLock EXCEPT ![c.rec] = None]
  /\ IF /\ rec[c.rec].status = "pending_approval"
        /\ c.kind = "approve" => ValidEdit(c.cfg, c.of.cfg)
     THEN /\ \E v \in Verdict(c) : rec' = [rec EXCEPT ![c.rec] = v]
          /\ audit' = [audit EXCEPT ![c.rec] = @ + 1]
          /\ call' = [call EXCEPT ![p].at = "ok"]
     ELSE Refused(p) /\ UNCHANGED <<rec, audit>>
  /\ BesidesDecisions

\* A statement fails: everything is rolled back and the answer says so.
RolledBack(p) ==
  /\ call[p].at = "locked"
  /\ Refused(p)
  /\ lock' = IF lock = p THEN None ELSE lock
  /\ recLock' = [r \in Rec |-> IF recLock[r] = p THEN None ELSE recLock[r]]
  /\ UNCHANGED <<row, held, file, rec, audit, pageVars, engineVars, keyVars>>

-----------------------------------------------------------------------------
(* The decision engine.                                                    *)

Idle == stage' = "idle" /\ using' = 0 /\ reading' = None /\ todo' = {} /\ writing' = None

BesidesEngine == UNCHANGED <<pageVars, call, audit>>

\* It starts with file configuration c: ensure_config.  The document keeps the
\* version v that the file names, which is assumed not to run ahead of the row's.
EnsureConfig(c, v) ==
  /\ lock = None
  /\ file' = c
  /\ IF row.src = "file" /\ row.doc.cfg # c
     THEN /\ row.ver < MaxVer
          /\ row' = [doc |-> [cfg |-> c, ver |-> v, old |-> FALSE],
                     ver |-> row.ver + 1, src |-> "file"]
          /\ held' = {c}
     ELSE UNCHANGED <<row, held>>
  /\ Idle
  /\ UNCHANGED lock /\ BesidesEngine /\ UNCHANGED <<recVars, keyVars>>

\* A cycle begins: load_config reads the row without a lock.  For an old document
\* that it cannot use it takes its file's configuration.  It writes back what is
\* not exactly what it would have written.
LoadConfig ==
  /\ stage = "idle"
  /\ stage' = "loaded"
  /\ using' \in {row.doc.cfg} \cup (IF row.doc.old THEN {file} ELSE {})
  /\ LET doc == [cfg |-> using', ver |-> row.ver, old |-> FALSE] IN
       reading' = IF doc = row.doc THEN None ELSE doc
  /\ UNCHANGED <<todo, writing>> /\ BesidesEngine /\ UNCHANGED <<settings, recVars, keyVars>>

\* Its UPDATE waits for the row, but compares and raises no version.
WriteBack ==
  /\ reading # None /\ lock = None
  /\ row' = [row EXCEPT !.doc = reading]
  /\ held' = held \cup {reading.cfg}
  /\ reading' = None
  /\ UNCHANGED <<stage, using, todo, writing>> /\ BesidesEngine
  /\ UNCHANGED <<file, lock, recVars, keyVars>>

\* expire_due ends the windows that are over; then the approvals are listed, but
\* monitor mode stops here.
ListApproved ==
  LET due == {r \in Rec : rec[r].status = "active" /\ rec[r].ends <= now} IN
  /\ stage = "loaded" /\ reading = None
  /\ \A r \in due : recLock[r] = None
  /\ stage' = "listed"
  /\ rec' = [r \in Rec |-> IF r \in due THEN [rec[r] EXCEPT !.status = "expired"] ELSE rec[r]]
  /\ todo' = IF using \in Watching THEN {} ELSE {r \in Rec : rec[r].status = "approved"}
  /\ UNCHANGED <<using, reading, writing>> /\ BesidesEngine
  /\ UNCHANGED <<settings, recLock, keyVars>>

\* What is left of the window of r.
Left(r) == IF rec[r].ends > now THEN rec[r].ends - now ELSE 0

\* A recommendation to monitor has no key, and one whose window is over gets none.
Lapses(r) ==
  /\ r \in todo /\ writing = None /\ recLock[r] = None
  /\ ~rec[r].bites \/ Left(r) = 0
  /\ rec' = [rec EXCEPT ![r].status = "expired"]
  /\ todo' = todo \ {r}
  /\ UNCHANGED <<stage, using, reading, writing>> /\ BesidesEngine
  /\ UNCHANGED <<settings, recLock, keyVars>>

\* Mutant: writing the key starts the window again.
WriteKeyAfresh(r) ==
  /\ r \in todo /\ writing = None
  /\ rec[r].bites /\ Left(r) > 0 /\ rec[r].dur <= using
  /\ key' = [key EXCEPT ![r] = now + rec[r].dur]
  /\ todo' = todo \ {r}
  /\ writing' = r
  /\ UNCHANGED <<stage, using, reading>> /\ BesidesEngine
  /\ UNCHANGED <<settings, recVars, now, revoking>>

\* The key of an approved recommendation is written for what is left ...
WriteKey(r) ==
  /\ r \in todo /\ writing = None
  /\ rec[r].bites /\ Left(r) > 0 /\ Left(r) <= using
  /\ key' = [key EXCEPT ![r] = now + Left(r)]
  /\ todo' = todo \ {r}
  /\ writing' = r
  /\ UNCHANGED <<stage, using, reading>> /\ BesidesEngine
  /\ UNCHANGED <<settings, recVars, now, revoking>>

\* ... unless that exceeds the guardrail of now, or another rail of the writer's
\* (allowlist, private addresses, the cap of a cycle, a dry run) keeps it back.
Skips(r) ==
  /\ r \in todo /\ writing = None
  /\ rec[r].bites /\ Left(r) > 0
  /\ todo' = todo \ {r}
  /\ UNCHANGED <<stage, using, reading, writing>> /\ BesidesEngine
  /\ UNCHANGED <<settings, recVars, keyVars>>

\* Then the recommendation is marked active.
Activated(r) ==
  /\ writing = r
  /\ recLock[r] = None
  /\ rec' = [rec EXCEPT ![r].status = "active"]
  /\ writing' = None
  /\ UNCHANGED <<stage, using, reading, todo>> /\ BesidesEngine
  /\ UNCHANGED <<settings, recLock, keyVars>>

\* The cycle is done, or fails or is killed wherever it is.
CycleEnds ==
  /\ stage # "idle"
  /\ Idle
  /\ BesidesEngine /\ UNCHANGED <<settings, recVars, keyVars>>

-----------------------------------------------------------------------------
(* Keys.                                                                   *)

\* Time passes: Redis drops the keys whose time to live is over.
Tick ==
  /\ now < MaxNow
  /\ now' = now + 1
  /\ key' = [r \in Rec |-> IF key[r] <= now' THEN 0 ELSE key[r]]
  /\ UNCHANGED <<settings, pageVars, call, recVars, audit, engineVars, revoking>>

\* DELETE of a policy takes the key away ...
DeletePolicy(r) ==
  /\ key[r] # 0
  /\ key' = [key EXCEPT ![r] = 0]
  /\ revoking' = revoking \cup {r}
  /\ UNCHANGED <<settings, pageVars, call, recVars, audit, engineVars, now>>

\* ... and then revokes its recommendation, with an audit record of its own that
\* is not counted here; failing to is tolerated.
Revoked(r) ==
  /\ r \in revoking
  /\ revoking' = revoking \ {r}
  /\ \/ UNCHANGED rec
     \/ recLock[r] = None /\ rec' = [rec EXCEPT ![r].status = "revoked"]
  /\ UNCHANGED <<settings, pageVars, call, recLock, audit, engineVars, now, key>>

-----------------------------------------------------------------------------

PageNext(p) ==
  Answered(p) \/ AnswerLost(p) \/ Reload(p) \/ RolledBack(p)

\* The settings are edited and saved, or reverted ...
SaveNext(p) ==
  \/ Load(p) \/ Loaded(p) \/ \E c \in Cfg : Edit(p, c)
  \/ ApplyChanges(p) \/ SettingsLocked(p) \/ Put(p)

SettingsNext(p) == SaveNext(p) \/ RevertChanges(p) \/ Delete(p)

\* ... and recommendations decided.
DecisionNext(p) ==
  \/ \E r \in Rec : Decide(p, r, "reject", 0) \/ \E dur \in Cfg : Decide(p, r, "approve", dur)
  \/ PatchLocked(p) \/ Patch(p)

\* The engine's cycle reads the settings and may write them back ...
CycleNext == LoadConfig \/ WriteBack \/ CycleEnds

FileNext == \E c \in Cfg \ {0}, v \in 1..(row.ver + 1) : EnsureConfig(c, v)

\* ... and enforces what was approved.
KeyNext ==
  \/ ListApproved \/ Tick
  \/ \E r \in Rec : Lapses(r) \/ WriteKey(r) \/ Skips(r) \/ Activated(r)
                     \/ DeletePolicy(r) \/ Revoked(r)

Next ==
  \/ FileNext \/ CycleNext \/ KeyNext
  \/ \E p \in Page : PageNext(p) \/ SettingsNext(p) \/ DecisionNext(p)

Spec == Init /\ [][Next]_vars

-----------------------------------------------------------------------------

\* A save on its way is built on what its page cloned; after that, on the draft.
Basis(p) ==
  IF call[p].kind = "apply" /\ call[p].at \in {"sent", "locked"} THEN call[p].of
  ELSE IF draft[p] = None THEN None ELSE draft[p].of

\* What SavedConfig knows of a document.
Plain(d) == IF d = None THEN None ELSE [cfg |-> d.cfg, ver |-> d.ver]

Saved == INSTANCE SavedConfig WITH
  Client <- Page, Value <- Cfg, Nothing <- None,
  cur <- [cfg |-> row.doc.cfg, ver |-> row.ver, src |-> row.src],
  held <- held, file <- file, engine <- Plain(reading),
  seen <- [p \in Page |-> Plain(Basis(p))]

\* However many pages save, revert and reload, whenever the engine starts with
\* another file and whatever it writes back, no page's save replaces a
\* configuration that was saved, reverted to or taken from the file after the
\* page read; and the engine undoes such a change only where it had read the row
\* before (load_config's UPDATE compares no version).
SavesOnWhatItRead == Saved!Spec

\* An analyst's decision is made once, whoever else clicks at the same time,
\* and the audit has exactly one record of it; no version is saved twice.
DecidedOnce ==
  /\ \A r \in Rec : audit[r] = (IF rec[r].status = "pending_approval" THEN 0 ELSE 1)
  /\ \A v \in 1..MaxVer : audit[v] <= (IF v <= row.ver THEN 1 ELSE 0)

Decided(r) == rec[r].status \notin {"pending_approval", "rejected"}

\* A key the gateway enforces stands for a recommendation that was approved, and
\* ends no later than the window the approval opened, however late the engine
\* writes it, how often it stops between the key and its mark and writes it again,
\* and whatever the guardrail has become.
EnforcedWasApproved ==
  \A r \in Rec : key[r] # 0 => Decided(r) /\ key[r] <= rec[r].ends

InFlight(p) == call[p].at \in {"sent", "locked"}

\* The rows are locked by exactly the transactions that are under way.
LocksHeld ==
  \A p \in Page :
    /\ lock = p <=> call[p].at = "locked" /\ call[p].kind \in {"apply", "revert"}
    /\ \A r \in Rec : recLock[r] = p <=>
         call[p].at = "locked" /\ call[p].kind \in {"approve", "reject"} /\ call[p].rec = r

\* What a page or its write holds names no version to come, and under the version
\* of now a configuration the row has held.
Current(s) == s.ver <= row.ver /\ (s.ver = row.ver => s.cfg \in held)

\* So does the row itself, and what the engine is about to write back changes the
\* configuration only where another was committed since it read it, or for its
\* file's.
RowCurrent ==
  /\ Current(row.doc)
  /\ row.doc.cfg \in held
  /\ reading # None => /\ reading.ver <= row.ver
                       /\ reading.ver = row.ver => reading.cfg \in {row.doc.cfg, file}

PagesCurrent ==
  \A p \in Page :
    /\ draft[p] # None => Current(draft[p].of)
    /\ \A s \in loads[p] : Current(s)
    /\ call[p].of # None => Current(call[p].of)

\* A save on its way, and the answer to one, name a configuration; a decision
\* names a recommendation.
CallsComplete ==
  \A p \in Page :
    /\ call[p].kind = "apply" /\ InFlight(p) => call[p].of # None
    /\ call[p].kind \in {"apply", "revert"} /\ call[p].at = "ok" => call[p].of # None
    /\ call[p].kind \in {"approve", "reject"} => call[p].rec # None

\* What is being listed, written or revoked was decided.
HandsDecided == \A r \in Rec : writing = r \/ r \in todo \/ r \in revoking => Decided(r)

\* What every step preserves, and the other properties follow from: no route
\* ends with a row still locked, and a page never holds a configuration that was
\* not in force.
AdaptiveInv ==
  /\ TypeOK
  /\ LocksHeld
  /\ RowCurrent
  /\ PagesCurrent
  /\ CallsComplete
  /\ HandsDecided
  /\ DecidedOnce
  /\ EnforcedWasApproved
=============================================================================

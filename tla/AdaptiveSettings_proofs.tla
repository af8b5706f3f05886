------------------------ MODULE AdaptiveSettings_proofs ------------------------
(***************************************************************************)
(* The adaptive settings for any number of pages, recommendations and      *)
(* versions: AdaptiveInv is inductive, the properties follow from it, and  *)
(* saving implements SavedConfig, whose engine may write back what it read *)
(* before a save.                                                          *)
(***************************************************************************)
EXTENDS AdaptiveSettings, TLAPS

\* A step writes at most the call of page p.
OneCall(p) == call' \in [Page -> Call] /\ \A q \in Page \ {p} : call'[q] = call[q]

\* The variables that a step of a page, of a route for the settings, of one for
\* a recommendation, of the engine or of a key may each leave alone.
SettingsStand == UNCHANGED <<row, held, file, lock>>
PagesStand    == UNCHANGED <<draft, busy, loads>>
CallsStand    == UNCHANGED <<call, audit>>
DecisionStand == UNCHANGED <<rec, recLock>>
EngineStands  == UNCHANGED <<stage, using, reading, todo, writing>>
KeysStand     == UNCHANGED <<now, key, revoking>>

-----------------------------------------------------------------------------
(* What one write to a record or a function leaves behind.                 *)

\* A page's call has the parts its type says.
LEMMA CallParts ==
  ASSUME TypeOK, NEW p \in Page
  PROVE  /\ call[p] \in Call
         /\ call[p].kind \in {"none", "apply", "revert", "approve", "reject"}
         /\ call[p].at \in {"idle", "sent", "locked", "ok", "refused"}
         /\ call[p].cfg \in Cfg
         /\ call[p].of \in Doc \cup {None}
         /\ call[p].rec \in Rec \cup {None}
<1>1. call[p] \in Call
  BY DEF TypeOK
<1> QED
  BY <1>1 DEF Call

\* So has a document, and the row.
LEMMA DocParts ==
  ASSUME NEW s \in Doc
  PROVE  s.cfg \in Cfg /\ s.ver \in Nat /\ s.old \in BOOLEAN
BY DEF Doc

LEMMA RowParts ==
  ASSUME TypeOK
  PROVE  /\ row.doc \in Doc /\ row.ver \in Nat /\ row.src \in {"file", "console"}
         /\ row.doc.cfg \in Cfg /\ row.doc.ver \in Nat /\ row.doc # None
<1>1. row \in Row
  BY DEF TypeOK
<1>2. row.doc \in Doc /\ row.ver \in Nat /\ row.src \in {"file", "console"}
  BY <1>1 DEF Row
<1>3. row.doc.cfg \in Cfg /\ row.doc.ver \in Nat
  BY <1>2, DocParts
<1> QED
  BY <1>2, <1>3, AdaptiveNames

\* The call of p is replaced.
LEMMA Written ==
  ASSUME TypeOK, NEW p \in Page, NEW k \in Call, call' = [call EXCEPT ![p] = k]
  PROVE  OneCall(p) /\ call'[p] = k
BY DEF TypeOK, OneCall

\* The call of p moves on.
LEMMA AtWritten ==
  ASSUME TypeOK, NEW p \in Page, NEW a \in {"idle", "sent", "locked", "ok", "refused"},
         call' = [call EXCEPT ![p].at = a]
  PROVE  /\ OneCall(p)
         /\ call'[p].at = a /\ call'[p].kind = call[p].kind
         /\ call'[p].of = call[p].of /\ call'[p].rec = call[p].rec
<1> DEFINE k == [call[p] EXCEPT !.at = a]
<1>1. call[p] \in Call
  BY CallParts
<1>2. k \in Call /\ k.at = a /\ k.kind = call[p].kind /\ k.of = call[p].of /\ k.rec = call[p].rec
  BY <1>1 DEF Call
<1>3. call' = [call EXCEPT ![p] = k]
  OBVIOUS
<1> HIDE DEF k
<1> QED
  BY <1>2, <1>3, Written

\* The call of p moves on and learns a document.
LEMMA OfWritten ==
  ASSUME TypeOK, NEW p \in Page, NEW a \in {"locked", "ok"}, NEW s \in Doc,
         call' = [call EXCEPT ![p].at = a, ![p].of = s]
  PROVE  /\ OneCall(p)
         /\ call'[p].at = a /\ call'[p].kind = call[p].kind
         /\ call'[p].of = s /\ call'[p].rec = call[p].rec
<1> DEFINE k == [[call[p] EXCEPT !.at = a] EXCEPT !.of = s]
<1>1. call[p] \in Call
  BY CallParts
<1>2. k \in Call /\ k.at = a /\ k.kind = call[p].kind /\ k.of = s /\ k.rec = call[p].rec
  BY <1>1 DEF Call
<1>3. call' = [call EXCEPT ![p] = k]
  BY <1>1 DEF TypeOK
<1> HIDE DEF k
<1> QED
  BY <1>2, <1>3, Written

\* A recommendation has the parts its type says.
LEMMA RecParts ==
  ASSUME TypeOK, NEW r \in Rec
  PROVE  rec[r] \in Recommendation /\ rec[r].dur \in Cfg /\ rec[r].ends \in Nat
<1>1. rec[r] \in Recommendation
  BY DEF TypeOK
<1> QED
  BY <1>1 DEF Recommendation

\* One whose status is changed is the same in all else.
LEMMA StatusChanged ==
  ASSUME TypeOK, NEW r \in Rec, NEW st \in {"active", "revoked", "expired"}
  PROVE  LET k == [rec[r] EXCEPT !.status = st]
         IN  k \in Recommendation /\ k.status = st /\ k.ends = rec[r].ends
<1>1. rec[r] \in Recommendation
  BY DEF TypeOK
<1> QED
  BY <1>1 DEF Recommendation

\* The status of a recommendation is changed.
LEMMA StatusWritten ==
  ASSUME TypeOK, NEW r \in Rec, NEW st \in {"active", "revoked", "expired"},
         rec' = [rec EXCEPT ![r].status = st]
  PROVE  /\ rec' \in [Rec -> Recommendation]
         /\ rec'[r].status = st /\ rec'[r].ends = rec[r].ends
         /\ \A x \in Rec \ {r} : rec'[x] = rec[x]
<1> DEFINE k == [rec[r] EXCEPT !.status = st]
<1>1. k \in Recommendation /\ k.status = st /\ k.ends = rec[r].ends
  BY StatusChanged
<1>2. rec' = [rec EXCEPT ![r] = k]
  OBVIOUS
<1> HIDE DEF k
<1> QED
  BY <1>1, <1>2 DEF TypeOK

\* A record is added to the audit.
LEMMA Recorded ==
  ASSUME TypeOK, NEW s \in Subject, audit' = [audit EXCEPT ![s] = @ + 1]
  PROVE  /\ audit' \in [Subject -> Nat]
         /\ audit'[s] = audit[s] + 1
         /\ \A x \in Subject \ {s} : audit'[x] = audit[x]
<1>1. audit \in [Subject -> Nat]
  BY DEF TypeOK
<1>2. audit[s] \in Nat
  BY <1>1
<1>3. audit[s] + 1 \in Nat
  BY <1>2
<1> QED
  BY <1>1, <1>3

\* 0 is a configuration, though no valid one; versions are no recommendations.
LEMMA Constants == 0 \in Cfg /\ MaxCfg \in Cfg /\ Cfg \subseteq Nat /\ (1..MaxVer) \cap Rec = {}
<1>1. Cfg \subseteq Nat
  BY AdaptiveConstants DEF Cfg
<1>2. (1..MaxVer) \cap Rec = {}
  BY AdaptiveConstants, AdaptiveNames
<1> QED
  BY <1>1, <1>2, AdaptiveConstants DEF Cfg

\* No call, and no page, is None.
LEMMA NoCallParts ==
  /\ NoCall \in Call
  /\ NoCall.at = "idle" /\ NoCall.kind = "none" /\ NoCall.of = None /\ NoCall.rec = None
BY Constants DEF NoCall, Call

-----------------------------------------------------------------------------
(* What a step keeps because it does not touch it.                         *)

\* The groups that the actions name.
LEMMA Groups ==
  /\ BesidesPages <=> /\ SettingsStand
                      /\ DecisionStand
                      /\ UNCHANGED audit
                      /\ EngineStands
                      /\ KeysStand
  /\ BesidesSettings <=> /\ UNCHANGED file
                         /\ PagesStand
                         /\ DecisionStand
                         /\ EngineStands
                         /\ KeysStand
  /\ BesidesDecisions <=> /\ SettingsStand
                          /\ PagesStand
                          /\ EngineStands
                          /\ KeysStand
  /\ BesidesEngine <=> PagesStand /\ CallsStand
  /\ UNCHANGED settings <=> SettingsStand
  /\ UNCHANGED pageVars <=> PagesStand
  /\ UNCHANGED recVars <=> DecisionStand
  /\ UNCHANGED engineVars <=> EngineStands
  /\ UNCHANGED keyVars <=> KeysStand
BY DEF BesidesPages, BesidesSettings, BesidesDecisions, BesidesEngine, SettingsStand,
       PagesStand, CallsStand, DecisionStand, EngineStands, KeysStand, settings, pageVars,
       recVars, engineVars, keyVars

\* The version of the row goes up by one, or stays with all it has held.
Advances ==
  /\ row' \in Row
  /\ \/ row'.ver = row.ver /\ held \subseteq held'
     \/ row'.ver = row.ver + 1

\* Nothing a page holds becomes wrong by that.
LEMMA CurrentStays ==
  ASSUME TypeOK, NEW s \in Doc, Current(s), Advances
  PROVE  s.ver <= row'.ver /\ (s.ver = row'.ver => s.cfg \in held')
<1>1. row.ver \in Nat /\ s.ver \in Nat
  BY RowParts, DocParts
<1>2. CASE row'.ver = row.ver /\ held \subseteq held'
  BY <1>2 DEF Current
<1>3. CASE row'.ver = row.ver + 1
  BY <1>1, <1>3 DEF Current
<1> QED
  BY <1>2, <1>3 DEF Advances

\* The locks stay right when p neither held one nor takes one.
LEMMA LocksUntouched ==
  ASSUME LocksHeld, NEW p \in Page, \A q \in Page \ {p} : call'[q] = call[q],
         call[p].at # "locked", call'[p].at # "locked", UNCHANGED <<lock, recLock>>
  PROVE  LocksHeld'
BY DEF LocksHeld

\* They stay right when the transaction of p ends and gives its lock back.
LEMMA LocksReleased ==
  ASSUME TypeOK, LocksHeld, NEW p \in Page, \A q \in Page \ {p} : call'[q] = call[q],
         call'[p].at # "locked",
         lock' = IF lock = p THEN None ELSE lock,
         \A r \in Rec : recLock'[r] = IF recLock[r] = p THEN None ELSE recLock[r]
  PROVE  LocksHeld'
<1> USE AdaptiveConstants
<1>1. ASSUME NEW q \in Page
      PROVE  lock' = q <=> call'[q].at = "locked" /\ call'[q].kind \in {"apply", "revert"}
  <2>1. CASE q = p
    BY <2>1
  <2>2. CASE q # p
    BY <2>2 DEF LocksHeld
  <2> QED
    BY <2>1, <2>2
<1>2. ASSUME NEW q \in Page, NEW r \in Rec
      PROVE  recLock'[r] = q <=> /\ call'[q].at = "locked"
                                 /\ call'[q].kind \in {"approve", "reject"}
                                 /\ call'[q].rec = r
  <2>1. CASE q = p
    BY <2>1
  <2>2. CASE q # p
    BY <2>2 DEF LocksHeld
  <2> QED
    BY <2>1, <2>2
<1> QED
  BY <1>1, <1>2 DEF LocksHeld

\* Whatever a page holds after a step it held before, elsewhere perhaps, or is
\* the document of the row after the step.
PagesLearn ==
  \A q \in Page :
    /\ draft'[q] # None =>
         \/ draft[q] # None /\ draft'[q].of = draft[q].of
         \/ draft'[q].of \in loads[q]
         \/ call[q].of # None /\ draft'[q].of = call[q].of
    /\ \A s \in loads'[q] : s \in loads[q] \/ s = row'.doc
    /\ call'[q].of # None =>
         \/ call'[q].of = call[q].of
         \/ draft[q] # None /\ call'[q].of = draft[q].of
         \/ call'[q].of = row'.doc

\* The pages hold what was in force when no page learns anything else.
LEMMA PagesStayCurrent ==
  ASSUME TypeOK, PagesCurrent, Advances, RowCurrent', PagesLearn
  PROVE  PagesCurrent'
<1> DEFINE Was(s) == s.ver <= row'.ver /\ (s.ver = row'.ver => s.cfg \in held')
<1>2. Was(row'.doc)
  BY DEF RowCurrent, Current
<1>3. ASSUME NEW s \in Doc, Current(s) PROVE Was(s)
  BY <1>3, CurrentStays
<1>4. ASSUME NEW q \in Page, draft[q] # None PROVE Was(draft[q].of)
  <2>1. draft[q].of \in Doc
    BY <1>4 DEF TypeOK, Draft
  <2> QED
    BY <1>4, <2>1, <1>3 DEF PagesCurrent
<1>5. ASSUME NEW q \in Page, NEW s \in loads[q] PROVE Was(s)
  <2>1. s \in Doc
    BY DEF TypeOK
  <2> QED
    BY <2>1, <1>3 DEF PagesCurrent
<1>6. ASSUME NEW q \in Page, call[q].of # None PROVE Was(call[q].of)
  <2>1. call[q].of \in Doc
    BY <1>6, CallParts
  <2> QED
    BY <1>6, <2>1, <1>3 DEF PagesCurrent
<1> HIDE DEF Was
<1>7. ASSUME NEW q \in Page
      PROVE  /\ draft'[q] # None => Was(draft'[q].of)
             /\ \A s \in loads'[q] : Was(s)
             /\ call'[q].of # None => Was(call'[q].of)
  BY <1>2, <1>4, <1>5, <1>6 DEF PagesLearn
<1> QED
  BY <1>7 DEF PagesCurrent, Current, Was

\* What reads the row and writes nothing leaves it as current as it was.
LEMMA RowApart ==
  ASSUME AdaptiveInv, UNCHANGED <<row, held, file>>, reading' \in {reading, None}
  PROVE  RowCurrent' /\ Advances
<1>1. RowCurrent'
  BY DEF AdaptiveInv, RowCurrent, Current
<1>2. Advances
  BY DEF AdaptiveInv, TypeOK, Advances
<1> QED
  BY <1>1, <1>2

\* A step of the engine that leaves the settings alone concerns no page.
LEMMA PagesApart ==
  ASSUME AdaptiveInv, SettingsStand, PagesStand, UNCHANGED <<call, recLock>>
  PROVE  LocksHeld' /\ PagesCurrent' /\ CallsComplete'
BY DEF AdaptiveInv, LocksHeld, PagesCurrent, Current, CallsComplete, InFlight, SettingsStand,
       PagesStand

\* A step of a page that decides nothing concerns neither keys nor decisions ...
LEMMA DecisionsApart ==
  ASSUME AdaptiveInv, UNCHANGED <<rec, key, revoking>>, writing' \in {writing, None},
         todo' \subseteq todo
  PROVE  HandsDecided' /\ EnforcedWasApproved'
<1>1. HandsDecided'
  BY AdaptiveConstants DEF AdaptiveInv, HandsDecided, Decided
<1>2. EnforcedWasApproved'
  BY DEF AdaptiveInv, EnforcedWasApproved, Decided
<1> QED
  BY <1>1, <1>2

\* ... and one that saves nothing either, not the audit.
LEMMA AuditApart ==
  ASSUME AdaptiveInv, UNCHANGED <<row, rec, audit>>
  PROVE  DecidedOnce'
BY DEF AdaptiveInv, DecidedOnce

\* What a step of a page leaves alone stays right.
LEMMA RestApart ==
  ASSUME AdaptiveInv, BesidesPages
  PROVE  /\ RowCurrent' /\ Advances
         /\ HandsDecided' /\ DecidedOnce' /\ EnforcedWasApproved'
         /\ UNCHANGED <<row, lock, recLock>>
<1>1. SettingsStand /\ DecisionStand /\ UNCHANGED audit /\ EngineStands /\ KeysStand
  BY Groups
<1>2. UNCHANGED <<row, held, file, lock, rec, recLock, audit, reading, todo, writing, key, revoking>>
  BY <1>1 DEF SettingsStand, DecisionStand, EngineStands, KeysStand
<1>3. RowCurrent' /\ Advances
  BY <1>2, RowApart
<1>4. HandsDecided' /\ EnforcedWasApproved'
  BY <1>2, DecisionsApart
<1>5. DecidedOnce'
  BY <1>2, AuditApart
<1> QED
  BY <1>2, <1>3, <1>4, <1>5

LEMMA TypesApart ==
  ASSUME AdaptiveInv, BesidesPages,
         draft' \in [Page -> Draft \cup {None}],
         busy' \in [Page -> {"", "apply", "revert", "decide"}],
         loads' \in [Page -> SUBSET Doc],
         call' \in [Page -> Call]
  PROVE  TypeOK'
<1>1. SettingsStand /\ DecisionStand /\ UNCHANGED audit /\ EngineStands /\ KeysStand
  BY Groups
<1> QED
  BY <1>1 DEF AdaptiveInv, TypeOK, SettingsStand, DecisionStand, EngineStands, KeysStand

-----------------------------------------------------------------------------
(* The initial states.                                                     *)

LEMMA Initially == Init => AdaptiveInv
<1> SUFFICES ASSUME Init PROVE AdaptiveInv
  OBVIOUS
<1> USE AdaptiveConstants, AdaptiveNames
<1>0. PICK c \in Cfg \ {0}, src \in {"file", "console"}, old \in BOOLEAN :
        /\ row = [doc |-> [cfg |-> c, ver |-> 1, old |-> old], ver |-> 1, src |-> src]
        /\ held = {c}
  BY DEF Init
<1>1. TypeOK
  <2>1. row \in Row
    BY <1>0 DEF Row, Doc
  <2>2. row.ver = 1 /\ file \in Cfg /\ held \in SUBSET Cfg
    BY <1>0 DEF Init
  <2>3. row.ver <= MaxVer
    BY <2>2
  <2>4. /\ draft \in [Page -> Draft \cup {None}]
        /\ busy \in [Page -> {"", "apply", "revert", "decide"}]
        /\ loads \in [Page -> SUBSET Doc]
        /\ call \in [Page -> Call]
    BY NoCallParts DEF Init
  <2>5. rec \in [Rec -> Recommendation]
    BY Constants DEF Init, Recommendation
  <2>6. /\ lock \in Page \cup {None}
        /\ recLock \in [Rec -> Page \cup {None}]
        /\ audit \in [Subject -> Nat]
        /\ stage \in {"idle", "loaded", "listed"}
        /\ using \in Cfg
        /\ reading \in Doc \cup {None}
        /\ todo \in SUBSET Rec
        /\ writing \in Rec \cup {None}
        /\ now \in Nat
        /\ key \in [Rec -> Nat]
        /\ revoking \in SUBSET Rec
    BY Constants DEF Init
  <2> QED
    BY <2>1, <2>2, <2>3, <2>4, <2>5, <2>6 DEF TypeOK
<1>2. LocksHeld
  BY DEF Init, LocksHeld, NoCall
<1>3. PagesCurrent
  BY DEF Init, PagesCurrent, NoCall
<1>4. CallsComplete
  BY DEF Init, CallsComplete, NoCall, InFlight
<1>5. HandsDecided
  BY DEF Init, HandsDecided
<1>6. DecidedOnce
  <2>1. \A x \in Subject : audit[x] = 0
    BY DEF Init
  <2>2. Rec \subseteq Subject /\ 1..MaxVer \subseteq Subject
    BY DEF Subject
  <2>3. \A r \in Rec : rec[r].status = "pending_approval"
    BY DEF Init
  <2> QED
    BY <2>1, <2>2, <2>3 DEF DecidedOnce
<1>7. EnforcedWasApproved
  BY DEF Init, EnforcedWasApproved
<1>8. RowCurrent
  <2>1. row.doc.cfg = c /\ row.doc.ver = 1 /\ row.ver = 1 /\ held = {c}
    BY <1>0
  <2>2. reading = None
    BY DEF Init
  <2> QED
    BY <2>1, <2>2 DEF RowCurrent, Current
<1> QED
  BY <1>1, <1>2, <1>3, <1>4, <1>5, <1>6, <1>7, <1>8 DEF AdaptiveInv

-----------------------------------------------------------------------------
(* The page.                                                               *)

LEMMA LoadKeeps == ASSUME NEW p \in Page, AdaptiveInv, Load(p) PROVE AdaptiveInv'
<1>1. /\ loads' = [loads EXCEPT ![p] = @ \cup {row.doc}]
      /\ UNCHANGED <<draft, busy, call>> /\ BesidesPages
  BY DEF Load
<1>2. row.doc \in Doc
  BY RowParts DEF AdaptiveInv
<1>3. TypeOK'
  <2>1. loads' \in [Page -> SUBSET Doc]
    BY <1>1, <1>2 DEF AdaptiveInv, TypeOK
  <2>2. /\ draft' \in [Page -> Draft \cup {None}]
        /\ busy' \in [Page -> {"", "apply", "revert", "decide"}]
        /\ call' \in [Page -> Call]
    BY <1>1 DEF AdaptiveInv, TypeOK
  <2> QED
    BY <2>1, <2>2, <1>1, TypesApart
<1>4. /\ RowCurrent' /\ Advances /\ HandsDecided' /\ DecidedOnce' /\ EnforcedWasApproved'
      /\ UNCHANGED <<row, lock, recLock>>
  BY <1>1, RestApart
<1>5. LocksHeld' /\ CallsComplete'
  BY <1>1, <1>4 DEF AdaptiveInv, LocksHeld, CallsComplete, InFlight
<1>6. PagesCurrent'
  <2>1. \A q \in Page : \A s \in loads'[q] : s \in loads[q] \/ s = row'.doc
    BY <1>1, <1>4 DEF AdaptiveInv, TypeOK
  <2>2. PagesLearn
    BY <2>1, <1>1 DEF PagesLearn
  <2> QED
    BY <2>2, <1>4, PagesStayCurrent DEF AdaptiveInv
<1> QED
  BY <1>3, <1>4, <1>5, <1>6 DEF AdaptiveInv

LEMMA LoadedKeeps == ASSUME NEW p \in Page, AdaptiveInv, Loaded(p) PROVE AdaptiveInv'
<1>1. PICK s \in loads[p] :
        /\ draft' = IF draft[p] = None THEN [draft EXCEPT ![p] = [cfg |-> s.cfg, of |-> s]] ELSE draft
        /\ loads' = [loads EXCEPT ![p] = @ \ {s}]
  BY DEF Loaded
<1>2. s \in Doc /\ [cfg |-> s.cfg, of |-> s] \in Draft
  <2>1. s \in Doc
    BY DEF AdaptiveInv, TypeOK
  <2>2. s.cfg \in Cfg
    BY <2>1, DocParts
  <2> QED
    BY <2>1, <2>2 DEF Draft
<1>3. UNCHANGED <<busy, call>> /\ BesidesPages
  BY DEF Loaded
<1>4. TypeOK'
  <2>1. draft' \in [Page -> Draft \cup {None}] /\ loads' \in [Page -> SUBSET Doc]
    BY <1>1, <1>2 DEF AdaptiveInv, TypeOK
  <2>2. busy' \in [Page -> {"", "apply", "revert", "decide"}] /\ call' \in [Page -> Call]
    BY <1>3 DEF AdaptiveInv, TypeOK
  <2> QED
    BY <2>1, <2>2, <1>3, TypesApart
<1>5. /\ RowCurrent' /\ Advances /\ HandsDecided' /\ DecidedOnce' /\ EnforcedWasApproved'
      /\ UNCHANGED <<row, lock, recLock>>
  BY <1>3, RestApart
<1>6. LocksHeld' /\ CallsComplete'
  BY <1>3, <1>5 DEF AdaptiveInv, LocksHeld, CallsComplete, InFlight
<1>7. PagesCurrent'
  <2>1. \A q \in Page : \A x \in loads'[q] : x \in loads[q]
    BY <1>1 DEF AdaptiveInv, TypeOK
  <2>2. \A q \in Page : draft'[q] = draft[q] \/ draft'[q].of \in loads[q]
    BY <1>1 DEF AdaptiveInv, TypeOK
  <2>3. PagesLearn
    BY <2>1, <2>2, <1>3 DEF PagesLearn
  <2> QED
    BY <2>3, <1>5, PagesStayCurrent DEF AdaptiveInv
<1> QED
  BY <1>4, <1>5, <1>6, <1>7 DEF AdaptiveInv

LEMMA EditKeeps ==
  ASSUME NEW p \in Page, NEW c \in Cfg, AdaptiveInv, Edit(p, c) PROVE AdaptiveInv'
<1> DEFINE d == [draft[p] EXCEPT !.cfg = c]
<1>1. draft[p] \in Draft
  BY DEF AdaptiveInv, TypeOK, Edit
<1>2. d \in Draft /\ d.of = draft[p].of
  BY <1>1 DEF Draft
<1>3. draft' = [draft EXCEPT ![p] = d]
  BY DEF Edit
<1> HIDE DEF d
<1>4. UNCHANGED <<busy, loads, call>> /\ BesidesPages /\ draft[p] # None
  BY DEF Edit
<1>5. TypeOK'
  <2>1. draft' \in [Page -> Draft \cup {None}]
    BY <1>2, <1>3 DEF AdaptiveInv, TypeOK
  <2>2. /\ busy' \in [Page -> {"", "apply", "revert", "decide"}]
        /\ loads' \in [Page -> SUBSET Doc]
        /\ call' \in [Page -> Call]
    BY <1>4 DEF AdaptiveInv, TypeOK
  <2> QED
    BY <2>1, <2>2, <1>4, TypesApart
<1>6. /\ RowCurrent' /\ Advances /\ HandsDecided' /\ DecidedOnce' /\ EnforcedWasApproved'
      /\ UNCHANGED <<row, lock, recLock>>
  BY <1>4, RestApart
<1>7. LocksHeld' /\ CallsComplete'
  BY <1>4, <1>6 DEF AdaptiveInv, LocksHeld, CallsComplete, InFlight
<1>8. PagesCurrent'
  <2>1. \A q \in Page : draft'[q] = draft[q] \/ (draft[q] # None /\ draft'[q].of = draft[q].of)
    BY <1>2, <1>3, <1>4 DEF AdaptiveInv, TypeOK
  <2>2. PagesLearn
    BY <2>1, <1>4 DEF PagesLearn
  <2> QED
    BY <2>2, <1>6, PagesStayCurrent DEF AdaptiveInv
<1> QED
  BY <1>5, <1>6, <1>7, <1>8 DEF AdaptiveInv

\* Sending keeps the invariant when what is sent is complete.
LEMMA SendKeeps ==
  ASSUME NEW p \in Page, NEW b \in {"apply", "revert", "decide"}, NEW c \in Call,
         AdaptiveInv, Send(p, b, c), c.at = "sent",
         c.of = None \/ (draft[p] # None /\ c.of = draft[p].of),
         c.kind = "apply" => c.of # None,
         c.kind \in {"approve", "reject"} => c.rec # None
  PROVE  AdaptiveInv'
<1>1. OneCall(p) /\ call'[p] = c
  BY Written DEF AdaptiveInv, Send
<1>2. call[p].at # "locked"
  BY NoCallParts DEF Send
<1>3. UNCHANGED <<draft, loads>> /\ BesidesPages
  BY DEF Send
<1>4. TypeOK'
  <2>1. busy' \in [Page -> {"", "apply", "revert", "decide"}]
    BY DEF AdaptiveInv, TypeOK, Send
  <2>2. draft' \in [Page -> Draft \cup {None}] /\ loads' \in [Page -> SUBSET Doc]
    BY <1>3 DEF AdaptiveInv, TypeOK
  <2> QED
    BY <2>1, <2>2, <1>1, <1>3, TypesApart DEF OneCall
<1>5. /\ RowCurrent' /\ Advances /\ HandsDecided' /\ DecidedOnce' /\ EnforcedWasApproved'
      /\ UNCHANGED <<row, lock, recLock>>
  BY <1>3, RestApart
<1>6. LocksHeld'
  BY <1>1, <1>2, <1>5, LocksUntouched DEF AdaptiveInv, OneCall
<1>7. PagesCurrent'
  <2>1. PagesLearn
    BY <1>1, <1>3 DEF PagesLearn, OneCall
  <2> QED
    BY <2>1, <1>5, PagesStayCurrent DEF AdaptiveInv
<1>8. CallsComplete'
  BY <1>1 DEF AdaptiveInv, CallsComplete, InFlight, OneCall
<1> QED
  BY <1>4, <1>5, <1>6, <1>7, <1>8 DEF AdaptiveInv

LEMMA ApplyChangesKeeps ==
  ASSUME NEW p \in Page, AdaptiveInv, ApplyChanges(p) PROVE AdaptiveInv'
<1> DEFINE c == [NoCall EXCEPT !.kind = "apply", !.at = "sent", !.cfg = draft[p].cfg, !.of = draft[p].of]
<1>1. draft[p] # None /\ draft[p].cfg \in Cfg /\ draft[p].of \in Doc
  <2>1. draft[p] # None
    BY DEF ApplyChanges
  <2>2. draft[p] \in Draft
    BY <2>1 DEF AdaptiveInv, TypeOK
  <2> QED
    BY <2>1, <2>2 DEF Draft
<1>2. c \in Call /\ c.at = "sent" /\ c.of = draft[p].of /\ c.kind = "apply"
  BY <1>1, Constants DEF NoCall, Call
<1>3. Send(p, "apply", c)
  BY DEF ApplyChanges
<1>4. c.of # None
  BY <1>1, <1>2, AdaptiveNames
<1> HIDE DEF c
<1> QED
  BY <1>1, <1>2, <1>3, <1>4, SendKeeps

LEMMA RevertChangesKeeps ==
  ASSUME NEW p \in Page, AdaptiveInv, RevertChanges(p) PROVE AdaptiveInv'
<1> DEFINE c == [NoCall EXCEPT !.kind = "revert", !.at = "sent"]
<1>1. c \in Call /\ c.at = "sent" /\ c.of = None /\ c.kind = "revert"
  BY Constants DEF NoCall, Call
<1>2. Send(p, "revert", c)
  BY DEF RevertChanges
<1> HIDE DEF c
<1> QED
  BY <1>1, <1>2, SendKeeps

LEMMA DecideKeeps ==
  ASSUME NEW p \in Page, NEW r \in Rec, NEW d \in {"approve", "reject"}, NEW dur \in Cfg,
         AdaptiveInv, Decide(p, r, d, dur)
  PROVE  AdaptiveInv'
<1> DEFINE c == [NoCall EXCEPT !.kind = d, !.at = "sent", !.cfg = dur, !.rec = r]
<1>1. c \in Call /\ c.at = "sent" /\ c.of = None /\ c.kind = d /\ c.rec = r
  BY Constants DEF NoCall, Call
<1>2. Send(p, "decide", c)
  BY DEF Decide
<1>3. c.rec # None /\ c.kind # "apply"
  BY <1>1, AdaptiveConstants
<1> HIDE DEF c
<1> QED
  BY <1>1, <1>2, <1>3, SendKeeps

LEMMA AnsweredKeeps == ASSUME NEW p \in Page, AdaptiveInv, Answered(p) PROVE AdaptiveInv'
<1> DEFINE ok == call[p].at = "ok" /\ call[p].kind \in {"apply", "revert"}
           d  == [cfg |-> call[p].of.cfg, of |-> call[p].of]
<1>1. OneCall(p) /\ call'[p] = NoCall
  BY NoCallParts, Written DEF AdaptiveInv, Answered
<1>2. ok => d \in Draft /\ d.of = call[p].of /\ call[p].of # None
  <2> HAVE ok
  <2>1. call[p].of # None
    BY DEF AdaptiveInv, CallsComplete
  <2>2. call[p].of \in Doc
    BY <2>1, CallParts DEF AdaptiveInv
  <2>3. call[p].of.cfg \in Cfg
    BY <2>2, DocParts
  <2> QED
    BY <2>1, <2>2, <2>3 DEF Draft
<1>3. draft' = IF ok THEN [draft EXCEPT ![p] = d] ELSE draft
  BY DEF Answered
<1> HIDE DEF ok, d
<1>4. UNCHANGED loads /\ BesidesPages
  BY DEF Answered
<1>5. TypeOK'
  <2>1. busy' \in [Page -> {"", "apply", "revert", "decide"}]
    BY DEF AdaptiveInv, TypeOK, Answered
  <2>2. draft' \in [Page -> Draft \cup {None}]
    BY <1>2, <1>3 DEF AdaptiveInv, TypeOK
  <2>3. loads' \in [Page -> SUBSET Doc]
    BY <1>4 DEF AdaptiveInv, TypeOK
  <2> QED
    BY <2>1, <2>2, <2>3, <1>1, <1>4, TypesApart DEF OneCall
<1>6. /\ RowCurrent' /\ Advances /\ HandsDecided' /\ DecidedOnce' /\ EnforcedWasApproved'
      /\ UNCHANGED <<row, lock, recLock>>
  BY <1>4, RestApart
<1>7. LocksHeld'
  <2>1. call[p].at # "locked" /\ call'[p].at # "locked"
    BY <1>1, NoCallParts DEF Answered
  <2> QED
    BY <2>1, <1>1, <1>6, LocksUntouched DEF AdaptiveInv, OneCall
<1>8. PagesCurrent'
  <2>1. \A q \in Page : \/ draft'[q] = draft[q]
                        \/ call[q].of # None /\ draft'[q].of = call[q].of
    BY <1>2, <1>3 DEF AdaptiveInv, TypeOK
  <2>2. \A q \in Page : call'[q].of = None \/ call'[q].of = call[q].of
    BY <1>1, NoCallParts DEF OneCall
  <2>3. PagesLearn
    BY <2>1, <2>2, <1>4 DEF PagesLearn
  <2> QED
    BY <2>3, <1>6, PagesStayCurrent DEF AdaptiveInv
<1>9. CallsComplete'
  BY <1>1, NoCallParts DEF AdaptiveInv, CallsComplete, InFlight, OneCall
<1> QED
  BY <1>5, <1>6, <1>7, <1>8, <1>9 DEF AdaptiveInv

\* Forgetting a call that was answered.
LEMMA ForgetKeeps ==
  ASSUME NEW p \in Page, AdaptiveInv, call[p].at \in {"ok", "refused"},
         call' = [call EXCEPT ![p] = NoCall],
         UNCHANGED <<lock, recLock>>
  PROVE  /\ OneCall(p) /\ LocksHeld' /\ CallsComplete'
         /\ \A q \in Page : call'[q].of = None \/ call'[q].of = call[q].of
<1>1. OneCall(p) /\ call'[p] = NoCall
  BY NoCallParts, Written DEF AdaptiveInv
<1>2. LocksHeld'
  BY <1>1, NoCallParts, LocksUntouched DEF AdaptiveInv, OneCall
<1>3. CallsComplete'
  BY <1>1, NoCallParts DEF AdaptiveInv, CallsComplete, InFlight, OneCall
<1> QED
  BY <1>1, <1>2, <1>3, NoCallParts DEF OneCall

LEMMA AnswerLostKeeps == ASSUME NEW p \in Page, AdaptiveInv, AnswerLost(p) PROVE AdaptiveInv'
<1>1. UNCHANGED <<draft, busy, loads>> /\ BesidesPages
  BY DEF AnswerLost, pageVars
<1>2. /\ RowCurrent' /\ Advances /\ HandsDecided' /\ DecidedOnce' /\ EnforcedWasApproved'
      /\ UNCHANGED <<row, lock, recLock>>
  BY <1>1, RestApart
<1>3. /\ OneCall(p) /\ LocksHeld' /\ CallsComplete'
      /\ \A q \in Page : call'[q].of = None \/ call'[q].of = call[q].of
  BY <1>2, ForgetKeeps DEF AnswerLost
<1>4. TypeOK'
  <2>1. /\ draft' \in [Page -> Draft \cup {None}]
        /\ busy' \in [Page -> {"", "apply", "revert", "decide"}]
        /\ loads' \in [Page -> SUBSET Doc]
    BY <1>1 DEF AdaptiveInv, TypeOK
  <2> QED
    BY <2>1, <1>1, <1>3, TypesApart DEF OneCall
<1>5. PagesCurrent'
  <2>1. PagesLearn
    BY <1>1, <1>3 DEF PagesLearn
  <2> QED
    BY <2>1, <1>2, PagesStayCurrent DEF AdaptiveInv
<1> QED
  BY <1>2, <1>3, <1>4, <1>5 DEF AdaptiveInv

LEMMA ReloadKeeps == ASSUME NEW p \in Page, AdaptiveInv, Reload(p) PROVE AdaptiveInv'
<1>1. BesidesPages
  BY DEF Reload
<1>2. /\ RowCurrent' /\ Advances /\ HandsDecided' /\ DecidedOnce' /\ EnforcedWasApproved'
      /\ UNCHANGED <<row, lock, recLock>>
  BY <1>1, RestApart
<1>3. /\ call' \in [Page -> Call] /\ LocksHeld' /\ CallsComplete'
      /\ \A q \in Page : call'[q].of = None \/ call'[q].of = call[q].of
  <2>1. CASE call[p].at \in {"ok", "refused"}
    BY <2>1, <1>2, ForgetKeeps DEF Reload, OneCall
  <2>2. CASE call[p].at \notin {"ok", "refused"}
    <3>1. call' = call
      BY <2>2 DEF Reload
    <3>2. call' \in [Page -> Call]
      BY <3>1 DEF AdaptiveInv, TypeOK
    <3>3. LocksHeld'
      BY <3>1, <1>2 DEF AdaptiveInv, LocksHeld, InFlight
    <3>4. CallsComplete'
      BY <3>1, <1>2 DEF AdaptiveInv, CallsComplete, InFlight
    <3> QED
      BY <3>1, <3>2, <3>3, <3>4
  <2> QED
    BY <2>1, <2>2
<1>4. TypeOK'
  <2>1. /\ busy' \in [Page -> {"", "apply", "revert", "decide"}]
        /\ draft' \in [Page -> Draft \cup {None}]
        /\ loads' \in [Page -> SUBSET Doc]
    BY DEF AdaptiveInv, TypeOK, Reload
  <2> QED
    BY <2>1, <1>1, <1>3, TypesApart
<1>5. PagesCurrent'
  <2>1. \A q \in Page : /\ draft'[q] = None \/ draft'[q] = draft[q]
                        /\ \A s \in loads'[q] : s \in loads[q]
    BY DEF AdaptiveInv, TypeOK, Reload
  <2>2. PagesLearn
    BY <2>1, <1>3 DEF PagesLearn
  <2> QED
    BY <2>2, <1>2, PagesStayCurrent DEF AdaptiveInv
<1> QED
  BY <1>2, <1>3, <1>4, <1>5 DEF AdaptiveInv

-----------------------------------------------------------------------------
(* The routes.                                                             *)

\* Whose call p's is when it holds the row of the settings, or that of a
\* recommendation.
LEMMA WhoHolds ==
  ASSUME AdaptiveInv, NEW p \in Page, call[p].at = "locked"
  PROVE  /\ call[p].kind \in {"apply", "revert"} => lock = p /\ \A r \in Rec : recLock[r] # p
         /\ call[p].kind \in {"approve", "reject"} =>
              /\ lock # p /\ call[p].rec \in Rec
              /\ \A r \in Rec : recLock[r] = p <=> r = call[p].rec
<1>1. call[p].rec \in Rec \cup {None}
  BY CallParts DEF AdaptiveInv
<1>2. call[p].kind \in {"approve", "reject"} => call[p].rec # None
  BY DEF AdaptiveInv, CallsComplete
<1> QED
  BY <1>1, <1>2 DEF AdaptiveInv, LocksHeld

LEMMA SettingsLockedKeeps ==
  ASSUME NEW p \in Page, AdaptiveInv, SettingsLocked(p) PROVE AdaptiveInv'
<1>1. UNCHANGED <<row, held, audit>> /\ BesidesSettings
  BY DEF SettingsLocked
<1>2. UNCHANGED file /\ PagesStand /\ DecisionStand /\ EngineStands /\ KeysStand
  BY <1>1, Groups
<1>3. UNCHANGED <<file, draft, busy, loads, rec, recLock, reading, todo, writing, key, revoking>>
  BY <1>2 DEF PagesStand, DecisionStand, EngineStands, KeysStand
<1>4. call[p].at = "sent" /\ call[p].kind \in {"apply", "revert"}
  BY DEF SettingsLocked
<1>5. \/ call' = [call EXCEPT ![p].at = "refused"] /\ lock' = lock
      \/ lock = None /\ lock' = p /\ call' = [call EXCEPT ![p].at = "locked"]
  BY DEF SettingsLocked, Refused
<1>6. /\ OneCall(p)
      /\ call'[p].kind = call[p].kind /\ call'[p].of = call[p].of /\ call'[p].rec = call[p].rec
      /\ \/ call'[p].at = "refused" /\ lock' = lock
         \/ lock = None /\ lock' = p /\ call'[p].at = "locked"
  BY <1>5, AtWritten DEF AdaptiveInv
<1>7. TypeOK'
  <2>1. lock' \in Page \cup {None}
    BY <1>6 DEF AdaptiveInv, TypeOK
  <2> QED
    BY <2>1, <1>1, <1>2, <1>6
    DEF AdaptiveInv, TypeOK, OneCall, PagesStand, DecisionStand, EngineStands, KeysStand
<1>8. LocksHeld'
  <2>1. CASE call'[p].at = "refused" /\ lock' = lock
    BY <2>1, <1>3, <1>4, <1>6, LocksUntouched DEF AdaptiveInv, OneCall
  <2>2. CASE lock = None /\ lock' = p /\ call'[p].at = "locked"
    <3>1. ASSUME NEW q \in Page
          PROVE  lock' = q <=> call'[q].at = "locked" /\ call'[q].kind \in {"apply", "revert"}
      BY <2>2, <1>4, <1>6, AdaptiveConstants DEF AdaptiveInv, LocksHeld, OneCall
    <3>2. ASSUME NEW q \in Page, NEW r \in Rec
          PROVE  recLock'[r] = q <=>
                   call'[q].at = "locked" /\ call'[q].kind \in {"approve", "reject"} /\ call'[q].rec = r
      BY <1>3, <1>4, <1>6 DEF AdaptiveInv, LocksHeld, OneCall
    <3> QED
      BY <3>1, <3>2 DEF LocksHeld
  <2> QED
    BY <2>1, <2>2, <1>6
<1>9. RowCurrent' /\ Advances
  BY <1>1, <1>3, RowApart
<1>10. PagesCurrent'
  <2>1. PagesLearn
    BY <1>3, <1>6 DEF PagesLearn, OneCall
  <2> QED
    BY <2>1, <1>9, PagesStayCurrent DEF AdaptiveInv
<1>11. CallsComplete'
  BY <1>4, <1>6 DEF AdaptiveInv, CallsComplete, InFlight, OneCall
<1>12. HandsDecided' /\ DecidedOnce' /\ EnforcedWasApproved'
  BY <1>1, <1>3, DecisionsApart, AuditApart
<1> QED
  BY <1>7, <1>8, <1>9, <1>10, <1>11, <1>12 DEF AdaptiveInv

\* The version that follows is a document, and nobody has recorded it.
LEMMA NextVersion ==
  ASSUME AdaptiveInv, row.ver < MaxVer
  PROVE  /\ row.ver + 1 \in Nat /\ row.ver + 1 <= MaxVer
         /\ row.ver + 1 \in 1..MaxVer /\ row.ver + 1 \in Subject
         /\ audit[row.ver + 1] = 0
<1> DEFINE v == row.ver + 1
<1>1. row.ver \in Nat /\ MaxVer \in Nat
  BY AdaptiveConstants, RowParts DEF AdaptiveInv
<1>2. v \in Nat /\ v \in 1..MaxVer /\ ~(v <= row.ver) /\ v <= MaxVer
  BY <1>1
<1> HIDE DEF v
<1>3. v \in Subject
  BY <1>2 DEF Subject
<1>4. audit[v] <= 0
  BY <1>2 DEF AdaptiveInv, DecidedOnce
<1>5. audit[v] \in Nat
  BY <1>3 DEF AdaptiveInv, TypeOK
<1>6. audit[v] = 0
  BY <1>4, <1>5
<1> QED
  BY <1>2, <1>3, <1>6 DEF v

\* What the row is when a version follows.
LEMMA NewRow ==
  ASSUME AdaptiveInv, NEW c \in Cfg, NEW v \in Nat, NEW old \in BOOLEAN,
         NEW src \in {"file", "console"}, row.ver < MaxVer, v <= row.ver + 1,
         row' = [doc |-> [cfg |-> c, ver |-> v, old |-> old], ver |-> row.ver + 1, src |-> src],
         held' = {c},
         reading' = None \/ (reading' = reading /\ file' = file)
  PROVE  /\ row' \in Row /\ row'.ver = row.ver + 1 /\ row'.ver <= MaxVer
         /\ row'.doc = [cfg |-> c, ver |-> v, old |-> old] /\ row'.src = src
         /\ held' \in SUBSET Cfg
         /\ Advances /\ RowCurrent'
<1>1. row.ver \in Nat
  BY RowParts DEF AdaptiveInv
<1>2. row.ver + 1 \in Nat /\ row.ver + 1 <= MaxVer
  BY NextVersion
<1>3. [cfg |-> c, ver |-> v, old |-> old] \in Doc
  BY DEF Doc
<1>4. row' \in Row
  BY <1>2, <1>3 DEF Row
<1>5. /\ row'.ver = row.ver + 1
      /\ row'.doc = [cfg |-> c, ver |-> v, old |-> old] /\ row'.src = src
      /\ row'.doc.cfg = c /\ row'.doc.ver = v
  OBVIOUS
<1>6. reading' # None => reading'.ver < row'.ver
  <2>1. HAVE reading' # None
  <2>2. reading' = reading /\ reading # None
    BY <2>1
  <2>3. reading \in Doc /\ reading.ver <= row.ver
    BY <2>2 DEF AdaptiveInv, TypeOK, RowCurrent
  <2>4. reading.ver \in Nat
    BY <2>3, DocParts
  <2>5. reading.ver < row'.ver
    BY <2>3, <2>4, <1>1, <1>5
  <2> QED
    BY <2>2, <2>5
<1>7. reading' # None => reading'.ver <= row'.ver /\ reading'.ver # row'.ver
  <2>1. HAVE reading' # None
  <2>2. reading' \in Doc
    BY <2>1 DEF AdaptiveInv, TypeOK
  <2>3. reading'.ver \in Nat
    BY <2>2, DocParts
  <2>4. row'.ver \in Nat
    BY <1>2, <1>5
  <2> QED
    BY <2>1, <2>3, <2>4, <1>6
<1>8. RowCurrent'
  BY <1>5, <1>7 DEF RowCurrent, Current
<1>9. Advances
  BY <1>4, <1>5 DEF Advances
<1> QED
  BY <1>2, <1>4, <1>5, <1>8, <1>9

\* Committing a configuration and giving the row back keeps the invariant.
LEMMA CommitKeeps ==
  ASSUME NEW p \in Page, NEW c \in Cfg, NEW src \in {"file", "console"}, NEW old \in BOOLEAN,
         AdaptiveInv,
         call[p].at = "locked", call[p].kind \in {"apply", "revert"}, Commit(p, c, src, old),
         lock' = None, BesidesSettings
  PROVE  AdaptiveInv'
<1> DEFINE v   == row.ver + 1
           doc == [cfg |-> c, ver |-> v, old |-> old]
<1>0. /\ UNCHANGED file /\ PagesStand /\ DecisionStand /\ EngineStands /\ KeysStand
      /\ UNCHANGED <<draft, busy, loads, rec, recLock, reading, todo, writing, key, revoking>>
  <2>1. UNCHANGED file /\ PagesStand /\ DecisionStand /\ EngineStands /\ KeysStand
    BY Groups
  <2> QED
    BY <2>1 DEF PagesStand, DecisionStand, EngineStands, KeysStand
<1>1. /\ row.ver < MaxVer
      /\ row' = [doc |-> doc, ver |-> v, src |-> src]
      /\ held' = {c}
      /\ audit' = [audit EXCEPT ![v] = @ + 1]
      /\ call' = [call EXCEPT ![p].at = "ok", ![p].of = doc]
  BY DEF Commit
<1>2. v \in Nat /\ v <= MaxVer /\ v \in 1..MaxVer /\ v \in Subject /\ audit[v] = 0
  BY <1>1, NextVersion
<1>3. doc \in Doc
  BY <1>2 DEF Doc
<1>4. /\ row' \in Row /\ row'.ver = v /\ row'.ver <= MaxVer /\ row'.doc = doc
      /\ held' \in SUBSET Cfg /\ Advances /\ RowCurrent'
  <2>1. v \in Nat /\ v <= row.ver + 1
    BY <1>2
  <2>2. row' = [doc |-> [cfg |-> c, ver |-> v, old |-> old], ver |-> row.ver + 1, src |-> src]
    BY <1>1
  <2>3. row.ver < MaxVer /\ held' = {c} /\ reading' = reading /\ file' = file
    BY <1>0, <1>1
  <2> HIDE DEF v
  <2>4. /\ row' \in Row /\ row'.ver = row.ver + 1 /\ row'.ver <= MaxVer
        /\ row'.doc = [cfg |-> c, ver |-> v, old |-> old]
        /\ held' \in SUBSET Cfg /\ Advances /\ RowCurrent'
    BY <2>1, <2>2, <2>3, NewRow
  <2> QED
    BY <2>4 DEF v
<1> HIDE DEF doc
<1>5. /\ OneCall(p) /\ call'[p].at = "ok" /\ call'[p].kind = call[p].kind
      /\ call'[p].of = doc /\ call'[p].rec = call[p].rec
  BY <1>1, <1>3, OfWritten DEF AdaptiveInv
<1>6. v = row.ver + 1 /\ row.ver \in Nat
  BY RowParts DEF AdaptiveInv
<1> HIDE DEF v
<1>7. /\ audit' \in [Subject -> Nat] /\ audit'[v] = 1
      /\ \A x \in Subject \ {v} : audit'[x] = audit[x]
  <2>2. /\ audit' \in [Subject -> Nat] /\ audit'[v] = audit[v] + 1
        /\ \A x \in Subject \ {v} : audit'[x] = audit[x]
    BY <1>1, <1>2, Recorded DEF AdaptiveInv
  <2>3. audit'[v] = 1
    BY <1>2, <2>2
  <2> QED
    BY <2>2, <2>3
<1>8. TypeOK'
  BY <1>0, <1>4, <1>5, <1>7
  DEF AdaptiveInv, TypeOK, OneCall, PagesStand, DecisionStand, EngineStands, KeysStand
<1>9. LocksHeld'
  <2>1. lock = p /\ \A r \in Rec : recLock[r] # p
    BY WhoHolds
  <2> QED
    BY <2>1, <1>0, <1>5, LocksReleased DEF AdaptiveInv, OneCall
<1>10. PagesCurrent'
  <2>1. PagesLearn
    BY <1>0, <1>4, <1>5 DEF PagesLearn, OneCall
  <2> QED
    BY <2>1, <1>4, PagesStayCurrent DEF AdaptiveInv
<1>11. CallsComplete'
  <2>1. doc # None
    BY <1>3, AdaptiveNames
  <2> QED
    BY <2>1, <1>5 DEF AdaptiveInv, CallsComplete, InFlight, OneCall
<1>12. HandsDecided' /\ EnforcedWasApproved'
  BY <1>0, DecisionsApart
<1>13. DecidedOnce'
  <2>1. ASSUME NEW r \in Rec PROVE audit'[r] = audit[r]
    <3>1. r \in Subject /\ r # v
      BY <1>2, Constants DEF Subject
    <3> QED
      BY <3>1, <1>7
  <2>2. ASSUME NEW w \in 1..MaxVer PROVE audit'[w] <= (IF w <= row'.ver THEN 1 ELSE 0)
    <3>1. w \in Subject /\ w \in Nat /\ audit[w] \in Nat
      <4>1. w \in Subject
        BY DEF Subject
      <4>2. w \in Nat
        BY AdaptiveConstants
      <4>3. audit[w] \in Nat
        BY <4>1 DEF AdaptiveInv, TypeOK
      <4> QED
        BY <4>1, <4>2, <4>3
    <3>2. audit[w] <= (IF w <= row.ver THEN 1 ELSE 0)
      BY DEF AdaptiveInv, DecidedOnce
    <3>3. CASE w = v
      BY <3>3, <1>2, <1>4, <1>7
    <3>4. CASE w # v
      BY <3>1, <3>2, <3>4, <1>4, <1>6, <1>7
    <3> QED
      BY <3>3, <3>4
  <2> QED
    BY <2>1, <2>2, <1>0 DEF AdaptiveInv, DecidedOnce
<1> QED
  BY <1>4, <1>8, <1>9, <1>10, <1>11, <1>12, <1>13 DEF AdaptiveInv

\* Refusing and giving the locks back keeps the invariant.
LEMMA RefusedKeeps ==
  ASSUME NEW p \in Page, AdaptiveInv, call[p].at = "locked", Refused(p),
         lock' = IF lock = p THEN None ELSE lock,
         recLock' \in [Rec -> Page \cup {None}],
         \A r \in Rec : recLock'[r] = IF recLock[r] = p THEN None ELSE recLock[r],
         UNCHANGED <<row, held, file, rec, audit>>, PagesStand, EngineStands, KeysStand
  PROVE  AdaptiveInv'
<1>0. UNCHANGED <<draft, loads, reading, todo, writing, key, revoking>>
  BY DEF PagesStand, EngineStands, KeysStand
<1>1. /\ OneCall(p) /\ call'[p].at = "refused" /\ call'[p].kind = call[p].kind
      /\ call'[p].of = call[p].of /\ call'[p].rec = call[p].rec
  BY AtWritten DEF AdaptiveInv, Refused
<1>2. TypeOK'
  <2>1. lock' \in Page \cup {None}
    BY DEF AdaptiveInv, TypeOK
  <2> QED
    BY <2>1, <1>1 DEF AdaptiveInv, TypeOK, OneCall, PagesStand, EngineStands, KeysStand
<1>3. LocksHeld'
  BY <1>1, LocksReleased DEF AdaptiveInv, OneCall
<1>4. RowCurrent' /\ Advances
  BY <1>0, RowApart
<1>5. PagesCurrent'
  <2>1. PagesLearn
    BY <1>0, <1>1 DEF PagesLearn, OneCall
  <2> QED
    BY <2>1, <1>4, PagesStayCurrent DEF AdaptiveInv
<1>6. CallsComplete'
  BY <1>1 DEF AdaptiveInv, CallsComplete, InFlight, OneCall
<1>7. HandsDecided' /\ DecidedOnce' /\ EnforcedWasApproved'
  BY <1>0, DecisionsApart, AuditApart
<1> QED
  BY <1>2, <1>3, <1>4, <1>5, <1>6, <1>7 DEF AdaptiveInv

\* A route for the settings that has its lock and refuses.
LEMMA SettingsRefusedKeeps ==
  ASSUME NEW p \in Page, AdaptiveInv, call[p].at = "locked",
         call[p].kind \in {"apply", "revert"}, lock' = None,
         Refused(p), UNCHANGED <<row, held, audit>>, BesidesSettings
  PROVE  AdaptiveInv'
<1>1. UNCHANGED file /\ PagesStand /\ DecisionStand /\ EngineStands /\ KeysStand
  BY Groups
<1>2. UNCHANGED <<rec, recLock>>
  BY <1>1 DEF DecisionStand
<1>3. lock = p /\ \A r \in Rec : recLock[r] # p
  BY WhoHolds
<1>4. recLock' \in [Rec -> Page \cup {None}]
  BY <1>2 DEF AdaptiveInv, TypeOK
<1>5. \A r \in Rec : recLock'[r] = IF recLock[r] = p THEN None ELSE recLock[r]
  BY <1>2, <1>3
<1>6. lock' = IF lock = p THEN None ELSE lock
  BY <1>3
<1> QED
  BY <1>1, <1>2, <1>4, <1>5, <1>6, RefusedKeeps

LEMMA PutKeeps == ASSUME NEW p \in Page, AdaptiveInv, Put(p) PROVE AdaptiveInv'
<1>1. call[p].at = "locked" /\ call[p].kind = "apply" /\ lock' = None /\ BesidesSettings
  BY DEF Put
<1>2. CASE call[p].of.ver = row.ver
  <2>1. PICK old \in {FALSE, call[p].of.old} : Commit(p, call[p].cfg, "console", old)
    BY <1>2 DEF Put
  <2>2. call[p].cfg \in Cfg
    BY CallParts DEF AdaptiveInv
  <2>3. old \in BOOLEAN
    <3>1. call[p].of # None
      BY <1>1 DEF AdaptiveInv, CallsComplete, InFlight
    <3>2. call[p].of \in Doc
      BY <3>1, CallParts DEF AdaptiveInv
    <3>3. call[p].of.old \in BOOLEAN
      BY <3>2, DocParts
    <3> QED
      BY <3>3, <2>1
  <2> QED
    BY <2>1, <2>2, <2>3, <1>1, CommitKeeps
<1>3. CASE Refused(p) /\ UNCHANGED <<row, held, audit>>
  BY <1>1, <1>3, SettingsRefusedKeeps
<1> QED
  BY <1>2, <1>3 DEF Put

LEMMA DeleteKeeps == ASSUME NEW p \in Page, AdaptiveInv, Delete(p) PROVE AdaptiveInv'
<1>1. call[p].at = "locked" /\ call[p].kind = "revert" /\ lock' = None /\ BesidesSettings
  BY DEF Delete
<1>2. CASE Commit(p, file, "file", FALSE)
  <2>1. file \in Cfg
    BY DEF AdaptiveInv, TypeOK
  <2> QED
    BY <2>1, <1>1, <1>2, CommitKeeps
<1>3. CASE Refused(p) /\ UNCHANGED <<row, held, audit>>
  BY <1>1, <1>3, SettingsRefusedKeeps
<1> QED
  BY <1>2, <1>3 DEF Delete

LEMMA PatchLockedKeeps ==
  ASSUME NEW p \in Page, AdaptiveInv, PatchLocked(p) PROVE AdaptiveInv'
<1> DEFINE r == call[p].rec
<1>0. SettingsStand /\ PagesStand /\ EngineStands /\ KeysStand
  BY Groups DEF PatchLocked
<1>1. /\ call[p].at = "sent" /\ call[p].kind \in {"approve", "reject"}
      /\ recLock[r] = None /\ recLock' = [recLock EXCEPT ![r] = p]
      /\ call' = [call EXCEPT ![p].at = "locked", ![p].of = row.doc]
      /\ UNCHANGED <<row, held, file, lock, draft, loads, rec, audit, reading, todo, writing,
                     key, revoking>>
  BY <1>0 DEF PatchLocked, SettingsStand, PagesStand, EngineStands, KeysStand
<1>2. r \in Rec
  <2>1. r \in Rec \cup {None}
    BY CallParts DEF AdaptiveInv
  <2>2. r # None
    BY <1>1 DEF AdaptiveInv, CallsComplete
  <2> QED
    BY <2>1, <2>2
<1>3. row.doc \in Doc
  BY RowParts DEF AdaptiveInv
<1>4. /\ OneCall(p) /\ call'[p].at = "locked" /\ call'[p].kind = call[p].kind
      /\ call'[p].of = row.doc /\ call'[p].rec = r
  BY <1>1, <1>3, OfWritten DEF AdaptiveInv
<1> HIDE DEF r
<1>5. /\ recLock' \in [Rec -> Page \cup {None}] /\ recLock'[r] = p
      /\ \A x \in Rec \ {r} : recLock'[x] = recLock[x]
  BY <1>1, <1>2 DEF AdaptiveInv, TypeOK
<1>6. TypeOK'
  BY <1>0, <1>1, <1>4, <1>5
  DEF AdaptiveInv, TypeOK, OneCall, PagesStand, EngineStands, KeysStand
<1>7. LocksHeld'
  <2>1. ASSUME NEW q \in Page
        PROVE  lock' = q <=> call'[q].at = "locked" /\ call'[q].kind \in {"apply", "revert"}
    BY <1>1, <1>4 DEF AdaptiveInv, LocksHeld, OneCall
  <2>2. ASSUME NEW q \in Page, NEW x \in Rec
        PROVE  recLock'[x] = q <=>
                 call'[q].at = "locked" /\ call'[q].kind \in {"approve", "reject"} /\ call'[q].rec = x
    <3>1. recLock[x] = q <=>
            call[q].at = "locked" /\ call[q].kind \in {"approve", "reject"} /\ call[q].rec = x
      BY DEF AdaptiveInv, LocksHeld
    <3>2. CASE q = p
      BY <3>1, <3>2, <1>1, <1>4, <1>5
    <3>3. CASE q # p
      <4>1. call'[q] = call[q]
        BY <3>3, <1>4 DEF OneCall
      <4>2. recLock'[x] = q <=> recLock[x] = q
        BY <3>3, <1>1, <1>2, <1>5, AdaptiveConstants
      <4> QED
        BY <4>1, <4>2, <3>1
    <3> QED
      BY <3>2, <3>3
  <2> QED
    BY <2>1, <2>2 DEF LocksHeld
<1>8. RowCurrent' /\ Advances
  BY <1>1, RowApart
<1>9. PagesCurrent'
  <2>1. PagesLearn
    BY <1>1, <1>4 DEF PagesLearn, OneCall
  <2> QED
    BY <2>1, <1>8, PagesStayCurrent DEF AdaptiveInv
<1>10. CallsComplete'
  <2>1. row.doc # None /\ r # None
    BY <1>2, <1>3, AdaptiveNames, AdaptiveConstants
  <2> QED
    BY <2>1, <1>1, <1>4 DEF AdaptiveInv, CallsComplete, InFlight, OneCall
<1>11. HandsDecided' /\ DecidedOnce' /\ EnforcedWasApproved'
  BY <1>1, DecisionsApart, AuditApart
<1> QED
  BY <1>6, <1>7, <1>8, <1>9, <1>10, <1>11 DEF AdaptiveInv

\* What a decision makes of a recommendation is one that was decided.
LEMMA VerdictParts ==
  ASSUME TypeOK, NEW p \in Page, NEW v \in Verdict(call[p])
  PROVE  v \in Recommendation /\ v.status \in {"approved", "rejected"}
<1>1. call[p].cfg \in Cfg /\ call[p].cfg \in Nat /\ now \in Nat
  <2>1. call[p].cfg \in Cfg
    BY CallParts
  <2> QED
    BY <2>1, Constants DEF TypeOK
<1>2. now + call[p].cfg \in Nat
  BY <1>1
<1>3. CASE call[p].kind = "approve"
  BY <1>1, <1>2, <1>3 DEF Verdict, Recommendation
<1>4. CASE call[p].kind # "approve"
  BY <1>4, Constants DEF Verdict, Recommendation
<1> QED
  BY <1>3, <1>4

LEMMA PatchKeeps == ASSUME NEW p \in Page, AdaptiveInv, Patch(p) PROVE AdaptiveInv'
<1> DEFINE r == call[p].rec
<1>0. SettingsStand /\ PagesStand /\ EngineStands /\ KeysStand
  BY Groups DEF Patch
<1>1. /\ call[p].at = "locked" /\ call[p].kind \in {"approve", "reject"}
      /\ recLock' = [recLock EXCEPT ![r] = None]
      /\ UNCHANGED <<row, held, file, lock, draft, loads, reading, todo, writing, key, revoking>>
  BY <1>0 DEF Patch, SettingsStand, PagesStand, EngineStands, KeysStand
<1>2. lock # p /\ r \in Rec /\ \A x \in Rec : recLock[x] = p <=> x = r
  BY <1>1, WhoHolds
<1>3. /\ recLock' \in [Rec -> Page \cup {None}]
      /\ \A x \in Rec : recLock'[x] = IF recLock[x] = p THEN None ELSE recLock[x]
      /\ lock' = IF lock = p THEN None ELSE lock
  BY <1>1, <1>2 DEF AdaptiveInv, TypeOK
<1>4. \/ /\ rec[r].status = "pending_approval"
         /\ \E v \in Verdict(call[p]) : rec' = [rec EXCEPT ![r] = v]
         /\ audit' = [audit EXCEPT ![r] = @ + 1]
         /\ call' = [call EXCEPT ![p].at = "ok"]
      \/ Refused(p) /\ UNCHANGED <<rec, audit>>
  BY DEF Patch
<1> HIDE DEF r
<1>5. CASE Refused(p) /\ UNCHANGED <<rec, audit>>
  BY <1>0, <1>1, <1>3, <1>5, RefusedKeeps
<1>6. ASSUME rec[r].status = "pending_approval",
             NEW v \in Verdict(call[p]), rec' = [rec EXCEPT ![r] = v],
             audit' = [audit EXCEPT ![r] = @ + 1],
             call' = [call EXCEPT ![p].at = "ok"]
      PROVE  AdaptiveInv'
  <2>0. v \in Recommendation /\ v.status \in {"approved", "rejected"}
    BY VerdictParts DEF AdaptiveInv
  <2>1. /\ OneCall(p) /\ call'[p].at = "ok" /\ call'[p].kind = call[p].kind
        /\ call'[p].of = call[p].of /\ call'[p].rec = call[p].rec
    BY <1>6, AtWritten DEF AdaptiveInv
  <2>2. r \in Subject
    BY <1>2 DEF Subject
  <2>3. /\ audit' \in [Subject -> Nat] /\ audit'[r] = audit[r] + 1
        /\ \A x \in Subject \ {r} : audit'[x] = audit[x]
    BY <1>6, <2>2, Recorded DEF AdaptiveInv
  <2>4. /\ rec' \in [Rec -> Recommendation] /\ rec'[r] = v
        /\ \A x \in Rec \ {r} : rec'[x] = rec[x]
    BY <1>2, <1>6, <2>0 DEF AdaptiveInv, TypeOK
  <2>5. TypeOK'
    BY <1>0, <1>1, <1>3, <2>1, <2>3, <2>4
    DEF AdaptiveInv, TypeOK, OneCall, PagesStand, EngineStands, KeysStand
  <2>6. LocksHeld'
    BY <1>3, <2>1, LocksReleased DEF AdaptiveInv, OneCall
  <2>7. RowCurrent' /\ Advances
    BY <1>1, RowApart
  <2>8. PagesCurrent'
    <3>1. PagesLearn
      BY <1>1, <2>1 DEF PagesLearn, OneCall
    <3> QED
      BY <3>1, <2>7, PagesStayCurrent DEF AdaptiveInv
  <2>9. CallsComplete'
    BY <1>1, <2>1 DEF AdaptiveInv, CallsComplete, InFlight, OneCall
  <2>10. ~Decided(r)
    BY <1>6 DEF Decided
  <2>11. HandsDecided'
    BY <1>1, <1>2, <2>4, <2>10 DEF AdaptiveInv, HandsDecided, Decided
  <2>12. DecidedOnce'
    <3>1. audit[r] = 0
      BY <1>2, <1>6 DEF AdaptiveInv, DecidedOnce
    <3>2. ASSUME NEW x \in Rec
          PROVE  audit'[x] = (IF rec'[x].status = "pending_approval" THEN 0 ELSE 1)
      <4>1. x \in Subject
        BY DEF Subject
      <4>2. CASE x = r
        BY <4>2, <2>0, <2>3, <2>4, <3>1
      <4>3. CASE x # r
        BY <4>1, <4>3, <2>3, <2>4 DEF AdaptiveInv, DecidedOnce
      <4> QED
        BY <4>2, <4>3
    <3>3. ASSUME NEW w \in 1..MaxVer PROVE audit'[w] = audit[w]
      <4>1. w \in Subject /\ w # r
        BY <1>2, Constants DEF Subject
      <4> QED
        BY <4>1, <2>3
    <3> QED
      BY <1>1, <3>2, <3>3 DEF AdaptiveInv, DecidedOnce
  <2>13. EnforcedWasApproved'
    <3>1. key[r] = 0
      BY <1>2, <2>10 DEF AdaptiveInv, EnforcedWasApproved
    <3> QED
      BY <1>1, <2>4, <3>1 DEF AdaptiveInv, EnforcedWasApproved, Decided
  <2> QED
    BY <2>5, <2>6, <2>7, <2>8, <2>9, <2>11, <2>12, <2>13 DEF AdaptiveInv
<1> QED
  BY <1>4, <1>5, <1>6

LEMMA RolledBackKeeps == ASSUME NEW p \in Page, AdaptiveInv, RolledBack(p) PROVE AdaptiveInv'
<1>0. PagesStand /\ EngineStands /\ KeysStand
  <2>1. UNCHANGED <<pageVars, engineVars, keyVars>>
    BY DEF RolledBack
  <2> QED
    BY <2>1, Groups
<1>1. /\ call[p].at = "locked" /\ Refused(p)
      /\ lock' = IF lock = p THEN None ELSE lock
      /\ recLock' = [r \in Rec |-> IF recLock[r] = p THEN None ELSE recLock[r]]
      /\ UNCHANGED <<row, held, file, rec, audit>>
  BY DEF RolledBack
<1>2. recLock' \in [Rec -> Page \cup {None}]
  BY <1>1 DEF AdaptiveInv, TypeOK
<1>3. \A r \in Rec : recLock'[r] = IF recLock[r] = p THEN None ELSE recLock[r]
  BY <1>1
<1> QED
  BY <1>0, <1>1, <1>2, <1>3, RefusedKeeps

-----------------------------------------------------------------------------
(* The decision engine.                                                    *)

\* A cycle that ends, or an engine that starts, has nothing in hand.
LEMMA IdleParts ==
  ASSUME Idle
  PROVE  /\ stage' \in {"idle", "loaded", "listed"} /\ using' \in Cfg
         /\ reading' = None /\ todo' = {} /\ writing' = None
BY Constants DEF Idle

LEMMA EnsureConfigKeeps ==
  ASSUME NEW c \in Cfg, NEW v \in 1..(row.ver + 1), AdaptiveInv, EnsureConfig(c, v)
  PROVE  AdaptiveInv'
<1>1. /\ lock = None /\ file' = c /\ Idle /\ UNCHANGED lock
      /\ PagesStand /\ CallsStand /\ DecisionStand /\ KeysStand
  BY Groups DEF EnsureConfig
<1>2. UNCHANGED <<lock, draft, busy, loads, call, rec, recLock, audit, key, revoking>>
  BY <1>1 DEF PagesStand, CallsStand, DecisionStand, KeysStand
<1>3. /\ stage' \in {"idle", "loaded", "listed"} /\ using' \in Cfg
      /\ reading' = None /\ todo' = {} /\ writing' = None
  BY <1>1, IdleParts
<1>4. v \in Nat /\ v <= row.ver + 1 /\ row.ver \in Nat
  BY RowParts DEF AdaptiveInv
<1>5. /\ row' \in Row /\ row'.ver <= MaxVer /\ held' \in SUBSET Cfg
      /\ Advances /\ RowCurrent'
      /\ row'.ver \in {row.ver, row.ver + 1}
  <2>1. CASE row.src = "file" /\ row.doc.cfg # c
    <3>1. /\ row.ver < MaxVer
          /\ row' = [doc |-> [cfg |-> c, ver |-> v, old |-> FALSE],
                     ver |-> row.ver + 1, src |-> "file"]
          /\ held' = {c}
      BY <2>1 DEF EnsureConfig
    <3> QED
      BY <3>1, <1>3, <1>4, NewRow
  <2>2. CASE ~(row.src = "file" /\ row.doc.cfg # c)
    <3>1. row' = row /\ held' = held
      BY <2>2 DEF EnsureConfig
    <3>2. row \in Row /\ row.ver <= MaxVer /\ held \in SUBSET Cfg
      BY DEF AdaptiveInv, TypeOK
    <3>3. RowCurrent'
      BY <3>1, <1>3 DEF AdaptiveInv, RowCurrent, Current
    <3> QED
      BY <3>1, <3>2, <3>3 DEF Advances
  <2> QED
    BY <2>1, <2>2
<1>6. TypeOK'
  BY <1>1, <1>3, <1>5
  DEF AdaptiveInv, TypeOK, PagesStand, CallsStand, DecisionStand, KeysStand
<1>7. LocksHeld' /\ CallsComplete'
  BY <1>2 DEF AdaptiveInv, LocksHeld, CallsComplete, InFlight
<1>8. PagesCurrent'
  <2>1. PagesLearn
    BY <1>2 DEF PagesLearn
  <2> QED
    BY <2>1, <1>5, PagesStayCurrent DEF AdaptiveInv
<1>9. HandsDecided' /\ EnforcedWasApproved'
  BY <1>2, <1>3, DecisionsApart
<1>10. DecidedOnce'
  <2>1. ASSUME NEW w \in 1..MaxVer PROVE audit'[w] <= (IF w <= row'.ver THEN 1 ELSE 0)
    <3>1. w \in Nat
      BY AdaptiveConstants
    <3>2. w <= row.ver => w <= row'.ver
      BY <3>1, <1>4, <1>5
    <3>3. w \in Subject
      BY DEF Subject
    <3>4. audit[w] \in Nat
      BY <3>3 DEF AdaptiveInv, TypeOK
    <3>5. audit[w] <= (IF w <= row.ver THEN 1 ELSE 0)
      BY DEF AdaptiveInv, DecidedOnce
    <3>6. audit'[w] = audit[w]
      BY <1>2
    <3> QED
      BY <3>2, <3>4, <3>5, <3>6
  <2> QED
    BY <2>1, <1>2 DEF AdaptiveInv, DecidedOnce
<1> QED
  BY <1>5, <1>6, <1>7, <1>8, <1>9, <1>10 DEF AdaptiveInv

\* What load_config would write back is the row's configuration, or the file's.
LEMMA LoadConfigParts ==
  ASSUME AdaptiveInv, LoadConfig
  PROVE  /\ using' \in {row.doc.cfg, file}
         /\ reading' = None \/ reading' = [cfg |-> using', ver |-> row.ver, old |-> FALSE]
         /\ reading' \in Doc \cup {None}
         /\ reading' # None => reading'.ver = row.ver /\ reading'.cfg \in {row.doc.cfg, file}
<1> DEFINE doc == [cfg |-> using', ver |-> row.ver, old |-> FALSE]
<1>1. using' \in {row.doc.cfg, file}
  BY DEF LoadConfig
<1>2. reading' = None \/ reading' = doc
  BY DEF LoadConfig
<1>3. using' \in Cfg
  <2>1. row.doc.cfg \in Cfg /\ file \in Cfg
    BY RowParts DEF AdaptiveInv, TypeOK
  <2> QED
    BY <2>1, <1>1
<1>4. doc \in Doc
  BY <1>3, RowParts DEF AdaptiveInv, Doc
<1>5. doc.ver = row.ver /\ doc.cfg = using'
  OBVIOUS
<1> HIDE DEF doc
<1>6. reading' \in Doc \cup {None}
  BY <1>2, <1>4
<1>7. reading' # None => reading'.ver = row.ver /\ reading'.cfg \in {row.doc.cfg, file}
  BY <1>1, <1>2, <1>5
<1> QED
  BY <1>1, <1>2, <1>6, <1>7 DEF doc

LEMMA LoadConfigKeeps == ASSUME AdaptiveInv, LoadConfig PROVE AdaptiveInv'
<1>1. /\ stage' = "loaded" /\ UNCHANGED <<todo, writing>>
      /\ SettingsStand /\ PagesStand /\ CallsStand /\ DecisionStand /\ KeysStand
  BY Groups DEF LoadConfig
<1>2. UNCHANGED <<row, held, file, call, rec, recLock, audit, key, revoking>>
  BY <1>1 DEF SettingsStand, CallsStand, DecisionStand, KeysStand
<1>3. /\ using' \in Cfg /\ reading' \in Doc \cup {None}
      /\ reading' # None => reading'.ver = row.ver /\ reading'.cfg \in {row.doc.cfg, file}
  <2>1. row.doc.cfg \in Cfg /\ file \in Cfg
    BY RowParts DEF AdaptiveInv, TypeOK
  <2> QED
    BY <2>1, LoadConfigParts
<1>4. TypeOK'
  BY <1>1, <1>3
  DEF AdaptiveInv, TypeOK, SettingsStand, PagesStand, CallsStand, DecisionStand, KeysStand
<1>5. RowCurrent'
  <2>1. row.ver \in Nat
    BY RowParts DEF AdaptiveInv
  <2>2. reading' # None => /\ reading'.ver <= row'.ver
                           /\ reading'.ver = row'.ver => reading'.cfg \in {row'.doc.cfg, file'}
    BY <2>1, <1>2, <1>3
  <2> QED
    BY <2>2, <1>2 DEF AdaptiveInv, RowCurrent, Current
<1>6. HandsDecided' /\ DecidedOnce' /\ EnforcedWasApproved'
  BY <1>1, <1>2, DecisionsApart, AuditApart
<1> QED
  BY <1>1, <1>2, <1>4, <1>5, <1>6, PagesApart DEF AdaptiveInv

\* Writing back changes the document under the version there is.
LEMMA WriteBackParts ==
  ASSUME AdaptiveInv, WriteBack
  PROVE  /\ reading \in Doc /\ reading.ver \in Nat /\ reading.cfg \in Cfg /\ reading.ver <= row.ver
         /\ row' = [doc |-> reading, ver |-> row.ver, src |-> row.src]
         /\ row' \in Row
         /\ row'.doc = reading /\ row'.ver = row.ver /\ row'.src = row.src
         /\ held' = held \cup {reading.cfg} /\ reading' = None
<1>1. reading \in Doc /\ reading # None
  BY DEF WriteBack, AdaptiveInv, TypeOK
<1>2. reading.ver \in Nat /\ reading.cfg \in Cfg /\ reading.ver <= row.ver
  BY <1>1, DocParts DEF AdaptiveInv, RowCurrent
<1>3. row \in Row
  BY DEF AdaptiveInv, TypeOK
<1>4. row' = [row EXCEPT !.doc = reading]
  BY DEF WriteBack
<1>5. row' = [doc |-> reading, ver |-> row.ver, src |-> row.src] /\ row' \in Row
  BY <1>1, <1>3, <1>4 DEF Row
<1>6. held' = held \cup {reading.cfg} /\ reading' = None
  BY DEF WriteBack
<1> QED
  BY <1>1, <1>2, <1>5, <1>6

LEMMA WriteBackKeeps == ASSUME AdaptiveInv, WriteBack PROVE AdaptiveInv'
<1>1. /\ UNCHANGED <<stage, using, todo, writing, file, lock>>
      /\ PagesStand /\ CallsStand /\ DecisionStand /\ KeysStand
  BY Groups DEF WriteBack
<1>2. UNCHANGED <<draft, loads, call, rec, recLock, audit, key, revoking>>
  BY <1>1 DEF PagesStand, CallsStand, DecisionStand, KeysStand
<1>3. /\ reading \in Doc /\ reading.ver \in Nat /\ reading.cfg \in Cfg /\ reading.ver <= row.ver
      /\ row' \in Row
      /\ row'.doc = reading /\ row'.ver = row.ver
      /\ held' = held \cup {reading.cfg} /\ reading' = None
  BY WriteBackParts
<1>4. TypeOK'
  <2>1. row'.ver <= MaxVer /\ held' \in SUBSET Cfg
    BY <1>3 DEF AdaptiveInv, TypeOK
  <2> QED
    BY <2>1, <1>1, <1>3
    DEF AdaptiveInv, TypeOK, PagesStand, CallsStand, DecisionStand, KeysStand
<1>5. RowCurrent' /\ Advances
  BY <1>3 DEF RowCurrent, Current, Advances
<1>6. LocksHeld' /\ CallsComplete'
  BY <1>1, <1>2 DEF AdaptiveInv, LocksHeld, CallsComplete, InFlight
<1>7. PagesCurrent'
  <2>1. PagesLearn
    BY <1>2 DEF PagesLearn
  <2> QED
    BY <2>1, <1>5, PagesStayCurrent DEF AdaptiveInv
<1>8. HandsDecided' /\ EnforcedWasApproved'
  BY <1>1, <1>2, DecisionsApart
<1>9. DecidedOnce'
  BY <1>2, <1>3 DEF AdaptiveInv, DecidedOnce
<1> QED
  BY <1>4, <1>5, <1>6, <1>7, <1>8, <1>9 DEF AdaptiveInv

\* A cycle can end anywhere.
LEMMA CycleEndsKeeps == ASSUME AdaptiveInv, CycleEnds PROVE AdaptiveInv'
<1>1. Idle /\ SettingsStand /\ PagesStand /\ CallsStand /\ DecisionStand /\ KeysStand
  BY Groups DEF CycleEnds
<1>2. UNCHANGED <<row, held, file, call, rec, recLock, audit, key, revoking>>
  BY <1>1 DEF SettingsStand, CallsStand, DecisionStand, KeysStand
<1>3. /\ stage' \in {"idle", "loaded", "listed"} /\ using' \in Cfg
      /\ reading' = None /\ todo' = {} /\ writing' = None
  BY <1>1, IdleParts
<1>4. TypeOK'
  BY <1>1, <1>3
  DEF AdaptiveInv, TypeOK, SettingsStand, PagesStand, CallsStand, DecisionStand, KeysStand
<1>5. RowCurrent'
  BY <1>2, <1>3, RowApart
<1>6. HandsDecided' /\ DecidedOnce' /\ EnforcedWasApproved'
  BY <1>2, <1>3, DecisionsApart, AuditApart
<1> QED
  BY <1>1, <1>2, <1>4, <1>5, <1>6, PagesApart DEF AdaptiveInv

\* A step that marks recommendations, none of which was undecided, changes their
\* status and no window.
Marks ==
  /\ rec' \in [Rec -> Recommendation]
  /\ \A x \in Rec : \/ rec'[x] = rec[x]
                    \/ /\ Decided(x)
                       /\ rec'[x].status \in {"active", "revoked", "expired"}
                       /\ rec'[x].ends = rec[x].ends

LEMMA MarksKeeps ==
  ASSUME AdaptiveInv, Marks,
         stage' \in {"idle", "loaded", "listed"}, todo' \subseteq Rec,
         \A x \in todo' : x \in todo \/ rec[x].status = "approved",
         writing' \in {writing, None}, revoking' \subseteq revoking,
         UNCHANGED <<using, reading, recLock, now, key>>,
         SettingsStand, PagesStand, CallsStand
  PROVE  AdaptiveInv'
<1>1. UNCHANGED <<row, held, file, call, audit>>
  BY DEF SettingsStand, CallsStand
<1>2. TypeOK'
  <2>1. writing' \in Rec \cup {None} /\ revoking' \in SUBSET Rec
    BY DEF AdaptiveInv, TypeOK
  <2>2. rec' \in [Rec -> Recommendation]
    BY DEF Marks
  <2> QED
    BY <2>1, <2>2 DEF AdaptiveInv, TypeOK, SettingsStand, PagesStand, CallsStand
<1>3. \A x \in Rec : /\ Decided(x) => Decided(x)'
                     /\ rec'[x].ends = rec[x].ends
                     /\ rec'[x].status = "pending_approval" <=> rec[x].status = "pending_approval"
  BY DEF Marks, Decided
<1>4. HandsDecided'
  <2> SUFFICES ASSUME NEW x \in Rec, writing' = x \/ x \in todo' \/ x \in revoking'
               PROVE  Decided(x)'
    BY DEF HandsDecided
  <2>1. CASE writing' = x
    <3>1. writing = x
      BY <2>1, AdaptiveConstants
    <3> QED
      BY <3>1, <1>3 DEF AdaptiveInv, HandsDecided
  <2>2. CASE x \in todo'
    <3>1. Decided(x)
      BY <2>2 DEF AdaptiveInv, HandsDecided, Decided
    <3> QED
      BY <3>1, <1>3
  <2>3. CASE x \in revoking'
    <3>1. x \in revoking
      BY <2>3
    <3> QED
      BY <3>1, <1>3 DEF AdaptiveInv, HandsDecided
  <2> QED
    BY <2>1, <2>2, <2>3
<1>5. EnforcedWasApproved'
  BY <1>3 DEF AdaptiveInv, EnforcedWasApproved
<1>6. DecidedOnce'
  BY <1>1, <1>3 DEF AdaptiveInv, DecidedOnce
<1>7. RowCurrent'
  BY <1>1, RowApart
<1> QED
  BY <1>1, <1>2, <1>4, <1>5, <1>6, <1>7, PagesApart DEF AdaptiveInv

\* Marking one recommendation is a step of that kind.
LEMMA OneMarked ==
  ASSUME AdaptiveInv, NEW r \in Rec, NEW st \in {"active", "revoked", "expired"}, Decided(r),
         rec' = [rec EXCEPT ![r].status = st]
  PROVE  Marks
BY StatusWritten DEF AdaptiveInv, Marks

LEMMA ListApprovedKeeps == ASSUME AdaptiveInv, ListApproved PROVE AdaptiveInv'
<1> DEFINE due == {r \in Rec : rec[r].status = "active" /\ rec[r].ends <= now}
           k(r) == [rec[r] EXCEPT !.status = "expired"]
<1>1. /\ rec' = [r \in Rec |-> IF r \in due THEN k(r) ELSE rec[r]]
      /\ stage' = "listed"
      /\ UNCHANGED <<using, reading, writing, recLock>>
      /\ SettingsStand /\ PagesStand /\ CallsStand /\ KeysStand
  BY Groups DEF ListApproved
<1>2. \A r \in Rec : k(r) \in Recommendation /\ k(r).status = "expired" /\ k(r).ends = rec[r].ends
  BY StatusChanged DEF AdaptiveInv
<1>3. \A r \in due : Decided(r)
  BY DEF Decided
<1>4. \A r \in Rec : rec[r] \in Recommendation
  BY RecParts DEF AdaptiveInv
<1> HIDE DEF k, due
<1>5. Marks
  <2>1. rec' \in [Rec -> Recommendation]
    BY <1>1, <1>2, <1>4
  <2> QED
    BY <2>1, <1>1, <1>2, <1>3 DEF Marks
<1>6. todo' \subseteq Rec /\ \A x \in todo' : rec[x].status = "approved"
  BY DEF ListApproved
<1>7. UNCHANGED <<now, key, revoking>>
  BY <1>1 DEF KeysStand
<1> QED
  BY <1>1, <1>5, <1>6, <1>7, MarksKeeps

LEMMA LapsesKeeps == ASSUME NEW r \in Rec, AdaptiveInv, Lapses(r) PROVE AdaptiveInv'
<1>1. /\ r \in todo /\ rec' = [rec EXCEPT ![r].status = "expired"] /\ todo' = todo \ {r}
      /\ UNCHANGED <<stage, using, reading, writing, recLock>>
      /\ SettingsStand /\ PagesStand /\ CallsStand /\ KeysStand
  BY Groups DEF Lapses
<1>2. UNCHANGED <<now, key, revoking>>
  BY <1>1 DEF KeysStand
<1>3. Decided(r)
  BY <1>1 DEF AdaptiveInv, HandsDecided
<1>4. Marks
  BY <1>1, <1>3, OneMarked
<1>5. todo' \subseteq Rec /\ \A x \in todo' : x \in todo
  BY <1>1 DEF AdaptiveInv, TypeOK
<1>6. stage' \in {"idle", "loaded", "listed"}
  BY <1>1 DEF AdaptiveInv, TypeOK
<1> QED
  BY <1>1, <1>2, <1>4, <1>5, <1>6, MarksKeeps

LEMMA ActivatedKeeps == ASSUME NEW r \in Rec, AdaptiveInv, Activated(r) PROVE AdaptiveInv'
<1>1. /\ writing = r /\ rec' = [rec EXCEPT ![r].status = "active"] /\ writing' = None
      /\ UNCHANGED <<stage, using, reading, todo, recLock>>
      /\ SettingsStand /\ PagesStand /\ CallsStand /\ KeysStand
  BY Groups DEF Activated
<1>2. UNCHANGED <<now, key, revoking>>
  BY <1>1 DEF KeysStand
<1>3. Decided(r)
  BY <1>1 DEF AdaptiveInv, HandsDecided
<1>4. Marks
  BY <1>1, <1>3, OneMarked
<1>5. todo' \subseteq Rec /\ stage' \in {"idle", "loaded", "listed"}
  BY <1>1 DEF AdaptiveInv, TypeOK
<1> QED
  BY <1>1, <1>2, <1>4, <1>5, MarksKeeps

\* What is left of a window ends with it.
LEMMA WhatIsLeft ==
  ASSUME TypeOK, NEW r \in Rec, Left(r) > 0
  PROVE  now + Left(r) \in Nat /\ now + Left(r) = rec[r].ends
<1>1. now \in Nat /\ rec[r].ends \in Nat
  BY RecParts DEF TypeOK
<1>2. rec[r].ends > now
  BY <1>1 DEF Left
<1>3. Left(r) = rec[r].ends - now
  BY <1>2 DEF Left
<1> QED
  BY <1>1, <1>2, <1>3

LEMMA WriteKeyKeeps == ASSUME NEW r \in Rec, AdaptiveInv, WriteKey(r) PROVE AdaptiveInv'
<1>1. /\ r \in todo /\ todo' = todo \ {r} /\ writing' = r
      /\ UNCHANGED <<stage, using, reading, now, revoking>>
      /\ SettingsStand /\ PagesStand /\ CallsStand /\ DecisionStand
  BY Groups DEF WriteKey
<1>2. UNCHANGED <<row, held, file, call, rec, recLock, audit>>
  BY <1>1 DEF SettingsStand, CallsStand, DecisionStand
<1>3. now + Left(r) \in Nat /\ now + Left(r) = rec[r].ends
  BY WhatIsLeft DEF WriteKey, AdaptiveInv
<1>4. key' = [key EXCEPT ![r] = rec[r].ends]
  BY <1>3 DEF WriteKey
<1>5. rec[r].ends \in Nat
  BY <1>3
<1>6. /\ key' \in [Rec -> Nat] /\ key'[r] = rec[r].ends
      /\ \A x \in Rec \ {r} : key'[x] = key[x]
  BY <1>4, <1>5 DEF AdaptiveInv, TypeOK
<1>7. Decided(r)
  BY <1>1 DEF AdaptiveInv, HandsDecided
<1>8. TypeOK'
  <2>1. writing' \in Rec \cup {None} /\ todo' \in SUBSET Rec
    BY <1>1 DEF AdaptiveInv, TypeOK
  <2> QED
    BY <2>1, <1>1, <1>6
    DEF AdaptiveInv, TypeOK, SettingsStand, PagesStand, CallsStand, DecisionStand
<1>9. HandsDecided'
  BY <1>1, <1>2, <1>7 DEF AdaptiveInv, HandsDecided, Decided
<1>10. EnforcedWasApproved'
  <2> SUFFICES ASSUME NEW x \in Rec, key'[x] # 0
               PROVE  Decided(x)' /\ key'[x] <= rec'[x].ends
    BY DEF EnforcedWasApproved
  <2>1. CASE x = r
    <3>1. key'[x] <= rec'[x].ends
      BY <2>1, <1>2, <1>5, <1>6
    <3> QED
      BY <3>1, <2>1, <1>2, <1>7 DEF Decided
  <2>2. CASE x # r
    <3>1. key'[x] = key[x]
      BY <2>2, <1>6
    <3> QED
      BY <3>1, <1>2 DEF AdaptiveInv, EnforcedWasApproved, Decided
  <2> QED
    BY <2>1, <2>2
<1>11. DecidedOnce' /\ RowCurrent'
  BY <1>1, <1>2, AuditApart, RowApart
<1> QED
  BY <1>1, <1>2, <1>8, <1>9, <1>10, <1>11, PagesApart DEF AdaptiveInv

LEMMA SkipsKeeps == ASSUME NEW r \in Rec, AdaptiveInv, Skips(r) PROVE AdaptiveInv'
<1>1. /\ todo' = todo \ {r} /\ UNCHANGED <<stage, using, reading, writing>>
      /\ SettingsStand /\ PagesStand /\ CallsStand /\ DecisionStand /\ KeysStand
  BY Groups DEF Skips
<1>2. UNCHANGED <<row, held, file, call, rec, recLock, audit, key, revoking>>
  BY <1>1 DEF SettingsStand, CallsStand, DecisionStand, KeysStand
<1>3. TypeOK'
  <2>1. todo' \in SUBSET Rec
    BY <1>1 DEF AdaptiveInv, TypeOK
  <2> QED
    BY <2>1, <1>1
    DEF AdaptiveInv, TypeOK, SettingsStand, PagesStand, CallsStand, DecisionStand, KeysStand
<1>4. HandsDecided' /\ DecidedOnce' /\ EnforcedWasApproved' /\ RowCurrent'
  BY <1>1, <1>2, DecisionsApart, AuditApart, RowApart
<1> QED
  BY <1>1, <1>2, <1>3, <1>4, PagesApart DEF AdaptiveInv

-----------------------------------------------------------------------------
(* Keys.                                                                   *)

\* Keys that end are gone.
LEMMA KeysGoneKeeps ==
  ASSUME AdaptiveInv, now' \in Nat, key' \in [Rec -> Nat],
         \A x \in Rec : key'[x] \in {key[x], 0},
         revoking' \subseteq Rec, \A x \in revoking' : x \in revoking \/ key[x] # 0,
         SettingsStand, PagesStand, CallsStand, DecisionStand, EngineStands
  PROVE  AdaptiveInv'
<1>1. UNCHANGED <<row, held, file, call, rec, recLock, audit, reading, todo, writing>>
  BY DEF SettingsStand, CallsStand, DecisionStand, EngineStands
<1>2. TypeOK'
  BY DEF AdaptiveInv, TypeOK, SettingsStand, PagesStand, CallsStand, DecisionStand, EngineStands
<1>3. \A x \in Rec : key[x] # 0 => Decided(x)
  BY DEF AdaptiveInv, EnforcedWasApproved
<1>4. HandsDecided'
  BY <1>1, <1>3 DEF AdaptiveInv, HandsDecided, Decided
<1>5. EnforcedWasApproved'
  BY <1>1 DEF AdaptiveInv, EnforcedWasApproved, Decided
<1>6. DecidedOnce' /\ RowCurrent'
  BY <1>1, AuditApart, RowApart
<1> QED
  BY <1>1, <1>2, <1>4, <1>5, <1>6, PagesApart DEF AdaptiveInv

LEMMA TickKeeps == ASSUME AdaptiveInv, Tick PROVE AdaptiveInv'
<1>1. /\ now' = now + 1 /\ UNCHANGED revoking
      /\ SettingsStand /\ PagesStand /\ CallsStand /\ DecisionStand /\ EngineStands
  BY Groups DEF Tick, CallsStand
<1>2. now' \in Nat
  <2>1. now \in Nat
    BY DEF AdaptiveInv, TypeOK
  <2> QED
    BY <1>1, <2>1
<1>3. key \in [Rec -> Nat]
  BY DEF AdaptiveInv, TypeOK
<1>4. key' = [r \in Rec |-> IF key[r] <= now' THEN 0 ELSE key[r]]
  BY DEF Tick
<1>5. key' \in [Rec -> Nat] /\ \A x \in Rec : key'[x] \in {key[x], 0}
  BY <1>3, <1>4
<1>6. revoking' \subseteq Rec /\ \A x \in revoking' : x \in revoking
  BY <1>1 DEF AdaptiveInv, TypeOK
<1> QED
  BY <1>1, <1>2, <1>5, <1>6, KeysGoneKeeps

LEMMA DeletePolicyKeeps ==
  ASSUME NEW r \in Rec, AdaptiveInv, DeletePolicy(r) PROVE AdaptiveInv'
<1>1. /\ key[r] # 0 /\ key' = [key EXCEPT ![r] = 0] /\ revoking' = revoking \cup {r}
      /\ UNCHANGED now
      /\ SettingsStand /\ PagesStand /\ CallsStand /\ DecisionStand /\ EngineStands
  BY Groups DEF DeletePolicy, CallsStand
<1>2. key' \in [Rec -> Nat] /\ \A x \in Rec : key'[x] \in {key[x], 0}
  BY <1>1 DEF AdaptiveInv, TypeOK
<1>3. revoking' \subseteq Rec /\ \A x \in revoking' : x \in revoking \/ key[x] # 0
  BY <1>1 DEF AdaptiveInv, TypeOK
<1>4. now' \in Nat
  BY <1>1 DEF AdaptiveInv, TypeOK
<1> QED
  BY <1>1, <1>2, <1>3, <1>4, KeysGoneKeeps

LEMMA RevokedKeeps == ASSUME NEW r \in Rec, AdaptiveInv, Revoked(r) PROVE AdaptiveInv'
<1>1. /\ r \in revoking /\ revoking' = revoking \ {r} /\ UNCHANGED <<recLock, now, key>>
      /\ SettingsStand /\ PagesStand /\ CallsStand /\ EngineStands
  BY Groups DEF Revoked, CallsStand
<1>2. Marks
  <2>1. CASE rec' = [rec EXCEPT ![r].status = "revoked"]
    <3>1. Decided(r)
      BY <1>1 DEF AdaptiveInv, HandsDecided
    <3> QED
      BY <3>1, <2>1, OneMarked
  <2>2. CASE UNCHANGED rec
    BY <2>2 DEF AdaptiveInv, TypeOK, Marks
  <2> QED
    BY <2>1, <2>2 DEF Revoked
<1>3. UNCHANGED <<stage, using, reading, todo, writing>>
  BY <1>1 DEF EngineStands
<1>4. stage' \in {"idle", "loaded", "listed"} /\ todo' \subseteq Rec
  BY <1>3 DEF AdaptiveInv, TypeOK
<1>5. revoking' \subseteq revoking
  BY <1>1
<1> QED
  BY <1>1, <1>2, <1>3, <1>4, <1>5, MarksKeeps

-----------------------------------------------------------------------------
(* Every step, and what follows.                                           *)

LEMMA StutterKeeps == ASSUME AdaptiveInv, UNCHANGED vars PROVE AdaptiveInv'
<1>1. SettingsStand /\ PagesStand /\ CallsStand /\ DecisionStand /\ EngineStands /\ KeysStand
  BY Groups DEF vars, CallsStand
<1>2. UNCHANGED <<row, held, file, call, rec, recLock, audit, reading, todo, writing, key, revoking>>
  BY <1>1 DEF SettingsStand, CallsStand, DecisionStand, EngineStands, KeysStand
<1>3. TypeOK'
  BY <1>1 DEF AdaptiveInv, TypeOK, SettingsStand, PagesStand, CallsStand, DecisionStand,
              EngineStands, KeysStand
<1>4. HandsDecided' /\ DecidedOnce' /\ EnforcedWasApproved' /\ RowCurrent'
  BY <1>2, DecisionsApart, AuditApart, RowApart
<1> QED
  BY <1>1, <1>2, <1>3, <1>4, PagesApart DEF AdaptiveInv

LEMMA FileNextKeeps == ASSUME AdaptiveInv, FileNext PROVE AdaptiveInv'
BY EnsureConfigKeeps DEF FileNext

LEMMA CycleNextKeeps == ASSUME AdaptiveInv, CycleNext PROVE AdaptiveInv'
BY LoadConfigKeeps, WriteBackKeeps, CycleEndsKeeps DEF CycleNext

LEMMA KeyNextKeeps == ASSUME AdaptiveInv, KeyNext PROVE AdaptiveInv'
<1>1. CASE ListApproved
  BY <1>1, ListApprovedKeeps
<1>2. CASE Tick
  BY <1>2, TickKeeps
<1>3. ASSUME NEW r \in Rec, Lapses(r) \/ WriteKey(r) \/ Skips(r) PROVE AdaptiveInv'
  BY <1>3, LapsesKeeps, WriteKeyKeeps, SkipsKeeps
<1>4. ASSUME NEW r \in Rec, Activated(r) \/ DeletePolicy(r) \/ Revoked(r) PROVE AdaptiveInv'
  BY <1>4, ActivatedKeeps, DeletePolicyKeeps, RevokedKeeps
<1> QED
  BY <1>1, <1>2, <1>3, <1>4 DEF KeyNext

LEMMA PageNextKeeps == ASSUME NEW p \in Page, AdaptiveInv, PageNext(p) PROVE AdaptiveInv'
BY AnsweredKeeps, AnswerLostKeeps, ReloadKeeps, RolledBackKeeps DEF PageNext

LEMMA SettingsNextKeeps ==
  ASSUME NEW p \in Page, AdaptiveInv, SettingsNext(p) PROVE AdaptiveInv'
BY LoadKeeps, LoadedKeeps, EditKeeps, ApplyChangesKeeps, RevertChangesKeeps,
   SettingsLockedKeeps, PutKeeps, DeleteKeeps DEF SettingsNext, SaveNext

LEMMA DecisionNextKeeps ==
  ASSUME NEW p \in Page, AdaptiveInv, DecisionNext(p) PROVE AdaptiveInv'
<1>1. ASSUME NEW r \in Rec, Decide(p, r, "reject", 0) PROVE AdaptiveInv'
  BY <1>1, Constants, DecideKeeps
<1>2. ASSUME NEW r \in Rec, NEW dur \in Cfg, Decide(p, r, "approve", dur) PROVE AdaptiveInv'
  BY <1>2, DecideKeeps
<1> QED
  BY <1>1, <1>2, PatchLockedKeeps, PatchKeeps DEF DecisionNext

LEMMA NextKeeps == AdaptiveInv /\ [Next]_vars => AdaptiveInv'
<1> SUFFICES ASSUME AdaptiveInv, [Next]_vars PROVE AdaptiveInv'
  OBVIOUS
<1>1. CASE FileNext \/ CycleNext \/ KeyNext
  BY <1>1, FileNextKeeps, CycleNextKeeps, KeyNextKeeps
<1>2. CASE \E p \in Page : PageNext(p) \/ SettingsNext(p) \/ DecisionNext(p)
  BY <1>2, PageNextKeeps, SettingsNextKeeps, DecisionNextKeeps
<1>3. CASE UNCHANGED vars
  BY <1>3, StutterKeeps
<1> QED
  BY <1>1, <1>2, <1>3 DEF Next

\* Whatever pages, routes and engine do, in any order, the rows are locked by
\* the transactions under way, and a page holds no version to come and, under the
\* version of now, only a configuration the row has held, load_config's rewrites
\* under an equal version included.
THEOREM AdaptiveAlways == Spec => []AdaptiveInv
<1>1. Init => AdaptiveInv
  BY Initially
<1>2. AdaptiveInv /\ [Next]_vars => AdaptiveInv'
  BY NextKeeps
<1> QED
  BY <1>1, <1>2, PTL DEF Spec

\* Any number of analysts decide a recommendation once, and the audit has one
\* record of it: PATCH looks at the status under the row lock.
THEOREM DecisionsAreMadeOnce == Spec => []DecidedOnce
<1>1. AdaptiveInv => DecidedOnce
  BY DEF AdaptiveInv
<1> QED
  BY <1>1, AdaptiveAlways, PTL

\* A key of the engine's stands for a recommendation that was approved, and ends
\* no later than the window its approval opened, through cycles that stop between
\* the key and its mark and write the key again: what is written is what is left.
THEOREM EnforcedIsApproved == Spec => []EnforcedWasApproved
<1>1. AdaptiveInv => EnforcedWasApproved
  BY DEF AdaptiveInv
<1> QED
  BY <1>1, AdaptiveAlways, PTL

-----------------------------------------------------------------------------
(* Saving implements SavedConfig: what a page's next save is built on is   *)
(* what the abstract client has seen, and what load_config is about to     *)
(* write what the abstract engine puts back.                               *)

Cur == [cfg |-> row.doc.cfg, ver |-> row.ver, src |-> row.src]
Seen == [p \in Page |-> Plain(Basis(p))]

\* A step concerns no page but p.
OnlyPage(p) == \A q \in Page \ {p} : draft'[q] = draft[q] /\ call'[q] = call[q]

\* What SavedConfig knows of a document is something.
LEMMA PlainIsNone ==
  ASSUME NEW s \in Doc PROVE [cfg |-> s.cfg, ver |-> s.ver] # None
<1>1. s.cfg \in Cfg /\ s.ver \in Nat
  BY DocParts
<1>2. [cfg |-> s.cfg, ver |-> s.ver] \in [cfg : Cfg, ver : Nat]
  BY <1>1
<1> QED
  BY <1>2, AdaptiveNames

\* What a page builds on was in force once.
KnownBases ==
  \A p \in Page : Basis(p) = None \/ (Basis(p) \in Doc /\ Current(Basis(p)))

LEMMA BasesKnown == AdaptiveInv => KnownBases
<1> SUFFICES ASSUME AdaptiveInv, NEW p \in Page
             PROVE  Basis(p) = None \/ (Basis(p) \in Doc /\ Current(Basis(p)))
  BY DEF KnownBases
<1>1. CASE call[p].kind = "apply" /\ call[p].at \in {"sent", "locked"}
  <2>1. call[p].of # None
    BY <1>1 DEF AdaptiveInv, CallsComplete, InFlight
  <2>2. call[p].of \in Doc
    BY <2>1, CallParts DEF AdaptiveInv
  <2>3. Current(call[p].of)
    BY <2>1 DEF AdaptiveInv, PagesCurrent
  <2> QED
    BY <1>1, <2>2, <2>3 DEF Basis
<1>2. CASE ~(call[p].kind = "apply" /\ call[p].at \in {"sent", "locked"}) /\ draft[p] # None
  <2>1. draft[p].of \in Doc
    BY <1>2 DEF AdaptiveInv, TypeOK, Draft
  <2>2. Current(draft[p].of)
    BY <1>2 DEF AdaptiveInv, PagesCurrent
  <2> QED
    BY <1>2, <2>1, <2>2 DEF Basis
<1> QED
  BY <1>1, <1>2 DEF Basis

\* SavedConfig knows what the page builds on, and may know it.
KnownSeen ==
  \A p \in Page :
    \/ Plain(Basis(p)) = None
    \/ /\ Plain(Basis(p)) \in [cfg : Cfg, ver : Nat]
       /\ Plain(Basis(p)).ver <= row.ver
       /\ Plain(Basis(p)).ver = row.ver => Plain(Basis(p)).cfg \in held

LEMMA SeenKnown == AdaptiveInv => KnownSeen
<1> SUFFICES ASSUME AdaptiveInv, NEW p \in Page
             PROVE  \/ Plain(Basis(p)) = None
                    \/ /\ Plain(Basis(p)) \in [cfg : Cfg, ver : Nat]
                       /\ Plain(Basis(p)).ver <= row.ver
                       /\ Plain(Basis(p)).ver = row.ver => Plain(Basis(p)).cfg \in held
  BY DEF KnownSeen
<1> DEFINE d == Basis(p)
<1>1. d = None \/ (d \in Doc /\ Current(d))
  BY BasesKnown DEF KnownBases
<1> HIDE DEF d
<1>2. CASE d = None
  BY <1>2 DEF Plain, d
<1>3. CASE d # None
  <2>1. d.cfg \in Cfg /\ d.ver \in Nat /\ Current(d)
    BY <1>1, <1>3, DocParts
  <2>2. Plain(d) = [cfg |-> d.cfg, ver |-> d.ver]
    BY <1>3 DEF Plain
  <2>3. Plain(d) \in [cfg : Cfg, ver : Nat] /\ Plain(d).cfg = d.cfg /\ Plain(d).ver = d.ver
    BY <2>1, <2>2
  <2> QED
    BY <2>1, <2>3 DEF Current, d
<1> QED
  BY <1>2, <1>3

LEMMA SeenKnownNext == AdaptiveInv' => KnownSeen'
BY SeenKnown, PTL

\* A step of one page is one of its client learning something it may know.
LEMMA Learning ==
  ASSUME AdaptiveInv', NEW p \in Page, OnlyPage(p)
  PROVE  Saved!Learns(p)
<1>1. \A q \in Page \ {p} : Plain(Basis(q))' = Plain(Basis(q))
  BY DEF OnlyPage, Basis, Plain
<1>2. Seen' = [Seen EXCEPT ![p] = Seen'[p]]
  BY <1>1 DEF Seen
<1>3. KnownSeen'
  BY SeenKnownNext
<1>4. Saved!Known(Seen[p])'
  BY <1>3 DEF KnownSeen, Seen, Saved!Known, Saved!Read
<1> QED
  BY <1>2, <1>4 DEF Saved!Learns, Seen

\* What SavedConfig sees of the settings stays.
SettingsSeenStand == UNCHANGED <<row, held, file, reading>>

LEMMA Looking ==
  ASSUME AdaptiveInv', NEW p \in Page, OnlyPage(p), SettingsSeenStand
  PROVE  Saved!Next
<1>1. Saved!Learns(p)
  BY Learning
<1>2. UNCHANGED <<Cur, held, file, Plain(reading)>>
  BY DEF SettingsSeenStand, Cur, Plain
<1>3. Saved!Look(p)
  BY <1>1, <1>2 DEF Saved!Look, Cur
<1> QED
  BY <1>3 DEF Saved!Next

\* Every step of a page concerns that page alone, and changes the settings only
\* when it commits.
LEMMA BesidesStand ==
  /\ BesidesPages => SettingsSeenStand
  /\ BesidesDecisions => SettingsSeenStand /\ UNCHANGED draft
  /\ BesidesSettings => UNCHANGED <<file, reading, draft>>
BY Groups DEF SettingsSeenStand, SettingsStand, EngineStands, PagesStand

LEMMA PageAlone ==
  ASSUME AdaptiveInv, NEW p \in Page, PageNext(p) \/ SettingsNext(p) \/ DecisionNext(p)
  PROVE  OnlyPage(p) /\ (Put(p) \/ Delete(p) \/ SettingsSeenStand)
<1> USE DEF OnlyPage
<1>0. draft \in [Page -> Draft \cup {None}] /\ call \in [Page -> Call]
  BY DEF AdaptiveInv, TypeOK
<1>1. CASE Answered(p) \/ AnswerLost(p) \/ Reload(p)
  BY <1>0, <1>1, BesidesStand DEF Answered, AnswerLost, Reload, pageVars
<1>2. CASE RolledBack(p)
  BY <1>0, <1>2 DEF RolledBack, Refused, pageVars, engineVars, SettingsSeenStand
<1>3. CASE Load(p) \/ Loaded(p) \/ (\E c \in Cfg : Edit(p, c))
  BY <1>0, <1>3, BesidesStand DEF Load, Loaded, Edit
<1>4. CASE ApplyChanges(p) \/ RevertChanges(p)
  BY <1>0, <1>4, BesidesStand DEF ApplyChanges, RevertChanges, Send
<1>5. CASE SettingsLocked(p)
  BY <1>0, <1>5, BesidesStand DEF SettingsLocked, Refused, SettingsSeenStand
<1>6. CASE Put(p)
  BY <1>0, <1>6, BesidesStand DEF Put, Commit, Refused
<1>7. CASE Delete(p)
  BY <1>0, <1>7, BesidesStand DEF Delete, Commit, Refused
<1>8. ASSUME NEW r \in Rec, NEW d \in {"approve", "reject"}, NEW dur \in Cfg, Decide(p, r, d, dur)
      PROVE  OnlyPage(p) /\ SettingsSeenStand
  BY <1>0, <1>8, BesidesStand DEF Decide, Send
<1>9. CASE PatchLocked(p) \/ Patch(p)
  BY <1>0, <1>9, BesidesStand DEF PatchLocked, Patch, Refused
<1>10. CASE DecisionNext(p)
  BY <1>8, <1>9, <1>10, Constants DEF DecisionNext
<1>11. CASE PageNext(p)
  BY <1>1, <1>2, <1>11 DEF PageNext
<1>12. CASE SettingsNext(p)
  BY <1>3, <1>4, <1>5, <1>6, <1>7, <1>12 DEF SettingsNext, SaveNext
<1> QED
  BY <1>10, <1>11, <1>12

\* What a commit makes of the settings is a change of SavedConfig's.
LEMMA Committing ==
  ASSUME NEW p \in Page, NEW c, NEW src, NEW old, Commit(p, c, src, old)
  PROVE  Saved!Changes(c, src)
<1> DEFINE doc == [cfg |-> c, ver |-> row.ver + 1, old |-> old]
<1>1. row' = [doc |-> doc, ver |-> doc.ver, src |-> src] /\ held' = {c}
  BY DEF Commit
<1>2. row'.doc.cfg = c /\ row'.ver = row.ver + 1 /\ row'.src = src
  BY <1>1
<1>3. Cur' = [cfg |-> c, ver |-> Cur.ver + 1, src |-> src]
  BY <1>2 DEF Cur
<1> QED
  BY <1>1, <1>3 DEF Saved!Changes, Cur

\* PUT commits on top of what its page had read.
LEMMA PutSaves ==
  ASSUME AdaptiveInv, AdaptiveInv', NEW p \in Page, Put(p)
  PROVE  Saved!Next
<1>1. OnlyPage(p)
  BY PageAlone DEF SettingsNext, SaveNext
<1>2. BesidesSettings /\ call[p].at = "locked" /\ call[p].kind = "apply"
  BY DEF Put
<1>3. UNCHANGED <<file, reading>>
  BY <1>2, BesidesStand
<1>4. CASE UNCHANGED <<row, held>>
  BY <1>1, <1>3, <1>4, Looking DEF SettingsSeenStand
<1>5. CASE call[p].of.ver = row.ver
  <2>1. PICK old \in {FALSE, call[p].of.old} : Commit(p, call[p].cfg, "console", old)
    BY <1>5 DEF Put
  <2>2. Basis(p) = call[p].of
    BY <1>2 DEF Basis
  <2>3. call[p].of # None
    BY <1>2 DEF AdaptiveInv, CallsComplete, InFlight
  <2>4. Plain(Basis(p)) = [cfg |-> call[p].of.cfg, ver |-> call[p].of.ver]
    BY <2>2, <2>3 DEF Plain
  <2>5. Plain(Basis(p)).ver = Cur.ver
    BY <2>4, <1>5 DEF Cur
  <2>6. Plain(Basis(p)) # None
    <3>1. call[p].of \in Doc
      BY <2>3, CallParts DEF AdaptiveInv
    <3>2. [cfg |-> call[p].of.cfg, ver |-> call[p].of.ver] # None
      BY PlainIsNone, <3>1
    <3> QED
      BY <3>2, <2>4
  <2>7. Saved!Known(Seen[p])
    BY SeenKnown DEF KnownSeen, Seen, Saved!Known, Saved!Read
  <2>8. Seen[p] # None /\ Seen[p].ver = Cur.ver
    BY <2>5, <2>6 DEF Seen
  <2>9. call[p].cfg \in Cfg
    BY CallParts DEF AdaptiveInv
  <2>10. Saved!Changes(call[p].cfg, "console")
    BY <2>1, Committing
  <2>11. Saved!Learns(p)
    BY <1>1, Learning
  <2>12. UNCHANGED <<file, Plain(reading)>>
    BY <1>3 DEF Plain
  <2>13. Saved!Save(p)
    BY <2>7, <2>8, <2>9, <2>10, <2>11, <2>12 DEF Saved!Save, Seen, Cur
  <2> QED
    BY <2>13 DEF Saved!Next
<1> QED
  BY <1>4, <1>5 DEF Put

\* DELETE is a revert.
LEMMA DeleteReverts ==
  ASSUME AdaptiveInv, AdaptiveInv', NEW p \in Page, Delete(p)
  PROVE  Saved!Next
<1>1. OnlyPage(p)
  BY PageAlone DEF SettingsNext, SaveNext
<1>2. BesidesSettings
  BY DEF Delete
<1>3. UNCHANGED <<file, reading>>
  BY <1>2, BesidesStand
<1>4. CASE UNCHANGED <<row, held>>
  BY <1>1, <1>3, <1>4, Looking DEF SettingsSeenStand
<1>5. CASE Commit(p, file, "file", FALSE)
  <2>1. Saved!Changes(file, "file")
    BY <1>5, Committing
  <2>2. Saved!Learns(p)
    BY <1>1, Learning
  <2>3. UNCHANGED <<file, Plain(reading)>>
    BY <1>3 DEF Plain
  <2>4. Saved!Revert(p)
    BY <2>1, <2>2, <2>3 DEF Saved!Revert
  <2> QED
    BY <2>4 DEF Saved!Next
<1> QED
  BY <1>4, <1>5 DEF Delete

\* No step of the engine or of a key touches what a page builds on.
LEMMA SeenStands ==
  ASSUME UNCHANGED <<draft, call>>
  PROVE  UNCHANGED Seen
<1>1. \A p \in Page : Plain(Basis(p))' = Plain(Basis(p))
  BY DEF Basis, Plain
<1> QED
  BY <1>1 DEF Seen

LEMMA EngineStandsApart ==
  BesidesEngine => UNCHANGED <<draft, call>>
BY Groups DEF PagesStand, CallsStand

\* A start of the engine is a restart.
LEMMA StartRestarts ==
  ASSUME AdaptiveInv, FileNext
  PROVE  Saved!Next
<1>1. PICK c \in Cfg \ {0}, v \in 1..(row.ver + 1) : EnsureConfig(c, v)
  BY DEF FileNext
<1>2. file' = c /\ Idle /\ BesidesEngine
  BY <1>1 DEF EnsureConfig
<1>3. UNCHANGED Seen
  BY <1>2, EngineStandsApart, SeenStands
<1>4. Plain(reading)' = None
  BY <1>2 DEF Idle, Plain
<1>5. IF Cur.src = "file" /\ Cur.cfg # file' THEN Saved!Changes(file', "file")
      ELSE UNCHANGED <<Cur, held>>
  <2>1. Cur.src = row.src /\ Cur.cfg = row.doc.cfg
    BY DEF Cur
  <2>2. CASE row.src = "file" /\ row.doc.cfg # c
    <3>1. /\ row' = [doc |-> [cfg |-> c, ver |-> v, old |-> FALSE],
                     ver |-> row.ver + 1, src |-> "file"]
          /\ held' = {c}
      BY <1>1, <2>2 DEF EnsureConfig
    <3>2. row'.doc.cfg = c /\ row'.ver = row.ver + 1 /\ row'.src = "file"
      BY <3>1
    <3>3. Cur' = [cfg |-> file', ver |-> Cur.ver + 1, src |-> "file"]
      BY <1>2, <3>2 DEF Cur
    <3>4. Saved!Changes(file', "file")
      BY <1>2, <3>1, <3>3 DEF Saved!Changes, Cur
    <3> QED
      BY <3>4, <2>1, <2>2, <1>2
  <2>3. CASE ~(row.src = "file" /\ row.doc.cfg # c)
    <3>1. UNCHANGED <<row, held>>
      BY <1>1, <2>3 DEF EnsureConfig
    <3>2. UNCHANGED <<Cur, held>>
      BY <3>1 DEF Cur
    <3> QED
      BY <3>2, <2>1, <2>3, <1>2
  <2> QED
    BY <2>2, <2>3
<1>6. Saved!Restart
  BY <1>2, <1>3, <1>4, <1>5 DEF Saved!Restart, Cur, Seen
<1> QED
  BY <1>6 DEF Saved!Next

\* load_config reads, and may write back later.
LEMMA LoadReads ==
  ASSUME AdaptiveInv, LoadConfig
  PROVE  Saved!Next
<1>1. SettingsStand /\ BesidesEngine
  BY Groups DEF LoadConfig
<1>2. UNCHANGED Seen
  BY <1>1, EngineStandsApart, SeenStands
<1>3. UNCHANGED <<Cur, held, file>>
  BY <1>1 DEF SettingsStand, Cur
<1>4. Plain(reading)' \in {None} \cup [cfg : {Cur.cfg, file}, ver : {Cur.ver}]
  <2>1. reading' # None => reading'.ver = row.ver /\ reading'.cfg \in {row.doc.cfg, file}
    BY LoadConfigParts
  <2>2. CASE reading' = None
    BY <2>2 DEF Plain
  <2>3. CASE reading' # None
    <3>1. Plain(reading)' = [cfg |-> reading'.cfg, ver |-> reading'.ver]
      BY <2>3 DEF Plain
    <3> QED
      BY <3>1, <2>1, <2>3 DEF Cur
  <2> QED
    BY <2>2, <2>3
<1>5. Saved!Reads
  BY <1>2, <1>3, <1>4 DEF Saved!Reads, Cur, Seen
<1> QED
  BY <1>5 DEF Saved!Next

\* A cycle that ends writes nothing back.
LEMMA EndReads ==
  ASSUME AdaptiveInv, CycleEnds
  PROVE  Saved!Next
<1>1. SettingsStand /\ BesidesEngine /\ Idle
  BY Groups DEF CycleEnds
<1>2. UNCHANGED Seen
  BY <1>1, EngineStandsApart, SeenStands
<1>3. UNCHANGED <<Cur, held, file>>
  BY <1>1 DEF SettingsStand, Cur
<1>4. Plain(reading)' = None
  BY <1>1 DEF Idle, Plain
<1>5. Saved!Reads
  BY <1>2, <1>3, <1>4 DEF Saved!Reads, Cur, Seen
<1> QED
  BY <1>5 DEF Saved!Next

\* Its UPDATE puts the configuration back.
LEMMA WritePutsBack ==
  ASSUME AdaptiveInv, WriteBack
  PROVE  Saved!Next
<1> DEFINE e == Plain(reading)
<1>1. BesidesEngine /\ UNCHANGED file /\ reading # None
  BY DEF WriteBack
<1>2. UNCHANGED Seen
  BY <1>1, EngineStandsApart, SeenStands
<1>3. /\ row'.doc = reading /\ row'.ver = row.ver /\ row'.src = row.src
      /\ held' = held \cup {reading.cfg} /\ reading' = None /\ reading \in Doc
  BY WriteBackParts
<1>4. Plain(reading) = [cfg |-> reading.cfg, ver |-> reading.ver]
  BY <1>1 DEF Plain
<1>5. Plain(reading).cfg = reading.cfg /\ Plain(reading).ver = reading.ver
  BY <1>4
<1>6. Plain(reading) # None
  BY <1>3, <1>4, PlainIsNone
<1>7. Plain(reading).ver = Cur.ver => Plain(reading).cfg \in {Cur.cfg, file}
  BY <1>1, <1>5 DEF AdaptiveInv, RowCurrent, Cur
<1>8. Cur' = [Cur EXCEPT !.cfg = Plain(reading).cfg]
  BY <1>3, <1>5 DEF Cur
<1>9. held' = held \cup {Plain(reading).cfg}
  BY <1>3, <1>5
<1>10. Plain(reading)' = None
  BY <1>3 DEF Plain
<1>11. Saved!PutBack
  BY <1>1, <1>2, <1>6, <1>7, <1>8, <1>9, <1>10 DEF Saved!PutBack, Cur, Seen
<1> QED
  BY <1>11 DEF Saved!Next

\* A step of the keys, or none, is none of SavedConfig's.
LEMMA KeysUnseen ==
  ASSUME KeyNext \/ UNCHANGED vars
  PROVE  UNCHANGED <<Cur, held, file, Plain(reading), Seen>>
<1>1. SettingsSeenStand /\ UNCHANGED <<draft, call>>
  <2>1. CASE ListApproved
    BY <2>1, Groups, EngineStandsApart DEF ListApproved, SettingsStand, SettingsSeenStand
  <2>2. CASE Tick \/ (\E r \in Rec : DeletePolicy(r) \/ Revoked(r))
    BY <2>2, Groups
    DEF Tick, DeletePolicy, Revoked, SettingsStand, EngineStands, PagesStand, SettingsSeenStand
  <2>3. CASE \E r \in Rec : Lapses(r) \/ WriteKey(r) \/ Skips(r) \/ Activated(r)
    BY <2>3, Groups, EngineStandsApart
    DEF Lapses, WriteKey, Skips, Activated, SettingsStand, SettingsSeenStand
  <2>4. CASE UNCHANGED vars
    BY <2>4, Groups DEF vars, SettingsStand, EngineStands, PagesStand, SettingsSeenStand
  <2> QED
    BY <2>1, <2>2, <2>3, <2>4 DEF KeyNext
<1>2. UNCHANGED Seen
  BY <1>1, SeenStands
<1> QED
  BY <1>1, <1>2 DEF SettingsSeenStand, Cur, Plain

\* However many pages save and revert, whatever the file says when the engine
\* starts and whatever load_config writes back, PUT implements a save on top of
\* what its page had read, and load_config undoes only what came after it read.
THEOREM SavingImplementsSavedConfig == Spec => SavesOnWhatItRead
<1>1. Init => Saved!Init
  <2> SUFFICES ASSUME Init PROVE Saved!Init
    OBVIOUS
  <2>1. Cur \in [cfg : Cfg, ver : Nat, src : {"file", "console"}] /\ held = {Cur.cfg}
    <3>1. row.doc.cfg \in Cfg /\ row.ver \in Nat /\ row.src \in {"file", "console"}
      BY Initially, RowParts DEF AdaptiveInv
    <3>2. held = {row.doc.cfg}
      <4>1. PICK c \in Cfg \ {0}, src \in {"file", "console"}, old \in BOOLEAN :
              /\ row = [doc |-> [cfg |-> c, ver |-> 1, old |-> old], ver |-> 1, src |-> src]
              /\ held = {c}
        BY DEF Init
      <4>2. row.doc.cfg = c
        BY <4>1
      <4> QED
        BY <4>1, <4>2
    <3> QED
      BY <3>1, <3>2 DEF Cur
  <2>2. file \in Cfg /\ Plain(reading) = None
    BY DEF Init, Plain
  <2>3. \A p \in Page : Plain(Basis(p)) = None
    BY DEF Init, Basis, NoCall, Plain
  <2>4. Seen = [p \in Page |-> None]
    BY <2>3 DEF Seen
  <2> QED
    BY <2>1, <2>2, <2>4 DEF Saved!Init, Saved!Config, Cur, Seen
<1>2. AdaptiveInv /\ AdaptiveInv' /\ [Next]_vars
        => [Saved!Next]_<<Cur, held, file, Plain(reading), Seen>>
  <2> SUFFICES ASSUME AdaptiveInv, AdaptiveInv', [Next]_vars
               PROVE  Saved!Next \/ UNCHANGED <<Cur, held, file, Plain(reading), Seen>>
    OBVIOUS
  <2>1. CASE KeyNext \/ UNCHANGED vars
    BY <2>1, KeysUnseen
  <2>2. CASE FileNext \/ CycleNext
    BY <2>2, StartRestarts, LoadReads, EndReads, WritePutsBack DEF CycleNext
  <2>3. ASSUME NEW p \in Page, PageNext(p) \/ SettingsNext(p) \/ DecisionNext(p)
        PROVE  Saved!Next
    BY <2>3, PageAlone, Looking, PutSaves, DeleteReverts
  <2> QED
    BY <2>1, <2>2, <2>3 DEF Next
<1> QED
  BY <1>1, <1>2, AdaptiveAlways, PTL DEF Spec, SavesOnWhatItRead, Saved!Spec, Cur, Seen
=============================================================================

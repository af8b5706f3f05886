--------------------------- MODULE ConsoleProtection ---------------------------
(***************************************************************************)
(* The Protection page (settings/page.jsx) and /api/settings: a tab loads  *)
(* what the gateway enforces, edits a draft, writes it to the requested    *)
(* key, and six seconds later reads the effective key to say whether the   *)
(* gateway took it.  The gateway itself is LiveSettings; here it does      *)
(* whatever both promise in SettingsContract.                              *)
(***************************************************************************)
EXTENDS Naturals, FiniteSets, Sequences

CONSTANTS
  Tab,        \* pages open at once
  Check,      \* bound: six-second checks of a tab that are due at once
  Value,      \* settings blocks
  Valid,      \* those validateSettings lets through
  File,       \* the config file's block
  Unset,      \* no key, nothing loaded
  MaxApplies  \* bound: writes

ASSUME ProtectionConstants ==
  /\ MaxApplies \in Nat
  /\ File \in Valid /\ Valid \subseteq Value /\ Unset \notin Value

VARIABLES
  requests,   \* history: what iasg:settings was written with, Unset: removed
  reached,    \* history: the request the gateway has got to
  effective,  \* iasg:settings:effective, [value, source], Unset when it lapsed
  applies,
  tab,        \* per tab: [saved, source, error, draft, confirming, toast]
  write,      \* per tab: the write it is busy with
  load,       \* per tab: the answer of GET that is on its way
  due         \* per tab and check: what it will compare with

protectionVars == <<requests, reached, effective, applies, tab, write, load, due>>

\* iasg:settings
requested == IF requests = <<>> THEN Unset ELSE requests[Len(requests)]

Settings  == [value : Value, source : {"file", "console"}]
FileInForce == [value |-> File, source |-> "file"]
NoRequest == [kind |-> "none", value |-> Unset]
\* A check knows what was sent; "since" is history, the blocks that were in
\* force at some time after the write.
NoCheck   == [kind |-> "none", value |-> Unset, since |-> {}]

RequestsTyped == requests \in Seq(Value \cup {Unset}) /\ reached \in 0..Len(requests)

ProtectionTypeOK ==
  /\ RequestsTyped
  /\ effective \in Settings \cup {Unset}
  /\ applies \in 0..MaxApplies
  /\ \A t \in Tab :
       /\ tab[t].saved \in Value \cup {Unset} /\ tab[t].draft \in Value \cup {Unset}
       /\ tab[t].source \in {"file", "console"} /\ tab[t].error \in BOOLEAN
       /\ tab[t].confirming \in {"", "apply", "revert"}
       /\ tab[t].toast \in {"", "sent", "failed", "rejected", "enforcing", "unfounded"}
       /\ write[t].kind \in {"none", "apply", "revert", "ok", "failed"}
       /\ \A c \in Check : due[t][c].since \subseteq Value

ProtectionInit ==
  /\ requests = <<>> /\ reached = 0
  /\ effective \in {Unset, FileInForce}
  /\ applies = 0
  /\ tab = [t \in Tab |-> [saved |-> Unset, source |-> "file", error |-> FALSE,
                           draft |-> Unset, confirming |-> "", toast |-> ""]]
  /\ write = [t \in Tab |-> NoRequest]
  /\ load = [t \in Tab |-> <<>>]
  /\ due = [t \in Tab |-> [c \in Check |-> NoCheck]]

-----------------------------------------------------------------------------
(* load(): GET reads the effective key, never the requested one.           *)

\* Mutant: the page is shown what was asked for.
GETRequested == IF requested = Unset THEN effective ELSE [value |-> requested, source |-> "console"]

GET == effective

\* The page opens, or a check falls due: "for" is the check that asked.
AskSettings(t, for) ==
  /\ load[t] = <<>>
  /\ load' = [load EXCEPT ![t] = <<for, GET>>]

Opens(t) ==
  /\ tab[t].saved = Unset
  /\ AskSettings(t, NoCheck)
  /\ UNCHANGED <<requests, reached, effective, applies, tab, write, due>>

DueNow(t, c) ==
  /\ due[t][c].kind # "none"
  /\ AskSettings(t, due[t][c])
  /\ due' = [due EXCEPT ![t][c] = NoCheck]
  /\ UNCHANGED <<requests, reached, effective, applies, tab, write>>

\* What a check says when it has its answer.
Verdict(check, now) ==
  IF check.kind # "apply" THEN ""
  ELSE IF now # check.value THEN "rejected"
  ELSE IF now \in check.since THEN "enforcing" ELSE "unfounded"

\* A check that finds another block than it sent, and one of a revert, replaces
\* the draft, whatever was edited since.
Loaded(t) ==
  LET for == load[t][1]
      answer == load[t][2]
  IN /\ load[t] # <<>>
     /\ load' = [load EXCEPT ![t] = <<>>]
     /\ tab' = [tab EXCEPT ![t] =
          IF answer = Unset THEN [tab[t] EXCEPT !.error = TRUE]
          ELSE [tab[t] EXCEPT !.error = FALSE, !.saved = answer.value, !.source = answer.source,
                  !.draft = IF for.kind = "apply" /\ answer.value = for.value THEN @ ELSE answer.value,
                  !.toast = IF for.kind = "apply" THEN Verdict(for, answer.value) ELSE @]]
     /\ UNCHANGED <<requests, reached, effective, applies, write, due>>

\* Nothing can be pressed before there is a draft, or while an error stands.
Usable(t) == tab[t].draft # Unset /\ ~tab[t].error

Edit(t, v) ==
  /\ Usable(t) /\ tab[t].draft # v
  /\ tab' = [tab EXCEPT ![t].draft = v]
  /\ UNCHANGED <<requests, reached, effective, applies, write, load, due>>

\* The two buttons, and the dialog's cancel.
Confirm(t, mode) ==
  /\ Usable(t)
  /\ write[t] = NoRequest
  /\ CASE mode = "apply" -> tab[t].draft # tab[t].saved
       [] mode = "revert" -> tab[t].source = "console"
       [] OTHER -> tab[t].confirming # ""
  /\ tab' = [tab EXCEPT ![t].confirming = mode]
  /\ UNCHANGED <<requests, reached, effective, applies, write, load, due>>

-----------------------------------------------------------------------------
(* apply() and revert().                                                   *)

Send(t) ==
  /\ Usable(t) /\ tab[t].confirming # "" /\ write[t] = NoRequest
  /\ applies < MaxApplies /\ applies' = applies + 1
  /\ write' = [write EXCEPT ![t] = [kind |-> tab[t].confirming, value |-> tab[t].draft]]
  /\ UNCHANGED <<requests, reached, effective, tab, load, due>>

\* The check of a write starts with its answer, six seconds ahead.
Later(t, kind, value) ==
  \E c \in Check :
    /\ due[t][c].kind = "none"
    /\ due' = [due EXCEPT ![t][c] =
         [kind |-> kind, value |-> value,
          since |-> IF effective = Unset THEN {} ELSE {effective.value}]]

\* POST validates and overwrites the whole key; DELETE removes it.
Stored(t) ==
  /\ write[t].kind \in {"apply", "revert"}
  /\ write[t].kind = "apply" => write[t].value \in Valid
  /\ requests' = Append(requests, IF write[t].kind = "apply" THEN write[t].value ELSE Unset)
  /\ Later(t, write[t].kind, write[t].value)
  /\ tab' = [tab EXCEPT ![t].confirming = "", ![t].toast = "sent"]
  /\ write' = [write EXCEPT ![t] = NoRequest]
  /\ UNCHANGED <<reached, effective, applies, load>>

\* Refused, without Redis, or the answer was lost: the key may be written.
NotStored(t) ==
  /\ write[t].kind \in {"apply", "revert"}
  /\ \/ UNCHANGED requests
     \/ \E r \in IF write[t].kind = "revert" THEN {Unset} ELSE {write[t].value} \cap Valid :
          requests' = Append(requests, r)
  /\ tab' = [tab EXCEPT ![t].toast = "failed"]
  /\ write' = [write EXCEPT ![t] = NoRequest]
  /\ UNCHANGED <<reached, effective, applies, load, due>>

-----------------------------------------------------------------------------
(* The gateway gets to a request, late or with others left out; or keeps   *)
(* what it has, refusing them; or starts again with its file; or stops.    *)

Publish(e) ==
  /\ effective # e
  /\ effective' = e
  /\ due' = [t \in Tab |-> [c \in Check |->
       IF due[t][c].kind = "none" \/ e = Unset THEN due[t][c]
       ELSE [due[t][c] EXCEPT !.since = @ \cup {e.value}]]]
  /\ UNCHANGED <<requests, applies, tab, write, load>>

SettingsOf(n) ==
  IF n = 0 \/ requests[n] = Unset THEN FileInForce ELSE [value |-> requests[n], source |-> "console"]

GatewayTakes == \E n \in reached..Len(requests) : Publish(SettingsOf(n)) /\ reached' = n

GatewayRestarts == Publish(FileInForce) /\ UNCHANGED reached

GatewayLapses == Publish(Unset) /\ UNCHANGED reached

-----------------------------------------------------------------------------

ProtectionNext ==
  \/ \E t \in Tab : Opens(t) \/ Loaded(t) \/ Send(t) \/ Stored(t) \/ NotStored(t)
  \/ \E t \in Tab, c \in Check : DueNow(t, c)
  \/ \E t \in Tab, v \in Value : Edit(t, v)
  \/ \E t \in Tab, m \in {"", "apply", "revert"} : Confirm(t, m)
  \/ GatewayTakes \/ GatewayRestarts \/ GatewayLapses

ProtectionSpec == ProtectionInit /\ [][ProtectionNext]_protectionVars

-----------------------------------------------------------------------------

\* "The gateway is enforcing the new protection settings" is said only of a
\* block that was in force at some time after it was sent: not of one the
\* gateway refused, nor of another tab's, nor by the check of an earlier write.
EnforcingIsFounded == \A t \in Tab : tab[t].toast # "unfounded"

Page == [saved : Value \cup {Unset}, source : {"file", "console"}, error : BOOLEAN,
         draft : Value \cup {Unset}, confirming : {"", "apply", "revert"},
         toast : {"", "sent", "failed", "rejected", "enforcing", "unfounded"}]
Checking == [kind : {"none", "apply", "revert"}, value : Value \cup {Unset}, since : SUBSET Value]

\* Inductive: what is in force now was in force since every write that is still to
\* be checked, and so was what a check has already read.
ProtectionInv ==
  /\ EnforcingIsFounded
  /\ RequestsTyped
  /\ effective \in Settings \cup {Unset}
  /\ applies \in 0..MaxApplies
  /\ tab \in [Tab -> Page]
  /\ write \in [Tab -> [kind : {"none", "apply", "revert"}, value : Value \cup {Unset}]]
  /\ due \in [Tab -> [Check -> Checking]]
  /\ \A t \in Tab, c \in Check :
       due[t][c].kind # "none" /\ effective # Unset => effective.value \in due[t][c].since
  /\ load = [t \in Tab |-> load[t]]
  /\ \A t \in Tab : load[t] # <<>> =>
       /\ load[t][1] \in Checking /\ load[t][2] \in Settings \cup {Unset}
       /\ load[t][1].kind = "apply" /\ load[t][2] # Unset => load[t][2].value \in load[t][1].since

\* What the Protection page lets the gateway do is what LiveSettings does of it.
Contract == INSTANCE SettingsContract WITH Block <- Value, Nothing <- Unset

GatewayKeepsContract == Contract!Spec
=============================================================================

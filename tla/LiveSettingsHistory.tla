------------------------- MODULE LiveSettingsHistory -------------------------
(***************************************************************************)
(* LiveSettings with a record of what was asked for, and of which request  *)
(* the watcher read, applied and published last.  The record decides       *)
(* nothing: every action is one of LiveSettings.  With it the settings of  *)
(* the gateway implement SettingsContract.                                 *)
(***************************************************************************)
EXTENDS LiveSettings, Naturals, Sequences

VARIABLES
  requests,   \* every override written and cleared, in order
  read,       \* the one the watcher last began to apply
  held,       \* the one it last recorded as applied
  reached     \* the one it had recorded when it last published

historyVars == <<requests, read, held, reached>>

HistoryInit ==
  /\ Init
  /\ requests = IF override = NoOverride THEN <<>> ELSE <<override>>
  /\ read = 0 /\ held = 0 /\ reached = 0

\* What the console asks for, and what the watcher makes of it.
Asks(action, r) ==
  /\ action
  /\ requests' = Append(requests, r)
  /\ UNCHANGED <<read, held, reached>>

Reads(action) ==
  /\ action
  /\ read' = IF pc' = "reflex" THEN Len(requests) ELSE read
  /\ UNCHANGED <<requests, held, reached>>

HistoryNext ==
  \/ \E cfg \in Setting : Asks(PutOverride(cfg), cfg)
  \/ Asks(ClearOverride, NoOverride)
  \/ Reads(PollCleared) \/ Reads(PollOffered)
  \/ ApplyEnforcer /\ held' = read /\ UNCHANGED <<requests, read, reached>>
  \/ Publish /\ reached' = (IF effective' = applied THEN held ELSE reached) /\ UNCHANGED <<requests, read, held>>
  \/ /\ Stop \/ Boot \/ Lapse \/ PollFails \/ PollUnchanged \/ ApplyReflex \/ ApplyGate \/ BuildChain
     /\ UNCHANGED historyVars

HistorySpec == HistoryInit /\ [][HistoryNext]_<<vars, historyVars>>

\* These settings are the file's, or what request n asked for.
Answers(s, n) ==
  \/ s = FromFile
  \/ /\ n # 0 /\ requests[n] # NoOverride
     /\ s = [cfg |-> requests[n], source |-> "console"]

\* Why the contract is kept: the watcher gets to the requests in the order they
\* were made, and what it applies is what the one it read asked for.
HistoryInv ==
  /\ SettingsInv
  /\ requests \in Seq(Setting \cup {NoOverride})
  /\ override = IF requests = <<>> THEN NoOverride ELSE requests[Len(requests)]
  /\ {read, held, reached} \subseteq Nat
  /\ reached <= held /\ held <= read /\ read <= Len(requests)
  /\ Answers(applied, held)
  /\ pc \in {"reflex", "gate", "enforcer"} => Answers(target, read)

Published ==
  IF effective = NoValue THEN NoOverride
  ELSE [value |-> effective.cfg, source |-> effective.source]

Contract == INSTANCE SettingsContract WITH
  Block <- Setting, Nothing <- NoOverride, effective <- Published

\* What the gateway publishes answers the requests in their order: once it has
\* shown one, no earlier one comes back, whatever was refused, cleared or asked for
\* again meanwhile, and however often it was restarted or could not reach Redis.
AnswersInOrder == Contract!Spec
=============================================================================

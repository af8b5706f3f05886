----------------------------- MODULE MCAdaptive -----------------------------
(* Saving the settings and deciding on recommendations meet only in the     *)
(* configuration, which the engine changes in both: each behaviour          *)
(* exercises one of them.  Where there are three versions to save, on top   *)
(* of what the console saved before, what is under way and concerns nobody  *)
(* else is finished first; with two versions, saves, reverts and files that *)
(* change come in any order.                                                *)
EXTENDS AdaptiveSettings, TLC

VARIABLE part

Symmetry == Permutations(Page)

AdaptiveInit ==
  /\ Init
  /\ \/ part = "saving" /\ row.src = "console" /\ row.doc.cfg # file
     \/ part \in {"reverting", "decisions"} /\ row.src = "file" /\ file = MaxCfg

\* Of a page that has an answer or the row's lock, and of a cycle that has
\* nothing to write back, the next step is the next of all; and no page is loaded
\* again while its save is on its way.
Undelayed ==
  /\ \A p \in Page : call[p].at = "sent" => draft'[p] = draft[p]
  /\ \A p \in Page : loads[p] # {} \/ call[p].at \in {"locked", "ok", "refused"}
                       => <<loads[p], call[p]>>' # <<loads[p], call[p]>>
  /\ stage # "idle" /\ reading = None => stage' = "idle"

AdaptiveNext ==
  /\ UNCHANGED part
  /\ \/ \E p \in Page : PageNext(p)
     \/ part = "saving" /\ \E p \in Page : SaveNext(p)
     \/ part = "reverting" /\ (FileNext \/ \E p \in Page : SettingsNext(p))
     \/ part # "decisions" /\ CycleNext /\ (stage = "idle" => reading' # None)
     \/ /\ part = "decisions"
        /\ CycleNext \/ KeyNext \/ \E p \in Page : DecisionNext(p)
     \/ /\ part = "decisions"
        /\ \E c \in Cfg \ {0} : EnsureConfig(c, row.ver + 1)
  /\ IF part = "saving" THEN Undelayed ELSE row'.ver < MaxVer

AdaptiveSpec == AdaptiveInit /\ [][AdaptiveNext]_<<vars, part>>
=============================================================================

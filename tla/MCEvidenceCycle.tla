--------------------------- MODULE MCEvidenceCycle ---------------------------
(* EvidenceCycle, reads of one entry at a time so that every batch is full: a  *)
(* fault anywhere while one address is in play, and two addresses without a    *)
(* fault.  Neither part holds back a step of the cycle, which alone is fair.   *)
EXTENDS EvidenceCycle

VARIABLE part

InPlay == {stream[k].ip : k \in DOMAIN stream} \cup {overrides[k] : k \in DOMAIN overrides}

PartInit == Init /\ part \in {"faults", "addresses"}

PartNext ==
  /\ UNCHANGED part
  /\ Next
  /\ IF part = "faults" THEN InPlay' \subseteq {Clean, CHOOSE ip \in IP : TRUE} ELSE faults' = 0

PartSpec == PartInit /\ [][PartNext]_<<vars, part>> /\ WF_vars(Cycle)
=============================================================================

--------------------------- MODULE MCLiveSettings ---------------------------
(* LiveSettings with a file that enforces decisions only and overrides that    *)
(* arm the reflex, enforce a baseline, switch all off, are refused and do not  *)
(* decode.                                                                     *)
EXTENDS LiveSettings

Cfg(n, p, a, b, f) ==
  [name |-> n, policy |-> p, armed |-> a, baseline |-> b, fate |-> f]

MCFile == Cfg("file", TRUE, FALSE, FALSE, "usable")
MCSetting ==
  {MCFile,
   Cfg("reflex", FALSE, TRUE, FALSE, "usable"),
   Cfg("baseline", FALSE, FALSE, TRUE, "usable"),
   Cfg("typo", TRUE, TRUE, TRUE, "refused"),
   Cfg("garbled", FALSE, FALSE, FALSE, "undecodable")}
=============================================================================

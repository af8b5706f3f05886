--------------------------- MODULE SettingsContract ---------------------------
(***************************************************************************)
(* What the console and the gateway promise each other about the           *)
(* protection settings.  The console asks, for a block of settings or to   *)
(* go back to the file; the gateway publishes what it enforces: the file,  *)
(* or a block that was asked for.  It may be late and leave requests out,  *)
(* but never goes back behind a request it has answered; and what it       *)
(* published lapses when it is gone.                                       *)
(***************************************************************************)
EXTENDS Naturals, Sequences

CONSTANTS Block, File, Nothing

VARIABLES
  requests,   \* what was asked for, in order; Nothing: the file
  reached,    \* the request the gateway has got to
  effective   \* what it publishes

FileInForce == [value |-> File, source |-> "file"]

\* What request n asks for; before the first, the file.
SettingsOf(n) ==
  IF n = 0 \/ requests[n] = Nothing THEN FileInForce
  ELSE [value |-> requests[n], source |-> "console"]

\* A request may stand from before.
Init ==
  /\ requests \in {<<>>} \cup {<<b>> : b \in Block}
  /\ reached = 0
  /\ effective \in {Nothing, FileInForce}

Ask ==
  /\ \E r \in Block \cup {Nothing} : requests' = Append(requests, r)
  /\ UNCHANGED <<reached, effective>>

\* A gateway that starts again may publish its file whatever it got to before.
Publish ==
  /\ reached' \in reached..Len(requests)
  /\ effective' \in {FileInForce, SettingsOf(reached')}
  /\ UNCHANGED requests

Lapse == effective' = Nothing /\ UNCHANGED <<requests, reached>>

Next == Ask \/ Publish \/ Lapse

Spec == Init /\ [][Next]_<<requests, reached, effective>>
=============================================================================

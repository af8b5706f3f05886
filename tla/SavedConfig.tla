----------------------------- MODULE SavedConfig -----------------------------
(***************************************************************************)
(* What saving the adaptive settings promises.  There is one configuration *)
(* in force, with a version.  A client holds some configuration it has     *)
(* read, perhaps an old one, and saves only on top of the version in       *)
(* force: nobody's change is overwritten unseen by a client's save.        *)
(*                                                                         *)
(* The engine is the one writer that compares nothing: it puts back what   *)
(* it had made of the configuration it read, under whatever version is in  *)
(* force by then.  That undoes a change only if the change came after the  *)
(* reading, or for the configuration of the engine's own file.             *)
(***************************************************************************)
EXTENDS Naturals

CONSTANTS Client, Value, Nothing

VARIABLES
  cur,    \* the configuration in force
  held,   \* those that have been in force under its version
  file,   \* the configuration of the engine's file
  engine, \* what the engine is about to put back
  seen    \* what each client's next save is built on

Config == [cfg : Value, ver : Nat, src : {"file", "console"}]
Read   == [cfg : Value, ver : Nat]

\* What is in force once s is: a client may know an old version, never a future
\* one, and under the version in force only what was in force.
Known(s) ==
  \/ s = Nothing
  \/ s \in Read /\ s.ver <= cur.ver /\ (s.ver = cur.ver => s.cfg \in held)

Init ==
  /\ cur \in Config /\ held = {cur.cfg} /\ file \in Value /\ engine = Nothing
  /\ seen = [c \in Client |-> Nothing]

\* What c holds is another configuration it may know.
Learns(c) == Known(seen[c])' /\ seen' = [seen EXCEPT ![c] = seen'[c]]

Look(c) == Learns(c) /\ UNCHANGED <<cur, held, file, engine>>

\* The next version has configuration v.
Changes(v, src) ==
  /\ cur' = [cfg |-> v, ver |-> cur.ver + 1, src |-> src]
  /\ held' = {v}

\* A client saves some configuration, on top of the version in force ...
Save(c) ==
  /\ Known(seen[c]) /\ seen[c] # Nothing /\ seen[c].ver = cur.ver
  /\ \E v \in Value : Changes(v, "console")
  /\ Learns(c)
  /\ UNCHANGED <<file, engine>>

\* ... or lets the file take over, whatever is in force.
Revert(c) == Changes(file, "file") /\ Learns(c) /\ UNCHANGED <<file, engine>>

\* The engine starts with some file, which matters at once where a file's
\* configuration is in force.
Restart ==
  /\ file' \in Value
  /\ engine' = Nothing
  /\ IF cur.src = "file" /\ cur.cfg # file' THEN Changes(file', "file") ELSE UNCHANGED <<cur, held>>
  /\ UNCHANGED seen

\* The engine reads the configuration in force and will put back what it makes of
\* it, or stops without having done so.
Reads ==
  /\ engine' \in {Nothing} \cup [cfg : {cur.cfg, file}, ver : {cur.ver}]
  /\ UNCHANGED <<cur, held, file, seen>>

PutBack ==
  /\ engine # Nothing
  /\ engine.ver = cur.ver => engine.cfg \in {cur.cfg, file}
  /\ cur' = [cur EXCEPT !.cfg = engine.cfg]
  /\ held' = held \cup {engine.cfg}
  /\ engine' = Nothing
  /\ UNCHANGED <<file, seen>>

Next == Restart \/ Reads \/ PutBack \/ \E c \in Client : Look(c) \/ Save(c) \/ Revert(c)

Spec == Init /\ [][Next]_<<cur, held, file, engine, seen>>
=============================================================================

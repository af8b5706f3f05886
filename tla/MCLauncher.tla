----------------------------- MODULE MCLauncher -----------------------------
(* Launcher with two releases, two starts, and room for a second watch loop.   *)
EXTENDS Launcher
=============================================================================

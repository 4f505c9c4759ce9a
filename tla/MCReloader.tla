----------------------------- MODULE MCReloader -----------------------------
(* Small instances of Reloader for TLC. *)
EXTENDS Reloader, TLC

CONSTANTS u1, u2

\* Two units, reloaded by a cert together and by another one by one.  Operators
\* and the last cert may start u2; u1 is for nobody to start.
AllKinds    == << "command", "none", "units", "units" >>
SharedUnits == << << u1, u2 >>, << >>, << u1, u2 >>, << u2 >> >>
Methods     == << "", "", "", "reload-or-restart" >>
Meddling    == (u1 :> {"stop"}) @@ (u2 :> {"start", "replace"})
=============================================================================

----------------------------- MODULE MCOnboard ------------------------------
(* A small instance of Onboard for TLC. *)
EXTENDS Onboard

Command(keystore, rotate, deliver, merge) ==
  [keystore |-> keystore, rotate |-> rotate, deliver |-> deliver, merge |-> merge]

\* The documented command with and without --keystore, its rotation, and runs that
\* leave the key or the row to the operator.
MCCommands ==
  {Command(TRUE, FALSE, "apply", TRUE), Command(TRUE, TRUE, "apply", TRUE),
   Command(FALSE, FALSE, "apply", TRUE), Command(FALSE, FALSE, "emit", TRUE),
   Command(TRUE, FALSE, "none", FALSE)}
=============================================================================

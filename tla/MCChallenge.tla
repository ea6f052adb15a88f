---------------------------- MODULE MCChallenge -----------------------------
(* A small instance of Challenge for TLC. *)
EXTENDS Challenge
=============================================================================

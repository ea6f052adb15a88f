-------------------------- MODULE MCIdentityIndex --------------------------
(* A small instance of IdentityIndex for TLC. *)
EXTENDS IdentityIndex

CONSTANTS f1, f2, u1, u2

OneLegacy == {<<f1, u1>>}

\* What GitLab looks like before the change: every project visible, f1 the key
\* of a member u1; f2 and u2 in any way.  (Changes can undo any of it.)
StartsOnboarded ==
  changes = 0 => hidden = {} /\ keyOwner[f1] = u1 /\ Projects \X {u1} \subseteq member
=============================================================================

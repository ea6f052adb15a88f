------------------------------ MODULE MCUnseal ------------------------------
(* Small instances of Unseal for TLC. *)
EXTENDS Unseal

CONSTANTS p1, p2, k1, k2

\* A secret of p1 sealed before levels existed, and a v4 Maintainer secret of
\* the project whose key is k1; both also open with the key k2 of another one.
MCSecrets == {
  Sealed(ById(p1), NoLevel, {k1, k2}, "value"),
  Sealed(ByKey(k1), 40, {k1, k2}, "value")}

MCLevels == {0, 30, 40}

\* After the answer nothing is left to observe about the request.
Unanswered == \E r \in Requests : pc[r] \notin Finished
=============================================================================

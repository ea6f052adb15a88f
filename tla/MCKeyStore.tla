----------------------------- MODULE MCKeyStore -----------------------------
(***************************************************************************)
(* Instances of KeyStore: files of two projects, rewritten, misnamed,      *)
(* duplicated, removed and corrupted.                                      *)
(***************************************************************************)
EXTENDS KeyStore

CONSTANTS p1, p2, k1, k2

=============================================================================

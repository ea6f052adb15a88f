------------------------------ MODULE MCBundle ------------------------------
(***************************************************************************)
(* Small instances of Bundle: two environments that may share a key, two   *)
(* secrets, and env files that add, drop or change one of them.            *)
(***************************************************************************)
EXTENDS Bundle, TLC

CONSTANTS prod, stage, a, b, v1, v2, r1, r2

\* The whole set for Developers, or the first secret alone, changed, for Maintainers.
MCInputs == {[base |-> (a :> v1) @@ (b :> v1), level |-> 30],
             [base |-> (a :> v2) @@ (b :> Absent), level |-> 40]}

\* No override, or one of the second secret.
MCOverrides == {NoEntries, (a :> Absent) @@ (b :> v2)}

Symmetry == Permutations(Envs) \union Permutations(Recipients)
=============================================================================

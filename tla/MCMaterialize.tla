--------------------------- MODULE MCMaterialize ---------------------------
(***************************************************************************)
(* A small instance of Materialize: two releases that deliver into one     *)
(* namespace; both have docker-secret, each has an application of its own. *)
(***************************************************************************)
EXTENDS Materialize

CONSTANTS api, docker, r1, r2, k1, k2, east, west, p1, p2, x, y,
          r1api, r2api, dockerSecret

MCNameOf == [r \in Releases |-> [s \in Services |->
  IF s = docker THEN dockerSecret ELSE IF r = r1 THEN r1api ELSE r2api]]
MCKeyOf     == [r \in Releases |-> IF r = r1 THEN k1 ELSE k2]
MCClusterOf == [r \in Releases |-> east]
MCProjectOf == [r \in Releases |-> IF r = r1 THEN p1 ELSE p2]

Sealed(form, label, key, project, data) ==
  [form |-> form, section |-> [label |-> label, key |-> key, project |-> project, data |-> data]]
Holds(a, d, config) ==
  [bundles |-> [s \in Services |-> IF s = api THEN a ELSE d], config |-> config]

v3(data) == Sealed("v3", NoLabel, k1, p1, data)
v4(data) == Sealed("v4", NoLabel, k1, p1, data)

\* Trees of r1: both files, one file, one file migrated, one file sealed for
\* another cluster, one file emptied that was; and a tree of r2.
MCTrees ==
  {Holds(v3({x}), v3({y}), {"id"}), Holds(v3({x, y}), NoFile, {"id"}),
   Holds(v4({y}), v3({x}), {"id", "pubkey"}), Holds(v4({y}), v3({x}), {"pubkey"}),
   Holds(Sealed("v2", west, k2, p1, {x}), v3({y}), {"id"}),
   Holds(Sealed("v3", NoLabel, k2, p1, {}), v3({y}), {"id"}),
   Holds(Sealed("v2", east, k2, p2, {x}), Sealed("v2", east, k2, p2, {x}), {})}

\* r2 has its tree, r1 any other.
Starts == head[r2].config = {} /\ head[r1].config # {}
=============================================================================

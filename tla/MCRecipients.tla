---------------------------- MODULE MCRecipients ----------------------------
(***************************************************************************)
(* Instances of Recipients.  Environments have one cluster each; "prod"    *)
(* has a recipient left in projects.json where the run says so.            *)
(***************************************************************************)
EXTENDS Recipients

CONSTANTS prod, stage, b1, b2, k1, k2, k3, k4

MCStaticNone == [e \in Envs |-> NoKey]
MCStaticProd == [e \in Envs |-> IF e = prod THEN k4 ELSE NoKey]

=============================================================================

---------------------------- MODULE MCWriteGate ----------------------------
(***************************************************************************)
(* A small instance of WriteGate: a developer and a maintainer, a merge    *)
(* request of each, two environments, two policies.                        *)
(***************************************************************************)
EXTENDS WriteGate

CONSTANTS prod, stage, dev, maint, m1, m2, c0, c1, c2

MCAuthor == [m \in MRs |-> IF m = m1 THEN dev ELSE maint]

Signed(c, u, over, form) == [entries |-> c, sig |-> [by |-> u, over |-> over, form |-> form]]

\* A section that is gone, unsigned, well signed by each in each form, or with
\* a signature made over something else.
MCEdits == {NoSection, [entries |-> c1, sig |-> NoSig],
            Signed(c1, dev, c1, "v3"), Signed(c2, maint, c2, "v3"),
            Signed(c2, maint, c2, "v4"), Signed(c2, dev, c1, "v3")}

Strict == [e \in Envs |-> IF e = prod THEN 40 ELSE 30]
Loose  == [e \in Envs |-> IF e = prod THEN 30 ELSE Undeclared]
MCPolicyEdits == {Strict, Loose, Collapsed}

\* Where the instance starts: production holds a section of the maintainer, both
\* are registered; the policy is in the registry, until a request moves it to git.
Starts ==
  commits = 0 /\ changes = 0 =>
    /\ registered = Users /\ registry = Strict
    /\ level = [u \in Users |-> IF u = dev THEN 30 ELSE 50]

\* The world changes once a branch is there; the maintainer can only be removed.
Later ==
  /\ changes > 0 => \E m \in MRs : pc[m] # "unopened"
  /\ level[maint] # 30

Begins ==
  (\A m \in MRs : pc[m] = "unopened") =>
    /\ main.form = "v3" /\ main.policy = Collapsed
    /\ main.sections = [e \in Envs |-> IF e = prod THEN Signed(c2, maint, c2, "v3") ELSE NoSection]
=============================================================================

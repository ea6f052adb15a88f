---------------------------- MODULE Materialize ----------------------------
(***************************************************************************)
(* `sealdctl materialize` (cmdMaterialize, internal/client/materialize.go, *)
(* render_secret.go): a Job decrypts one environment of every bundle of a  *)
(* clone, applies the Secrets one by one, lists the Secrets that carry its *)
(* label and deletes those it did not build.                               *)
(*                                                                         *)
(* One namespace, the Jobs of the releases that deliver into it, and the   *)
(* people who also write Secrets there.  A release has one Job at a time;  *)
(* kubectl and git are external.  --emit-yaml only prints and is left out. *)
(***************************************************************************)
EXTENDS Naturals, FiniteSets

CONSTANTS
  Releases, Services, Names, Entries, Keys, Clusters, Projects,
  Steady,        \* the release whose Job is run again and again
  NameOf,        \* NameOf[r][s]: <prefix><svc>-app; docker-secret for all alike
  Docker,        \* the service docker-secret
  KeyOf, ClusterOf, ProjectOf,   \* the identity, cluster and project of a release
  NoFile, NoSection, NoLabel, NoSecret, NoTree, Nothing,
  Trees,         \* what repositories hold, see below
  MaxPushes, MaxVisits, MaxEdits, MaxFaults   \* bounds of the model

Section == [label : Clusters \union {NoLabel}, key : Keys, project : Projects,
            data : SUBSET Entries]
Bundle  == [form : {"flat", "v2", "v3", "v4"}, section : Section \union {NoSection}]
Tree    == [bundles : [Services -> Bundle \union {NoFile}],
            config : SUBSET {"id", "pubkey"}]     \* what repo.yaml says of the project

ASSUME MaterializeAssumption ==
  /\ Steady \in Releases
  /\ NameOf \in [Releases -> [Services -> Names]]
  /\ \A r \in Releases, s, t \in Services : NameOf[r][s] = NameOf[r][t] => s = t
  /\ KeyOf \in [Releases -> Keys] /\ ClusterOf \in [Releases -> Clusters]
  /\ ProjectOf \in [Releases -> Projects]
  /\ NoFile \notin Bundle /\ NoSection \notin Section /\ NoLabel \notin Clusters
  /\ NoSecret \notin [data : SUBSET Entries, managed : BOOLEAN]
  /\ Nothing \notin Releases \X Trees /\ NoTree \notin Trees
  /\ Trees \subseteq Tree
  /\ MaxPushes \in Nat /\ MaxVisits \in Nat /\ MaxEdits \in Nat /\ MaxFaults \in Nat

VARIABLES
  head,     \* the tree the Job of a release clones
  secret,   \* the namespace: the Secret of a name
  pc,       \* where a Job is
  clone,    \* the tree whose Secrets phase 1 built
  todo,     \* what it has still to apply
  listed,   \* what kubectl listed and the Job has still to look at
  pushes, visits, edits, faults,
  origin,   \* history: the release and tree whose Job applied a Secret
  alone     \* history: Jobs that nobody else wrote beside since they started

job     == <<pc, clone, todo, listed>>
bounds  == <<pushes, visits, edits, faults>>
vars    == <<head, secret, job, bounds, origin, alone>>

Labelled == {n \in Names : secret[n] # NoSecret /\ secret[n].managed}

-----------------------------------------------------------------------------
(***************************************************************************)
(* Phase 1                                                                 *)
(***************************************************************************)

Files(t) == {s \in Services : t.bundles[s] # NoFile}

\* BuildSecretForBundle, assembleSecret: the environment is there, its label, if
\* any, is this cluster, the project is known, and every entry, if there is one, opens
\* with the mounted identity for that project.  A v2 file can vouch for its own project.
Builds(r, t, s) ==
  LET b == t.bundles[s] IN
  /\ b.form # "flat" /\ b.section # NoSection
  /\ b.section.label \in {NoLabel, ClusterOf[r]}
  /\ b.form = "v4" => "pubkey" \in t.config
  /\ b.form = "v3" => "id" \in t.config
  /\ b.section.data # {} =>
       /\ b.section.key = KeyOf[r]
       /\ (b.form = "v2" /\ "id" \notin t.config) \/ b.section.project = ProjectOf[r]
  /\ s = Docker => Cardinality(b.section.data) = 1

\* Mutant of Complete: a bundle that does not build is left out.
BugComplete(r, t) == \E s \in Files(t) : Builds(r, t, s)

\* Every bundle builds, and there is one.
Complete(r, t) == Files(t) # {} /\ \A s \in Files(t) : Builds(r, t, s)

\* The Secrets of a tree, by name.
Data(r, t, n) == {t.bundles[s].section.data : s \in {f \in Files(t) : NameOf[r][f] = n /\ Builds(r, t, f)}}
Wanted(r, t)  == {n \in Names : Data(r, t, n) # {}}

-----------------------------------------------------------------------------

Init ==
  /\ head \in [Releases -> Trees]
  /\ secret = [n \in Names |-> NoSecret]
  /\ pc = [r \in Releases |-> "idle"]
  /\ clone = [r \in Releases |-> NoTree]
  /\ todo = [r \in Releases |-> {}] /\ listed = [r \in Releases |-> {}]
  /\ pushes = 0 /\ visits = 0 /\ edits = 0 /\ faults = 0
  /\ origin = [n \in Names |-> Nothing]
  /\ alone = {}

\* The Job exits non-zero; what it did stays done.
Exit(r) ==
  /\ pc' = [pc EXCEPT ![r] = "idle"]
  /\ clone' = [clone EXCEPT ![r] = NoTree]
  /\ todo' = [todo EXCEPT ![r] = {}] /\ listed' = [listed EXCEPT ![r] = {}]

\* A Job clones the head and builds every Secret before it touches the cluster.
Sync(r) ==
  /\ pc[r] \in {"idle", "done"}
  /\ IF r = Steady THEN UNCHANGED visits ELSE visits < MaxVisits /\ visits' = visits + 1
  /\ IF Complete(r, head[r])
     THEN /\ pc' = [pc EXCEPT ![r] = "apply"]
          /\ clone' = [clone EXCEPT ![r] = head[r]]
          /\ todo' = [todo EXCEPT ![r] = Wanted(r, head[r])]
          /\ listed' = [listed EXCEPT ![r] = {}]
     ELSE Exit(r)
  /\ alone' = alone \union {r}
  /\ UNCHANGED <<head, secret, pushes, edits, faults, origin>>

\* Mutant of Apply: a Secret that is not applied is only logged.
BugApply(r, n) ==
  /\ pc[r] = "apply" /\ n \in todo[r]
  /\ \/ /\ \E d \in Data(r, clone[r], n) : secret' = [secret EXCEPT ![n] = [data |-> d, managed |-> TRUE]]
        /\ origin' = [origin EXCEPT ![n] = <<r, clone[r]>>]
        /\ alone' = alone \intersect {r} /\ UNCHANGED faults
     \/ faults < MaxFaults /\ faults' = faults + 1 /\ UNCHANGED <<secret, origin, alone>>
  /\ todo' = [todo EXCEPT ![r] = @ \ {n}]
  /\ UNCHANGED <<head, pc, clone, listed, pushes, visits, edits>>

\* kubectlApply of RenderSecretYAML, which carries the label; a Secret of that
\* name is taken over, whoever made it.
Apply(r, n) ==
  /\ pc[r] = "apply" /\ n \in todo[r]
  /\ \E d \in Data(r, clone[r], n) : secret' = [secret EXCEPT ![n] = [data |-> d, managed |-> TRUE]]
  /\ todo' = [todo EXCEPT ![r] = @ \ {n}]
  /\ origin' = [origin EXCEPT ![n] = <<r, clone[r]>>]
  /\ alone' = alone \intersect {r}
  /\ UNCHANGED <<head, pc, clone, listed, bounds>>

\* Mutant of Live: kubectl get secret without the selector.
BugLive == {n \in Names : secret[n] # NoSecret}

\* kubectlManagedSecrets: by label, whoever's.
Live == Labelled

\* The prune candidates, once everything is applied.
List(r) ==
  /\ pc[r] = "apply" /\ todo[r] = {}
  /\ listed' = [listed EXCEPT ![r] = Live]
  /\ pc' = [pc EXCEPT ![r] = "prune"]
  /\ UNCHANGED <<head, secret, clone, todo, bounds, origin, alone>>

\* Mutant of Orphans: docker-secret, which has no prefix, is never an orphan.
BugOrphans(r) == listed[r] \ (Wanted(r, clone[r]) \union {NameOf[r][Docker]})

\* What is left of the list and was not built.
Orphans(r) == listed[r] \ Wanted(r, clone[r])

\* kubectlDeleteSecret, by name; deleting what is gone is an error and ends the run.
Prune(r, n) ==
  /\ pc[r] = "prune" /\ n \in Orphans(r)
  /\ IF secret[n] = NoSecret
     THEN Exit(r) /\ UNCHANGED <<secret, origin, alone>>
     ELSE /\ secret' = [secret EXCEPT ![n] = NoSecret]
          /\ origin' = [origin EXCEPT ![n] = Nothing]
          /\ listed' = [listed EXCEPT ![r] = @ \ {n}]
          /\ alone' = alone \intersect {r}
          /\ UNCHANGED <<pc, clone, todo>>
  /\ UNCHANGED <<head, bounds>>

Finish(r) ==
  /\ pc[r] = "prune" /\ Orphans(r) = {}
  /\ pc' = [pc EXCEPT ![r] = "done"]
  /\ UNCHANGED <<head, secret, clone, todo, listed, bounds, origin, alone>>

\* A call to kubectl fails, having been carried out or not, or the pod is killed.
Abort(r) ==
  /\ pc[r] \in {"apply", "prune"}
  /\ faults < MaxFaults /\ faults' = faults + 1
  /\ Exit(r)
  /\ UNCHANGED <<head, secret, pushes, visits, edits, origin, alone>>

\* The repository of a release moves.
Push(r) ==
  /\ pushes < MaxPushes /\ pushes' = pushes + 1
  /\ \E t \in Trees : head' = [head EXCEPT ![r] = t]
  /\ UNCHANGED <<secret, job, visits, edits, faults, origin, alone>>

\* Somebody creates, replaces or deletes a Secret by hand, without the label.
Edit(n) ==
  /\ edits < MaxEdits /\ edits' = edits + 1
  /\ \E s \in {NoSecret, [data |-> {}, managed |-> FALSE]} : secret' = [secret EXCEPT ![n] = s]
  /\ origin' = [origin EXCEPT ![n] = Nothing]
  /\ alone' = {}
  /\ UNCHANGED <<head, job, pushes, visits, faults>>

Run(r) == \/ \E n \in Names : Apply(r, n) \/ Prune(r, n)
          \/ List(r) \/ Finish(r)

Next ==
  \/ \E r \in Releases : Sync(r) \/ Run(r) \/ Abort(r) \/ Push(r)
  \/ \E n \in Names : Edit(n)

Spec == Init /\ [][Next]_vars

\* The process of the steady release runs, and its Job is started again when it
\* has ended, as a deployment does; nothing is assumed of the other releases.
FairSpec == Spec /\ WF_vars(Run(Steady)) /\ WF_vars(Sync(Steady))

-----------------------------------------------------------------------------
(***************************************************************************)
(* Properties                                                              *)
(***************************************************************************)

\* Every variable keeps its shape.
TypeOK ==
  /\ head \in [Releases -> Trees]
  /\ secret \in [Names -> [data : SUBSET Entries, managed : BOOLEAN] \union {NoSecret}]
  /\ pc \in [Releases -> {"idle", "apply", "prune", "done"}]
  /\ clone \in [Releases -> Trees \union {NoTree}]
  /\ todo \in [Releases -> SUBSET Names] /\ listed \in [Releases -> SUBSET Names]
  /\ pushes \in Nat /\ visits \in Nat /\ edits \in Nat /\ faults \in Nat
  /\ origin \in [Names -> (Releases \X Trees) \union {Nothing}]
  /\ alone \subseteq Releases

\* Gate #2, across crashes, retries, moving heads and shared namespaces: what a
\* labelled Secret holds comes from one file of one tree in which every file had
\* the release's environment, sealed for its identity and its cluster.  A tree
\* with one file that does not open never delivers any of its others.
WholeTree ==
  \A n \in Labelled : \E r \in Releases, t \in Trees :
    /\ origin[n] = <<r, t>>
    /\ \A s \in Files(t) :
         /\ t.bundles[s].section # NoSection
         /\ t.bundles[s].section.data # {} => t.bundles[s].section.key = KeyOf[r]
         /\ t.bundles[s].section.label \in {NoLabel, ClusterOf[r]}
    /\ \E s \in Files(t) : NameOf[r][s] = n /\ secret[n].data = t.bundles[s].section.data

\* A finished run leaves exactly its tree: whatever earlier runs, aborted halfway,
\* applied or left, every Secret of the tree is there with its data, and no other
\* labelled one, unless somebody else wrote to the namespace during the run.
Exact ==
  \A r \in alone : pc[r] = "done" =>
    /\ Labelled = Wanted(r, clone[r])
    /\ \A n \in Labelled : secret[n].data \in Data(r, clone[r], n)

\* The prune deletes only what its Job had listed, and nothing without the label,
\* unless somebody wrote to the namespace during the run (a Secret is listed by
\* label and deleted by name, and can be another by then).  The label is the same
\* for all releases.
ForeignKept ==
  [][\A n \in Names :
       secret[n] # NoSecret /\ secret'[n] = NoSecret /\ edits' = edits
         => \E r \in Releases : pc[r] = "prune" /\ n \in listed[r] /\
              (secret[n].managed \/ r \notin alone)]_vars

\* Once the head rests, the other releases stop and calls succeed, the namespace
\* comes to hold what the head says and stays so, whatever happened before; a head
\* that does not build is not delivered.
Delivered ==
  LET t == head[Steady] IN
  /\ Labelled = Wanted(Steady, t)
  /\ \A n \in Labelled : secret[n].data \in Data(Steady, t, n)

Converges == <>[](Delivered \/ ~Complete(Steady, head[Steady]))

\* The steady release works on its head, and the others have stopped.
Resting ==
  /\ \A r \in Releases \ {Steady} : pc[r] \in {"idle", "done"}
  /\ pc[Steady] # "idle" => clone[Steady] = head[Steady]
  /\ pc[Steady] = "prune" => listed[Steady] \subseteq Wanted(Steady, head[Steady])

\* The safety half of Converges: the runs that go on disturb nothing that is delivered.
DeliveredStays ==
  [][Delivered /\ Resting /\ UNCHANGED <<head, visits, edits>> => Delivered' /\ Resting']_vars

-----------------------------------------------------------------------------
(***************************************************************************)
(* The inductive invariant                                                 *)
(***************************************************************************)

\* A Job past phase 1 has a tree that builds, and has still to apply Secrets of it.
Building == \A r \in Releases : pc[r] # "idle" =>
  /\ clone[r] \in Trees /\ Complete(r, clone[r])
  /\ todo[r] \subseteq Wanted(r, clone[r])
  /\ pc[r] # "apply" => todo[r] = {}

\* While nobody else writes: what was applied is there, and what is labelled and
\* not of the tree is listed or will be.
Progress == \A r \in alone : pc[r] # "idle" =>
  /\ \A n \in Wanted(r, clone[r]) \ todo[r] :
       n \in Labelled /\ secret[n].data \in Data(r, clone[r], n)
  /\ pc[r] \in {"prune", "done"} => Labelled \subseteq Wanted(r, clone[r]) \union listed[r]
  /\ pc[r] = "prune" => listed[r] \subseteq Labelled
  /\ pc[r] = "done" => Orphans(r) = {}

IInv == TypeOK /\ Building /\ WholeTree /\ Progress
=============================================================================

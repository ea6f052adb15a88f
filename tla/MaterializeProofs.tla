------------------------- MODULE MaterializeProofs -------------------------
(***************************************************************************)
(* Proofs about Materialize: what is delivered, what a finished run leaves *)
(* and what the prune spares, for any releases, trees and names.           *)
(***************************************************************************)
EXTENDS Materialize, TLAPS

LEMMA InitInv == Init => IInv
  BY MaterializeAssumption DEF Init, IInv, TypeOK, Building, WholeTree, Progress, Labelled

-----------------------------------------------------------------------------
(***************************************************************************)
(* Types                                                                   *)
(***************************************************************************)

LEMMA ExitTypes ==
  ASSUME TypeOK, NEW r \in Releases, Exit(r)
  PROVE  /\ pc' \in [Releases -> {"idle", "apply", "prune", "done"}]
         /\ clone' \in [Releases -> Trees \union {NoTree}]
         /\ todo' \in [Releases -> SUBSET Names] /\ listed' \in [Releases -> SUBSET Names]
  BY DEF TypeOK, Exit

\* What a tree gives for a name is the data of one of its sections.
LEMMA DataOfFile ==
  ASSUME NEW r \in Releases, NEW t \in Trees, NEW n \in Names, NEW d \in Data(r, t, n)
  PROVE  /\ d \subseteq Entries
         /\ \E s \in Files(t) : NameOf[r][s] = n /\ Builds(r, t, s) /\ d = t.bundles[s].section.data
  <1>1. PICK s \in Files(t) : NameOf[r][s] = n /\ Builds(r, t, s) /\ d = t.bundles[s].section.data
    BY DEF Data
  <1>2. t.bundles[s] \in Bundle
    BY MaterializeAssumption DEF Files, Tree
  <1>3. t.bundles[s].section \in Section
    BY <1>1, <1>2 DEF Bundle, Builds
  <1> QED BY <1>1, <1>3 DEF Section

LEMMA NextTypes == ASSUME IInv, Next PROVE TypeOK'
  <1> USE DEF IInv
  <1>1. ASSUME NEW r \in Releases, Sync(r) PROVE TypeOK'
    <2>1. visits' \in Nat /\ alone' \subseteq Releases
      BY <1>1 DEF TypeOK, Sync
    <2>2. CASE Complete(r, head[r])
      BY <1>1, <2>1, <2>2 DEF TypeOK, Sync, Wanted
    <2>3. CASE ~Complete(r, head[r])
      BY <1>1, <2>1, <2>3, ExitTypes DEF TypeOK, Sync
    <2> QED BY <2>2, <2>3
  <1>2. ASSUME NEW r \in Releases, NEW n \in Names, Apply(r, n) PROVE TypeOK'
    <2>1. PICK d \in Data(r, clone[r], n) : secret' = [secret EXCEPT ![n] = [data |-> d, managed |-> TRUE]]
      BY <1>2 DEF Apply
    <2>2. clone[r] \in Trees
      BY <1>2 DEF Apply, Building
    <2>3. d \subseteq Entries
      BY <2>1, <2>2, DataOfFile
    <2>4. secret' \in [Names -> [data : SUBSET Entries, managed : BOOLEAN] \union {NoSecret}]
      BY <2>1, <2>3 DEF TypeOK
    <2>5. /\ origin' \in [Names -> (Releases \X Trees) \union {Nothing}]
          /\ todo' \in [Releases -> SUBSET Names] /\ alone' \subseteq Releases
      BY <1>2, <2>2 DEF TypeOK, Apply
    <2> QED BY <1>2, <2>4, <2>5 DEF TypeOK, Apply, bounds
  <1>3. ASSUME NEW r \in Releases, List(r) PROVE TypeOK'
    BY <1>3 DEF TypeOK, List, Live, Labelled, bounds
  <1>4. ASSUME NEW r \in Releases, NEW n \in Names, Prune(r, n) PROVE TypeOK'
    <2>1. CASE secret[n] = NoSecret
      BY <1>4, <2>1, ExitTypes DEF TypeOK, Prune, bounds
    <2>2. CASE secret[n] # NoSecret
      BY <1>4, <2>2 DEF TypeOK, Prune, bounds
    <2> QED BY <2>1, <2>2
  <1>5. ASSUME NEW r \in Releases, Finish(r) PROVE TypeOK'
    BY <1>5 DEF TypeOK, Finish, bounds
  <1>6. ASSUME NEW r \in Releases, Abort(r) PROVE TypeOK'
    BY <1>6, ExitTypes DEF TypeOK, Abort
  <1>7. ASSUME NEW r \in Releases, Push(r) PROVE TypeOK'
    BY <1>7 DEF TypeOK, Push, job
  <1>8. ASSUME NEW n \in Names, Edit(n) PROVE TypeOK'
    <2>1. secret' \in [Names -> [data : SUBSET Entries, managed : BOOLEAN] \union {NoSecret}]
      <3>1. PICK w \in {NoSecret, [data |-> {}, managed |-> FALSE]} : secret' = [secret EXCEPT ![n] = w]
        BY <1>8 DEF Edit
      <3>2. [data |-> {}, managed |-> FALSE] \in [data : SUBSET Entries, managed : BOOLEAN]
        OBVIOUS
      <3>3. w = NoSecret \/ w = [data |-> {}, managed |-> FALSE]
        BY <3>1
      <3>4. w \in [data : SUBSET Entries, managed : BOOLEAN] \union {NoSecret}
        BY <3>2, <3>3
      <3> QED BY <3>1, <3>4 DEF TypeOK
    <2> QED BY <1>8, <2>1 DEF TypeOK, Edit, job
  <1> QED BY <1>1, <1>2, <1>3, <1>4, <1>5, <1>6, <1>7, <1>8 DEF Next, Run

-----------------------------------------------------------------------------
(***************************************************************************)
(* The inductive step                                                      *)
(***************************************************************************)

LEMMA NextBuilding == ASSUME IInv, Next PROVE Building'
  <1> SUFFICES ASSUME NEW q \in Releases, pc'[q] # "idle"
               PROVE  /\ clone'[q] \in Trees /\ Complete(q, clone'[q])
                      /\ todo'[q] \subseteq Wanted(q, clone'[q])
                      /\ pc'[q] # "apply" => todo'[q] = {}
    BY DEF Building, Complete, Wanted, Data, Files, Builds
  <1> USE DEF IInv
  <1>1. ASSUME NEW r \in Releases, Sync(r), q = r
        PROVE  /\ clone'[q] \in Trees /\ Complete(q, clone'[q])
               /\ todo'[q] \subseteq Wanted(q, clone'[q]) /\ pc'[q] = "apply"
    <2>1. Complete(r, head[r])
      BY <1>1 DEF Sync, Exit, TypeOK
    <2> QED BY <1>1, <2>1 DEF Sync, TypeOK
  <1>2. ASSUME NEW r \in Releases, Sync(r), q # r
        PROVE  pc'[q] = pc[q] /\ clone'[q] = clone[q] /\ todo'[q] = todo[q]
    BY <1>2 DEF Sync, Exit, TypeOK
  <1>3. ASSUME NEW r \in Releases, NEW n \in Names, Apply(r, n)
        PROVE  pc'[q] = pc[q] /\ clone'[q] = clone[q] /\ todo'[q] \subseteq todo[q]
    BY <1>3 DEF Apply, TypeOK
  <1>4. ASSUME NEW r \in Releases, List(r)
        PROVE  clone'[q] = clone[q] /\ todo'[q] = todo[q] /\ pc[q] # "idle"
               /\ (pc'[q] = pc[q] \/ todo[q] = {})
    BY <1>4 DEF List, TypeOK
  <1>5. ASSUME NEW r \in Releases, NEW n \in Names, Prune(r, n)
        PROVE  pc'[q] = pc[q] /\ clone'[q] = clone[q] /\ todo'[q] = todo[q]
    BY <1>5 DEF Prune, Exit, TypeOK
  <1>6. ASSUME NEW r \in Releases, Finish(r)
        PROVE  clone'[q] = clone[q] /\ todo'[q] = todo[q] /\ pc[q] # "idle"
               /\ (pc'[q] = pc[q] \/ pc[q] = "prune")
    BY <1>6 DEF Finish, TypeOK
  <1>7. ASSUME NEW r \in Releases, Abort(r)
        PROVE  pc'[q] = pc[q] /\ clone'[q] = clone[q] /\ todo'[q] = todo[q]
    BY <1>7 DEF Abort, Exit, TypeOK
  <1>8. ASSUME (\E r \in Releases : Push(r)) \/ (\E n \in Names : Edit(n))
        PROVE  pc'[q] = pc[q] /\ clone'[q] = clone[q] /\ todo'[q] = todo[q]
    BY <1>8 DEF Push, Edit, job
  <1>9. pc[q] # "idle" =>
          /\ clone[q] \in Trees /\ Complete(q, clone[q])
          /\ todo[q] \subseteq Wanted(q, clone[q])
          /\ pc[q] # "apply" => todo[q] = {}
    BY DEF Building
  <1> QED BY <1>1, <1>2, <1>3, <1>4, <1>5, <1>6, <1>7, <1>8, <1>9 DEF Next, Run

\* Secrets keep, lose or get their label; a label comes from a tree that builds.
LEMMA NextWholeTree == ASSUME IInv, Next PROVE WholeTree'
  <1> USE DEF IInv
  <1> DEFINE From(n, d, r, t) ==
        /\ \A s \in Files(t) :
             /\ t.bundles[s].section # NoSection
             /\ t.bundles[s].section.data # {} => t.bundles[s].section.key = KeyOf[r]
             /\ t.bundles[s].section.label \in {NoLabel, ClusterOf[r]}
        /\ \E s \in Files(t) : NameOf[r][s] = n /\ d = t.bundles[s].section.data
  <1> SUFFICES ASSUME NEW n \in Names, n \in Labelled'
               PROVE  \E r \in Releases, t \in Trees :
                        origin'[n] = <<r, t>> /\ From(n, secret'[n].data, r, t)
    BY DEF WholeTree, Labelled, Files
  <1> HIDE DEF From
  <1>1. CASE secret'[n] = secret[n] /\ origin'[n] = origin[n]
    BY <1>1 DEF WholeTree, Labelled, From
  <1>2. ASSUME NEW r \in Releases, Apply(r, n)
        PROVE  \E q \in Releases, t \in Trees : origin'[n] = <<q, t>> /\ From(n, secret'[n].data, q, t)
    <2>1. clone[r] \in Trees /\ Complete(r, clone[r])
      BY <1>2 DEF Building, Apply
    <2>2. PICK d \in Data(r, clone[r], n) : secret'[n] = [data |-> d, managed |-> TRUE]
      BY <1>2 DEF Apply, TypeOK
    <2>3. From(n, d, r, clone[r])
      BY <2>1, DataOfFile DEF From, Complete, Builds
    <2>4. origin'[n] = <<r, clone[r]>> /\ secret'[n].data = d
      BY <1>2, <2>2 DEF Apply, TypeOK
    <2> QED BY <2>1, <2>3, <2>4
  <1>3. ASSUME NEW r \in Releases, NEW m \in Names, m # n, Apply(r, m) \/ Prune(r, m)
        PROVE  secret'[n] = secret[n] /\ origin'[n] = origin[n]
    BY <1>3 DEF Apply, Prune, TypeOK
  <1>4. ASSUME NEW r \in Releases, Prune(r, n) PROVE secret'[n] = secret[n] /\ origin'[n] = origin[n]
    BY <1>4 DEF Prune, TypeOK, Labelled
  <1>5. ASSUME NEW m \in Names, Edit(m) PROVE secret'[n] = secret[n] /\ origin'[n] = origin[n]
    BY <1>5 DEF Edit, TypeOK, Labelled
  <1>6. ASSUME NEW r \in Releases, Sync(r) \/ List(r) \/ Finish(r) \/ Abort(r) \/ Push(r)
        PROVE  secret'[n] = secret[n] /\ origin'[n] = origin[n]
    BY <1>6 DEF Sync, List, Finish, Abort, Push
  <1> QED BY <1>1, <1>2, <1>3, <1>4, <1>5, <1>6 DEF Next, Run

\* Progress of one release, as a state predicate of what it is about.
LEMMA NextProgress == ASSUME IInv, Next PROVE Progress'
  <1> USE DEF IInv
  <1> SUFFICES ASSUME NEW q \in Releases, q \in alone', pc'[q] # "idle"
               PROVE  /\ \A n \in Wanted(q, clone'[q]) \ todo'[q] :
                           n \in Labelled' /\ secret'[n].data \in Data(q, clone'[q], n)
                      /\ pc'[q] \in {"prune", "done"} => Labelled' \subseteq Wanted(q, clone'[q]) \union listed'[q]
                      /\ pc'[q] = "prune" => listed'[q] \subseteq Labelled'
                      /\ pc'[q] = "done" => listed'[q] \subseteq Wanted(q, clone'[q])
    <2>1. TypeOK'
      BY NextTypes
    <2> QED BY <2>1 DEF Progress, TypeOK, Orphans, Wanted, Data, Files, Builds
  <1> DEFINE Kept == /\ q \in alone /\ pc[q] # "idle"
                     /\ pc'[q] = pc[q] /\ clone'[q] = clone[q] /\ todo'[q] = todo[q]
                     /\ listed'[q] = listed[q] /\ secret' = secret
  <1> DEFINE Goal == /\ \A n \in Wanted(q, clone'[q]) \ todo'[q] :
                           n \in Labelled' /\ secret'[n].data \in Data(q, clone'[q], n)
                     /\ pc'[q] \in {"prune", "done"} => Labelled' \subseteq Wanted(q, clone'[q]) \union listed'[q]
                     /\ pc'[q] = "prune" => listed'[q] \subseteq Labelled'
                     /\ pc'[q] = "done" => listed'[q] \subseteq Wanted(q, clone'[q])
  <1>1. CASE Kept
    <2>1. Labelled' = Labelled
      BY <1>1 DEF Labelled
    <2> QED BY <1>1, <2>1 DEF Progress, Orphans
  <1>2. ASSUME NEW r \in Releases, Sync(r) PROVE Goal
    <2>1. CASE q = r
      <3>1. Complete(r, head[r])
        BY <1>2, <2>1 DEF Sync, Exit, TypeOK
      <3>2. pc'[q] = "apply" /\ todo'[q] = Wanted(q, clone'[q])
        BY <1>2, <2>1, <3>1 DEF Sync, TypeOK
      <3> QED BY <3>2
    <2>2. CASE q # r
      BY <1>1, <1>2, <2>2 DEF Sync, Exit, TypeOK
    <2> QED BY <2>1, <2>2
  <1>3. ASSUME NEW r \in Releases, NEW m \in Names, Apply(r, m) PROVE Goal
    <2>1. q = r /\ q \in alone
      BY <1>3 DEF Apply
    <2>2. pc[q] = "apply" /\ pc'[q] = "apply" /\ clone'[q] = clone[q] /\ todo'[q] = todo[q] \ {m}
      BY <1>3, <2>1 DEF Apply, TypeOK
    <2>3. PICK d \in Data(q, clone[q], m) : secret' = [secret EXCEPT ![m] = [data |-> d, managed |-> TRUE]]
      BY <1>3, <2>1 DEF Apply
    <2>4. secret'[m] = [data |-> d, managed |-> TRUE] /\ \A n \in Names \ {m} : secret'[n] = secret[n]
      BY <2>3 DEF TypeOK
    <2>5. m \in Labelled' /\ secret'[m].data \in Data(q, clone'[q], m)
      <3>1. d \subseteq Entries
        BY <2>2, DataOfFile DEF Building
      <3>2. [data |-> d, managed |-> TRUE] \in [data : SUBSET Entries, managed : BOOLEAN]
        BY <3>1
      <3>3. [data |-> d, managed |-> TRUE] # NoSecret
        BY <3>2, MaterializeAssumption
      <3> QED BY <2>2, <2>4, <3>3 DEF Labelled
    <2>6. ASSUME NEW n \in Wanted(q, clone[q]) \ todo[q], n # m
          PROVE  n \in Labelled' /\ secret'[n].data \in Data(q, clone[q], n)
      BY <2>1, <2>2, <2>4, <2>6 DEF Progress, Labelled, Wanted
    <2> QED BY <2>2, <2>5, <2>6 DEF Wanted
  <1>4. ASSUME NEW r \in Releases, List(r) PROVE Goal
    <2>1. CASE q = r
      <3>1. /\ pc[q] = "apply" /\ pc'[q] = "prune" /\ todo[q] = {} /\ todo'[q] = {} /\ q \in alone
            /\ clone'[q] = clone[q] /\ listed'[q] = Labelled /\ secret' = secret
        BY <1>4, <2>1 DEF List, Live, TypeOK
      <3>2. Labelled' = Labelled
        BY <3>1 DEF Labelled
      <3> QED BY <3>1, <3>2 DEF Progress
    <2>2. CASE q # r
      BY <1>1, <1>4, <2>2 DEF List, TypeOK
    <2> QED BY <2>1, <2>2
  <1>5. ASSUME NEW r \in Releases, NEW m \in Names, Prune(r, m) PROVE Goal
    <2>1. CASE secret[m] = NoSecret
      <3>1. q # r
        BY <1>5, <2>1 DEF Prune, Exit, TypeOK
      <3> QED BY <1>1, <1>5, <2>1, <3>1 DEF Prune, Exit, TypeOK
    <2>2. CASE secret[m] # NoSecret
      <3>1. /\ q = r /\ q \in alone /\ pc[q] = "prune" /\ pc'[q] = "prune"
            /\ clone'[q] = clone[q] /\ todo'[q] = todo[q] /\ listed'[q] = listed[q] \ {m}
            /\ m \notin Wanted(q, clone[q])
        BY <1>5, <2>2 DEF Prune, Orphans, TypeOK
      <3>2. secret'[m] = NoSecret /\ \A n \in Names \ {m} : secret'[n] = secret[n]
        BY <1>5, <2>2 DEF Prune, TypeOK
      <3>3. Labelled' = Labelled \ {m}
        BY <3>2 DEF Labelled
      <3>4. \A n \in Wanted(q, clone[q]) \ todo[q] :
              n \in Labelled' /\ secret'[n].data \in Data(q, clone[q], n)
        BY <3>1, <3>2, <3>3 DEF Progress, Wanted
      <3> QED BY <3>1, <3>3, <3>4 DEF Progress
    <2> QED BY <2>1, <2>2
  <1>6. ASSUME NEW r \in Releases, Finish(r) PROVE Goal
    <2>1. CASE q = r
      <3>1. /\ pc[q] = "prune" /\ pc'[q] = "done" /\ todo'[q] = todo[q] /\ q \in alone
            /\ clone'[q] = clone[q] /\ listed'[q] = listed[q] /\ secret' = secret
            /\ listed[q] \subseteq Wanted(q, clone[q])
        BY <1>6, <2>1 DEF Finish, Orphans, TypeOK
      <3>2. Labelled' = Labelled
        BY <3>1 DEF Labelled
      <3> QED BY <3>1, <3>2 DEF Progress
    <2>2. CASE q # r
      BY <1>1, <1>6, <2>2 DEF Finish, TypeOK
    <2> QED BY <2>1, <2>2
  <1>7. ASSUME NEW r \in Releases, Abort(r) PROVE Goal
    BY <1>1, <1>7 DEF Abort, Exit, TypeOK
  <1>8. ASSUME NEW r \in Releases, Push(r) PROVE Goal
    BY <1>1, <1>8 DEF Push, job
  <1>9. ASSUME NEW n \in Names, Edit(n) PROVE FALSE
    BY <1>9 DEF Edit
  <1> QED BY <1>2, <1>3, <1>4, <1>5, <1>6, <1>7, <1>8, <1>9 DEF Next, Run

LEMMA StutterInv == ASSUME IInv, UNCHANGED vars PROVE IInv'
  <1> USE DEF IInv, vars, job, bounds
  <1>1. TypeOK'
    BY DEF TypeOK
  <1>2. Building'
    BY DEF Building, Complete, Wanted, Data, Files, Builds
  <1>3. WholeTree'
    <2>1. Labelled' = Labelled /\ origin' = origin /\ secret' = secret
      BY DEF Labelled
    <2> QED BY <2>1 DEF WholeTree
  <1>4. Progress'
    <2>1. Labelled' = Labelled
      BY DEF Labelled
    <2>2. ASSUME NEW r \in Releases PROVE Orphans(r)' = Orphans(r)
      BY DEF Orphans
    <2>3. clone' = clone /\ todo' = todo /\ listed' = listed /\ pc' = pc /\ alone' = alone /\ secret' = secret
      OBVIOUS
    <2>4. ASSUME NEW r \in alone', pc'[r] # "idle"
          PROVE  /\ \A n \in Wanted(r, clone'[r]) \ todo'[r] :
                      n \in Labelled' /\ secret'[n].data \in Data(r, clone'[r], n)
                 /\ pc'[r] \in {"prune", "done"} => Labelled' \subseteq Wanted(r, clone'[r]) \union listed'[r]
                 /\ pc'[r] = "prune" => listed'[r] \subseteq Labelled'
                 /\ pc'[r] = "done" => Orphans(r)' = {}
      <3>1. r \in Releases
        BY DEF TypeOK
      <3>2. Orphans(r)' = Orphans(r)
        BY <2>2, <3>1
      <3> QED BY ONLY <2>1, <2>3, <2>4, <3>2, Progress DEF Progress
    <2> QED BY <2>4 DEF Progress, Wanted, Data, Files, Builds
  <1> QED BY <1>1, <1>2, <1>3, <1>4

-----------------------------------------------------------------------------

\* The inductive invariant of the Jobs, the namespace and the trees.
THEOREM InductiveInvariant == Spec => []IInv
  <1>1. IInv /\ [Next]_vars => IInv'
    BY NextTypes, NextBuilding, NextWholeTree, NextProgress, StutterInv DEF IInv
  <1> QED BY <1>1, InitInv, PTL DEF Spec

\* Every variable of the Jobs and the namespace keeps its shape.
THEOREM TypeCorrect == Spec => []TypeOK
  <1>1. IInv => TypeOK
    BY DEF IInv
  <1> QED BY <1>1, InductiveInvariant, PTL

\* Gate #2: nothing is delivered from a tree with a file not sealed for the release.
THEOREM NothingFromABrokenTree == Spec => []WholeTree
  <1>1. IInv => WholeTree
    BY DEF IInv
  <1> QED BY <1>1, InductiveInvariant, PTL

\* A run that finishes leaves exactly its tree, unless somebody else wrote meanwhile.
THEOREM FinishedIsExact == Spec => []Exact
  <1>1. IInv => Exact
    BY DEF IInv, TypeOK, Exact, Building, Progress, Orphans, Labelled
  <1> QED BY <1>1, InductiveInvariant, PTL

\* The prune deletes only what the run listed, and only what carries the label
\* while nobody else writes.
THEOREM OthersSecretsKept == Spec => ForeignKept
  <1>1. IInv /\ [Next]_vars =>
          [\A n \in Names :
             secret[n] # NoSecret /\ secret'[n] = NoSecret /\ edits' = edits
               => \E r \in Releases : pc[r] = "prune" /\ n \in listed[r] /\
                    (secret[n].managed \/ r \notin alone)]_vars
    <2> SUFFICES ASSUME IInv, [Next]_vars, NEW n \in Names,
                        secret[n] # NoSecret, secret'[n] = NoSecret, edits' = edits
                 PROVE  \E r \in Releases : pc[r] = "prune" /\ n \in listed[r] /\
                          (secret[n].managed \/ r \notin alone)
      OBVIOUS
    <2>1. PICK r \in Releases : Prune(r, n)
      <3>1. ASSUME NEW m \in Names, Edit(m) PROVE FALSE
        BY <3>1 DEF Edit, IInv, TypeOK
      <3>2. ASSUME NEW r \in Releases, NEW m \in Names, Apply(r, m) PROVE FALSE
        <4>1. CASE m # n
          BY <3>2, <4>1 DEF Apply, IInv, TypeOK
        <4>2. CASE m = n
          <5>1. PICK d \in Data(r, clone[r], n) : secret'[n] = [data |-> d, managed |-> TRUE]
            BY <3>2, <4>2 DEF Apply, IInv, TypeOK
          <5>2. d \subseteq Entries
            BY <3>2, <4>2, <5>1, DataOfFile DEF IInv, Building, Apply
          <5> QED BY <5>1, <5>2, MaterializeAssumption
        <4> QED BY <4>1, <4>2
      <3>3. ASSUME NEW r \in Releases, NEW m \in Names, Prune(r, m) PROVE m = n
        BY <3>3 DEF Prune, IInv, TypeOK
      <3>4. Next
        BY DEF vars
      <3> QED BY <3>1, <3>2, <3>3, <3>4 DEF Next, Run, Sync, List, Finish, Abort, Push
    <2>2. pc[r] = "prune" /\ n \in listed[r]
      BY <2>1 DEF Prune, Orphans
    <2> QED BY <2>2 DEF IInv, Progress, Labelled
  <1> QED BY <1>1, InductiveInvariant, PTL DEF Spec, ForeignKept

\* A step of the steady Job, at a namespace that is as its head says: what it
\* applies is there already, and there is nothing to prune.
LEMMA SteadyStep ==
  ASSUME IInv, Delivered, Resting, UNCHANGED <<head, visits, edits>>, [Next]_vars
  PROVE  Delivered' /\ Resting'
  <1> USE DEF IInv
  <1> DEFINE want == Wanted(Steady, head[Steady])
  <1>0. /\ Steady \in Releases /\ Labelled = want
        /\ \A n \in Labelled : secret[n].data \in Data(Steady, head[Steady], n)
    BY MaterializeAssumption DEF Delivered
  <1>1. CASE UNCHANGED <<secret, head>> /\ Resting'
    BY <1>1 DEF Delivered, Labelled
  <1>2. ASSUME NEW n \in Names, Apply(Steady, n) PROVE Delivered' /\ Resting'
    <2>1. clone[Steady] = head[Steady] /\ UNCHANGED <<head, pc, clone, listed>>
      BY <1>2 DEF Apply, Resting
    <2>2. Resting'
      BY <2>1 DEF Resting
    <2>3. n \in want
      BY <1>0, <1>2, <2>1 DEF Apply, Building
    <2>4. PICK d \in Data(Steady, head[Steady], n) :
            secret' = [secret EXCEPT ![n] = [data |-> d, managed |-> TRUE]]
      BY <1>2, <2>1 DEF Apply
    <2>5. [data |-> d, managed |-> TRUE] # NoSecret
      <3>1. d \subseteq Entries
        BY <1>0, DataOfFile DEF TypeOK
      <3>2. [data |-> d, managed |-> TRUE] \in [data : SUBSET Entries, managed : BOOLEAN]
        BY <3>1
      <3> QED
        BY <3>2, MaterializeAssumption
    <2>6. Labelled' = Labelled
      BY <1>0, <2>3, <2>4, <2>5 DEF Labelled, TypeOK
    <2>7. \A m \in Labelled : secret'[m].data \in Data(Steady, head[Steady], m)
      BY <1>0, <2>4 DEF Labelled, TypeOK
    <2> QED
      BY <1>0, <2>1, <2>2, <2>6, <2>7 DEF Delivered
  <1>3. ASSUME NEW n \in Names, Prune(Steady, n) PROVE FALSE
    BY <1>0, <1>3 DEF Prune, Orphans, Resting
  <1>4. CASE Sync(Steady)
    BY <1>0, <1>1, <1>4 DEF Sync, Exit, Resting, TypeOK
  <1>5. CASE List(Steady)
    BY <1>0, <1>1, <1>5 DEF List, Live, Resting, TypeOK
  <1>6. CASE Finish(Steady)
    BY <1>0, <1>1, <1>6 DEF Finish, Resting, TypeOK
  <1>7. CASE Abort(Steady)
    BY <1>0, <1>1, <1>7 DEF Abort, Exit, Resting, TypeOK
  <1>8. ASSUME NEW r \in Releases \ {Steady}, Sync(r) \/ Run(r) \/ Abort(r) PROVE FALSE
    <2>1. pc[r] \in {"idle", "done"}
      BY DEF Resting
    <2>2. ~ Sync(r)
      <3> SUFFICES ASSUME Sync(r) PROVE FALSE
        OBVIOUS
      <3>1. visits' = visits + 1 /\ visits' = visits
        BY DEF Sync
      <3> QED
        BY <3>1 DEF TypeOK
    <2> QED
      BY <1>8, <2>1, <2>2 DEF Run, Apply, Prune, List, Finish, Abort
  <1>9. ASSUME NEW r \in Releases, Push(r) PROVE Delivered' /\ Resting'
    BY <1>1, <1>9 DEF Push, job, Resting
  <1>10. ASSUME NEW n \in Names, Edit(n) PROVE FALSE
    <2>1. edits' = edits + 1 /\ edits' = edits
      BY <1>10 DEF Edit
    <2> QED
      BY <2>1 DEF TypeOK
  <1>11. CASE UNCHANGED vars
    BY <1>1, <1>11 DEF vars, job, Resting
  <1> QED
    BY <1>0, <1>2, <1>3, <1>4, <1>5, <1>6, <1>7, <1>8, <1>9, <1>10, <1>11 DEF Next, Run

\* The safety half of Converges: however often the steady Job is run again, crashes
\* or is retried, what is delivered stays, for any number of releases and files.
THEOREM DeliveredIsStable == Spec => DeliveredStays
  <1>1. IInv /\ [Next]_vars =>
          [Delivered /\ Resting /\ UNCHANGED <<head, visits, edits>>
             => Delivered' /\ Resting']_vars
    BY SteadyStep
  <1> QED BY <1>1, InductiveInvariant, PTL DEF Spec, DeliveredStays
=============================================================================

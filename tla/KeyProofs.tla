------------------------------ MODULE KeyProofs ------------------------------
(***************************************************************************)
(* The keys of the projects, from the run of an onboarding that mints or   *)
(* finds one (Onboard) to the broker that serves it (KeyStore).            *)
(*                                                                         *)
(* For any projects, flags and registry: runs that die between any two of  *)
(* their writes leave the key directory, repo.yaml, the Secret and the     *)
(* registry such that the next run can finish, and a run that finishes     *)
(* leaves them in agreement.  For any files and changes of the directory:  *)
(* a broker that serves always has a key, a load keeps every project whose *)
(* own file stayed as it was, and a load nothing disturbed is exact.       *)
(***************************************************************************)
EXTENDS Onboard, KeyStore, TLAPS

-----------------------------------------------------------------------------
(***************************************************************************)
(* The onboarding                                                          *)
(***************************************************************************)

Topology == [Envs -> Env \union {None}]

\* A minted topology has the environments of the one it came from, each with
\* the run's recipient.
LEMMA MintedTopology ==
  ASSUME NEW envs \in Topology, NEW g \in Keys
  PROVE  /\ MintEnvMaterializerKeys(envs, g) \in Topology
         /\ \A e \in Envs : MintEnvMaterializerKeys(envs, g)[e] # None =>
              MintEnvMaterializerKeys(envs, g)[e].recipient = g
BY DEF MintEnvMaterializerKeys, Topology, Env

\* The row of a run is its project's, has its recipients, and a level everywhere.
LEMMA RowOfRun ==
  ASSUME NEW p \in Projects, NEW envs \in Topology
  PROVE  /\ RegistryEntryFor(p, envs) \in Row /\ RegistryEntryFor(p, envs).pid = p
         /\ \A e \in Envs : RegistryEntryFor(p, envs).envs[e] # None =>
              /\ envs[e] # None
              /\ RegistryEntryFor(p, envs).envs[e].recipient = envs[e].recipient
              /\ RegistryEntryFor(p, envs).envs[e].level # 0
<1> DEFINE level(e) == IF envs[e].level = 0 THEN Default ELSE envs[e].level
           filled(e) == IF envs[e] = None THEN None ELSE [envs[e] EXCEPT !.level = level(e)]
<1>1. RegistryEntryFor(p, envs) = [pid |-> p, envs |-> [e \in Envs |-> filled(e)]]
  BY DEF RegistryEntryFor
<1>2. ASSUME NEW e \in Envs, envs[e] # None
      PROVE  filled(e) \in Env /\ filled(e).recipient = envs[e].recipient /\ filled(e).level # 0
  <2>1. envs[e] \in Env
    BY <1>2 DEF Topology
  <2>2. level(e) \in Levels /\ level(e) # 0
    BY <2>1, OnboardAssumption DEF Env
  <2> QED
    BY <1>2, <2>1, <2>2 DEF Env
<1>3. \A e \in Envs : filled(e) \in Env \union {None}
  BY <1>2
<1> QED
  BY <1>1, <1>2, <1>3 DEF Row

\* The row an edit starts from is one of the registry's, or has no environments.
LEMMA EditedRow ==
  ASSUME TypeOK, NEW k \in Keys, NEW pid \in Projects \union {None}, NEW row \in entry(k, pid)
  PROVE  /\ row \in Row
         /\ rows[k] # None => row = rows[k]
         /\ \A e \in Envs : rows[k] = None => row.envs[e] = None
BY DEF TypeOK, entry, Row

LEMMA InitTypeOK == Init => TypeOK
<1> SUFFICES ASSUME Init PROVE TypeOK
  OBVIOUS
<1> USE OnboardAssumption DEF Init
<1>1. 0 \in Keys /\ runs \in Keys /\ edits \in 0 .. MaxEdits
  BY DEF Keys
<1>2. staged \in [Projects -> Keys \union {None}] /\ repo \in [Projects -> Keys \union {None}]
      /\ secret \in [Projects -> Keys \union {None}]
      /\ settled \in [Projects -> Keys \union {None}] /\ mints \in [Projects -> 0 .. MaxRuns]
  BY <1>1 DEF Keys
<1>3. rows \in [Keys -> Row \union {None}]
  <2>1. [pid : {Fleet}, envs : [Envs -> [recipient : {0}, level : Levels, namespace : BOOLEAN]]]
          \subseteq Row
    BY <1>1 DEF Row, Env
  <2> QED
    BY <2>1
<1>4. \A k \in Keys \ {0} : rows[k] = None
  OBVIOUS
<1> QED
  BY <1>1, <1>2, <1>3, <1>4 DEF TypeOK

LEMMA InitIInv == Init => IInv
<1> SUFFICES ASSUME Init PROVE IInv
  OBVIOUS
<1>1. TypeOK
  BY InitTypeOK
<1> USE OnboardAssumption DEF Init
<1>2. Minted
  <2>1. 0 <= runs
    OBVIOUS
  <2>2. \A k \in Keys : rows[k] # None =>
          /\ k = 0
          /\ rows[k].envs \in [Envs -> [recipient : {0}, level : Levels, namespace : BOOLEAN]]
    OBVIOUS
  <2> QED
    BY <2>1, <2>2 DEF Minted
<1>3. Progress /\ Fresh /\ Agreement
  BY DEF Progress, Fresh, Agreement
<1>4. Owned
  BY DEF Owned, Held
<1>5. Behind
  BY DEF Behind
<1>6. OneKey
  <2>1. \A k \in Keys : rows[k] # None => rows[k].pid = Fleet
    OBVIOUS
  <2> QED
    BY <2>1 DEF OneKey
<1>7. EnvKeysPrivate
  <2>1. \A k \in Keys : rows[k] # None => rows[k].pid = Fleet
    OBVIOUS
  <2> QED
    BY <2>1 DEF EnvKeysPrivate
<1> QED
  BY <1>1, <1>2, <1>3, <1>4, <1>5, <1>6, <1>7 DEF IInv

-----------------------------------------------------------------------------

LEMMA PlanIInv ==
  ASSUME IInv, NEW p \in Projects, NEW flags \in Commands, Plan(p, flags)
  PROVE  IInv'
<1> USE DEF IInv, TypeOK
<1> DEFINE g == runs + 1
           key == KeyOf(p, flags, g)
<1>1. /\ flags \in Flags /\ runs \in Nat /\ g \in Keys /\ runs' = g /\ g \notin 0 .. runs
      /\ pc = "idle" /\ pc' = "planned" /\ None \notin Keys
      /\ UNCHANGED <<repo, secret, emitted, rows, edits, typed>>
      /\ settled' = [settled EXCEPT ![p] = None]
      /\ loose' = IF flags.keystore THEN loose ELSE loose \union {p}
      /\ rotated' = IF flags.rotate THEN rotated \union {p} ELSE rotated
  BY OnboardAssumption DEF Plan, Keys
<1>2. key \in Keys /\ (key = g \/ (flags.keystore /\ ~flags.rotate /\ key = staged[p] /\ staged[p] # None))
  BY <1>1 DEF KeyOf
<1>3. PICK k \in Keys :
        LET envs == MintEnvMaterializerKeys(rows[k].envs, g)
        IN  /\ HasEnvs(rows[k])
            /\ run' = [project |-> p, key |-> key, gen |-> g, envs |-> envs,
                       deliver |-> flags.deliver, merge |-> flags.merge]
            /\ staged' = IF flags.keystore THEN [staged EXCEPT ![p] = key] ELSE staged
            /\ mints' = [mints EXCEPT ![p] = IF key = g THEN @ + 1 ELSE @]
  BY DEF Plan
<1> DEFINE envs == MintEnvMaterializerKeys(rows[k].envs, g)
<1>4. /\ envs \in Topology
      /\ \A e \in Envs : envs[e] # None => envs[e].recipient = g
  <2>1. rows[k] # None /\ rows[k] \in Row
    BY <1>3 DEF HasEnvs
  <2>2. rows[k].envs \in Topology
    BY <2>1 DEF Row, Topology
  <2> QED
    BY <1>1, <2>2, MintedTopology
<1>5. run' \in Run /\ run' # None
  BY <1>1, <1>2, <1>3, <1>4, OnboardAssumption DEF Run, Topology, Flags
<1>6. mints' \in [Projects -> 0 .. MaxRuns] /\ \A q \in Projects : mints'[q] <= runs'
  <2>1. \A q \in Projects : mints[q] \in Nat /\ mints[q] <= runs
    BY OnboardAssumption DEF Minted
  <2>2. \A q \in Projects : mints'[q] \in {mints[q], mints[q] + 1}
    BY <1>3
  <2>3. g <= MaxRuns
    BY <1>1 DEF Keys
  <2>4. \A q \in Projects : mints'[q] \in Nat /\ mints'[q] <= g
    BY <1>1, <2>1, <2>2
  <2>5. \A q \in Projects : mints'[q] \in 0 .. MaxRuns
    BY <1>1, <2>3, <2>4, OnboardAssumption
  <2>6. mints' = [q \in Projects |-> mints'[q]]
    BY <1>3
  <2> QED
    BY <1>1, <2>4, <2>5, <2>6
<1>7. TypeOK'
  <2>1. staged' \in [Projects -> Keys \union {None}] /\ settled' \in [Projects -> Keys \union {None}]
    BY <1>1, <1>2, <1>3
  <2> QED
    BY <1>1, <1>5, <1>6, <2>1
<1>8. Minted'
  <2>1. \A q \in Projects : {staged'[q], repo'[q], secret'[q], settled'[q]} \subseteq (0 .. runs') \union {None}
    BY <1>1, <1>2, <1>3 DEF Minted, Keys
  <2>2. ASSUME NEW j \in Keys, rows[j] # None
        PROVE  j <= g /\ \A e \in Envs : rows[j].envs[e] # None => rows[j].envs[e].recipient <= g
    <3>1. j <= runs
      BY <2>2 DEF Minted
    <3>2. ASSUME NEW e \in Envs, rows[j].envs[e] # None
          PROVE  rows[j].envs[e].recipient <= g
      <4>1. rows[j].envs[e].recipient \in Keys /\ rows[j].envs[e].recipient <= runs
        BY <2>2, <3>2 DEF Row, Env, Minted
      <4> QED
        BY <4>1, <1>1 DEF Keys
    <3> QED
      BY <3>1, <3>2, <1>1 DEF Keys
  <2> QED
    BY <1>1, <1>6, <2>1, <2>2 DEF Minted
<1>9. Progress'
  <2>1. p \notin loose' => staged'[p] = key
    BY <1>1, <1>3
  <2>2. key <= g
    BY <1>1, <1>2 DEF Minted, Keys
  <2> QED
    BY <1>1, <1>3, <1>4, <2>1, <2>2 DEF Progress
<1>10. Owned'
  <2>1. \A q \in Projects : q # p => Held(q)' = Held(q)
    BY <1>1, <1>3 DEF Held
  <2>2. Held(p)' \subseteq Held(p) \union {g}
    BY <1>1, <1>2, <1>3 DEF Held
  <2>3. \A q \in Projects : g \notin Held(q)
    BY <1>1 DEF Held, Minted
  <2>4. ASSUME NEW q \in Projects, NEW r \in Projects, q # r
        PROVE  Held(q)' \intersect Held(r)' \subseteq {None}
    <3>1. Held(q) \intersect Held(r) \subseteq {None}
      BY <2>4 DEF Owned
    <3> QED
      BY <2>1, <2>2, <2>3, <2>4, <3>1
  <2> QED
    BY <2>4 DEF Owned
<1>11. Behind'
  <2> SUFFICES ASSUME NEW q \in Projects, q \notin loose'
               PROVE  /\ mints'[q] = 0 => secret'[q] = staged'[q] /\ repo'[q] \in {None, staged'[q]}
                      /\ mints'[q] = 1 => repo'[q] \in {None, staged'[q], secret'[q]}
    BY DEF Behind
  <2>1. q \notin loose
    BY <1>1
  <2>2. CASE q # p
    BY <1>1, <1>3, <2>1, <2>2 DEF Behind
  <2>3. CASE q = p /\ key # g
    <3>1. mints'[q] = mints[q] /\ staged'[q] = staged[q]
      BY <1>2, <1>3, <2>3
    <3> QED
      BY <1>1, <2>1, <3>1 DEF Behind
  <2>4. CASE q = p /\ key = g
    <3>1. mints'[q] = mints[q] + 1 /\ mints[q] \in Nat
      BY <1>3, <2>4
    <3> QED
      BY <1>1, <2>1, <3>1 DEF Behind
  <2> QED
    BY <2>2, <2>3, <2>4
<1>12. Fresh'
  <2>1. ASSUME NEW j \in Keys, NEW e \in Envs, rows[j] # None, rows[j].envs[e] # None
        PROVE  rows[j].envs[e].recipient # g
    <3>1. rows[j].envs[e].recipient \in Keys /\ rows[j].envs[e].recipient <= runs
      BY <2>1 DEF Row, Env, Minted
    <3> QED
      BY <1>1, <3>1
  <2> QED
    BY <1>1, <1>3, <2>1 DEF Fresh
<1>13. Agreement'
  BY <1>1 DEF Agreement
<1>14. OneKey'
  <2> SUFFICES ASSUME NEW q \in Projects, q \notin loose' \union rotated'
               PROVE  /\ {repo[q], secret[q]} \subseteq {None, staged'[q]}
                      /\ \A j \in Keys \ typed : rows[j] # None /\ rows[j].pid = q => j = staged'[q]
    BY <1>1 DEF OneKey
  <2>1. q \notin loose \union rotated
    BY <1>1
  <2>2. CASE q # p
    BY <1>3, <2>1, <2>2 DEF OneKey
  <2>3. CASE q = p
    <3>1. flags.keystore /\ ~flags.rotate
      BY <1>1, <2>3
    <3>2. CASE staged[p] # None
      BY <1>3, <2>1, <2>3, <3>1, <3>2 DEF OneKey, KeyOf
    <3>3. CASE staged[p] = None
      BY <1>1, <2>1, <2>3, <3>3 DEF OneKey, Keys
    <3> QED
      BY <3>2, <3>3
  <2> QED
    BY <2>2, <2>3
<1>15. EnvKeysPrivate'
  BY <1>1 DEF EnvKeysPrivate
<1> QED
  BY <1>7, <1>8, <1>9, <1>10, <1>11, <1>12, <1>13, <1>14, <1>15

\* What the run of a step is.
LEMMA Running ==
  ASSUME IInv, pc # "idle"
  PROVE  /\ run # None /\ run \in Run /\ run.project \in Projects /\ run.key \in Keys
         /\ run.gen \in Keys /\ run.envs \in Topology
BY DEF IInv, TypeOK, Run, Topology

LEMMA WriteRepoIInv ==
  ASSUME IInv, WriteRepo
  PROVE  IInv'
<1> USE DEF IInv, TypeOK
<1>1. /\ pc = "planned" /\ pc' = "written"
      /\ repo' = [repo EXCEPT ![run.project] = run.key]
      /\ UNCHANGED <<staged, secret, emitted, rows, run, runs, edits, hist>>
  BY DEF WriteRepo
<1> DEFINE p == run.project
<1>2. p \in Projects /\ run.key \in Keys /\ run # None
  BY <1>1, Running
<1>3. /\ run.key <= runs /\ settled[p] = None
      /\ p \notin loose => staged[p] = run.key
  BY <1>1 DEF Progress
<1>4. TypeOK'
  BY <1>1, <1>2 DEF hist
<1>5. Minted'
  <2>1. runs \in Nat /\ run.key \in 0 .. runs
    BY <1>2, <1>3, OnboardAssumption DEF Keys
  <2>2. \A q \in Projects : repo'[q] \in {repo[q], run.key}
    BY <1>1
  <2> QED
    BY <1>1, <2>1, <2>2 DEF Minted, hist
<1>6. Progress'
  BY <1>1, <1>2 DEF Progress, hist
<1>7. Owned'
  <2>1. \A q \in Projects : Held(q)' \subseteq Held(q)
    BY <1>1, <1>2 DEF Held
  <2> QED
    BY <2>1 DEF Owned
<1>8. Behind'
  <2> SUFFICES ASSUME NEW q \in Projects, q \notin loose
               PROVE  /\ mints[q] = 0 => secret[q] = staged[q] /\ repo'[q] \in {None, staged[q]}
                      /\ mints[q] = 1 => repo'[q] \in {None, staged[q], secret[q]}
    BY <1>1 DEF Behind, hist
  <2>1. repo'[q] \in {repo[q], staged[q]}
    BY <1>1, <1>3
  <2> QED
    BY <2>1 DEF Behind
<1>9. Agreement'
  <2>1. \A q \in Projects : settled[q] # None => repo'[q] = repo[q]
    BY <1>1, <1>3
  <2> QED
    BY <1>1, <2>1 DEF Agreement, hist
<1>10. OneKey'
  <2>1. \A q \in Projects \ (loose \union rotated) : repo'[q] \in {repo[q], staged[q]}
    BY <1>1, <1>3
  <2> QED
    BY <1>1, <2>1 DEF OneKey, hist
<1>11. Fresh' /\ EnvKeysPrivate'
  BY <1>1 DEF Fresh, EnvKeysPrivate, hist
<1> QED
  BY <1>4, <1>5, <1>6, <1>7, <1>8, <1>9, <1>10, <1>11

LEMMA DeliverIInv ==
  ASSUME IInv, Deliver
  PROVE  IInv'
<1> USE DEF IInv, TypeOK
<1> DEFINE p == run.project
<1>1. /\ pc = "written" /\ pc' = "delivered"
      /\ UNCHANGED <<staged, repo, rows, run, runs, edits, loose, rotated, settled, typed>>
  BY DEF Deliver
<1>2. p \in Projects /\ run.key \in Keys /\ run # None /\ run \in Run
  BY <1>1, Running
<1>3. \/ /\ run.deliver = "apply" /\ emitted' = emitted
         /\ secret' = [secret EXCEPT ![p] = run.key] /\ mints' = [mints EXCEPT ![p] = 0]
      \/ /\ run.deliver # "apply" /\ UNCHANGED <<secret, mints>>
         /\ emitted' \subseteq emitted \union {run.key}
  <2>1. run.deliver \in {"apply", "emit", "none"}
    BY <1>2 DEF Run
  <2> QED
    BY <2>1 DEF Deliver
<1>4. /\ run.key <= runs /\ settled[p] = None /\ repo[p] = run.key
      /\ p \notin loose => staged[p] = run.key
  BY <1>1 DEF Progress
<1>5. \A q \in Projects : secret'[q] = secret[q] \/ (q = p /\ secret'[q] = run.key)
  BY <1>3
<1>6. TypeOK'
  <2>1. secret' \in [Projects -> Keys \union {None}] /\ emitted' \subseteq Keys
    BY <1>2, <1>3
  <2>2. mints' \in [Projects -> 0 .. MaxRuns]
    BY <1>3, OnboardAssumption
  <2> QED
    BY <1>1, <2>1, <2>2
<1>7. Minted'
  <2>1. runs \in Nat /\ run.key \in 0 .. runs
    BY <1>2, <1>4, OnboardAssumption DEF Keys
  <2>2. \A q \in Projects : secret'[q] \in {secret[q], run.key}
    BY <1>5
  <2>3. \A q \in Projects : mints'[q] <= runs
    BY <1>3, <2>1 DEF Minted
  <2> QED
    BY <1>1, <2>1, <2>2, <2>3 DEF Minted
<1>8. Progress'
  BY <1>1, <1>2, <1>3 DEF Progress
<1>9. Owned'
  <2>1. \A q \in Projects : Held(q)' \subseteq Held(q)
    BY <1>1, <1>5 DEF Held
  <2> QED
    BY <2>1 DEF Owned
<1>10. Behind'
  <2> SUFFICES ASSUME NEW q \in Projects, q \notin loose
               PROVE  /\ mints'[q] = 0 => secret'[q] = staged[q] /\ repo[q] \in {None, staged[q]}
                      /\ mints'[q] = 1 => repo[q] \in {None, staged[q], secret'[q]}
    BY <1>1 DEF Behind
  <2>1. CASE q = p /\ run.deliver = "apply"
    BY <1>3, <1>4, <2>1
  <2>2. CASE ~(q = p /\ run.deliver = "apply")
    <3>1. secret'[q] = secret[q] /\ mints'[q] = mints[q]
      BY <1>3, <2>2
    <3> QED
      BY <3>1 DEF Behind
  <2> QED
    BY <2>1, <2>2
<1>11. Agreement'
  <2>1. \A q \in Projects : settled[q] # None => secret'[q] = secret[q]
    BY <1>4, <1>5
  <2> QED
    BY <1>1, <2>1 DEF Agreement
<1>12. OneKey'
  <2>1. \A q \in Projects \ (loose \union rotated) : secret'[q] \in {secret[q], staged[q]}
    BY <1>4, <1>5
  <2> QED
    BY <1>1, <2>1 DEF OneKey
<1>13. Fresh' /\ EnvKeysPrivate'
  BY <1>1 DEF Fresh, EnvKeysPrivate
<1> QED
  BY <1>6, <1>7, <1>8, <1>9, <1>10, <1>11, <1>12, <1>13

LEMMA MergeIInv ==
  ASSUME IInv, Merge
  PROVE  IInv'
<1> USE DEF IInv, TypeOK
<1> DEFINE p == run.project
           row == RegistryEntryFor(p, run.envs)
<1>1. /\ pc = "delivered" /\ pc' = "merged"
      /\ rows' = IF run.merge THEN [rows EXCEPT ![run.key] = row] ELSE rows
      /\ UNCHANGED <<staged, repo, secret, emitted, run, runs, edits, loose, rotated, mints, settled, typed>>
  BY DEF Merge, hist
<1>2. p \in Projects /\ run.key \in Keys /\ run.gen \in Keys /\ run.envs \in Topology
  BY <1>1, Running
<1>3. /\ run.key <= runs /\ run.gen = runs /\ settled[p] = None /\ repo[p] = run.key
      /\ p \notin loose => staged[p] = run.key
      /\ \A e \in Envs : run.envs[e] # None => run.envs[e].recipient = run.gen
  BY <1>1 DEF Progress
<1>4. /\ row \in Row /\ row.pid = p
      /\ \A e \in Envs : row.envs[e] # None => row.envs[e].recipient = run.gen /\ row.envs[e].level # 0
  BY <1>2, <1>3, RowOfRun
<1>5. \A k \in Keys : rows'[k] = rows[k] \/ (k = run.key /\ rows'[k] = row)
  BY <1>1
<1>6. TypeOK'
  <2>1. rows' \in [Keys -> Row \union {None}]
    BY <1>1, <1>4
  <2>2. \A k \in Keys \ {0}, e \in Envs : rows'[k] # None /\ rows'[k].envs[e] # None => rows'[k].envs[e].level # 0
    BY <1>4, <1>5
  <2> QED
    BY <1>1, <2>1, <2>2
<1>7. Minted'
  <2>1. runs <= runs
    BY OnboardAssumption DEF Keys
  <2>2. ASSUME NEW k \in Keys, rows'[k] # None
        PROVE  k <= runs /\ \A e \in Envs : rows'[k].envs[e] # None => rows'[k].envs[e].recipient <= runs
    BY <1>3, <1>4, <1>5, <2>1, <2>2 DEF Minted
  <2> QED
    BY <1>1, <2>2 DEF Minted
<1>8. Progress'
  BY <1>1, <1>2 DEF Progress
<1>9. Owned'
  BY <1>1 DEF Owned, Held
<1>10. Behind'
  BY <1>1 DEF Behind
<1>11. Agreement'
  <2> SUFFICES ASSUME NEW q \in Projects, settled[q] # None
               PROVE  rows'[repo[q]] = rows[repo[q]]
    BY <1>1 DEF Agreement
  <2>1. q # p /\ repo[q] # None
    BY <1>3 DEF Agreement
  <2>2. repo[q] # run.key
    BY <1>2, <1>3, <2>1 DEF Owned, Held
  <2> QED
    BY <1>5, <2>1, <2>2
<1>12. OneKey'
  <2>1. ASSUME NEW q \in Projects \ (loose \union rotated), NEW k \in Keys \ typed,
               rows'[k] # None, rows'[k].pid = q
        PROVE  k = staged[q]
    BY <1>3, <1>4, <1>5, <2>1 DEF OneKey
  <2> QED
    BY <1>1, <2>1 DEF OneKey
<1>13. Fresh'
  BY <1>1, <1>4, <1>5 DEF Fresh
<1>14. EnvKeysPrivate'
  <2> SUFFICES ASSUME NEW j \in Keys \ typed, NEW k \in Keys \ typed, NEW e \in Envs, NEW f \in Envs,
                      rows'[j] # None, rows'[k] # None, rows'[j].pid # rows'[k].pid,
                      rows'[j].envs[e] # None, rows'[k].envs[f] # None
               PROVE  rows'[j].envs[e].recipient # rows'[k].envs[f].recipient
    BY <1>1 DEF EnvKeysPrivate
  <2>1. CASE rows'[j] = rows[j] /\ rows'[k] = rows[k]
    BY <2>1 DEF EnvKeysPrivate
  <2>2. CASE j = run.key /\ rows'[j] = row
    <3>1. rows'[k] = rows[k] /\ rows[k].pid # p
      BY <1>4, <1>5, <2>2
    <3> QED
      BY <1>1, <1>4, <2>2, <3>1 DEF Fresh
  <2>3. CASE k = run.key /\ rows'[k] = row
    <3>1. rows'[j] = rows[j] /\ rows[j].pid # p
      BY <1>4, <1>5, <2>3
    <3> QED
      BY <1>1, <1>4, <2>3, <3>1 DEF Fresh
  <2> QED
    BY <1>5, <2>1, <2>2, <2>3
<1> QED
  BY <1>6, <1>7, <1>8, <1>9, <1>10, <1>11, <1>12, <1>13, <1>14

LEMMA PrintIdentitiesIInv ==
  ASSUME IInv, PrintIdentities
  PROVE  IInv'
<1> USE DEF IInv, TypeOK
<1> DEFINE p == run.project
           g == IF run.deliver = "apply" /\ run.merge THEN run.gen ELSE None
<1>1. /\ pc = "merged" /\ pc' = "idle" /\ run' = None
      /\ settled' = [settled EXCEPT ![p] = g]
      /\ UNCHANGED <<staged, repo, secret, emitted, rows, runs, edits, loose, rotated, mints, typed>>
  BY DEF PrintIdentities, files
<1>2. p \in Projects /\ run.key \in Keys /\ run.gen \in Keys /\ run.envs \in Topology
  BY <1>1, Running
<1>3. /\ run.gen = runs /\ repo[p] = run.key
      /\ \A e \in Envs : run.envs[e] # None => run.envs[e].recipient = run.gen
      /\ run.deliver = "apply" => secret[p] = run.key
      /\ run.merge => rows[run.key] = RegistryEntryFor(p, run.envs)
  BY <1>1 DEF Progress
<1>4. TypeOK'
  BY <1>1, <1>2
<1>5. Minted'
  <2>1. g \in (0 .. runs) \union {None}
    BY <1>3, OnboardAssumption DEF Keys
  <2>2. \A q \in Projects : settled'[q] \in {settled[q], g}
    BY <1>1
  <2> QED
    BY <1>1, <2>1, <2>2 DEF Minted
<1>6. Progress' /\ Fresh'
  BY <1>1 DEF Progress, Fresh
<1>7. Owned'
  <2>1. \A q \in Projects : Held(q)' \subseteq Held(q)
    BY <1>1 DEF Held
  <2> QED
    BY <2>1 DEF Owned
<1>8. Behind' /\ OneKey' /\ EnvKeysPrivate'
  BY <1>1 DEF Behind, OneKey, EnvKeysPrivate
<1>9. Agreement'
  <2> SUFFICES ASSUME NEW q \in Projects, settled'[q] # None
               PROVE  /\ repo[q] # None /\ secret[q] = repo[q]
                      /\ rows[repo[q]] # None /\ rows[repo[q]].pid = q
                      /\ \A e \in Envs : rows[repo[q]].envs[e] # None =>
                           rows[repo[q]].envs[e].recipient = settled'[q]
    BY <1>1 DEF Agreement
  <2>1. CASE q = p
    <3>1. run.deliver = "apply" /\ run.merge /\ settled'[q] = run.gen
      BY <1>1, <1>2, <2>1
    <3>2. LET row == RegistryEntryFor(p, run.envs)
          IN  /\ row \in Row /\ row.pid = p
              /\ \A e \in Envs : row.envs[e] # None => row.envs[e].recipient = run.gen
      BY <1>2, <1>3, RowOfRun
    <3> QED
      BY <1>2, <1>3, <2>1, <3>1, <3>2, OnboardAssumption
  <2>2. CASE q # p
    BY <1>1, <2>2 DEF Agreement
  <2> QED
    BY <2>1, <2>2
<1> QED
  BY <1>4, <1>5, <1>6, <1>7, <1>8, <1>9

LEMMA DieIInv ==
  ASSUME IInv, Die
  PROVE  IInv'
<1> USE DEF IInv, TypeOK
<1> DEFINE p == run.project
<1>1. /\ pc # "idle" /\ pc' = "idle" /\ run' = None
      /\ UNCHANGED <<staged, emitted, runs, edits, loose, rotated, mints, typed>>
  BY DEF Die
<1>2. p \in Projects /\ run.key \in Keys
  BY <1>1, Running
<1>3. run.key <= runs /\ settled[p] = None /\ (p \notin loose => staged[p] = run.key)
  BY <1>1 DEF Progress
<1>4. Progress' /\ Fresh'
  BY <1>1 DEF Progress, Fresh
<1>5. CASE UNCHANGED <<repo, secret, rows, settled>>
  <2>1. TypeOK' /\ Minted' /\ Behind' /\ OneKey' /\ EnvKeysPrivate' /\ Agreement'
    BY <1>1, <1>5 DEF Minted, Behind, OneKey, EnvKeysPrivate, Agreement
  <2>2. \A q \in Projects : Held(q)' \subseteq Held(q)
    BY <1>1, <1>5 DEF Held
  <2> QED
    BY <1>4, <2>1, <2>2 DEF Owned
<1>6. CASE repo' = [repo EXCEPT ![p] = None] /\ UNCHANGED <<secret, rows, settled>>
  <2>1. TypeOK'
    BY <1>1, <1>6
  <2>2. Minted' /\ Behind' /\ OneKey' /\ EnvKeysPrivate'
    BY <1>1, <1>6 DEF Minted, Behind, OneKey, EnvKeysPrivate
  <2>3. Agreement'
    <3>1. \A q \in Projects : settled[q] # None => repo'[q] = repo[q]
      BY <1>3, <1>6
    <3> QED
      BY <1>6, <3>1 DEF Agreement
  <2>4. \A q \in Projects : Held(q)' \subseteq Held(q) \union {None}
    BY <1>1, <1>6 DEF Held
  <2> QED
    BY <1>4, <2>1, <2>2, <2>3, <2>4 DEF Owned
<1>7. CASE /\ pc = "written" /\ secret' = [secret EXCEPT ![p] = run.key]
           /\ UNCHANGED <<repo, rows, settled>>
  <2>1. TypeOK'
    BY <1>1, <1>2, <1>7
  <2>2. \A q \in Projects : secret'[q] = secret[q] \/ (q = p /\ secret'[q] = run.key)
    BY <1>7
  <2>3. repo[p] = run.key
    BY <1>7 DEF Progress
  <2>4. Minted'
    <3>1. run.key \in 0 .. runs
      BY <1>2, <1>3, OnboardAssumption DEF Keys
    <3> QED
      BY <1>1, <1>7, <2>2, <3>1 DEF Minted
  <2>5. Behind' /\ OneKey'
    <3>1. \A q \in Projects \ loose : secret'[q] = secret[q] \/ (secret'[q] = staged[q] /\ repo[q] = staged[q])
      BY <1>3, <2>2, <2>3
    <3> QED
      BY <1>1, <1>7, <3>1 DEF Behind, OneKey
  <2>6. Agreement'
    <3>1. \A q \in Projects : settled[q] # None => secret'[q] = secret[q]
      BY <1>3, <2>2
    <3> QED
      BY <1>7, <3>1 DEF Agreement
  <2>7. Owned'
    <3>1. \A q \in Projects : Held(q)' \subseteq Held(q)
      BY <1>1, <1>7, <2>2 DEF Held
    <3> QED
      BY <3>1 DEF Owned
  <2>8. EnvKeysPrivate'
    BY <1>1, <1>7 DEF EnvKeysPrivate
  <2> QED
    BY <1>4, <2>1, <2>4, <2>5, <2>6, <2>7, <2>8
<1>8. CASE /\ rows' = [k \in Keys |-> None] /\ settled' = [q \in Projects |-> None]
           /\ UNCHANGED <<repo, secret>>
  <2>1. TypeOK' /\ Minted' /\ EnvKeysPrivate' /\ Agreement'
    BY <1>1, <1>8 DEF Minted, EnvKeysPrivate, Agreement
  <2>2. Behind' /\ OneKey'
    BY <1>1, <1>8 DEF Behind, OneKey
  <2>3. \A q \in Projects : Held(q)' \subseteq Held(q)
    BY <1>1, <1>8 DEF Held
  <2> QED
    BY <1>4, <2>1, <2>2, <2>3 DEF Owned
<1> QED
  BY <1>5, <1>6, <1>7, <1>8 DEF Die

\* An edit changes one row, which is the administrator's from then on.
LEMMA EditIInv ==
  ASSUME IInv, NEW k \in 0 .. runs, Edited(k), NEW row \in Row, rows' = [rows EXCEPT ![k] = row],
         \A e \in Envs : row.envs[e] # None => row.envs[e].recipient <= runs,
         \A e \in Envs : k # 0 /\ row.envs[e] # None => row.envs[e].level # 0
  PROVE  IInv'
<1> USE DEF IInv, TypeOK
<1>1. /\ pc = "idle" /\ edits < MaxEdits /\ edits' = edits + 1 /\ typed' = typed \union {k}
      /\ settled' = [p \in Projects |-> IF repo[p] = k THEN None ELSE settled[p]]
      /\ UNCHANGED <<staged, repo, secret, emitted, pc, run, runs, loose, rotated, mints>>
  BY DEF Edited
<1>2. k \in Keys /\ k <= runs
  BY OnboardAssumption DEF Keys
<1>3. \A j \in Keys : j # k => rows'[j] = rows[j]
  OBVIOUS
<1>4. TypeOK'
  <2>1. edits' \in 0 .. MaxEdits
    BY <1>1, OnboardAssumption
  <2>2. rows' \in [Keys -> Row \union {None}]
    OBVIOUS
  <2>3. settled' \in [Projects -> Keys \union {None}]
    BY <1>1
  <2>4. \A j \in Keys \ {0}, e \in Envs : rows'[j] # None /\ rows'[j].envs[e] # None => rows'[j].envs[e].level # 0
    BY <1>2, <1>3
  <2> QED
    BY <1>1, <1>2, <2>1, <2>2, <2>3, <2>4
<1>5. Minted'
  <2>1. \A q \in Projects : settled'[q] \in {settled[q], None}
    BY <1>1
  <2>2. \A j \in Keys : rows'[j] # None =>
          j <= runs /\ \A e \in Envs : rows'[j].envs[e] # None => rows'[j].envs[e].recipient <= runs
    BY <1>2, <1>3 DEF Minted
  <2> QED
    BY <1>1, <2>1, <2>2 DEF Minted
<1>6. Progress' /\ Fresh' /\ Owned' /\ Behind'
  BY <1>1 DEF Progress, Fresh, Owned, Held, Behind
<1>7. Agreement'
  <2> SUFFICES ASSUME NEW p \in Projects, settled'[p] # None
               PROVE  settled'[p] = settled[p] /\ rows'[repo[p]] = rows[repo[p]] /\ settled[p] # None
    BY <1>1 DEF Agreement
  <2>1. settled[p] = settled'[p] /\ repo[p] # k
    BY <1>1
  <2> QED
    BY <1>3, <2>1 DEF Agreement
<1>8. OneKey' /\ EnvKeysPrivate'
  BY <1>1, <1>3 DEF OneKey, EnvKeysPrivate
<1> QED
  BY <1>4, <1>5, <1>6, <1>7, <1>8

LEMMA SetEnvV2IInv ==
  ASSUME IInv, NEW k \in 0 .. runs, NEW pid \in Projects \union {None}, NEW e \in Envs,
         SetEnvV2(k, pid, e)
  PROVE  IInv'
<1>1. PICK old \in entry(k, pid), g \in 0 .. runs, l \in Levels \ {0} :
        rows' = [rows EXCEPT ![k] =
                   [old EXCEPT !.envs[e] = [recipient |-> g, level |-> l, namespace |-> TRUE]]]
  BY DEF SetEnvV2
<1> DEFINE env == [recipient |-> g, level |-> l, namespace |-> TRUE]
           row == [old EXCEPT !.envs[e] = env]
<1>2. k \in Keys /\ g \in Keys /\ g <= runs /\ runs \in Nat
  BY OnboardAssumption DEF IInv, TypeOK, Keys
<1>3. env \in Env
  BY <1>2 DEF Env
<1>4. /\ old \in Row
      /\ rows[k] # None => old = rows[k]
      /\ \A f \in Envs : rows[k] = None => old.envs[f] = None
  BY <1>2, EditedRow DEF IInv
<1>5. row \in Row /\ row.envs[e] = env /\ \A f \in Envs : f # e => row.envs[f] = old.envs[f]
  BY <1>3, <1>4 DEF Row
<1>6. \A f \in Envs : row.envs[f] # None => row.envs[f].recipient <= runs
  BY <1>2, <1>4, <1>5 DEF IInv, Minted
<1>7. \A f \in Envs : k # 0 /\ row.envs[f] # None => row.envs[f].level # 0
  BY <1>2, <1>4, <1>5 DEF IInv, TypeOK
<1> HIDE DEF row
<1> QED
  BY <1>1, <1>5, <1>6, <1>7, EditIInv DEF SetEnvV2, row

LEMMA RemoveEnvIInv ==
  ASSUME IInv, NEW k \in 0 .. runs, NEW e \in Envs, RemoveEnv(k, e)
  PROVE  IInv'
<1> DEFINE row == [rows[k] EXCEPT !.envs[e] = None]
<1>1. Edited(k) /\ rows[k] # None /\ rows' = [rows EXCEPT ![k].envs[e] = None]
  BY DEF RemoveEnv
<1>2. k \in Keys
  BY OnboardAssumption DEF IInv, TypeOK, Keys
<1>3. rows[k] \in Row
  BY <1>1, <1>2 DEF IInv, TypeOK
<1>4. row \in Row /\ row.envs[e] = None /\ \A f \in Envs : f # e => row.envs[f] = rows[k].envs[f]
  BY <1>3 DEF Row
<1>5. \A f \in Envs : row.envs[f] # None => row.envs[f].recipient <= runs
  BY <1>1, <1>2, <1>4 DEF IInv, Minted
<1>6. \A f \in Envs : k # 0 /\ row.envs[f] # None => row.envs[f].level # 0
  BY <1>1, <1>2, <1>4 DEF IInv, TypeOK
<1>7. rows' = [rows EXCEPT ![k] = row]
  BY <1>1
<1> HIDE DEF row
<1> QED
  BY <1>1, <1>4, <1>5, <1>6, <1>7, EditIInv

LEMMA StutterIInv == IInv /\ UNCHANGED vars => IInv'
<1> SUFFICES ASSUME IInv, UNCHANGED vars PROVE IInv'
  OBVIOUS
<1> USE DEF IInv, vars, files, hist
<1>1. TypeOK'
  BY DEF TypeOK
<1>2. Minted' /\ Progress'
  BY DEF Minted, Progress
<1>3. Owned'
  BY DEF Owned, Held
<1>4. Behind' /\ OneKey' /\ Agreement'
  BY DEF Behind, OneKey, Agreement
<1>5. Fresh' /\ EnvKeysPrivate'
  BY DEF Fresh, EnvKeysPrivate
<1> QED
  BY <1>1, <1>2, <1>3, <1>4, <1>5

LEMMA NextIInv == IInv /\ [Next]_vars => IInv'
<1> SUFFICES ASSUME IInv, [Next]_vars PROVE IInv'
  OBVIOUS
<1>1. CASE \E p \in Projects, flags \in Commands : Plan(p, flags)
  BY <1>1, PlanIInv
<1>2. CASE WriteRepo
  BY <1>2, WriteRepoIInv
<1>3. CASE Deliver
  BY <1>3, DeliverIInv
<1>4. CASE Merge
  BY <1>4, MergeIInv
<1>5. CASE PrintIdentities
  BY <1>5, PrintIdentitiesIInv
<1>6. CASE Die
  BY <1>6, DieIInv
<1>7. CASE \E k \in 0 .. runs, e \in Envs, pid \in Projects \union {None} : SetEnvV2(k, pid, e)
  BY <1>7, SetEnvV2IInv
<1>8. CASE \E k \in 0 .. runs, e \in Envs : RemoveEnv(k, e)
  BY <1>8, RemoveEnvIInv
<1>9. CASE UNCHANGED vars
  BY <1>9, StutterIInv
<1> QED
  BY <1>1, <1>2, <1>3, <1>4, <1>5, <1>6, <1>7, <1>8, <1>9 DEF Next

\* Wherever runs die, what they leave is what the next one can go on from.
THEOREM InductiveInvariant == Spec => []IInv
<1> QED
  BY InitIInv, NextIInv, PTL DEF Spec

\* Every variable keeps its shape, and a row written here has a level everywhere.
THEOREM TypeCorrect == Spec => []TypeOK
<1>1. IInv => TypeOK
  BY DEF IInv
<1> QED
  BY <1>1, InductiveInvariant, PTL

\* A run that was told it succeeded leaves Secret, repo.yaml and registry in agreement,
\* until the project is touched again.
THEOREM FinishedAgrees == Spec => []Agreement
<1>1. IInv => Agreement
  BY DEF IInv
<1> QED
  BY <1>1, InductiveInvariant, PTL

\* With one directory of key files and no rotation no project is given a second key.
THEOREM NoSecondKey == Spec => []OneKey
<1>1. IInv => OneKey
  BY DEF IInv
<1> QED
  BY <1>1, InductiveInvariant, PTL

\* With one directory of key files, unless it was rotated twice without a delivery, the
\* key repo.yaml names is in the directory, in the Secret or written out.
THEOREM KeyCanBeFound == Spec => []RepoKeyKept
<1>1. IInv => RepoKeyKept
  <2> SUFFICES ASSUME IInv, NEW p \in Projects \ loose, mints[p] <= 1, repo[p] # None
               PROVE  repo[p] \in {staged[p], secret[p]} \union emitted
    BY DEF RepoKeyKept
  <2>1. mints[p] \in {0, 1}
    BY OnboardAssumption DEF IInv, TypeOK
  <2> QED
    BY <2>1 DEF IInv, Behind
<1> QED
  BY <1>1, InductiveInvariant, PTL

\* Rows of different projects that no administrator typed share no recipient.
THEOREM EnvKeysArePrivate == Spec => []EnvKeysPrivate
<1>1. IInv => EnvKeysPrivate
  BY DEF IInv
<1> QED
  BY <1>1, InductiveInvariant, PTL

-----------------------------------------------------------------------------
(***************************************************************************)
(* The broker                                                              *)
(***************************************************************************)

LEMMA NoKeysType == NoKeys \in [Repositories -> Identities \union {NoKey}]
BY DEF NoKeys

LEMMA InitKSInv ==
  ASSUME KSInit
  PROVE  KSInv
<1>1. KSTypeOK
  <2>1. relinks \in 0..MaxRelinks /\ faults \in 0..MaxFaults
    BY KeyStoreAssumption DEF KSInit
  <2>2. was \in [Files -> SUBSET Content]
    BY DEF KSInit
  <2>3. keys \in [Repositories -> Identities \union {NoKey}] /\ got \in [Repositories -> Identities \union {NoKey}]
    BY NoKeysType DEF KSInit
  <2>4. /\ dir \in [Files -> Content] /\ serving \in BOOLEAN /\ draining \in BOOLEAN
        /\ skipped \subseteq Files /\ at \in {"idle", "read"} /\ names \subseteq Files
        /\ bad \subseteq Files
    BY DEF KSInit
  <2> QED
    BY <2>1, <2>2, <2>3, <2>4 DEF KSTypeOK
<1> QED
  BY <1>1 DEF KSInit, KSInv, AlwaysReady, Present, OthersKept,
       FromTheFiles, InOrder

LEMMA FaultType ==
  ASSUME faults \in 0..MaxFaults, Fault
  PROVE  faults' \in 0..MaxFaults
BY KeyStoreAssumption DEF Fault

LEMMA NextKSTypeOK ==
  ASSUME KSTypeOK, [KSNext]_ksvars
  PROVE  KSTypeOK'
<1> USE DEF KSTypeOK
<1>1. CASE Relink
  <2>1. relinks' \in 0..MaxRelinks
    BY <1>1, KeyStoreAssumption DEF Relink
  <2>2. was' \in [Files -> SUBSET Content]
    BY <1>1 DEF Relink
  <2> QED
    BY <1>1, <2>1, <2>2 DEF Relink, broker, load
<1>2. CASE List
  BY <1>2, NoKeysType DEF List, broker
<1>3. CASE ListFails
  BY <1>3, FaultType DEF ListFails, broker, load
<1>4. CASE ReadFile
  <2>1. PICK f \in names : names' = names \ {f} /\ (Resolve(f) \/ Skip(f))
    BY <1>4 DEF ReadFile
  <2>2. CASE Resolve(f)
    BY <1>4, <2>1, <2>2 DEF ReadFile, Resolve, broker
  <2>3. CASE Skip(f)
    BY <1>4, <2>1, <2>3, FaultType DEF ReadFile, Skip, broker
  <2> QED
    BY <2>1, <2>2, <2>3
<1>5. CASE Swap
  BY <1>5 DEF Swap
<1>6. CASE BeginDrain
  BY <1>6, FaultType DEF BeginDrain, load
<1>7. CASE Shutdown
  BY <1>7, NoKeysType DEF Shutdown
<1>8. CASE UNCHANGED ksvars
  BY <1>8 DEF ksvars, broker, load
<1> QED
  BY <1>1, <1>2, <1>3, <1>4, <1>5, <1>6, <1>7, <1>8 DEF KSNext

\* Only a swap and a shutdown touch what is served.
LEMMA NextAlwaysReady == AlwaysReady /\ [KSNext]_ksvars => AlwaysReady'
BY DEF AlwaysReady, Ready, KSNext, Relink, List, ListFails,
  ReadFile, Swap, BeginDrain, Shutdown,
  ksvars, broker

\* The three facts about a load, over the steps that leave its progress alone
\* and may only add to the history.
LEMMA Waiting ==
  ASSUME KSTypeOK, Present, OthersKept, FromTheFiles,
         UNCHANGED load,
         UNCHANGED <<dir, was>>
           \/ \A f \in Files : was[f] \subseteq was'[f] /\ dir'[f] \in was'[f]
  PROVE  Present' /\ OthersKept' /\ FromTheFiles'
<1>1. Present'
  BY DEF Present, load, KSTypeOK
<1>2. ASSUME at = "read", NEW p \in Repositories, NEW f \in Files, NEW k \in Identities, Steady(p, f, k)'
      PROVE  Steady(p, f, k)
  <2>1. dir[f] \in was[f] /\ \A g \in Files : was[g] \subseteq was'[g]
    BY <1>2 DEF Present
  <2> QED
    BY <1>2, <2>1 DEF Steady, KSTypeOK
<1>3. OthersKept'
  BY <1>2 DEF OthersKept, load
<1>4. FromTheFiles'
  BY DEF FromTheFiles, load
<1> QED
  BY <1>1, <1>3, <1>4

LEMMA ReadFileKeeps ==
  ASSUME KSTypeOK, Present, OthersKept, FromTheFiles, ReadFile
  PROVE  Present' /\ OthersKept' /\ FromTheFiles'
<1>1. PICK f \in names : names' = names \ {f} /\ (Resolve(f) \/ Skip(f))
  BY DEF ReadFile
<1>2. at = "read" /\ UNCHANGED <<dir, at, was>> /\ f \in Files
  BY DEF ReadFile, KSTypeOK
<1>3. dir[f] \in was[f]
  BY <1>2 DEF Present
<1>4. CASE Skip(f)
  <2>1. UNCHANGED got /\ bad' = bad \union {f}
    BY <1>4 DEF Skip
  <2> QED
    BY <1>1, <1>2, <2>1 DEF Present, OthersKept, FromTheFiles, Steady
<1>5. CASE Resolve(f)
  <2>1. PICK q \in Repositories, j \in Identities : dir[f] = <<q, j>>
    BY <1>5 DEF Resolve
  <2>2. got' = [got EXCEPT ![q] = j] /\ UNCHANGED bad
    BY <1>5, <2>1 DEF Resolve
  <2>3. <<q, j>> \in was[f]
    BY <1>3, <2>1
  <2>4. ASSUME NEW p \in Repositories, NEW g \in Files, NEW k \in Identities, Steady(p, g, k)
        PROVE  g \in names' \union bad \/ got'[p] = k
    <3>1. CASE g = f
      <4>1. <<q, j>> = <<p, k>>
        BY <2>3, <2>4, <3>1 DEF Steady
      <4> QED
        BY <4>1, <2>2 DEF KSTypeOK
    <3>2. CASE g # f
      <4>1. q # p
        BY <2>3, <2>4, <3>2, <1>2 DEF Steady
      <4> QED
        BY <1>1, <1>2, <2>2, <2>4, <3>2, <4>1 DEF OthersKept, KSTypeOK
    <3> QED
      BY <3>1, <3>2
  <2>5. OthersKept'
    BY <1>2, <2>2, <2>4 DEF OthersKept, Steady
  <2>6. FromTheFiles'
    BY <1>2, <2>2, <2>3 DEF FromTheFiles, KSTypeOK
  <2> QED
    BY <1>2, <2>5, <2>6 DEF Present
<1> QED
  BY <1>1, <1>4, <1>5

\* The files of p a load has read.
Read(p) == {f \in Files \ names : \E k \in Identities : dir[f] = <<p, k>>}

LEMMA ReadFileInOrder ==
  ASSUME KSTypeOK, InOrder, ReadFile
  PROVE  InOrder'
<1> USE DEF KSTypeOK
<1>1. PICK f \in names : First(f) /\ names' = names \ {f} /\ (Resolve(f) \/ Skip(f))
  BY DEF ReadFile
<1>2. at = "read" /\ UNCHANGED <<dir, at, was>> /\ f \in Files
  BY DEF ReadFile
<1> SUFFICES ASSUME Quiet'
             PROVE  /\ \A g \in Files \ names', h \in names' : dir[g] # Absent => g < h
                    /\ \A p \in Repositories :
                         \/ got'[p] = NoKey /\ Read(p)' = {}
                         \/ \E g \in Read(p)' : dir[g] = <<p, got'[p]>> /\ \A h \in Read(p)' : h <= g
  BY <1>2 DEF InOrder, Read
<1>3. bad \subseteq bad'
  BY <1>1 DEF Resolve, Skip
<1>4. Quiet
  BY <1>2, <1>3 DEF Quiet
<1>5. /\ \A g \in Files \ names, h \in names : dir[g] # Absent => g < h
      /\ \A p \in Repositories :
           \/ got[p] = NoKey /\ Read(p) = {}
           \/ \E g \in Read(p) : dir[g] = <<p, got[p]>> /\ \A h \in Read(p) : h <= g
  BY <1>2, <1>4 DEF InOrder, Read
<1>6. \A g \in Files \ names', h \in names' : dir[g] # Absent => g < h
  BY <1>1, <1>2, <1>5, KeyStoreAssumption DEF First
<1>7. ASSUME NEW p \in Repositories, NEW g \in Read(p)
      PROVE  g < f /\ g \in Read(p)'
  <2>1. g \in Files \ names /\ dir[g] # Absent
    BY <1>7, KeyStoreAssumption DEF Read
  <2>2. g < f
    BY <1>1, <1>5, <2>1
  <2>3. g \in Read(p)'
    BY <1>1, <1>2, <1>7 DEF Read
  <2> QED
    BY <2>2, <2>3
<1>8. \A p \in Repositories : Read(p)' \subseteq Read(p) \union {f}
  BY <1>1, <1>2 DEF Read
<1>9. CASE Skip(f)
  <2>1. dir[f] \in {Absent, Bad} /\ UNCHANGED got
    BY <1>2, <1>9 DEF Skip, Quiet
  <2>2. \A p \in Repositories : f \notin Read(p)'
    BY <1>2, <2>1, KeyStoreAssumption DEF Read
  <2>3. \A p \in Repositories : Read(p)' = Read(p)
    BY <1>7, <1>8, <2>2
  <2> QED
    BY <1>5, <1>6, <2>1, <2>3
<1>10. CASE Resolve(f)
  <2>1. PICK q \in Repositories, j \in Identities : dir[f] = <<q, j>>
    BY <1>10 DEF Resolve
  <2>2. got' = [got EXCEPT ![q] = j] /\ f \in Read(q)'
    BY <1>1, <1>2, <1>10, <2>1 DEF Resolve, Read
  <2>3. dir[f] = <<q, got'[q]>> /\ \A h \in Read(q)' : h <= f
    BY <1>2, <1>7, <1>8, <2>1, <2>2, KeyStoreAssumption
  <2>4. ASSUME NEW p \in Repositories, p # q
        PROVE  Read(p)' = Read(p) /\ got'[p] = got[p]
    <3>1. f \notin Read(p)'
      BY <1>2, <2>1, <2>4 DEF Read
    <3>2. Read(p)' = Read(p)
      BY <1>7, <1>8, <3>1
    <3> QED
      BY <2>2, <2>4, <3>2
  <2>5. ASSUME NEW p \in Repositories
        PROVE  \/ got'[p] = NoKey /\ Read(p)' = {}
               \/ \E g \in Read(p)' : dir[g] = <<p, got'[p]>> /\ \A h \in Read(p)' : h <= g
    <3>1. CASE p = q
      BY <2>2, <2>3, <3>1
    <3>2. CASE p # q
      <4>1. Read(p)' = Read(p) /\ got'[p] = got[p]
        BY <2>4, <3>2
      <4>2. \/ got[p] = NoKey /\ Read(p) = {}
            \/ \E g \in Read(p) : dir[g] = <<p, got[p]>> /\ \A h \in Read(p) : h <= g
        BY <1>5
      <4> QED
        BY <4>1, <4>2
    <3> QED
      BY <3>1, <3>2
  <2> QED
    BY <1>6, <2>5
<1> QED
  BY <1>1, <1>9, <1>10

\* What is read stays as it is over a step that only changes the directory.
LEMMA WaitingInOrder ==
  ASSUME KSTypeOK, Present, InOrder,
         UNCHANGED load,
         UNCHANGED <<dir, was>>
           \/ (dir' \in [Files -> Content] /\ was' = [f \in Files |-> was[f] \union {dir'[f]}])
  PROVE  InOrder'
<1>1. at' = at /\ names' = names /\ got' = got /\ bad' = bad
  BY DEF load
<1>2. CASE UNCHANGED <<dir, was>>
  BY <1>1, <1>2 DEF InOrder, Quiet
<1>3. CASE dir' \in [Files -> Content] /\ was' = [f \in Files |-> was[f] \union {dir'[f]}]
  <2>1. CASE ~(at = "read" /\ Quiet')
    BY <1>1, <2>1 DEF InOrder
  <2>2. CASE at = "read" /\ Quiet'
    <3>1. \A f \in Files : dir[f] \in was[f] /\ was'[f] = was[f] \union {dir'[f]} /\ was'[f] = {dir'[f]}
      BY <1>3, <2>2 DEF Present, Quiet
    <3>2. \A f \in Files : dir'[f] = dir[f] /\ was[f] = {dir[f]}
      BY <3>1
    <3>3. dir' = dir
      BY <1>3, <3>2 DEF KSTypeOK
    <3>4. Quiet
      BY <1>1, <2>2, <3>2, <3>3 DEF Quiet
    <3>5. /\ \A g \in Files \ names, h \in names : dir[g] # Absent => g < h
          /\ \A p \in Repositories :
               \/ got[p] = NoKey /\ Read(p) = {}
               \/ \E g \in Read(p) : dir[g] = <<p, got[p]>> /\ \A h \in Read(p) : h <= g
      BY <2>2, <3>4 DEF InOrder, Read
    <3>6. \A p \in Repositories : Read(p)' = Read(p)
      BY <1>1, <3>3 DEF Read
    <3>7. /\ \A g \in Files \ names', h \in names' : dir'[g] # Absent => g < h
          /\ \A p \in Repositories :
               \/ got'[p] = NoKey /\ Read(p)' = {}
               \/ \E g \in Read(p)' : dir'[g] = <<p, got'[p]>> /\ \A h \in Read(p)' : h <= g
      BY <1>1, <3>3, <3>5, <3>6
    <3> QED
      BY <3>7 DEF InOrder, Read
  <2> QED
    BY <2>1, <2>2
<1> QED
  BY <1>2, <1>3

LEMMA NextInOrder ==
  ASSUME KSTypeOK, Present, InOrder, [KSNext]_ksvars
  PROVE  InOrder'
<1>1. CASE List
  <2>1. at' = "read" /\ names' = {f \in Files : dir[f] # Absent} /\ UNCHANGED dir /\ got' = NoKeys
    BY <1>1 DEF List
  <2>2. \A f \in Files \ names' : dir[f] = Absent
    BY <2>1
  <2>3. \A p \in Repositories, k \in Identities : <<p, k>> # Absent
    BY KeyStoreAssumption
  <2>4. \A p \in Repositories : {f \in Files \ names' : \E k \in Identities : dir[f] = <<p, k>>} = {}
    BY <2>2, <2>3
  <2> QED
    BY <2>1, <2>2, <2>4 DEF InOrder, NoKeys
<1>2. CASE ReadFile
  BY <1>2, ReadFileInOrder
<1>3. CASE Relink
  BY <1>3, WaitingInOrder DEF Relink
<1>4. CASE ListFails \/ BeginDrain \/ UNCHANGED ksvars
  BY <1>4, WaitingInOrder DEF ListFails, BeginDrain, ksvars
<1>5. CASE Swap \/ Shutdown
  BY <1>5 DEF Swap, Shutdown, InOrder
<1> QED
  BY <1>1, <1>2, <1>3, <1>4, <1>5 DEF KSNext

LEMMA NextKSInv ==
  ASSUME KSInv, [KSNext]_ksvars
  PROVE  KSInv'
<1> USE DEF KSInv
<1>1. KSTypeOK' /\ AlwaysReady' /\ InOrder'
  BY NextKSTypeOK, NextAlwaysReady, NextInOrder
<1>2. CASE List
  <2>1. at' = "read" /\ names' = {f \in Files : dir[f] # Absent} /\ UNCHANGED dir
        /\ got' = NoKeys /\ was' = [f \in Files |-> {dir[f]}]
    BY <1>2 DEF List
  <2>2. ASSUME NEW p \in Repositories, NEW f \in Files, NEW k \in Identities, Steady(p, f, k)'
        PROVE  f \in names'
    <3>1. dir[f] = <<p, k>>
      BY <2>1, <2>2 DEF Steady
    <3>2. <<p, k>> # Absent
      BY KeyStoreAssumption
    <3> QED
      BY <2>1, <3>1, <3>2
  <2>3. Present' /\ FromTheFiles'
    BY <2>1 DEF Present, FromTheFiles, NoKeys
  <2> QED
    BY <1>1, <2>2, <2>3 DEF OthersKept
<1>3. CASE ReadFile
  BY <1>1, <1>3, ReadFileKeeps
<1>4. CASE Relink
  BY <1>1, <1>4, Waiting DEF Relink
<1>5. CASE ListFails \/ BeginDrain \/ UNCHANGED ksvars
  BY <1>1, <1>5, Waiting DEF ListFails, BeginDrain, ksvars
<1>6. CASE Swap \/ Shutdown
  BY <1>1, <1>6 DEF Swap, Shutdown, Present, OthersKept, FromTheFiles
<1> QED
  BY <1>2, <1>3, <1>4, <1>5, <1>6 DEF KSNext

\* The last of the files of a project decides, also when it is found by its place.
LEMMA LastFile ==
  ASSUME NEW S \in SUBSET Files, NEW f \in S, \A g \in S : g <= f
  PROVE  (CHOOSE l \in S : \A g \in S : g <= l) = f
<1> DEFINE last == CHOOSE l \in S : \A g \in S : g <= l
<1>1. last \in S /\ \A g \in S : g <= last
  OBVIOUS
<1>2. last <= f /\ f <= last /\ last \in Nat /\ f \in Nat
  BY <1>1, KeyStoreAssumption
<1> QED
  BY <1>2

LEMMA QuietLoad ==
  ASSUME KSInv
  PROVE  LoadsExactly
<1> SUFFICES ASSUME at = "read", names = {}, Quiet PROVE got = Loaded(dir)
  BY DEF LoadsExactly
<1> DEFINE own(p) == {f \in Files : \E k \in Identities : dir[f] = <<p, k>>}
           last(p) == CHOOSE f \in own(p) : \A g \in own(p) : g <= f
           key(p) == IF own(p) = {} THEN NoKey ELSE dir[last(p)][2]
<1>1. ASSUME NEW p \in Repositories PROVE got[p] = key(p)
  <2>1. \/ got[p] = NoKey /\ own(p) = {}
        \/ \E f \in own(p) : dir[f] = <<p, got[p]>> /\ \A g \in own(p) : g <= f
    BY DEF KSInv, InOrder
  <2>2. ASSUME NEW f \in own(p), dir[f] = <<p, got[p]>>, \A g \in own(p) : g <= f
        PROVE  got[p] = key(p)
    <3>1. last(p) = f
      BY <2>2, LastFile
    <3>2. dir[f][2] = got[p] /\ own(p) # {}
      BY <2>2
    <3> HIDE DEF last, own
    <3> QED
      BY <3>1, <3>2
  <2> QED
    BY <2>1, <2>2
<1>2. got = [p \in Repositories |-> got[p]]
  BY DEF KSInv, KSTypeOK
<1> QED
  BY <1>1, <1>2 DEF Loaded

\* Every variable of the broker keeps its shape.
THEOREM StoreTypeCorrect == KSSpec => []KSTypeOK
<1>1. KSInit => KSTypeOK
  BY InitKSInv DEF KSInv
<1>2. KSTypeOK /\ [KSNext]_ksvars => KSTypeOK'
  BY NextKSTypeOK
<1> QED
  BY <1>1, <1>2, PTL DEF KSSpec

\* A load has the keys it owes, and only keys that were there.
THEOREM StoreInductiveInvariant == KSSpec => []KSInv
<1>1. KSInit => KSInv
  BY InitKSInv
<1>2. KSInv /\ [KSNext]_ksvars => KSInv'
  BY NextKSInv
<1> QED
  BY <1>1, <1>2, PTL DEF KSSpec

\* No reload blanks a broker that serves: it is ready until it drains.
THEOREM NeverBlank == KSSpec => []AlwaysReady
<1>1. KSInv => AlwaysReady
  BY DEF KSInv
<1> QED
  BY <1>1, StoreInductiveInvariant, PTL

\* A bad or changing file downs its own project and no other.
THEOREM BadKeyDownsItsOwn == KSSpec => []OthersKept
<1>1. KSInv => OthersKept
  BY DEF KSInv
<1> QED
  BY <1>1, StoreInductiveInvariant, PTL

\* No load gives a project an identity that was in no file of it meanwhile.
THEOREM IdentitiesAreTheFiles == KSSpec => []FromTheFiles
<1>1. KSInv => FromTheFiles
  BY DEF KSInv
<1> QED
  BY <1>1, StoreInductiveInvariant, PTL

\* A load during which the directory rested and no read failed has of every project
\* exactly the key the directory gives it, the last file's if it has several: reads
\* that overwrite one another lose nothing.
THEOREM QuietLoadIsExact == KSSpec => []LoadsExactly
<1>1. KSInv => LoadsExactly
  BY QuietLoad
<1> QED
  BY <1>1, StoreInductiveInvariant, PTL

\* Such a load, unless it found nothing, replaces what the broker serves by what
\* the directory holds: the key of a project that was withdrawn does not stay.
THEOREM QuietLoadIsServed ==
  KSSpec => [][Swap /\ Quiet /\ Loaded(dir) # NoKeys => keys' = Loaded(dir) /\ serving']_ksvars
<1>1. LoadsExactly =>
        (Swap /\ Quiet /\ Loaded(dir) # NoKeys => keys' = Loaded(dir) /\ serving')
  BY DEF LoadsExactly, Swap
<1> QED
  BY <1>1, QuietLoadIsExact, PTL

LEMMA ServedStep ==
  ASSUME KSInv, Served, [KSNext]_ksvars, UNCHANGED <<dir, faults>>
  PROVE  Served'
<1> USE DEF Served
<1>1. ~Fault
  BY KeyStoreAssumption DEF Fault, KSInv, KSTypeOK
<1>2. CASE Relink
  <2>1. UNCHANGED <<serving, draining, keys, at, bad>> /\ was' = [f \in Files |-> was[f] \union {dir'[f]}]
    BY <1>2 DEF Relink, broker, load
  <2> QED
    BY <2>1 DEF Quiet, Loaded
<1>3. CASE List
  <2>1. UNCHANGED <<serving, draining, keys>> /\ bad' = {} /\ was' = [f \in Files |-> {dir[f]}]
    BY <1>3 DEF List, broker
  <2> QED
    BY <2>1 DEF Quiet, Loaded
<1>4. CASE ReadFile
  <2>1. at = "read" /\ UNCHANGED <<serving, draining, keys, at, was>>
    BY <1>4 DEF ReadFile, broker
  <2>2. Quiet'
    <3>1. PICK f \in names : Resolve(f) \/ Skip(f)
      BY <1>4 DEF ReadFile
    <3>2. bad' = bad \/ (bad' = bad \union {f} /\ dir[f] \in {Absent, Bad})
      BY <1>1, <3>1 DEF Resolve, Skip
    <3> QED
      BY <2>1, <3>2 DEF Quiet
  <2> QED
    BY <2>1, <2>2 DEF Loaded
<1>5. CASE Swap
  <2>1. at = "read" /\ names = {} /\ at' = "idle" /\ draining' = draining
    BY <1>5 DEF Swap
  <2>2. got = Loaded(dir)
    BY <2>1, QuietLoad DEF LoadsExactly
  <2>3. keys' = Loaded(dir) /\ serving'
    BY <1>5, <2>2 DEF Swap
  <2> QED
    BY <2>1, <2>3 DEF Loaded
<1>6. CASE Shutdown
  BY <1>6 DEF Shutdown
<1>7. CASE ListFails \/ BeginDrain
  BY <1>1, <1>7 DEF ListFails, BeginDrain
<1>8. CASE UNCHANGED ksvars
  BY <1>8 DEF ksvars, broker, load, Quiet, Loaded
<1> QED
  BY <1>2, <1>3, <1>4, <1>5, <1>6, <1>7, <1>8 DEF KSNext

\* A broker that serves what the directory holds keeps to it while the mount rests
\* and nothing fails, load after load.
THEOREM ServedIsStable == KSSpec => ServedStays
<1>1. KSInv /\ [KSNext]_ksvars => (Served /\ UNCHANGED <<dir, faults>> => Served')
  BY ServedStep
<1> QED
  BY <1>1, StoreInductiveInvariant, PTL DEF KSSpec, ServedStays

-----------------------------------------------------------------------------
(***************************************************************************)
(* From the one to the other                                               *)
(***************************************************************************)

\* The mounted directory shows the Secret: each project's key is in a file, and no
\* file gives the project another one.
Mounted ==
  /\ \A p \in Projects : secret[p] # None => \E f \in Files : dir[f] = <<p, secret[p]>>
  /\ \A p \in Projects, k \in Keys, f \in Files : dir[f] = <<p, k>> => k = secret[p]

\* An onboarding that was told it succeeded has its project served: the first quiet
\* load of the mounted Secret puts in place the very key repo.yaml names, whatever
\* runs died before it and whatever the directory held before.
THEOREM DeliveredIsServed ==
  ASSUME Repositories = Projects, Identities = Keys
  PROVE  Spec /\ KSSpec =>
           [][Swap /\ Quiet /\ Mounted =>
                \A p \in Projects : settled[p] # None => keys'[p] = repo[p]]_ksvars
<1>1. IInv /\ KSInv =>
        (Swap /\ Quiet /\ Mounted =>
           \A p \in Projects : settled[p] # None => keys'[p] = repo[p])
  <2> SUFFICES ASSUME IInv, KSInv, Swap, Quiet, Mounted,
                      NEW p \in Projects, settled[p] # None
               PROVE  keys'[p] = repo[p]
    OBVIOUS
  <2>1. secret[p] = repo[p] /\ secret[p] # None /\ secret[p] \in Keys
    BY DEF IInv, TypeOK, Agreement
  <2>2. PICK f \in Files : dir[f] = <<p, secret[p]>>
    BY <2>1 DEF Mounted
  <2>3. at = "read" /\ names = {}
    BY DEF Swap
  <2>4. \/ got[p] = NoKey /\ {h \in Files : \E k \in Identities : dir[h] = <<p, k>>} = {}
        \/ \E h \in Files : dir[h] = <<p, got[p]>> /\ got[p] \in Identities
    BY <2>3 DEF KSInv, InOrder
  <2>5. got[p] = secret[p]
    BY <2>1, <2>2, <2>4 DEF Mounted
  <2>6. got # NoKeys
    BY <2>1, <2>5, KeyStoreAssumption DEF NoKeys
  <2> QED
    BY <2>1, <2>5, <2>6 DEF Swap
<1> QED
  BY <1>1, InductiveInvariant, StoreInductiveInvariant, PTL
=============================================================================

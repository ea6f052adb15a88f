---------------------------- MODULE UnsealProofs ----------------------------
(***************************************************************************)
(* Proofs about Unseal for any sets of users, projects, keys, secrets and  *)
(* concurrent requests: a plaintext leaves the broker only for a caller    *)
(* who was entitled to it while the request was being handled.             *)
(***************************************************************************)
EXTENDS Unseal, TLAPS

FactSet == {"account", "member", "key"} \X Projects

\* The facts of a request are facts about projects.
LEMMA FactsType == \A r \in Requests : Facts(r) \subseteq FactSet
BY DEF Facts, FactSet

\* What Observe does to an open request: nothing seen is forgotten, and what
\* holds after the step is seen.
LEMMA ObserveSees ==
  ASSUME TypeOK, Observe
  PROVE  /\ sometime' \in [Requests -> SUBSET FactSet]
         /\ \A r \in Requests :
              /\ sometime[r] \subseteq sometime'[r]
              /\ pc'[r] # "new" /\ pc[r] \notin Finished => Facts(r)' \subseteq sometime'[r]
<1>1. \A r \in Requests : Facts(r)' \subseteq FactSet
  BY DEF Facts, FactSet
<1> QED
  BY <1>1 DEF Observe, TypeOK, FactSet

\* GitLab's administrators and reloads leave the handlers alone.
LEMMA EnvironmentKeeps ==
  ASSUME Justified, TypeOK', Observe, UNCHANGED <<req, handler>>
  PROVE  Justified'
<1>1. \A r \in Requests : sometime[r] \subseteq sometime'[r]
  BY ObserveSees DEF Justified
<1>2. UNCHANGED <<req, pc, pid, identity, granted>>
  BY DEF handler
<1> QED
  BY <1>1, <1>2 DEF Justified, AuthRoute, AccountChecked, LevelChecked, Unresolved, TargetResolved, AllowedByPid,
     Started, Entitling, TypeOK

\* Type correctness is kept by every step.
LEMMA TypeStep == TypeOK /\ [Next]_vars => TypeOK'
<1> SUFFICES ASSUME TypeOK, [Next]_vars PROVE TypeOK'
  OBVIOUS
<1>0. Observe => sometime' \in [Requests -> SUBSET ({"account", "member", "key"} \X Projects)]
  BY ObserveSees DEF FactSet
<1> USE DEF TypeOK, Finished, Goto, Check
<1>1. ASSUME SetAccount, Observe PROVE TypeOK'
  BY <1>0, <1>1 DEF SetAccount, handler
<1>2. ASSUME RevokeToken, Observe PROVE TypeOK'
  BY <1>0, <1>2 DEF RevokeToken, handler
<1>3. ASSUME SetLevel, Observe PROVE TypeOK'
  BY <1>0, <1>3 DEF SetLevel, handler
<1>4. ASSUME SwapKeys, Observe PROVE TypeOK'
  BY <1>0, <1>4 DEF SwapKeys, gitlab, handler
<1>5. ASSUME NEW r \in Requests, Receive(r), Observe PROVE TypeOK'
  <2>1. /\ req[r].target \in Targets
        /\ req[r].target.form = "id" => req[r].target.id \in Projects
        /\ req[r].target.form = "key" => req[r].target.id \in Keys
    BY DEF Targets, ById, ByKey
  <2>2. pid' \in [Requests -> Projects] /\ identity' \in [Requests -> Keys \union {NoKey}]
    <3>1. CASE req[r].target.form = "id" /\ pid' = [pid EXCEPT ![r] = req[r].target.id]
                 /\ UNCHANGED identity
      BY <3>1, <2>1
    <3>2. ASSUME req[r].target.form = "key", NEW p \in Projects,
                 pid' = [pid EXCEPT ![r] = p],
                 identity' = [identity EXCEPT ![r] = req[r].target.id]
          PROVE  pid' \in [Requests -> Projects] /\ identity' \in [Requests -> Keys \union {NoKey}]
      BY <3>2, <2>1
    <3> QED
      BY <1>5, <3>1, <3>2 DEF Receive, Holders
  <2> QED
    BY <1>0, <1>5, <2>2 DEF Receive, gitlab
<1>6. ASSUME NEW r \in Requests, AuthViaSSH(r) \/ CheckUserActive(r) \/ CheckToken(r) \/ CheckUser(r),
             Observe
      PROVE  TypeOK'
  BY <1>0, <1>6 DEF AuthViaSSH, CheckUserActive, CheckToken, CheckUser, gitlab
<1>7. ASSUME NEW r \in Requests, CallerLevel(r), Observe PROVE TypeOK'
  <2>1. granted' \in [Requests -> Levels]
    BY <1>7 DEF CallerLevel
  <2> QED
    BY <1>0, <1>7, <2>1 DEF CallerLevel, gitlab
<1>8. ASSUME NEW r \in Requests, Decrypt(r), Observe PROVE TypeOK'
  BY <1>0, <1>8 DEF Decrypt, gitlab
<1>9. ASSUME NEW r \in Requests, Fail(r), Observe PROVE TypeOK'
  BY <1>0, <1>9 DEF Fail, gitlab
<1>10. CASE UNCHANGED vars
  BY <1>10 DEF vars, gitlab, handler
<1> QED
  BY <1>1, <1>2, <1>3, <1>4, <1>5, <1>6, <1>7, <1>8, <1>9, <1>10 DEF Next, Handle

\* A check of the chain that succeeds moves on; one that fails denies.
LEMMA CheckMoves ==
  ASSUME TypeOK, NEW r \in Requests, NEW at, NEW ok, NEW next, Check(r, at, ok, next)
  PROVE  /\ pc[r] = at
         /\ \A s \in Requests : s # r => pc'[s] = pc[s]
         /\ pc'[r] = next \/ pc'[r] = "deny"
         /\ pc'[r] # "deny" => ok
         /\ UNCHANGED <<gitlab, keystore, req, pid, identity, granted>>
BY DEF Check, Goto, TypeOK

\* Every step of the handler keeps the strengthened invariant.
LEMMA JustifiedStep == Justified /\ [Next]_vars => Justified'
<1> SUFFICES ASSUME Justified, [Next]_vars PROVE Justified'
  OBVIOUS
<1>0. TypeOK /\ TypeOK'
  BY TypeStep DEF Justified
<1>a. ASSUME Observe, NEW s \in Requests
      PROVE  /\ sometime[s] \subseteq sometime'[s]
             /\ pc'[s] # "new" /\ pc[s] \notin Finished => Facts(s)' \subseteq sometime'[s]
  BY <1>a, <1>0, ObserveSees
<1> DEFINE Inv(s) ==
      /\ pc[s] \in {"level", "decrypt", "allow"} => \A p \in Projects : <<"account", p>> \in sometime[s]
      /\ pc[s] \in {"decrypt", "allow"} =>
           /\ granted[s] >= DefaultMinAccessLevel
           /\ granted[s] >= EmbeddedLevel(req[s].secret) => <<"member", pid[s]>> \in sometime[s]
      /\ pc[s] = "active" => req[s].auth = "ssh"
      /\ pc[s] = "user" => req[s].auth = "pat"
      /\ pc[s] = "new" => identity[s] = NoKey
      /\ Started(s) =>
           \/ req[s].target = ById(pid[s]) /\ identity[s] = NoKey
           \/ /\ identity[s] # NoKey
              /\ req[s].target = ByKey(identity[s])
              /\ identity[s] \in req[s].secret.to /\ req[s].secret.for = req[s].target
                   => <<"key", pid[s]>> \in sometime[s]
      /\ pc[s] = "allow" => Entitling(pid[s]) \subseteq sometime[s]
<1>b. \A s \in Requests : Inv(s)
  BY DEF Justified, AuthRoute, AccountChecked, LevelChecked, Unresolved, TargetResolved, AllowedByPid
<1>c. (\A s \in Requests : Inv(s)') => Justified'
  BY <1>0 DEF Justified, AuthRoute, AccountChecked, LevelChecked, Unresolved, TargetResolved, AllowedByPid
<1>d. ASSUME Observe, NEW s \in Requests,
             UNCHANGED <<req, pid[s], identity[s], granted[s]>>, pc'[s] = pc[s]
      PROVE  Inv(s)'
  BY <1>a, <1>b, <1>d DEF Started, Entitling
<1>e. ASSUME Observe, NEW s \in Requests,
             UNCHANGED <<req, pid[s], identity[s], granted[s]>>, pc'[s] = "deny"
      PROVE  Inv(s)'
  BY <1>e DEF Started
<1>1. ASSUME UNCHANGED <<req, handler>>, Observe PROVE Justified'
  BY <1>0, <1>1, EnvironmentKeeps
<1>2. ASSUME NEW r \in Requests, Receive(r), Observe PROVE \A s \in Requests : Inv(s)'
  <2>1. \A s \in Requests : s # r =>
          pc'[s] = pc[s] /\ pid'[s] = pid[s] /\ identity'[s] = identity[s]
    BY <1>0, <1>2 DEF Receive, Goto, TypeOK
  <2>2. UNCHANGED <<req, granted, keystore>> /\ pc[r] = "new"
    BY <1>2 DEF Receive
  <2>3. Inv(r)'
    <3>1. CASE /\ req[r].target.form = "id" /\ pid' = [pid EXCEPT ![r] = req[r].target.id]
               /\ pc' = [pc EXCEPT ![r] = "auth"] /\ UNCHANGED identity
      <4>1. req[r].target = ById(req[r].target.id)
        BY <1>0, <3>1 DEF TypeOK, Targets, ById, ByKey
      <4>2. identity[r] = NoKey
        BY <1>b, <2>2
      <4> QED
        BY <1>0, <2>2, <3>1, <4>1, <4>2 DEF TypeOK
    <3>2. ASSUME req[r].target.form = "key", NEW p \in Holders(req[r].target.id),
                 pid' = [pid EXCEPT ![r] = p],
                 identity' = [identity EXCEPT ![r] = req[r].target.id],
                 pc' = [pc EXCEPT ![r] = "auth"]
          PROVE  Inv(r)'
      <4> DEFINE k == req[r].target.id
      <4>1. req[r].target = ByKey(k) /\ k \in Keys
        BY <1>0, <3>2 DEF TypeOK, Targets, ById, ByKey
      <4>2. pc'[r] = "auth" /\ pid'[r] = p /\ identity'[r] = k
        BY <1>0, <3>2 DEF TypeOK
      <4>3. p \in Projects /\ keystore'[p] = k
        BY <2>2, <3>2 DEF Holders
      <4>4. k \in req[r].secret.to /\ req[r].secret.for = ByKey(k)
              => <<"key", p>> \in sometime'[r]
        <5>1. Facts(r)' \subseteq sometime'[r]
          BY <1>2, <1>a, <2>2, <4>2 DEF Finished
        <5>2. k \in req[r].secret.to /\ req[r].secret.for = ByKey(k)
                => <<"key", p>> \in Facts(r)'
          BY <2>2, <4>3 DEF Facts
        <5> QED
          BY <5>1, <5>2
      <4>5. k # NoKey
        BY <4>1, UnsealAssumption
      <4> QED
        BY <2>2, <4>1, <4>2, <4>4, <4>5
    <3>3. CASE pc' = [pc EXCEPT ![r] = "deny"]
      BY <1>0, <3>3 DEF TypeOK, Started
    <3> QED
      BY <1>2, <3>1, <3>2, <3>3 DEF Receive, Goto
  <2> QED
    BY <1>d, <1>2, <2>1, <2>2, <2>3
<1>3. ASSUME NEW r \in Requests, NEW at, NEW ok, NEW next, Check(r, at, ok, next), Observe,
             pc[r] = at /\ pc'[r] = next /\ ok /\ UNCHANGED <<req, pid, identity, granted>> => Inv(r)'
      PROVE  \A s \in Requests : Inv(s)'
  <2>1. UNCHANGED <<req, pid, identity, granted>>
    BY <1>0, <1>3, CheckMoves
  <2>2. \A s \in Requests : s # r => pc'[s] = pc[s]
    BY <1>0, <1>3, CheckMoves
  <2>3. pc[r] = at /\ (pc'[r] = "deny" \/ (pc'[r] = next /\ ok))
    BY <1>0, <1>3, CheckMoves
  <2>4. \A s \in Requests : s # r => Inv(s)'
    BY <1>d, <1>3, <2>1, <2>2
  <2>5. Inv(r)'
    BY <1>e, <1>3, <2>1, <2>3
  <2> QED
    BY <2>4, <2>5
<1>4. ASSUME NEW r \in Requests, AuthViaSSH(r), Observe PROVE \A s \in Requests : Inv(s)'
  <2>1. Check(r, "auth", TRUE, "active") /\ req[r].auth = "ssh"
    BY <1>4 DEF AuthViaSSH
  <2>2. pc[r] = "auth" /\ pc'[r] = "active" /\ UNCHANGED <<req, pid, identity, granted>> => Inv(r)'
    BY <1>a, <1>b, <1>4, <2>1 DEF Started
  <2> QED
    BY <1>3, <1>4, <2>1, <2>2
<1>5. ASSUME NEW r \in Requests, CheckToken(r), Observe PROVE \A s \in Requests : Inv(s)'
  <2>1. Check(r, "auth", TokenWorks(req[r].user), "user") /\ req[r].auth = "pat"
    BY <1>5 DEF CheckToken
  <2>2. pc[r] = "auth" /\ pc'[r] = "user" /\ UNCHANGED <<req, pid, identity, granted>> => Inv(r)'
    BY <1>a, <1>b, <1>5, <2>1 DEF Started
  <2> QED
    BY <1>3, <1>5, <2>1, <2>2
<1>6. ASSUME NEW r \in Requests, CheckUserActive(r), Observe PROVE \A s \in Requests : Inv(s)'
  <2>1. Check(r, "active", req[r].user \in active, "level")
    BY <1>6 DEF CheckUserActive
  <2>2. ASSUME pc[r] = "active", pc'[r] = "level", req[r].user \in active,
               UNCHANGED <<req, pid, identity, granted>>
        PROVE  Inv(r)'
    <3>1. req[r].auth = "ssh" /\ UNCHANGED active
      BY <1>b, <1>6, <2>2 DEF CheckUserActive, Check, gitlab
    <3>2. \A p \in Projects : <<"account", p>> \in Facts(r)'
      BY <2>2, <3>1 DEF Facts
    <3>3. \A p \in Projects : <<"account", p>> \in sometime'[r]
      BY <1>a, <1>6, <2>2, <3>2 DEF Finished
    <3> QED
      BY <1>a, <1>b, <1>6, <2>2, <3>3 DEF Started
  <2> QED
    BY <1>3, <1>6, <2>1, <2>2
<1>7. ASSUME NEW r \in Requests, CheckUser(r), Observe PROVE \A s \in Requests : Inv(s)'
  <2>1. Check(r, "user", TokenWorks(req[r].user), "level")
    BY <1>7 DEF CheckUser
  <2>2. ASSUME pc[r] = "user", pc'[r] = "level", TokenWorks(req[r].user),
               UNCHANGED <<req, pid, identity, granted>>
        PROVE  Inv(r)'
    <3>1. req[r].auth = "pat" /\ UNCHANGED <<active, token>>
      BY <1>b, <1>7, <2>2 DEF CheckUser, Check, gitlab
    <3>2. \A p \in Projects : <<"account", p>> \in Facts(r)'
      BY <2>2, <3>1 DEF Facts, TokenWorks
    <3>3. \A p \in Projects : <<"account", p>> \in sometime'[r]
      BY <1>a, <1>7, <2>2, <3>2 DEF Finished
    <3> QED
      BY <1>a, <1>b, <1>7, <2>2, <3>3 DEF Started
  <2> QED
    BY <1>3, <1>7, <2>1, <2>2
<1>8. ASSUME NEW r \in Requests, CallerLevel(r), Observe PROVE \A s \in Requests : Inv(s)'
  <2> DEFINE l == level[req[r].user][pid[r]]
             answered == req[r].auth = "pat" => TokenWorks(req[r].user)
  <2>1. UNCHANGED <<level, req, pid, identity>> /\ pc[r] = "level"
    BY <1>8 DEF CallerLevel, gitlab
  <2>2. \A s \in Requests : s # r => pc'[s] = pc[s] /\ granted'[s] = granted[s]
    BY <1>0, <1>8 DEF CallerLevel, Goto, TypeOK
  <2>3. \/ pc'[r] = "deny"
        \/ pc'[r] = "decrypt" /\ granted'[r] = l /\ l >= DefaultMinAccessLevel
    BY <1>0, <1>8 DEF CallerLevel, Goto, TypeOK
  <2>4. CASE pc'[r] = "deny"
    BY <1>d, <1>8, <2>1, <2>2, <2>4 DEF Started
  <2>5. CASE pc'[r] = "decrypt" /\ granted'[r] = l /\ l >= DefaultMinAccessLevel
    <3>1. granted'[r] >= EmbeddedLevel(req[r].secret) => <<"member", pid[r]>> \in Facts(r)'
      BY <1>0, <2>1, <2>5 DEF Facts, TypeOK
    <3>2. granted'[r] >= EmbeddedLevel(req[r].secret) => <<"member", pid[r]>> \in sometime'[r]
      BY <1>a, <1>8, <2>1, <2>5, <3>1 DEF Finished
    <3>3. Inv(r)'
      BY <1>a, <1>b, <1>8, <2>1, <2>5, <3>2 DEF Started
    <3> QED
      BY <1>d, <1>8, <2>1, <2>2, <3>3
  <2> QED
    BY <2>3, <2>4, <2>5
<1>9. ASSUME NEW r \in Requests, Decrypt(r), Observe PROVE \A s \in Requests : Inv(s)'
  <2> DEFINE key == IF identity[r] # NoKey THEN identity[r] ELSE keystore[pid[r]]
             ct  == req[r].secret
             ok  == key # NoKey /\ Unseals(ct, key, req[r].target) /\ granted[r] >= EmbeddedLevel(ct)
  <2>1. Check(r, "decrypt", ok, "allow")
    BY <1>9 DEF Decrypt
  <2>2. ASSUME pc[r] = "decrypt", pc'[r] = "allow", ok,
               UNCHANGED <<req, pid, identity, granted>>
        PROVE  Inv(r)'
    <3>1. UNCHANGED keystore /\ sometime[r] \subseteq sometime'[r]
      BY <1>a, <1>9 DEF Decrypt, Check
    <3>2. (\A p \in Projects : <<"account", p>> \in sometime[r]) /\ <<"member", pid[r]>> \in sometime[r]
      BY <1>b, <2>2
    <3>3. key \in ct.to /\ ct.for = req[r].target
      BY <2>2 DEF Unseals
    <3>4. <<"key", pid[r]>> \in sometime'[r]
      <4>1. CASE identity[r] # NoKey
        BY <1>b, <2>2, <3>1, <3>3, <4>1 DEF Started, ById
      <4>2. CASE identity[r] = NoKey
        <5>1. req[r].target = ById(pid[r]) /\ pid[r] \in Projects
          BY <1>0, <1>b, <2>2, <4>2 DEF Started, TypeOK
        <5>2. <<"key", pid[r]>> \in Facts(r)'
          BY <2>2, <3>1, <3>3, <4>2, <5>1 DEF Facts
        <5> QED
          BY <1>a, <1>9, <2>2, <5>2 DEF Finished
      <4> QED
        BY <4>1, <4>2
    <3>5. Entitling(pid[r]) \subseteq sometime'[r]
      <4>1. pid[r] \in Projects
        BY <1>0 DEF TypeOK
      <4> HIDE DEF ok, key, ct
      <4> QED
        BY <3>1, <3>2, <3>4, <4>1 DEF Entitling
    <3> HIDE DEF ok, key, ct
    <3> QED
      BY <1>b, <2>2, <3>1, <3>2, <3>4, <3>5 DEF Started
  <2> QED
    BY <1>3, <1>9, <2>1, <2>2
<1>10. ASSUME NEW r \in Requests, Fail(r), Observe PROVE \A s \in Requests : Inv(s)'
  <2>1. UNCHANGED <<req, pid, identity, granted>>
    BY <1>10 DEF Fail
  <2>2. pc'[r] = "deny" /\ \A s \in Requests : s # r => pc'[s] = pc[s]
    BY <1>0, <1>10 DEF Fail, Goto, TypeOK
  <2> QED
    BY <1>d, <1>e, <1>10, <2>1, <2>2
<1>11. CASE UNCHANGED vars
  BY <1>11 DEF vars, handler, Justified, TypeOK, AuthRoute, AccountChecked, LevelChecked,
     Unresolved, TargetResolved, AllowedByPid, Started, Entitling, gitlab
<1>12. ASSUME Observe, SetAccount \/ RevokeToken \/ SetLevel \/ SwapKeys PROVE Justified'
  BY <1>1, <1>12 DEF SetAccount, RevokeToken, SetLevel, SwapKeys
<1> QED
  BY <1>c, <1>2, <1>4, <1>5, <1>6, <1>7, <1>8, <1>9, <1>10, <1>11, <1>12 DEF Next, Handle

\* Every variable keeps its shape.
THEOREM TypeCorrect == Spec => []TypeOK
<1>1. Init => TypeOK
  BY UnsealAssumption DEF Init, TypeOK, Finished
<1> QED
  BY <1>1, TypeStep, PTL DEF Spec

-----------------------------------------------------------------------------
(***************************************************************************)
(* The other direction: who is entitled all along is not turned away.      *)
(***************************************************************************)

\* What the facts of a request say when p entitles it.
LEMMA EntitledNow ==
  ASSUME TypeOK, NEW r \in Requests, NEW p \in Projects, Entitling(p) \subseteq Facts(r)
  PROVE  /\ req[r].auth = "pat" => TokenWorks(req[r].user)
         /\ req[r].user \in active
         /\ level[req[r].user][p] >= DefaultMinAccessLevel
         /\ level[req[r].user][p] >= EmbeddedLevel(req[r].secret)
         /\ keystore[p] \in req[r].secret.to
         /\ req[r].secret.for \in {ById(p), ByKey(keystore[p])}
<1>1. <<"account", p>> \in Facts(r) /\ <<"member", p>> \in Facts(r) /\ <<"key", p>> \in Facts(r)
  BY DEF Entitling
<1> QED
  BY <1>1 DEF Facts, TokenWorks

\* What Observe leaves of what always held.
LEMMA ObserveKeeps ==
  ASSUME TypeOK, Observe, NEW r \in Requests
  PROVE  /\ pc'[r] = "new" \/ pc[r] \in Finished =>
              throughout'[r] = throughout[r] /\ sometime'[r] = sometime[r]
         /\ pc'[r] # "new" /\ pc[r] \notin Finished =>
              /\ throughout'[r] \subseteq Facts(r)'
              /\ Facts(r)' \subseteq sometime'[r]
              /\ sometime[r] \subseteq sometime'[r]
         /\ pc'[r] # "new" /\ pc[r] \notin {"new"} \union Finished =>
              throughout'[r] \subseteq throughout[r]
BY DEF Observe, TypeOK

\* A request is turned away for a cause only.
LEMMA CourseStep == IInv /\ [Next]_vars => StillTrue' /\ OnCourse'
<1> SUFFICES ASSUME IInv, [Next]_vars PROVE StillTrue' /\ OnCourse'
  OBVIOUS
<1>0. TypeOK /\ TypeOK' /\ Justified
  BY TypeStep DEF IInv, Justified
<1> DEFINE On(s) ==
      /\ pc[s] \notin {"new"} \union Finished => throughout[s] \subseteq Facts(s)
      /\ \A p \in Projects : pc[s] # "new" /\ Due(s, p) =>
           /\ pc[s] = "deny" => s \in failed
           /\ pc[s] \notin Finished => pid[s] = p
           /\ pc[s] = "decrypt" => granted[s] >= EmbeddedLevel(req[s].secret)
<1>a. \A s \in Requests : On(s)
  BY DEF IInv, StillTrue, OnCourse
<1>b. (\A s \in Requests : On(s)') => StillTrue' /\ OnCourse'
  BY DEF StillTrue, OnCourse
<1>c. ASSUME Observe, UNCHANGED req, NEW s \in Requests, NEW p \in Projects, Due(s, p)',
             pc[s] # "new", pc'[s] # "new"
      PROVE  /\ Due(s, p)
             /\ pc[s] \notin Finished => pid[s] = p /\ Entitling(p) \subseteq Facts(s)
  <2>1. throughout'[s] \subseteq throughout[s] /\ sometime[s] \subseteq sometime'[s]
    BY <1>0, <1>c, ObserveKeeps
  <2>2. Due(s, p)
    BY <1>c, <2>1 DEF Due
  <2> QED
    BY <1>a, <1>c, <2>2 DEF Due
<1>d. ASSUME Observe, NEW s \in Requests, failed \subseteq failed',
             UNCHANGED <<req, pid[s], granted[s]>>, pc'[s] = pc[s]
      PROVE  On(s)'
  <2>1. pc[s] \notin {"new"} \union Finished => throughout'[s] \subseteq Facts(s)'
    BY <1>0, <1>d, ObserveKeeps
  <2>2. ASSUME NEW p \in Projects, Due(s, p)', pc[s] # "new" PROVE Due(s, p)
    BY <1>c, <1>d, <2>2
  <2> QED
    BY <1>a, <1>d, <2>1, <2>2 DEF Due
<1>e. ASSUME Observe, NEW r \in Requests, UNCHANGED <<gitlab, keystore, req>>,
             pc[r] \notin {"new"} \union Finished, pc'[r] # "new",
             \A s \in Requests : s # r => pc'[s] = pc[s] /\ UNCHANGED <<pid[s], granted[s]>>,
             pid'[r] = pid[r], failed \subseteq failed',
             \A p \in Projects : pid[r] = p /\ Entitling(p) \subseteq Facts(r) /\ Due(r, p) =>
               /\ pc'[r] = "deny" => r \in failed'
               /\ pc'[r] = "decrypt" => granted'[r] >= EmbeddedLevel(req[r].secret)
      PROVE  \A s \in Requests : On(s)'
  <2>1. throughout'[r] \subseteq Facts(r)'
    BY <1>0, <1>e, ObserveKeeps
  <2>2. ASSUME NEW p \in Projects, Due(r, p)'
        PROVE  pid[r] = p /\ Entitling(p) \subseteq Facts(r) /\ Due(r, p)
    BY <1>c, <1>e, <2>2
  <2>3. On(r)'
    BY <1>e, <2>1, <2>2
  <2> QED
    BY <1>d, <1>e, <2>3
<1>1. ASSUME Observe, SetAccount \/ RevokeToken \/ SetLevel \/ SwapKeys
      PROVE  \A s \in Requests : On(s)'
  <2>1. UNCHANGED <<req, pc, pid, granted, failed>>
    BY <1>1 DEF SetAccount, RevokeToken, SetLevel, SwapKeys, handler
  <2> QED
    BY <1>d, <1>1, <2>1
<1>2. ASSUME NEW r \in Requests, Receive(r), Observe PROVE \A s \in Requests : On(s)'
  <2>1. /\ UNCHANGED <<gitlab, keystore, req, granted, failed>> /\ pc[r] = "new"
        /\ pc'[r] \in {"auth", "deny"}
        /\ \A s \in Requests : s # r => pc'[s] = pc[s] /\ pid'[s] = pid[s]
    BY <1>0, <1>2 DEF Receive, Goto, TypeOK
  <2>2. /\ throughout'[r] \subseteq Facts(r)' /\ Facts(r)' \subseteq sometime'[r]
        /\ Facts(r)' = Facts(r)
    BY <1>0, <1>2, <2>1, ObserveKeeps DEF Finished, Facts, TokenWorks, gitlab
  <2>3. ASSUME NEW p \in Projects, Due(r, p)' PROVE pc'[r] # "deny" /\ pid'[r] = p
    <3>1. /\ Entitling(p) \subseteq Facts(r)
          /\ req[r].target = req[r].secret.for
          /\ \A x \in Projects \ {p} : <<"key", x>> \notin Facts(r)
      BY <2>1, <2>2, <2>3 DEF Due
    <3>2. /\ keystore[p] \in req[r].secret.to
          /\ req[r].target \in {ById(p), ByKey(keystore[p])}
      BY <1>0, <3>1, EntitledNow
    <3>3. CASE req[r].target.form = "id"
      <4>1. req[r].target.id = p
        BY <3>2, <3>3 DEF ById, ByKey
      <4> QED
        BY <1>0, <1>2, <3>3, <4>1 DEF Receive, Goto, TypeOK
    <3>4. CASE req[r].target.form = "key"
      <4>1. req[r].target = ByKey(keystore[p]) /\ req[r].target.id = keystore[p]
        BY <3>2, <3>4 DEF ById, ByKey
      <4>2. p \in Holders(req[r].target.id)
        BY <4>1 DEF Holders
      <4>3. PICK q \in Holders(req[r].target.id) : pid' = [pid EXCEPT ![r] = q] /\ Goto(r, "auth")
        BY <1>2, <3>4, <4>2 DEF Receive
      <4>4. q \in Projects /\ keystore[q] = keystore[p]
        BY <4>1 DEF Holders
      <4>5. <<"key", q>> \in Facts(r)
        BY <3>1, <3>2, <4>1, <4>4 DEF Facts
      <4>6. q = p
        BY <3>1, <4>4, <4>5
      <4> QED
        BY <1>0, <4>3, <4>6 DEF Goto, TypeOK
    <3> QED
      BY <3>2, <3>3, <3>4 DEF ById, ByKey
  <2>4. On(r)'
    BY <2>1, <2>2, <2>3
  <2> QED
    BY <1>d, <1>2, <2>1, <2>4
<1>3. ASSUME NEW r \in Requests, AuthViaSSH(r) \/ CheckUserActive(r) \/ CheckToken(r) \/ CheckUser(r),
             Observe
      PROVE  \A s \in Requests : On(s)'
  <2>1. /\ UNCHANGED <<gitlab, keystore, req, pid, granted, failed>>
        /\ pc[r] \in {"auth", "active", "user"} /\ pc'[r] \in {"active", "user", "level", "deny"}
        /\ \A s \in Requests : s # r => pc'[s] = pc[s]
    BY <1>0, <1>3 DEF AuthViaSSH, CheckUserActive, CheckToken, CheckUser, Check, Goto, TypeOK
  <2>2. ASSUME NEW p \in Projects, Entitling(p) \subseteq Facts(r) PROVE pc'[r] # "deny"
    <3>1. (req[r].auth = "pat" => TokenWorks(req[r].user)) /\ req[r].user \in active
      BY <1>0, <2>2, EntitledNow
    <3>2. pc[r] = "user" => req[r].auth = "pat"
      BY <1>0 DEF Justified, AuthRoute
    <3> QED
      BY <1>0, <1>3, <3>1, <3>2
         DEF AuthViaSSH, CheckUserActive, CheckToken, CheckUser, Check, Goto, TypeOK
  <2> QED
    BY <1>e, <1>3, <2>1, <2>2 DEF Finished
<1>4. ASSUME NEW r \in Requests, CallerLevel(r), Observe PROVE \A s \in Requests : On(s)'
  <2>1. /\ UNCHANGED <<gitlab, keystore, req, pid, failed>>
        /\ pc[r] = "level" /\ pc'[r] \in {"decrypt", "deny"}
        /\ \A s \in Requests : s # r => pc'[s] = pc[s] /\ granted'[s] = granted[s]
    BY <1>0, <1>4 DEF CallerLevel, Goto, TypeOK
  <2>2. ASSUME NEW p \in Projects, pid[r] = p, Entitling(p) \subseteq Facts(r)
        PROVE  pc'[r] # "deny" /\ granted'[r] >= EmbeddedLevel(req[r].secret)
    <3>1. /\ req[r].auth = "pat" => TokenWorks(req[r].user)
          /\ level[req[r].user][p] >= DefaultMinAccessLevel
          /\ level[req[r].user][p] >= EmbeddedLevel(req[r].secret)
      BY <1>0, <2>2, EntitledNow
    <3>2. granted'[r] = level[req[r].user][p] /\ pc'[r] = "decrypt"
      BY <1>0, <1>4, <2>2, <3>1 DEF CallerLevel, Goto, TypeOK
    <3> QED
      BY <3>1, <3>2
  <2> QED
    BY <1>e, <1>4, <2>1, <2>2 DEF Finished
<1>5. ASSUME NEW r \in Requests, Decrypt(r), Observe PROVE \A s \in Requests : On(s)'
  <2>1. /\ UNCHANGED <<gitlab, keystore, req, pid, granted, failed>>
        /\ pc[r] = "decrypt" /\ pc'[r] \in {"allow", "deny"}
        /\ \A s \in Requests : s # r => pc'[s] = pc[s]
    BY <1>0, <1>5 DEF Decrypt, Check, Goto, TypeOK
  <2>2. ASSUME NEW p \in Projects, pid[r] = p, Entitling(p) \subseteq Facts(r), Due(r, p)
        PROVE  pc'[r] # "deny"
    <3> DEFINE key == IF identity[r] # NoKey THEN identity[r] ELSE keystore[pid[r]]
    <3>1. /\ keystore[p] \in req[r].secret.to
          /\ req[r].secret.for \in {ById(p), ByKey(keystore[p])}
          /\ req[r].target = req[r].secret.for
          /\ EmbeddedLevel(req[r].secret) >= DefaultMinAccessLevel
      BY <1>0, <2>2, EntitledNow DEF Due
    <3>2. granted[r] >= EmbeddedLevel(req[r].secret)
      BY <1>a, <2>1, <2>2
    <3>3. identity[r] # NoKey => req[r].target = ByKey(identity[r])
      BY <1>0, <2>1 DEF Justified, TargetResolved, Started
    <3>4. key = keystore[p]
      BY <2>2, <3>1, <3>3 DEF ById, ByKey
    <3>5. req[r].secret.to \subseteq Keys
      BY <1>0, UnsealAssumption DEF TypeOK
    <3>6. key # NoKey /\ key \in req[r].secret.to
      BY <3>1, <3>4, <3>5, UnsealAssumption
    <3>7. Unseals(req[r].secret, key, req[r].target)
      BY <3>1, <3>6 DEF Unseals
    <3> QED
      BY <1>0, <1>5, <3>2, <3>6, <3>7 DEF Decrypt, Check, Goto, TypeOK
  <2> QED
    BY <1>e, <1>5, <2>1, <2>2 DEF Finished
<1>6. ASSUME NEW r \in Requests, Fail(r), Observe PROVE \A s \in Requests : On(s)'
  <2>1. /\ UNCHANGED <<gitlab, keystore, req, pid, granted>> /\ failed' = failed \union {r}
        /\ pc[r] \notin {"new"} \union Finished /\ pc'[r] = "deny"
        /\ \A s \in Requests : s # r => pc'[s] = pc[s]
    BY <1>0, <1>6 DEF Fail, Goto, TypeOK, Finished
  <2> QED
    BY <1>e, <1>6, <2>1
<1>7. CASE UNCHANGED vars
  BY <1>7, <1>0 DEF vars, gitlab, handler, IInv, StillTrue, OnCourse, Due, Facts, TokenWorks
<1> QED
  BY <1>b, <1>1, <1>2, <1>3, <1>4, <1>5, <1>6, <1>7 DEF Next, Handle

-----------------------------------------------------------------------------

\* The strengthened invariant: what was checked was seen to hold, and what
\* always held passes the checks.
THEOREM InductiveInvariant == Spec => []IInv
<1>1. Init => Justified
  BY UnsealAssumption DEF Init, Justified, TypeOK, Finished, AuthRoute, AccountChecked, LevelChecked,
     Unresolved, TargetResolved, AllowedByPid, Started
<1>2. Init => StillTrue /\ OnCourse
  BY DEF Init, StillTrue, OnCourse
<1>3. IInv /\ [Next]_vars => IInv'
  BY JustifiedStep, CourseStep DEF IInv
<1>4. Init => IInv
  BY <1>1, <1>2 DEF IInv
<1> QED
  BY <1>3, <1>4, PTL DEF Spec

\* Live revocation: HandleUnseal answers with a plaintext only if the caller's
\* account was live, the caller's level on the secret's own project was enough,
\* and that project's key was loaded, while the request was being handled.
THEOREM OnlyTheEntitled == Spec => []AllowedIsEntitled
<1>1. IInv => AllowedIsEntitled
  BY DEF IInv, Justified, TypeOK, AllowedByPid, AllowedIsEntitled
<1> QED
  BY <1>1, InductiveInvariant, PTL

\* No false denial: HandleUnseal turns away nobody who was entitled all along
\* and named the secret's own project, unless a call to GitLab failed.
THEOREM TheEntitledAreServed == Spec => []EntitledIsAllowed
<1>1. IInv => EntitledIsAllowed
  <2> SUFFICES ASSUME IInv, NEW r \in Requests, pc[r] = "deny", r \notin failed,
                      req[r].target = req[r].secret.for,
                      EmbeddedLevel(req[r].secret) >= DefaultMinAccessLevel,
                      NEW p \in Projects, Entitling(p) \subseteq throughout[r],
                      \A x \in Projects \ {p} : <<"key", x>> \notin sometime[r]
               PROVE  FALSE
    <3>1. ASSUME NEW s \in Secrets
          PROVE  EmbeddedLevel(s) < DefaultMinAccessLevel \/ EmbeddedLevel(s) >= DefaultMinAccessLevel
      BY UnsealAssumption DEF EmbeddedLevel, NoLevel, DefaultMinAccessLevel
    <3>2. IInv => \A r \in Requests : req[r].secret \in Secrets
      BY DEF IInv, Justified, TypeOK
    <3> QED
      BY <3>1, <3>2 DEF EntitledIsAllowed
  <2> QED
    BY DEF IInv, OnCourse, Due
<1> QED
  BY <1>1, InductiveInvariant, PTL
=============================================================================

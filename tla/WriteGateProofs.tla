-------------------------- MODULE WriteGateProofs --------------------------
(***************************************************************************)
(* Proofs about WriteGate: what a run has checked stays true of it however *)
(* levels, keys, the registry and main move, and therefore of what lands.  *)
(***************************************************************************)
EXTENDS WriteGate, TLAPS

LEMMA InitTypes == Init => TypeOK
  BY WriteGateAssumption DEF Init, TypeOK, Tree

LEMMA NoRunTypes ==
  ASSUME TypeOK, NEW m \in MRs, NoRun(m)
  PROVE  /\ policy' \in [MRs -> Policy \union {NoPolicy}]
         /\ todo' \in [MRs -> SUBSET Envs]
         /\ signer' \in [MRs -> [Users -> Levels \union {Unasked, Unregistered}]]
         /\ seen' \in [MRs -> SUBSET [level : [Users -> Levels], registered : SUBSET Users]]
         /\ faulted' \subseteq MRs /\ unread' \subseteq MRs
  BY DEF TypeOK, NoRun

LEMMA FaultTypes ==
  ASSUME TypeOK, NEW m \in MRs,
         Fault(m) \/ UNCHANGED <<faults, faulted>>
  PROVE  faults' \in Nat /\ faulted' \subseteq MRs
  BY DEF TypeOK, Fault

LEMMA CommitTypes ==
  ASSUME TypeOK, NEW m \in MRs, Commit(m)
  PROVE  TypeOK'
  <1>1. head' \in [MRs -> Tree]
    <2>1. CASE \E e \in Envs, s \in Edits : head' = [head EXCEPT ![m].sections[e] = s]
      <3>1. PICK e \in Envs, s \in Edits : head' = [head EXCEPT ![m].sections[e] = s]
        BY <2>1
      <3>2. [head[m] EXCEPT !.sections[e] = s] \in Tree
        BY WriteGateAssumption DEF TypeOK, Tree
      <3> QED BY <3>1, <3>2 DEF TypeOK
    <2>2. CASE \E f \in Forms : head' = [head EXCEPT ![m].form = f]
      <3>1. PICK f \in Forms : head' = [head EXCEPT ![m].form = f]
        BY <2>2
      <3>2. [head[m] EXCEPT !.form = f] \in Tree
        BY DEF TypeOK, Tree
      <3> QED BY <3>1, <3>2 DEF TypeOK
    <2>3. CASE \E p \in PolicyEdits : head' = [head EXCEPT ![m].policy = p]
      <3>1. PICK p \in PolicyEdits : head' = [head EXCEPT ![m].policy = p]
        BY <2>3
      <3>2. [head[m] EXCEPT !.policy = p] \in Tree
        BY WriteGateAssumption DEF TypeOK, Tree
      <3> QED BY <3>1, <3>2 DEF TypeOK
    <2> QED BY <2>1, <2>2, <2>3 DEF Commit
  <1>2. commits' \in Nat /\ pc' \in [MRs -> {"unopened", "open", "author", "head", "sections",
                                            "accepted", "denied", "failed", "merged"}]
    BY DEF TypeOK, Commit, Goto
  <1> QED BY <1>1, <1>2, NoRunTypes DEF TypeOK, Commit, world

LEMMA MergeTypes ==
  ASSUME TypeOK, NEW m \in MRs, Merge(m)
  PROVE  TypeOK'
  <1>1. main' \in Tree
    BY DEF TypeOK, Merge, Tree, Merged
  <1>2. pc' \in [MRs -> {"unopened", "open", "author", "head", "sections", "accepted",
                         "denied", "failed", "merged"}]
    BY DEF TypeOK, Merge, Goto
  <1> QED BY <1>1, <1>2, NoRunTypes DEF TypeOK, Merge, world, bounds

LEMMA FetchTypes ==
  ASSUME TypeOK, NEW m \in MRs, NEW u \in Users, NEW a \in Levels \union {Unregistered},
         Fetch(m, u, a)
  PROVE  /\ signer' \in [MRs -> [Users -> Levels \union {Unasked, Unregistered}]]
         /\ faults' \in Nat /\ faulted' \subseteq MRs
  <1>1. signer' = signer \/ signer' = [signer EXCEPT ![m][u] = a]
    BY DEF Fetch
  <1>2. Fault(m) \/ UNCHANGED <<faults, faulted>>
    BY DEF Fetch
  <1>3. signer' \in [MRs -> [Users -> Levels \union {Unasked, Unregistered}]]
    BY <1>1 DEF TypeOK
  <1> QED BY <1>2, <1>3, FaultTypes

\* A touched section that is to be attributed has a signer.
LEMMA SignerIsUser ==
  ASSUME TypeOK, NEW m \in MRs, NEW e \in Envs,
         head[m].sections[e] # NoSection, head[m].sections[e].sig # NoSig
  PROVE  /\ head[m].sections[e].sig \in Signature
         /\ head[m].sections[e].sig.by \in Users
  <1>1. head[m].sections[e] \in Section
    BY DEF TypeOK, Tree
  <1>2. head[m].sections[e].sig \in Signature
    BY <1>1 DEF Section
  <1> QED BY <1>2 DEF Signature

LEMMA CheckSectionTypes ==
  ASSUME TypeOK, NEW m \in MRs, RunOK(m), CheckSection(m)
  PROVE  TypeOK'
  <1>1. PICK e \in todo[m] :
          LET s == head[m].sections[e] IN
          IF s.sig = NoSig
          THEN Goto(m, "denied") /\ UNCHANGED <<todo, signer, faults, faulted>>
          ELSE \E a \in Levels \union {Unregistered} :
                 /\ Fetch(m, s.sig.by, a)
                 /\ IF a # Unregistered /\ Verifies(s, head[m].form) /\ a >= policy[m][e]
                    THEN todo' = [todo EXCEPT ![m] = @ \ {e}] /\ UNCHANGED pc
                    ELSE Goto(m, "denied") /\ UNCHANGED todo
    BY DEF CheckSection
  <1>2. e \in Envs /\ head[m].sections[e] # NoSection
    BY DEF RunOK, SectionsChecked, CheckSection, TypeOK
  <1>3. /\ todo' \in [MRs -> SUBSET Envs]
        /\ pc' \in [MRs -> {"unopened", "open", "author", "head", "sections", "accepted",
                            "denied", "failed", "merged"}]
    BY <1>1 DEF TypeOK, Goto
  <1>4. /\ signer' \in [MRs -> [Users -> Levels \union {Unasked, Unregistered}]]
        /\ faults' \in Nat /\ faulted' \subseteq MRs
    <2>1. CASE head[m].sections[e].sig = NoSig
      BY <1>1, <2>1 DEF TypeOK
    <2>2. CASE head[m].sections[e].sig # NoSig
      <3>1. PICK a \in Levels \union {Unregistered} : Fetch(m, head[m].sections[e].sig.by, a)
        BY <1>1, <2>2
      <3> QED BY <3>1, <2>2, <1>2, SignerIsUser, FetchTypes
    <2> QED BY <2>1, <2>2
  <1> QED BY <1>3, <1>4 DEF TypeOK, CheckSection, trees, world

LEMMA NextTypes ==
  ASSUME TypeOK, \A m \in MRs : RunOK(m), Next
  PROVE  TypeOK'
  <1>1. CASE WorldChanges
    <2>1. level' \in [Users -> Levels] /\ registered' \subseteq Users /\ registry' \in Policy
      BY <1>1, WriteGateAssumption DEF TypeOK, WorldChanges
    <2>2. World' \in [level : [Users -> Levels], registered : SUBSET Users]
      BY <2>1 DEF World
    <2>3. seen' \in [MRs -> SUBSET [level : [Users -> Levels], registered : SUBSET Users]]
      BY <1>1, <2>2 DEF TypeOK, WorldChanges
    <2>4. served' \subseteq Policy /\ changes' \in Nat
      BY <1>1, <2>1 DEF TypeOK, WorldChanges
    <2> QED BY <1>1, <2>1, <2>3, <2>4 DEF TypeOK, WorldChanges, trees, run
  <1>2. ASSUME NEW m \in MRs, Open(m) PROVE TypeOK'
    BY <1>2 DEF TypeOK, Open, Goto, run, world, bounds, history
  <1>3. ASSUME NEW m \in MRs, Retry(m) PROVE TypeOK'
    <2>1. pc' \in [MRs -> {"unopened", "open", "author", "head", "sections", "accepted",
                           "denied", "failed", "merged"}]
      BY <1>3 DEF TypeOK, Retry, Goto
    <2> QED BY <1>3, <2>1, NoRunTypes DEF TypeOK, Retry, trees, world, bounds
  <1>4. ASSUME NEW m \in MRs, Start(m) PROVE TypeOK'
    <2>1. World \in [level : [Users -> Levels], registered : SUBSET Users]
      BY DEF TypeOK, World
    <2>2. seen' \in [MRs -> SUBSET [level : [Users -> Levels], registered : SUBSET Users]]
      BY <1>4, <2>1 DEF TypeOK, Start
    <2>3. faults' \in Nat /\ faulted' \subseteq MRs
      BY <1>4, FaultTypes DEF Start
    <2>4. head[m].policy # Collapsed => head[m].policy \in Policy
      BY DEF TypeOK, Tree
    <2>5. policy' \in [MRs -> Policy \union {NoPolicy}] /\ snapshot' \in Policy \union {NoPolicy}
      BY <1>4, <2>4 DEF TypeOK, Start
    <2>6. pc' \in [MRs -> {"unopened", "open", "author", "head", "sections", "accepted",
                           "denied", "failed", "merged"}]
      BY <1>4 DEF TypeOK, Start, Goto, AuthzScan
    <2> QED BY <1>4, <2>2, <2>3, <2>5, <2>6 DEF TypeOK, Start, trees, world
  <1>5. ASSUME NEW m \in MRs, AuthorLevel(m) PROVE TypeOK'
    <2>1. faults' \in Nat /\ faulted' \subseteq MRs
      BY <1>5, FaultTypes DEF AuthorLevel
    <2>2. pc' \in [MRs -> {"unopened", "open", "author", "head", "sections", "accepted",
                           "denied", "failed", "merged"}]
      BY <1>5 DEF TypeOK, AuthorLevel, Goto
    <2> QED BY <1>5, <2>1, <2>2 DEF TypeOK, AuthorLevel, trees, run, world
  <1>6. ASSUME NEW m \in MRs, ReadHead(m) PROVE TypeOK'
    <2>1. faults' \in Nat /\ faulted' \subseteq MRs
      BY <1>6, FaultTypes DEF ReadHead
    <2>2. pc' \in [MRs -> {"unopened", "open", "author", "head", "sections", "accepted",
                           "denied", "failed", "merged"}]
      BY <1>6 DEF TypeOK, ReadHead, Goto
    <2>3. todo' \in [MRs -> SUBSET Envs] /\ unread' \subseteq MRs
      BY <1>6 DEF TypeOK, ReadHead, Touched
    <2> QED BY <1>6, <2>1, <2>2, <2>3 DEF TypeOK, ReadHead, trees, world
  <1>7. ASSUME NEW m \in MRs, Accept(m) PROVE TypeOK'
    BY <1>7 DEF TypeOK, Accept, Goto, trees, run, world, bounds, history
  <1> QED BY <1>1, <1>2, <1>3, <1>4, <1>5, <1>6, <1>7, CommitTypes, CheckSectionTypes, MergeTypes
          DEF Next

-----------------------------------------------------------------------------

\* A request that is not being run owes nothing.
LEMMA Idle ==
  ASSUME NEW m \in MRs, pc'[m] \in {"denied", "failed", "merged"}
  PROVE  RunOK(m)'
  BY DEF RunOK, Fresh, Resolved, AuthorChecked, Answers, SectionsChecked, Running, PastAuthor

\* What was checked stays so when the run only lives through more worlds.
LEMMA Frame ==
  ASSUME TypeOK, NEW n \in MRs, RunOK(n),
         pc'[n] = pc[n], base'[n] = base[n], head'[n] = head[n], policy'[n] = policy[n],
         todo'[n] = todo[n], signer'[n] = signer[n],
         n \in unread' <=> n \in unread, n \in faulted => n \in faulted',
         seen[n] \subseteq seen'[n], served \subseteq served',
         Running(n) => World' \in seen'[n]
  PROVE  RunOK(n)'
  <1>1. Touched(n)' = Touched(n) /\ (PolicyTouched(n)' <=> PolicyTouched(n))
    BY DEF Touched, PolicyTouched
  <1>2. Fresh(n)' /\ Resolved(n)'
    BY DEF RunOK, Fresh, Resolved, Running, PoliciesOf
  <1>3. AuthorChecked(n)'
    BY <1>1 DEF RunOK, AuthorChecked, PastAuthor
  <1>4. Answers(n)'
    BY DEF RunOK, Answers, Running
  <1>5. SectionsChecked(n)'
    <2>1. ASSUME NEW e \in Touched(n), Vouched(n, e) PROVE Vouched(n, e)'
      BY <2>1 DEF Vouched, Verifies
    <2> QED BY <1>1, <2>1 DEF RunOK, SectionsChecked
  <1> QED BY <1>2, <1>3, <1>4, <1>5 DEF RunOK

\* A step of the request m that leaves the world alone.
LEMMA Others ==
  ASSUME TypeOK, NEW m \in MRs, NEW n \in MRs, n # m, RunOK(n),
         World' = World, served' = served,
         pc' = [pc EXCEPT ![m] = pc'[m]],
         base'[n] = base[n], head'[n] = head[n], policy'[n] = policy[n],
         todo'[n] = todo[n], signer'[n] = signer[n], seen'[n] = seen[n],
         n \in unread' <=> n \in unread, n \in faulted => n \in faulted'
  PROVE  RunOK(n)'
  <1>1. pc'[n] = pc[n]
    BY DEF TypeOK
  <1>2. Running(n) => World' \in seen'[n]
    BY DEF RunOK, Resolved
  <1> QED BY <1>1, <1>2, Frame

LEMMA InitInv == Init => IInv
  <1> SUFFICES ASSUME Init PROVE IInv
    OBVIOUS
  <1>1. ASSUME NEW m \in MRs PROVE RunOK(m)
    BY DEF Init, RunOK, Fresh, Resolved, AuthorChecked, Answers, SectionsChecked, Running, PastAuthor
  <1> QED BY <1>1, InitTypes DEF IInv, Served, Init

LEMMA WorldChangesInv ==
  ASSUME TypeOK, NEW n \in MRs, RunOK(n), WorldChanges
  PROVE  RunOK(n)'
  <1>1. seen[n] \subseteq seen'[n] /\ (Running(n) => World' \in seen'[n])
    BY DEF TypeOK, WorldChanges
  <1> QED BY <1>1, Frame DEF WorldChanges, trees, run

LEMMA StartInv ==
  ASSUME TypeOK, Served, NEW m \in MRs, RunOK(m), Start(m)
  PROVE  RunOK(m)'
  <1>1. CASE pc'[m] = "failed"
    BY <1>1, Idle
  <1>2. CASE pc'[m] # "failed"
    <2>1. pc'[m] = AuthzScan(m) /\ pc'[m] \in {"accepted", "author"}
      BY <1>2 DEF TypeOK, Start, Goto, AuthzScan
    <2>2. (policy[m] \in PoliciesOf(head[m].policy))'
      BY <1>2, WriteGateAssumption DEF TypeOK, Tree, Start, Goto, PoliciesOf, Served, trees
    <2>3. World' \in seen'[m]
      BY DEF TypeOK, Start, World, world
    <2>4. base' = base /\ head' = head
      BY DEF Start, trees
    <2>5. pc'[m] = "accepted" => Touched(m)' = {} /\ ~PolicyTouched(m)'
      BY <1>2, <2>1, <2>4 DEF AuthzScan, Touched, PolicyTouched
    <2>6. signer'[m] = [u \in Users |-> Unasked]
      BY DEF Start, RunOK, Fresh
    <2>7. Answers(m)'
      BY <2>6, WriteGateAssumption DEF Answers
    <2>8. Fresh(m)'
      BY <2>1 DEF RunOK, Fresh, Start
    <2>9. Resolved(m)'
      BY <2>2, <2>3 DEF Resolved
    <2>10. AuthorChecked(m)' /\ SectionsChecked(m)'
      BY <2>1, <2>5 DEF AuthorChecked, SectionsChecked, PastAuthor
    <2> QED BY <2>7, <2>8, <2>9, <2>10 DEF RunOK
  <1> QED BY <1>1, <1>2

LEMMA AuthorLevelInv ==
  ASSUME TypeOK, NEW m \in MRs, RunOK(m), AuthorLevel(m)
  PROVE  RunOK(m)'
  <1>1. CASE pc'[m] # "head"
    BY <1>1, Idle DEF AuthorLevel, Goto, TypeOK
  <1>2. CASE pc'[m] = "head"
    <2>1. Allows(m, level[Author[m]]) /\ UNCHANGED <<faults, faulted>>
      BY <1>2 DEF AuthorLevel, Goto, TypeOK
    <2>2. /\ World \in seen[m] /\ World.level = level /\ Running(m)
          /\ policy[m] \in PoliciesOf(head[m].policy)
      BY DEF RunOK, Resolved, AuthorLevel, Running, World
    <2>3. /\ Touched(m)' = Touched(m) /\ (PolicyTouched(m)' <=> PolicyTouched(m))
          /\ UNCHANGED <<head, policy, signer, seen, served, level, registered>>
      BY DEF AuthorLevel, Touched, PolicyTouched, trees, run, world
    <2>4. AuthorChecked(m)'
      <3>1. /\ \A e \in Touched(m) : World.level[Author[m]] >= policy[m][e]
            /\ PolicyTouched(m) => World.level[Author[m]] >= Owner
        BY <2>1, <2>2 DEF Allows
      <3> QED BY <2>1, <2>2, <2>3, <3>1 DEF AuthorChecked, Allows
    <2>5. Answers(m)'
      BY <2>1, <2>2, <2>3 DEF RunOK, Answers
    <2>6. Resolved(m)'
      BY <2>2, <2>3 DEF Resolved, PoliciesOf, World
    <2>7. Fresh(m)' /\ SectionsChecked(m)'
      BY <1>2, <2>2 DEF RunOK, Fresh, SectionsChecked, AuthorLevel, run
    <2> QED BY <2>4, <2>5, <2>6, <2>7 DEF RunOK
  <1> QED BY <1>1, <1>2

LEMMA ReadHeadInv ==
  ASSUME TypeOK, NEW m \in MRs, RunOK(m), ReadHead(m)
  PROVE  RunOK(m)'
  <1>1. /\ Touched(m)' = Touched(m) /\ (PolicyTouched(m)' <=> PolicyTouched(m))
        /\ UNCHANGED <<base, head, policy, signer, seen, served, level, registered>>
    BY DEF ReadHead, Touched, PolicyTouched, trees, world
  <1>2. pc[m] = "head" /\ pc'[m] = "sections" /\ (m \in faulted => m \in faulted')
    BY DEF ReadHead, Goto, Fault, TypeOK
  <1>3. Fresh(m)' /\ Resolved(m)' /\ AuthorChecked(m)'
    BY <1>1, <1>2 DEF RunOK, Fresh, Resolved, AuthorChecked, Running, PastAuthor, PoliciesOf, World
  <1>4. Answers(m)'
    BY <1>1, <1>2 DEF RunOK, Answers, Running
  <1>5. CASE UNCHANGED unread /\
             todo' = [todo EXCEPT ![m] = {e \in Touched(m) : head[m].sections[e] # NoSection}]
    <2>1. todo'[m] = {e \in Touched(m)' : head'[m].sections[e] # NoSection}
      BY <1>1, <1>5 DEF TypeOK
    <2>2. SectionsChecked(m)'
      BY <1>2, <2>1 DEF SectionsChecked, Vouched
    <2> QED BY <1>3, <1>4, <2>2 DEF RunOK
  <1>6. CASE m \in unread' /\ UNCHANGED todo
    <2>1. todo'[m] = {}
      BY <1>2, <1>6 DEF RunOK, Fresh
    <2>2. SectionsChecked(m)'
      BY <1>6, <2>1 DEF SectionsChecked
    <2> QED BY <1>3, <1>4, <2>2 DEF RunOK
  <1> QED BY <1>3, <1>4, <1>5, <1>6 DEF ReadHead, RunOK

\* What the broker answered, or answered before, was so in a world of the run.
LEMMA FetchInv ==
  ASSUME TypeOK, NEW m \in MRs, RunOK(m), Running(m), NEW u \in Users,
         NEW a \in Levels \union {Unregistered}, Fetch(m, u, a),
         UNCHANGED <<seen, level, registered>>
  PROVE  /\ \A v \in Users :
              /\ signer'[m][v] \in Nat =>
                   /\ \E w \in seen[m] : v \in w.registered
                   /\ \/ (signer'[m][v] = 0 /\ m \in faulted')
                      \/ \E w \in seen[m] : w.level[v] = signer'[m][v]
              /\ signer'[m][v] = Unregistered => \E w \in seen[m] : v \notin w.registered
         /\ a \in Nat =>
              /\ \E w \in seen[m] : u \in w.registered
              /\ \/ (a = 0 /\ m \in faulted')
                 \/ \E w \in seen[m] : w.level[u] = a
         /\ a = Unregistered => m \in faulted' \/ \E w \in seen[m] : u \notin w.registered
         /\ m \in faulted => m \in faulted'
  <1>1. /\ World \in seen[m] /\ World.level = level /\ World.registered = registered
    BY DEF RunOK, Resolved, World
  <1>2. m \in faulted => m \in faulted'
    BY DEF Fetch, Fault
  <1>3. CASE signer[m][u] # Unasked /\ a = signer[m][u] /\ UNCHANGED <<signer, faults, faulted>>
    BY <1>2, <1>3 DEF RunOK, Answers
  <1>4. CASE a = Unregistered /\ Fault(m) /\ UNCHANGED signer
    <2>1. m \in faulted'
      BY <1>4 DEF Fault
    <2> QED BY <1>2, <1>4, <2>1, WriteGateAssumption DEF RunOK, Answers
  <1>5. CASE /\ signer[m][u] = Unasked
             /\ \/ a = SignerNow(u) /\ UNCHANGED <<faults, faulted>>
                \/ a = 0 /\ u \in registered /\ Fault(m)
             /\ signer' = [signer EXCEPT ![m][u] = a]
    <2>1. signer'[m][u] = a /\ \A v \in Users \ {u} : signer'[m][v] = signer[m][v]
      BY <1>5 DEF TypeOK
    <2>2. a \in Nat =>
            /\ \E w \in seen[m] : u \in w.registered
            /\ \/ (a = 0 /\ m \in faulted')
               \/ \E w \in seen[m] : w.level[u] = a
      BY <1>1, <1>5, WriteGateAssumption DEF SignerNow, Fault
    <2>3. a = Unregistered => \E w \in seen[m] : u \notin w.registered
      BY <1>1, <1>5, WriteGateAssumption DEF SignerNow, TypeOK
    <2> QED BY <1>2, <2>1, <2>2, <2>3 DEF RunOK, Answers
  <1> QED BY <1>3, <1>4, <1>5 DEF Fetch

\* A section that passes is vouched for.
LEMMA SectionPasses ==
  ASSUME TypeOK, NEW m \in MRs, RunOK(m), Running(m),
         NEW e \in Touched(m), head[m].sections[e] # NoSection,
         head[m].sections[e].sig # NoSig, policy[m][e] # Undeclared,
         NEW a \in Levels \union {Unregistered},
         Fetch(m, head[m].sections[e].sig.by, a), UNCHANGED <<seen, level, registered>>,
         a # Unregistered, Verifies(head[m].sections[e], head[m].form), a >= policy[m][e]
  PROVE  Vouched(m, e)
  <1> DEFINE u == head[m].sections[e].sig.by
  <1>1. u \in Users /\ e \in Envs
    BY SignerIsUser DEF Touched
  <1>2. a \in Nat
    BY WriteGateAssumption
  <1>3. /\ \E w \in seen[m] : u \in w.registered
        /\ \/ (a = 0 /\ m \in faulted')
           \/ \E w \in seen[m] : w.level[u] = a
    BY <1>1, <1>2, FetchInv
  <1>4. policy[m][e] \in Nat
    <2>1. policy[m] \in Policy
      BY DEF RunOK, Resolved, PoliciesOf, TypeOK, Tree
    <2> QED BY <2>1, <1>1 DEF Policy
  <1>5. ASSUME NEW w \in seen[m] PROVE w.level[u] \in Nat
    <2>1. w \in [level : [Users -> Levels], registered : SUBSET Users]
      BY DEF TypeOK
    <2>2. w.level[u] \in Levels
      BY <1>1, <2>1
    <2> QED BY <2>2, WriteGateAssumption
  <1>6. \E w \in seen[m] : w.level[u] >= policy[m][e]
    <2>1. CASE a = 0
      <3>1. PICK w \in seen[m] : u \in w.registered
        BY <1>3
      <3>2. w.level[u] \in Nat /\ 0 >= policy[m][e]
        BY <2>1, <1>5
      <3> QED BY <3>2, <1>4
    <2>2. CASE a # 0
      <3>1. PICK w \in seen[m] : w.level[u] = a
        BY <1>3, <2>2
      <3> QED BY <3>1
    <2> QED BY <2>1, <2>2
  <1> QED BY <1>3, <1>6 DEF Vouched

LEMMA CheckSectionInv ==
  ASSUME TypeOK, NEW m \in MRs, RunOK(m), CheckSection(m)
  PROVE  RunOK(m)'
  <1>1. CASE pc'[m] = "denied"
    BY <1>1, Idle
  <1>2. CASE pc'[m] # "denied"
    <2>1. PICK e \in todo[m], a \in Levels \union {Unregistered} :
            /\ head[m].sections[e].sig # NoSig
            /\ Fetch(m, head[m].sections[e].sig.by, a)
            /\ a # Unregistered /\ Verifies(head[m].sections[e], head[m].form)
            /\ a >= policy[m][e]
            /\ todo' = [todo EXCEPT ![m] = @ \ {e}] /\ UNCHANGED pc
      BY <1>2 DEF CheckSection, Goto, TypeOK
    <2>2. /\ Touched(m)' = Touched(m) /\ (PolicyTouched(m)' <=> PolicyTouched(m))
          /\ UNCHANGED <<base, head, policy, seen, served, level, registered, unread>>
      BY DEF CheckSection, Touched, PolicyTouched, trees, world
    <2>3. /\ pc[m] = "sections" /\ Running(m) /\ e \in Touched(m)
          /\ head[m].sections[e] # NoSection /\ policy[m][e] # Undeclared
      BY DEF CheckSection, Running, RunOK, SectionsChecked, AuthorChecked, PastAuthor
    <2>4. Fresh(m)' /\ Resolved(m)' /\ AuthorChecked(m)'
      BY <2>1, <2>2, <2>3 DEF RunOK, Fresh, Resolved, AuthorChecked, Running, PastAuthor, PoliciesOf, World
    <2>5. Answers(m)'
      <3>1. head[m].sections[e].sig.by \in Users
        BY <2>1, <2>3, SignerIsUser DEF Touched
      <3> QED BY <2>1, <2>2, <2>3, <3>1, FetchInv DEF Answers
    <2>6. SectionsChecked(m)'
      <3>1. Vouched(m, e)
        BY <2>1, <2>2, <2>3, SectionPasses
      <3>2. ASSUME NEW f \in Touched(m), Vouched(m, f) PROVE Vouched(m, f)'
        BY <3>2, <2>2 DEF Vouched, Verifies
      <3>3. todo'[m] = todo[m] \ {e}
        BY <2>1 DEF TypeOK
      <3> QED BY <2>1, <2>2, <2>3, <3>1, <3>2, <3>3 DEF RunOK, SectionsChecked
    <2> QED BY <2>4, <2>5, <2>6 DEF RunOK
  <1> QED BY <1>1, <1>2

LEMMA AcceptInv ==
  ASSUME TypeOK, NEW m \in MRs, RunOK(m), Accept(m)
  PROVE  RunOK(m)'
  <1>1. pc[m] = "sections" /\ pc'[m] = "accepted" /\ todo[m] = {}
    BY DEF Accept, Goto, TypeOK
  <1>2. /\ Touched(m)' = Touched(m) /\ (PolicyTouched(m)' <=> PolicyTouched(m))
        /\ UNCHANGED <<base, head, policy, seen, served, unread, todo>>
    BY DEF Accept, Touched, PolicyTouched, trees, history, run
  <1>3. ASSUME NEW f \in Touched(m), Vouched(m, f) PROVE Vouched(m, f)'
    BY <1>3, <1>2 DEF Vouched, Verifies
  <1>4. Fresh(m)' /\ Resolved(m)' /\ AuthorChecked(m)' /\ Answers(m)'
    BY <1>1, <1>2 DEF RunOK, Fresh, Resolved, AuthorChecked, Answers, Running, PastAuthor, PoliciesOf
  <1>5. SectionsChecked(m)'
    BY <1>1, <1>2, <1>3 DEF RunOK, SectionsChecked
  <1> QED BY <1>4, <1>5 DEF RunOK

LEMMA NoRunOthers ==
  ASSUME TypeOK, NEW m \in MRs, NEW n \in MRs, n # m, NoRun(m)
  PROVE  /\ policy'[n] = policy[n] /\ todo'[n] = todo[n] /\ signer'[n] = signer[n]
         /\ seen'[n] = seen[n] /\ (n \in unread' <=> n \in unread)
         /\ n \in faulted => n \in faulted'
  BY DEF NoRun, TypeOK

LEMMA NoRunOpens ==
  ASSUME TypeOK, NEW m \in MRs, NoRun(m), pc'[m] = "open"
  PROVE  RunOK(m)'
  <1>1. todo'[m] = {} /\ signer'[m] = [u \in Users |-> Unasked]
    BY DEF NoRun, TypeOK
  <1> QED BY <1>1 DEF RunOK, Fresh, Resolved, AuthorChecked, Answers, SectionsChecked, Running, PastAuthor

LEMMA FetchOthers ==
  ASSUME TypeOK, NEW m \in MRs, NEW n \in MRs, n # m, CheckSection(m)
  PROVE  /\ signer'[n] = signer[n] /\ todo'[n] = todo[n]
         /\ n \in faulted => n \in faulted'
         /\ pc' = [pc EXCEPT ![m] = pc'[m]]
  BY DEF TypeOK, CheckSection, Fetch, Fault, Goto

LEMMA NextInv == ASSUME IInv, Next PROVE IInv'
  <1> USE DEF IInv
  <1>1. TypeOK'
    BY NextTypes
  <1>2. Served'
    <2>1. CASE WorldChanges
      BY <2>1 DEF Served, WorldChanges
    <2>2. ASSUME NEW m \in MRs, Start(m) PROVE Served'
      BY <2>2 DEF Served, Start, world
    <2>3. CASE UNCHANGED <<registry, served, snapshot>>
      BY <2>3 DEF Served
    <2>4. ASSUME NEW m \in MRs,
                 Open(m) \/ Commit(m) \/ Retry(m) \/ AuthorLevel(m) \/ ReadHead(m)
                   \/ CheckSection(m) \/ Accept(m) \/ Merge(m)
          PROVE  UNCHANGED <<registry, served, snapshot>>
      BY <2>4 DEF Open, Commit, Retry, AuthorLevel, ReadHead, CheckSection, Accept, Merge, world, history
    <2> QED BY <2>1, <2>2, <2>3, <2>4 DEF Next
  <1>3. ASSUME NEW n \in MRs PROVE RunOK(n)'
    <2>1. CASE WorldChanges
      BY <2>1, WorldChangesInv
    <2>2. ASSUME NEW m \in MRs, Open(m) PROVE RunOK(n)'
      <3>1. CASE n = m
        <4>1. pc[m] = "unopened" /\ pc'[m] = "open" /\ todo' = todo /\ signer' = signer
          BY <2>2 DEF Open, Goto, TypeOK, run
        <4> QED BY <3>1, <4>1 DEF RunOK, Fresh, Resolved, AuthorChecked, Answers, SectionsChecked,
                                  Running, PastAuthor
      <3>2. CASE n # m
        BY <2>2, <3>2, Others DEF Open, Goto, TypeOK, World, world, run, history
      <3> QED BY <3>1, <3>2
    <2>3. ASSUME NEW m \in MRs, Commit(m) PROVE RunOK(n)'
      <3>1. CASE n = m
        BY <2>3, <3>1, NoRunOpens DEF Commit, Goto, TypeOK
      <3>2. CASE n # m
        <4>1. head'[n] = head[n]
          BY <2>3, <3>2 DEF Commit, TypeOK
        <4> QED BY <2>3, <3>2, <4>1, NoRunOthers, Others DEF Commit, Goto, TypeOK, World, world
      <3> QED BY <3>1, <3>2
    <2>4. ASSUME NEW m \in MRs, Retry(m) PROVE RunOK(n)'
      <3>1. CASE n = m
        BY <2>4, <3>1, NoRunOpens DEF Retry, Goto, TypeOK
      <3>2. CASE n # m
        BY <2>4, <3>2, NoRunOthers, Others DEF Retry, Goto, TypeOK, World, world, trees
      <3> QED BY <3>1, <3>2
    <2>5. ASSUME NEW m \in MRs, Start(m) PROVE RunOK(n)'
      <3>1. CASE n = m
        BY <2>5, <3>1, StartInv
      <3>2. CASE n # m
        BY <2>5, <3>2, Others DEF Start, Goto, Fault, TypeOK, World, world, trees
      <3> QED BY <3>1, <3>2
    <2>6. ASSUME NEW m \in MRs, AuthorLevel(m) PROVE RunOK(n)'
      <3>1. CASE n = m
        BY <2>6, <3>1, AuthorLevelInv
      <3>2. CASE n # m
        BY <2>6, <3>2, Others DEF AuthorLevel, Goto, Fault, TypeOK, World, world, trees, run
      <3> QED BY <3>1, <3>2
    <2>7. ASSUME NEW m \in MRs, ReadHead(m) PROVE RunOK(n)'
      <3>1. CASE n = m
        BY <2>7, <3>1, ReadHeadInv
      <3>2. CASE n # m
        BY <2>7, <3>2, Others DEF ReadHead, Goto, Fault, TypeOK, World, world, trees
      <3> QED BY <3>1, <3>2
    <2>8. ASSUME NEW m \in MRs, CheckSection(m) PROVE RunOK(n)'
      <3>1. CASE n = m
        BY <2>8, <3>1, CheckSectionInv
      <3>2. CASE n # m
        BY <2>8, <3>2, FetchOthers, Others DEF CheckSection, World, world, trees
      <3> QED BY <3>1, <3>2
    <2>9. ASSUME NEW m \in MRs, Accept(m) PROVE RunOK(n)'
      <3>1. CASE n = m
        BY <2>9, <3>1, AcceptInv
      <3>2. CASE n # m
        BY <2>9, <3>2, Others DEF Accept, Goto, TypeOK, World, world, trees, run, history
      <3> QED BY <3>1, <3>2
    <2>10. ASSUME NEW m \in MRs, Merge(m) PROVE RunOK(n)'
      <3>1. CASE n = m
        BY <2>10, <3>1, Idle DEF Merge, Goto, TypeOK
      <3>2. CASE n # m
        BY <2>10, <3>2, NoRunOthers, Others DEF Merge, Goto, TypeOK, World, world
      <3> QED BY <3>1, <3>2
    <2> QED BY <2>1, <2>2, <2>3, <2>4, <2>5, <2>6, <2>7, <2>8, <2>9, <2>10 DEF Next
  <1> QED BY <1>1, <1>2, <1>3

LEMMA StutterInv == ASSUME IInv, UNCHANGED vars PROVE IInv'
  <1>1. ASSUME NEW n \in MRs PROVE RunOK(n)'
    <2>1. World' = World
      BY DEF vars, world, World
    <2>2. Running(n) => World' \in seen'[n]
      BY <2>1 DEF IInv, RunOK, Resolved, vars, history
    <2> QED BY <2>2, Frame DEF IInv, vars, trees, run, history
  <1>2. TypeOK' /\ Served'
    BY DEF IInv, TypeOK, Served, vars, trees, run, world, bounds, history
  <1> QED BY <1>1, <1>2 DEF IInv

-----------------------------------------------------------------------------

\* The inductive invariant: whatever a run of the gate has checked was so in a
\* world that run lived through, under the policy it resolved.
THEOREM InductiveInvariant == Spec => []IInv
  <1>1. IInv /\ [Next]_vars => IInv'
    BY NextInv, StutterInv
  <1> QED BY <1>1, InitInv, PTL DEF Spec

\* Every variable of the gate, the requests and their surroundings keeps its shape.
THEOREM TypeCorrect == Spec => []TypeOK
  <1>1. IInv => TypeOK
    BY DEF IInv
  <1> QED BY <1>1, InductiveInvariant, PTL

-----------------------------------------------------------------------------
(***************************************************************************)
(* What lands                                                              *)
(***************************************************************************)

LEMMA OnlyMergesMoveMain ==
  ASSUME [Next]_vars, main' # main
  PROVE  \E m \in MRs : Merge(m)
  <1>1. Next
    BY DEF vars, trees
  <1> QED BY <1>1 DEF Next, WorldChanges, Open, Commit, Retry, Start, AuthorLevel, ReadHead,
                     CheckSection, Accept, trees

\* What a merge brings to main was touched by the request, as its head has it.
LEMMA MergeBrings ==
  ASSUME TypeOK, NEW m \in MRs, Merge(m)
  PROVE  /\ Lands(m)
         /\ main'.policy # main.policy => PolicyTouched(m)
         /\ \A e \in Envs : EntriesOf(main'.sections[e]) # EntriesOf(main.sections[e]) =>
              e \in Touched(m) /\ main'.sections[e] = head[m].sections[e]
  <1>1. Lands(m)
    BY DEF Lands, Merge, Goto, TypeOK
  <1>2. main'.policy = Merged(base[m].policy, head[m].policy, main.policy)
    BY DEF Merge
  <1>3. ASSUME NEW e \in Envs, EntriesOf(main'.sections[e]) # EntriesOf(main.sections[e])
        PROVE  e \in Touched(m) /\ main'.sections[e] = head[m].sections[e]
    <2>1. main'.sections[e] = Merged(base[m].sections[e], head[m].sections[e], main.sections[e])
      BY DEF Merge
    <2>2. Clean(base[m].sections[e], head[m].sections[e], main.sections[e])
      BY DEF Merge
    <2> QED BY <1>3, <2>1, <2>2 DEF Merged, Clean, Touched
  <1>4. main'.policy # main.policy => PolicyTouched(m)
    BY <1>2 DEF Merged, PolicyTouched
  <1> QED BY <1>1, <1>3, <1>4

\* An accepted author had the level for every section touched, and for the policy.
LEMMA AcceptedAuthor ==
  ASSUME IInv, NEW m \in MRs, pc[m] = "accepted"
  PROVE  /\ PolicyTouched(m) => WasOwner(m)
         /\ \A e \in Touched(m) :
              Entitled(m, Author[m], e, PoliciesOf(base[m].policy)) \/ WasOwner(m)
  <1>1. policy[m] \in PoliciesOf(head[m].policy) /\ AuthorChecked(m) /\ PastAuthor(m)
    BY DEF IInv, RunOK, Resolved, PastAuthor
  <1>2. PolicyTouched(m) => WasOwner(m)
    BY <1>1 DEF AuthorChecked, WasOwner
  <1>3. ASSUME NEW e \in Touched(m), ~PolicyTouched(m)
        PROVE  Entitled(m, Author[m], e, PoliciesOf(base[m].policy))
    <2>1. policy[m] \in PoliciesOf(base[m].policy)
      BY <1>1, <1>3 DEF PolicyTouched
    <2> QED BY <1>1, <1>3, <2>1 DEF AuthorChecked, Entitled
  <1> QED BY <1>2, <1>3

\* Whatever was merged, revoked or edited since a branch was cut, the entries of
\* an environment change on main only by an author entitled during the run.
THEOREM LandedByEntitledAuthor == Spec => AuthorEntitled
  <1>1. IInv /\ [Next]_vars =>
          [\A e \in Envs :
             EntriesOf(main'.sections[e]) # EntriesOf(main.sections[e])
               => \E m \in MRs :
                    /\ Lands(m)
                    /\ Entitled(m, Author[m], e, PoliciesOf(base[m].policy)) \/ WasOwner(m)]_vars
    <2> SUFFICES ASSUME IInv, [Next]_vars, NEW e \in Envs,
                        EntriesOf(main'.sections[e]) # EntriesOf(main.sections[e])
                 PROVE  \E m \in MRs :
                          /\ Lands(m)
                          /\ \/ Entitled(m, Author[m], e, PoliciesOf(base[m].policy))
                             \/ WasOwner(m)
      OBVIOUS
    <2>1. PICK m \in MRs : Merge(m)
      BY OnlyMergesMoveMain
    <2>2. Lands(m) /\ e \in Touched(m)
      BY <2>1, MergeBrings DEF IInv
    <2> QED BY <2>2, AcceptedAuthor DEF Lands
  <1> QED BY <1>1, InductiveInvariant, PTL DEF Spec, AuthorEntitled

\* The policy on main changes only by a request of an Owner.
THEOREM PolicyEditedByOwner == Spec => PolicyByOwner
  <1>1. IInv /\ [Next]_vars =>
          [main'.policy # main.policy => \E m \in MRs : Lands(m) /\ WasOwner(m)]_vars
    <2> SUFFICES ASSUME IInv, [Next]_vars, main'.policy # main.policy
                 PROVE  \E m \in MRs : Lands(m) /\ WasOwner(m)
      OBVIOUS
    <2>1. PICK m \in MRs : Merge(m)
      BY OnlyMergesMoveMain
    <2>2. Lands(m) /\ PolicyTouched(m)
      BY <2>1, MergeBrings DEF IInv
    <2> QED BY <2>2, AcceptedAuthor DEF Lands
  <1> QED BY <1>1, InductiveInvariant, PTL DEF Spec, PolicyByOwner

\* A section that lands is signed as it stands by somebody who was registered
\* and entitled during the run, unless the run could not read the file again.
THEOREM LandedIsAttributed == Spec => Attributed
  <1>1. IInv /\ [Next]_vars =>
          [\A e \in Envs :
             LET s == main'.sections[e] IN
             EntriesOf(s) # EntriesOf(main.sections[e]) /\ s # NoSection
               => \E m \in MRs :
                    /\ Lands(m)
                    /\ m \in unread \/
                         /\ s.sig # NoSig /\ s.sig.over = s.entries
                         /\ Entitled(m, s.sig.by, e, PoliciesOf(head[m].policy))
                         /\ \E w \in seen[m] : s.sig.by \in w.registered]_vars
    <2> SUFFICES ASSUME IInv, [Next]_vars, NEW e \in Envs,
                        EntriesOf(main'.sections[e]) # EntriesOf(main.sections[e]),
                        main'.sections[e] # NoSection
                 PROVE  \E m \in MRs :
                          /\ Lands(m)
                          /\ m \in unread \/
                               /\ main'.sections[e].sig # NoSig
                               /\ main'.sections[e].sig.over = main'.sections[e].entries
                               /\ Entitled(m, main'.sections[e].sig.by, e, PoliciesOf(head[m].policy))
                               /\ \E w \in seen[m] : main'.sections[e].sig.by \in w.registered
      OBVIOUS
    <2>1. PICK m \in MRs : Merge(m)
      BY OnlyMergesMoveMain
    <2>2. /\ Lands(m) /\ e \in Touched(m) /\ main'.sections[e] = head[m].sections[e]
          /\ pc[m] = "accepted"
      BY <2>1, MergeBrings DEF IInv, Lands
    <2>3. /\ policy[m] \in PoliciesOf(head[m].policy) /\ policy[m][e] # Undeclared
          /\ m \notin unread => Vouched(m, e)
      BY <2>2 DEF IInv, RunOK, Resolved, AuthorChecked, SectionsChecked, PastAuthor
    <2>4. m \notin unread =>
            /\ head[m].sections[e].sig # NoSig
            /\ head[m].sections[e].sig.over = head[m].sections[e].entries
            /\ Entitled(m, head[m].sections[e].sig.by, e, PoliciesOf(head[m].policy))
            /\ \E w \in seen[m] : head[m].sections[e].sig.by \in w.registered
      BY <2>2, <2>3 DEF Vouched, Verifies, Entitled
    <2> QED BY <2>2, <2>4
  <1> QED BY <1>1, InductiveInvariant, PTL DEF Spec, Attributed

-----------------------------------------------------------------------------
(***************************************************************************)
(* What is refused                                                         *)
(***************************************************************************)

LEMMA CauseStays ==
  ASSUME NEW n \in MRs, Cause(n), base'[n] = base[n], head'[n] = head[n],
         n \in faulted => n \in faulted', seen[n] \subseteq seen'[n], served \subseteq served'
  PROVE  Cause(n)'
  <1>1. Touched(n)' = Touched(n) /\ (PolicyTouched(n)' <=> PolicyTouched(n)) /\ (Loads(n)' <=> Loads(n))
    BY DEF Touched, PolicyTouched, Loads, FileTouched
  <1>2. PoliciesOf(head[n].policy) \subseteq PoliciesOf(head[n].policy)'
    BY DEF PoliciesOf
  <1>3. ASSUME NEW u, NEW e, Short(n, u, e) PROVE Short(n, u, e)'
    BY <1>2, <1>3 DEF Short
  <1> QED BY <1>1, <1>3 DEF Cause

LEMMA AuthorDenied ==
  ASSUME IInv, NEW m \in MRs, AuthorLevel(m), pc'[m] \in {"denied", "failed"}
  PROVE  Cause(m)'
  <1>1. CASE m \in faulted'
    BY <1>1 DEF Cause
  <1>2. CASE m \notin faulted'
    <2>1. ~Allows(m, level[Author[m]])
      BY <1>2 DEF AuthorLevel, Fault, Goto, IInv, TypeOK
    <2>2. /\ World \in seen[m] /\ World.level = level
          /\ policy[m] \in PoliciesOf(head[m].policy)
      BY DEF IInv, RunOK, Resolved, AuthorLevel, Running, World
    <2>3. Cause(m)
      <3>1. Author[m] \in Users /\ level[Author[m]] \in Nat
        BY WriteGateAssumption DEF IInv, TypeOK
      <3>2. CASE PolicyTouched(m) /\ ~(level[Author[m]] >= Owner)
        BY <2>2, <3>1, <3>2 DEF Cause, Owner
      <3>3. ASSUME NEW e \in Touched(m), ~(policy[m][e] # Undeclared /\ level[Author[m]] >= policy[m][e])
            PROVE  Cause(m)
        <4>1. policy[m][e] \in Nat \union {Undeclared}
          <5>1. policy[m] \in Policy
            BY <2>2 DEF IInv, TypeOK, Tree, PoliciesOf
          <5> QED BY <5>1 DEF Policy, Touched
        <4>2. Short(m, Author[m], e)
          BY <2>2, <3>1, <3>3, <4>1 DEF Short
        <4> QED BY <4>2 DEF Cause
      <3> QED BY <2>1, <3>2, <3>3 DEF Allows
    <2> QED BY <2>3, CauseStays DEF AuthorLevel, Fault, trees, IInv, TypeOK
  <1> QED BY <1>1, <1>2

LEMMA SectionDenied ==
  ASSUME IInv, NEW m \in MRs, CheckSection(m), pc'[m] \in {"denied", "failed"}
  PROVE  Cause(m)'
  <1> USE DEF IInv
  <1>1. PICK e \in todo[m] :
          \/ head[m].sections[e].sig = NoSig
          \/ /\ head[m].sections[e].sig # NoSig
             /\ \E a \in Levels \union {Unregistered} :
                  /\ Fetch(m, head[m].sections[e].sig.by, a)
                  /\ ~(/\ a # Unregistered /\ Verifies(head[m].sections[e], head[m].form)
                       /\ a >= policy[m][e])
    BY DEF CheckSection, TypeOK
  <1>2. /\ pc[m] = "sections" /\ Running(m) /\ e \in Touched(m)
        /\ head[m].sections[e] # NoSection /\ policy[m][e] # Undeclared
        /\ policy[m] \in PoliciesOf(head[m].policy)
    BY DEF CheckSection, Running, RunOK, Resolved, SectionsChecked, AuthorChecked, PastAuthor
  <1>3. /\ UNCHANGED <<base, head, seen, served, level, registered>>
        /\ m \in faulted => m \in faulted'
    BY DEF CheckSection, Fetch, Fault, trees, world
  <1>4. Cause(m) \/ m \in faulted'
    <2>1. CASE head[m].sections[e].sig = NoSig
      BY <1>2, <2>1 DEF Cause
    <2>2. CASE ~Verifies(head[m].sections[e], head[m].form)
      <3>1. head[m].sections[e].sig # NoSig => head[m].sections[e].sig.form \in {"v3", "v4"}
        BY <1>2, SignerIsUser DEF Touched, Signature
      <3> QED BY <1>2, <2>2, <3>1 DEF Cause, Verifies
    <2>3. ASSUME head[m].sections[e].sig # NoSig, Verifies(head[m].sections[e], head[m].form),
                 NEW a \in Levels \union {Unregistered},
                 Fetch(m, head[m].sections[e].sig.by, a),
                 ~(a # Unregistered /\ a >= policy[m][e]), m \notin faulted'
          PROVE  Cause(m)
      <3> DEFINE u == head[m].sections[e].sig.by
      <3>1. u \in Users
        BY <1>2, <2>3, SignerIsUser DEF Touched
      <3>2. CASE a = Unregistered
        <4>1. \E w \in seen[m] : u \notin w.registered
          BY <1>2, <1>3, <2>3, <3>1, <3>2, FetchInv
        <4> QED BY <1>2, <2>3, <4>1 DEF Cause
      <3>3. CASE a # Unregistered
        <4>1. a \in Nat
          BY <3>3, WriteGateAssumption
        <4>2. PICK w \in seen[m] : w.level[u] = a
          BY <1>2, <1>3, <2>3, <3>1, <4>1, FetchInv
        <4>3. policy[m][e] \in Nat
          <5>1. policy[m] \in Policy
            BY <1>2 DEF TypeOK, Tree, PoliciesOf
          <5> QED BY <1>2, <5>1 DEF Policy, Touched
        <4>4. Short(m, u, e)
          BY <1>2, <2>3, <3>3, <4>1, <4>2, <4>3 DEF Short
        <4> QED BY <1>2, <2>3, <4>4 DEF Cause
      <3> QED BY <3>2, <3>3
    <2> QED BY <1>1, <2>1, <2>2, <2>3
  <1> QED BY <1>3, <1>4, CauseStays DEF Cause

LEMMA StartFails ==
  ASSUME IInv, NEW m \in MRs, Start(m), pc'[m] \in {"denied", "failed"}
  PROVE  Cause(m)'
  <1>1. CASE Fault(m)
    BY <1>1 DEF Fault, Cause
  <1>2. CASE ~Fault(m)
    <2>1. pc'[m] = AuthzScan(m) /\ UNCHANGED <<base, head>>
      BY <1>2 DEF Start, Goto, IInv, TypeOK, trees
    <2>2. ~Loads(m)'
      BY <2>1 DEF AuthzScan, Loads, FileTouched
    <2> QED BY <2>2 DEF Cause
  <1> QED BY <1>1, <1>2

LEMMA CauseInv == ASSUME IInv, RejectedForCause, [Next]_vars PROVE RejectedForCause'
  <1> SUFFICES ASSUME NEW n \in MRs, pc'[n] \in {"denied", "failed"} PROVE Cause(n)'
    BY DEF RejectedForCause
  <1> USE DEF IInv
  <1>1. CASE UNCHANGED vars
    BY <1>1, CauseStays DEF RejectedForCause, vars, trees, history
  <1>2. CASE WorldChanges
    <2>1. seen[n] \subseteq seen'[n]
      BY <1>2 DEF WorldChanges, TypeOK
    <2> QED BY <1>2, <2>1, CauseStays DEF RejectedForCause, WorldChanges, trees
  <1>3. ASSUME NEW m \in MRs, n # m, Open(m) \/ Commit(m) \/ Retry(m) \/ Merge(m) PROVE Cause(n)'
    <2>1. pc'[n] = pc[n] /\ base'[n] = base[n] /\ head'[n] = head[n] /\ served' = served
      BY <1>3 DEF Open, Commit, Retry, Merge, Goto, TypeOK, trees, history
    <2>2. seen'[n] = seen[n] /\ (n \in faulted => n \in faulted')
      BY <1>3, NoRunOthers DEF Open, Commit, Retry, Merge, history
    <2> QED BY <2>1, <2>2, CauseStays DEF RejectedForCause
  <1>4. ASSUME NEW m \in MRs, n # m,
               Start(m) \/ AuthorLevel(m) \/ ReadHead(m) \/ CheckSection(m) \/ Accept(m)
        PROVE  Cause(n)'
    <2>1. pc'[n] = pc[n]
      BY <1>4, FetchOthers DEF Start, AuthorLevel, ReadHead, Accept, Goto, TypeOK
    <2>2. base' = base /\ head' = head /\ served' = served /\ seen'[n] = seen[n]
      BY <1>4 DEF Start, AuthorLevel, ReadHead, CheckSection, Accept, trees, history, TypeOK
    <2>3. n \in faulted => n \in faulted'
      BY <1>4, FetchOthers DEF Start, AuthorLevel, ReadHead, Accept, Fault, history
    <2> QED BY <2>1, <2>2, <2>3, CauseStays DEF RejectedForCause
  <1>5. ASSUME Open(n) \/ Commit(n) \/ Retry(n) \/ ReadHead(n) \/ Accept(n) \/ Merge(n) PROVE FALSE
    BY <1>5 DEF Open, Commit, Retry, ReadHead, Accept, Merge, Goto, TypeOK
  <1> QED BY <1>1, <1>2, <1>3, <1>4, <1>5, StartFails, AuthorDenied, SectionDenied DEF Next

\* A request is refused only for a cause that was there during its run.
THEOREM RefusedForCause == Spec => []RejectedForCause
  <1>1. Init => RejectedForCause
    BY DEF Init, RejectedForCause
  <1> QED BY <1>1, CauseInv, InductiveInvariant, PTL DEF Spec
=============================================================================

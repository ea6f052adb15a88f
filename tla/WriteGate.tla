----------------------------- MODULE WriteGate -----------------------------
(***************************************************************************)
(* The write-authorization gate, `sealdctl verify --authz`, as a job of a  *)
(* merge request's pipeline (cmd/sealdctl/authz.go, internal/client/       *)
(* authz_*.go, remote_resolver.go).  It compares the sealed file at the    *)
(* merge base with the one at the head of the branch, asks GitLab for the  *)
(* author's level and the broker for every signer, and lets the request be *)
(* merged or not.  Meanwhile main moves, levels and keys change, and the   *)
(* registry that holds the policy is edited.                               *)
(*                                                                         *)
(* One sealed file is modelled; the gate treats files one by one, and a    *)
(* file that is not there is to it one without sections.  What an          *)
(* environment's section encrypts is one token.  git and GitLab are        *)
(* external.  A user signs with one key, so a fingerprint is a user here.  *)
(***************************************************************************)
EXTENDS Naturals, FiniteSets

CONSTANTS
  Envs,
  Users,
  MRs,
  Author,        \* Author[m]: who opened the merge request (GITLAB_USER_ID)
  Contents,      \* what a section's entries can be
  Empty,         \* the entries of a section without keys, or of no section
  Elsewhere,     \* what a signature lifted from another section was made over
  NoSection,
  NoSig,
  Levels,        \* GitLab access levels
  Undeclared,    \* the "level" of an environment that env_cluster does not name
  Collapsed,     \* a repo.yaml that leaves the policy to the broker's registry
  NoPolicy,      \* nothing cached, nothing resolved
  Unasked, Unregistered,   \* answers about a signer
  Edits,         \* the sections and policies authors commit, see below
  PolicyEdits,
  MaxChanges,    \* bounds: changes of levels, keys and registry; commits; faults
  MaxCommits,
  MaxFaults

Owner == 50      \* PolicyEditMinLevel

Forms     == {"flat", "v3", "v4"}    \* v2 and v3 files are treated alike
Signature == [by : Users, over : Contents \union {Elsewhere}, form : {"v3", "v4"}]
Section   == {NoSection} \union [entries : Contents, sig : {NoSig} \union Signature]
Policy    == [Envs -> Nat \union {Undeclared}]
Tree      == [form : Forms, sections : [Envs -> Section], policy : Policy \union {Collapsed}]

ASSUME WriteGateAssumption ==
  /\ Author \in [MRs -> Users]
  /\ Empty \in Contents /\ Elsewhere \notin Contents
  /\ NoSection \notin [entries : Contents, sig : {NoSig} \union Signature]
  /\ NoSig \notin Signature
  /\ Levels \subseteq Nat /\ 0 \in Levels
  /\ Undeclared \notin Nat
  /\ Collapsed \notin Policy /\ NoPolicy \notin Policy
  /\ Unasked \notin Nat /\ Unregistered \notin Nat /\ Unasked # Unregistered
  /\ Edits \subseteq Section /\ PolicyEdits \subseteq Policy \union {Collapsed}
  /\ MaxChanges \in Nat /\ MaxCommits \in Nat /\ MaxFaults \in Nat

VARIABLES
  main,        \* the tree of the default branch
  base, head,  \* per merge request: the merge base and the head of its branch
  pc,          \* per merge request: where its pipeline is
  policy,      \* the policy a run of the gate resolved (rc)
  todo,        \* the sections the run has still to attribute
  signer,      \* RemoteSignerResolver.cache of the run
  level,       \* GitLab: levels on the project
  registered,  \* whose keys the broker resolves
  registry,    \* the policy in the broker's projects.json
  snapshot,    \* the policy cached by the CI runner
  changes, commits, faults,
  seen,        \* history: the worlds of a run, from its start
  served,      \* history: the policies the registry ever had
  faulted,     \* history: runs during which a call failed
  unread       \* history: runs that could not read the head a second time

trees   == <<main, base, head>>
run     == <<policy, todo, signer>>
world   == <<level, registered, registry>>
bounds  == <<changes, commits, faults>>
history == <<seen, served, faulted, unread>>
vars    == <<trees, pc, run, world, snapshot, bounds, history>>

World == [level |-> level, registered |-> registered]

Running(m) == pc[m] \in {"author", "head", "sections"}

-----------------------------------------------------------------------------
(***************************************************************************)
(* What the gate computes                                                  *)
(***************************************************************************)

EntriesOf(s) == IF s = NoSection THEN Empty ELSE s.entries

\* DiffBundleEntries, EnvsTouched: only entries count.  Signatures, labels and
\* the version of the file are not compared.
Touched(m) ==
  {e \in Envs : EntriesOf(base[m].sections[e]) # EntriesOf(head[m].sections[e])}

FileTouched(m) ==
  base[m].form # head[m].form \/ base[m].sections # head[m].sections
PolicyTouched(m) == base[m].policy # head[m].policy

\* loadBundleAtRev refuses a file without sections per environment.
Loads(m) == FileTouched(m) => base[m].form # "flat" /\ head[m].form # "flat"

\* Mutant of Verifies: every section is verified in the form of v3.
BugVerifies(s, form) ==
  s.sig # NoSig /\ s.sig.over = s.entries /\ s.sig.form = "v3"

\* VerifySSHSig over CanonicalSectionBytes or CanonicalSectionBytesV4.
Verifies(s, form) ==
  /\ s.sig # NoSig
  /\ s.sig.over = s.entries
  /\ s.sig.form = (IF form = "v4" THEN "v4" ELSE "v3")

\* Mutant of Allows: one of the touched environments is enough.
BugAllows(m, lvl) ==
  /\ \A e \in Touched(m) : policy[m][e] # Undeclared
  /\ Touched(m) # {} => \E e \in Touched(m) : lvl >= policy[m][e]
  /\ PolicyTouched(m) => lvl >= Owner

\* AuthzVerdict on the author's level.
Allows(m, lvl) ==
  /\ \A e \in Touched(m) : policy[m][e] # Undeclared /\ lvl >= policy[m][e]
  /\ PolicyTouched(m) => lvl >= Owner

-----------------------------------------------------------------------------

Init ==
  /\ main \in [form : Forms, sections : [Envs -> Edits], policy : PolicyEdits]
  /\ main.form = "flat" => main.sections = [e \in Envs |-> NoSection]
  /\ base = [m \in MRs |-> main] /\ head = base
  /\ pc = [m \in MRs |-> "unopened"]
  /\ registry \in PolicyEdits \ {Collapsed}
  /\ policy = [m \in MRs |-> NoPolicy]
  /\ todo = [m \in MRs |-> {}]
  /\ signer = [m \in MRs |-> [u \in Users |-> Unasked]]
  /\ level \in [Users -> Levels]
  /\ registered \in SUBSET Users
  /\ snapshot = NoPolicy
  /\ changes = 0 /\ commits = 0 /\ faults = 0
  /\ seen = [m \in MRs |-> {}] /\ served = {registry}
  /\ faulted = {} /\ unread = {}

Goto(m, next) == pc' = [pc EXCEPT ![m] = next]

\* The job has ended, and with it the process and its resolver.
NoRun(m) == /\ policy' = [policy EXCEPT ![m] = NoPolicy]
            /\ todo' = [todo EXCEPT ![m] = {}]
            /\ signer' = [signer EXCEPT ![m] = [u \in Users |-> Unasked]]
            /\ seen' = [seen EXCEPT ![m] = {}]
            /\ faulted' = faulted \ {m} /\ unread' = unread \ {m}

Fault(m) == /\ faults < MaxFaults /\ faults' = faults + 1
            /\ faulted' = faulted \union {m}

\* A branch is cut from main.
Open(m) ==
  /\ pc[m] = "unopened"
  /\ base' = [base EXCEPT ![m] = main] /\ head' = [head EXCEPT ![m] = main]
  /\ Goto(m, "open")
  /\ UNCHANGED <<main, run, world, snapshot, bounds, history>>

\* The author pushes a commit, which starts the pipeline anew.  Anything can be
\* in it: sections signed by anybody, or copied from an earlier tree.
Commit(m) ==
  /\ pc[m] \notin {"unopened", "merged"}
  /\ commits < MaxCommits /\ commits' = commits + 1
  /\ \/ \E e \in Envs, s \in Edits : head' = [head EXCEPT ![m].sections[e] = s]
     \/ \E f \in Forms : head' = [head EXCEPT ![m].form = f]
     \/ \E p \in PolicyEdits : head' = [head EXCEPT ![m].policy = p]
  /\ Goto(m, "open") /\ NoRun(m)
  /\ UNCHANGED <<main, base, world, snapshot, changes, faults, served>>

\* A finished job is started again, by hand.
Retry(m) ==
  /\ pc[m] \in {"accepted", "denied", "failed"}
  /\ Goto(m, "open") /\ NoRun(m)
  /\ UNCHANGED <<trees, world, snapshot, bounds, served>>

\* Mutant of AuthzScan: a request that touches no section is accepted.
BugScan(m) ==
  IF ~Loads(m) THEN "failed"
  ELSE IF Touched(m) = {} THEN "accepted" ELSE "author"

\* What follows from the two commits alone, once the policy is resolved.
AuthzScan(m) ==
  IF ~Loads(m) THEN "failed"
  ELSE IF Touched(m) = {} /\ ~PolicyTouched(m) THEN "accepted" ELSE "author"

\* resolveRC on the checked-out head: the policy is the head's own, or the
\* registry's snapshot, or, when the broker cannot be reached, the cached one.
Start(m) ==
  /\ pc[m] = "open"
  /\ seen' = [seen EXCEPT ![m] = {World}]
  /\ \/ /\ policy' = [policy EXCEPT ![m] = IF head[m].policy = Collapsed THEN registry ELSE head[m].policy]
        /\ snapshot' = IF head[m].policy = Collapsed THEN registry ELSE snapshot
        /\ Goto(m, AuthzScan(m))
        /\ UNCHANGED <<faults, faulted>>
     \/ /\ head[m].policy = Collapsed /\ Fault(m)
        /\ policy' = [policy EXCEPT ![m] = snapshot]
        /\ Goto(m, IF snapshot = NoPolicy THEN "failed" ELSE AuthzScan(m))
        /\ UNCHANGED snapshot
     \/ Fault(m) /\ Goto(m, "failed") /\ UNCHANGED <<policy, snapshot>>   \* git
  /\ UNCHANGED <<trees, todo, signer, world, changes, commits, served, unread>>

\* ProjectMemberLevel of the author, and the verdict on it.
AuthorLevel(m) ==
  /\ pc[m] = "author"
  /\ \/ /\ Goto(m, IF Allows(m, level[Author[m]]) THEN "head" ELSE "denied")
        /\ UNCHANGED <<faults, faulted>>
     \/ Fault(m) /\ Goto(m, "failed")
  /\ UNCHANGED <<trees, run, world, snapshot, changes, commits, seen, served, unread>>

\* The file is read again, for its signatures; if git fails now, it is skipped
\* as if it were gone.
ReadHead(m) ==
  /\ pc[m] = "head"
  /\ \/ /\ todo' = [todo EXCEPT ![m] = {e \in Touched(m) : head[m].sections[e] # NoSection}]
        /\ Goto(m, "sections")
        /\ UNCHANGED <<faults, faulted, unread>>
     \/ /\ Touched(m) # {} /\ Fault(m) /\ unread' = unread \union {m}
        /\ Goto(m, "sections")
        /\ UNCHANGED todo
  /\ UNCHANGED <<trees, policy, signer, world, snapshot, changes, commits, seen, served>>

\* HandleSignerResolve: registered and the live level, in one answer; 0 when
\* GitLab does not say.
SignerNow(u) == IF u \in registered THEN level[u] ELSE Unregistered

\* Mutant of Fetch: the answer of the cache is whatever was asked last.
BugFetch(m, u, a) ==
  \/ \E v \in Users : signer[m][v] # Unasked /\ a = signer[m][v] /\ UNCHANGED <<signer, faults, faulted>>
  \/ /\ signer[m][u] = Unasked
     /\ a = SignerNow(u) /\ UNCHANGED <<faults, faulted>>
     /\ signer' = [signer EXCEPT ![m][u] = a]

\* RemoteSignerResolver.fetch: asked once per run and signer; an error is not
\* remembered and reads as unregistered.
Fetch(m, u, a) ==
  \/ signer[m][u] # Unasked /\ a = signer[m][u] /\ UNCHANGED <<signer, faults, faulted>>
  \/ /\ signer[m][u] = Unasked
     /\ \/ a = SignerNow(u) /\ UNCHANGED <<faults, faulted>>
        \/ a = 0 /\ u \in registered /\ Fault(m)
     /\ signer' = [signer EXCEPT ![m][u] = a]
  \/ /\ signer[m][u] = Unasked
     /\ a = Unregistered /\ Fault(m)
     /\ UNCHANGED signer

\* verifySectionAuthz of the next section; the first violation decides the run
\* (the code goes on to report the others).
CheckSection(m) ==
  /\ pc[m] = "sections"
  /\ \E e \in todo[m] :
       LET s == head[m].sections[e] IN
       IF s.sig = NoSig
       THEN Goto(m, "denied") /\ UNCHANGED <<todo, signer, faults, faulted>>
       ELSE \E a \in Levels \union {Unregistered} :
              /\ Fetch(m, s.sig.by, a)
              /\ IF a # Unregistered /\ Verifies(s, head[m].form) /\ a >= policy[m][e]
                 THEN todo' = [todo EXCEPT ![m] = @ \ {e}] /\ UNCHANGED pc
                 ELSE Goto(m, "denied") /\ UNCHANGED todo
  /\ UNCHANGED <<trees, policy, world, snapshot, changes, commits, seen, served, unread>>

Accept(m) ==
  /\ pc[m] = "sections" /\ todo[m] = {}
  /\ Goto(m, "accepted")
  /\ UNCHANGED <<trees, run, world, snapshot, bounds, history>>

-----------------------------------------------------------------------------
(***************************************************************************)
(* Around the gate                                                         *)
(***************************************************************************)

\* git: a change of the branch is taken unless main changed in the same place.
Merged(b, h, n) == IF h = b THEN n ELSE h
Clean(b, h, n)  == h = b \/ n = b \/ n = h

Merge(m) ==
  /\ pc[m] = "accepted"
  /\ Clean(base[m].form, head[m].form, main.form)
  /\ Clean(base[m].policy, head[m].policy, main.policy)
  /\ \A e \in Envs : Clean(base[m].sections[e], head[m].sections[e], main.sections[e])
  /\ main' = [form |-> Merged(base[m].form, head[m].form, main.form),
              policy |-> Merged(base[m].policy, head[m].policy, main.policy),
              sections |-> [e \in Envs |->
                Merged(base[m].sections[e], head[m].sections[e], main.sections[e])]]
  /\ Goto(m, "merged") /\ NoRun(m)
  /\ UNCHANGED <<base, head, world, snapshot, bounds, served>>

\* Levels, keys and the registry change; every run in progress lives through it.
WorldChanges ==
  /\ changes < MaxChanges /\ changes' = changes + 1
  /\ \/ /\ \E u \in Users, l \in Levels : level' = [level EXCEPT ![u] = l]
        /\ UNCHANGED <<registered, registry>>
     \/ /\ \E u \in Users :
             registered' = IF u \in registered THEN registered \ {u} ELSE registered \union {u}
        /\ UNCHANGED <<level, registry>>
     \/ registry' \in PolicyEdits \ {Collapsed} /\ UNCHANGED <<level, registered>>
  /\ seen' = [m \in MRs |-> IF Running(m) THEN seen[m] \union {World'} ELSE seen[m]]
  /\ served' = served \union {registry'}
  /\ UNCHANGED <<trees, pc, run, snapshot, commits, faults, faulted, unread>>

Next ==
  \/ WorldChanges
  \/ \E m \in MRs :
       \/ Open(m) \/ Commit(m) \/ Retry(m) \/ Start(m) \/ AuthorLevel(m)
       \/ ReadHead(m) \/ CheckSection(m) \/ Accept(m) \/ Merge(m)

Spec == Init /\ [][Next]_vars

-----------------------------------------------------------------------------
(***************************************************************************)
(* Properties                                                              *)
(***************************************************************************)

\* Every variable keeps its shape.
TypeOK ==
  /\ main \in Tree /\ base \in [MRs -> Tree] /\ head \in [MRs -> Tree]
  /\ pc \in [MRs -> {"unopened", "open", "author", "head", "sections", "accepted",
                     "denied", "failed", "merged"}]
  /\ policy \in [MRs -> Policy \union {NoPolicy}]
  /\ todo \in [MRs -> SUBSET Envs]
  /\ signer \in [MRs -> [Users -> Levels \union {Unasked, Unregistered}]]
  /\ level \in [Users -> Levels] /\ registered \subseteq Users
  /\ registry \in Policy /\ snapshot \in Policy \union {NoPolicy}
  /\ changes \in Nat /\ commits \in Nat /\ faults \in Nat
  /\ seen \in [MRs -> SUBSET [level : [Users -> Levels], registered : SUBSET Users]]
  /\ served \subseteq Policy /\ faulted \subseteq MRs /\ unread \subseteq MRs

\* The policies a run for a head could be held to: the head's own, or one
\* the registry had at some time (the runner's cache has no age limit).
PoliciesOf(p) == IF p = Collapsed THEN served ELSE {p}

\* In some world of the run, u had the level that one of the policies asks for e.
Entitled(m, u, e, policies) ==
  \E w \in seen[m], p \in policies : p[e] # Undeclared /\ w.level[u] >= p[e]

WasOwner(m) == \E w \in seen[m] : w.level[Author[m]] >= Owner

\* The request that a step merges.
Lands(m) == pc[m] = "accepted" /\ pc'[m] = "merged"

\* The entries of an environment change on main only by a request whose author
\* had, during its run, the level the policy before the request asks for, or
\* was an Owner; whatever was merged, revoked or edited since the branch was cut.
AuthorEntitled ==
  [][\A e \in Envs :
       EntriesOf(main'.sections[e]) # EntriesOf(main.sections[e])
         => \E m \in MRs :
              /\ Lands(m)
              /\ Entitled(m, Author[m], e, PoliciesOf(base[m].policy)) \/ WasOwner(m)]_vars

\* ... and the section that lands, if one is left, is signed over exactly its
\* entries by somebody registered, and entitled, during the run.  A signature of
\* one section, or a level looked up for another signer, never vouches for it.
\* (Runs that could not read the file again are FailsClosed's.)
Attributed ==
  [][\A e \in Envs :
       LET s == main'.sections[e] IN
       EntriesOf(s) # EntriesOf(main.sections[e]) /\ s # NoSection
         => \E m \in MRs :
              /\ Lands(m)
              /\ m \in unread \/
                   /\ s.sig # NoSig /\ s.sig.over = s.entries
                   /\ Entitled(m, s.sig.by, e, PoliciesOf(head[m].policy))
                   /\ \E w \in seen[m] : s.sig.by \in w.registered]_vars

\* "FAIL CLOSED on any lookup, parse, or plumbing error" (authz.go): no request
\* whose sections are unsigned is accepted, whatever fails.
FailsClosed ==
  \A m \in MRs, e \in Envs :
    pc[m] = "accepted" /\ e \in Touched(m) /\ head[m].sections[e] # NoSection =>
      head[m].sections[e].sig # NoSig

\* "editing it is the highest-trust act in the repo" (authz_verdict.go): the
\* policy on main changes only by a request whose author was Owner in its run.
PolicyByOwner ==
  [][main'.policy # main.policy => \E m \in MRs : Lands(m) /\ WasOwner(m)]_vars

\* The gate refuses only for a cause: a call failed, the file has no sections
\* per environment, the author or a signer lacked a level or a registration at
\* some moment of the run, or a section is not signed as it stands.
Short(m, u, e) ==
  \E w \in seen[m], p \in PoliciesOf(head[m].policy) : p[e] = Undeclared \/ w.level[u] < p[e]

Cause(m) ==
  \/ m \in faulted
  \/ ~Loads(m)
  \/ PolicyTouched(m) /\ \E w \in seen[m] : w.level[Author[m]] < Owner
  \/ \E e \in Touched(m) :
       \/ Short(m, Author[m], e)
       \/ LET s == head[m].sections[e] IN
          /\ s # NoSection
          /\ \/ s.sig = NoSig
             \/ s.sig.over # s.entries
             \/ (s.sig.form = "v4") # (head[m].form = "v4")
             \/ Short(m, s.sig.by, e)
             \/ \E w \in seen[m] : s.sig.by \notin w.registered

RejectedForCause == \A m \in MRs : pc[m] \in {"denied", "failed"} => Cause(m)

-----------------------------------------------------------------------------
(***************************************************************************)
(* The inductive invariant: what a run has checked so far, on the head it  *)
(* was started for, was so in one of the worlds it lived through.          *)
(***************************************************************************)

PastAuthor(m) == pc[m] \in {"head", "sections", "accepted"}

Resolved(m) ==
  /\ Running(m) \/ pc[m] = "accepted" => policy[m] \in PoliciesOf(head[m].policy)
  /\ Running(m) => World \in seen[m]

AuthorChecked(m) == PastAuthor(m) =>
  /\ \A e \in Touched(m) : policy[m][e] # Undeclared
  /\ Touched(m) # {} \/ PolicyTouched(m) =>
       \E w \in seen[m] : /\ \A e \in Touched(m) : w.level[Author[m]] >= policy[m][e]
                          /\ PolicyTouched(m) => w.level[Author[m]] >= Owner

\* What the cache of a run says was so at a moment of that run.
Answers(m) == Running(m) => \A u \in Users :
  /\ signer[m][u] \in Nat =>
       /\ \E w \in seen[m] : u \in w.registered
       /\ \/ (signer[m][u] = 0 /\ m \in faulted)
          \/ \E w \in seen[m] : w.level[u] = signer[m][u]
  /\ signer[m][u] = Unregistered => \E w \in seen[m] : u \notin w.registered

Vouched(m, e) ==
  LET s == head[m].sections[e] IN
  s # NoSection =>
    /\ Verifies(s, head[m].form)
    /\ \E w \in seen[m] : s.sig.by \in w.registered
    /\ \E w \in seen[m] : w.level[s.sig.by] >= policy[m][e]

SectionsChecked(m) ==
  /\ pc[m] = "sections" => todo[m] \subseteq {e \in Touched(m) : head[m].sections[e] # NoSection}
  /\ pc[m] \in {"sections", "accepted"} /\ m \notin unread =>
       \A e \in Touched(m) : (pc[m] = "sections" /\ e \in todo[m]) \/ Vouched(m, e)

Fresh(m) ==
  /\ pc[m] \in {"unopened", "open"} => signer[m] = [u \in Users |-> Unasked]
  /\ pc[m] \in {"unopened", "open", "author", "head"} => todo[m] = {}

RunOK(m) == Fresh(m) /\ Resolved(m) /\ AuthorChecked(m) /\ Answers(m) /\ SectionsChecked(m)

Served == registry \in served /\ (snapshot = NoPolicy \/ snapshot \in served)

IInv == TypeOK /\ Served /\ \A m \in MRs : RunOK(m)
=============================================================================

------------------------------ MODULE Onboard -------------------------------
(***************************************************************************)
(* `sealdctl admin onboard` and `admin env` (cmdAdminOnboard, cmdAdminEnv, *)
(* internal/client/onboard.go, mint_env_keys.go, registry_edit.go).        *)
(*                                                                         *)
(* One operator runs one command at a time against a directory of key      *)
(* files, the repo.yaml of each project, the keystore Secret of the broker *)
(* and projects.json.  A run writes the four one after another and can die *)
(* between any two; the next run starts from what is there.  A key is      *)
(* named after the run that minted it.                                     *)
(***************************************************************************)
EXTENDS Naturals

CONSTANTS
  Projects, Envs,
  Fleet,         \* the project that is already registered
  Levels,        \* min_level; 0 is a row without one
  Default,       \* DefaultMinAccessLevel
  None,          \* no key, no row, no environment, no project
  Commands,      \* the combinations of flags that are used
  MaxRuns, MaxEdits   \* bounds of the model

Keys == 0 .. MaxRuns        \* 0 was minted before
Env  == [recipient : Keys, level : Levels, namespace : BOOLEAN]
Flags == [keystore : BOOLEAN, rotate : BOOLEAN, deliver : {"apply", "emit", "none"}, merge : BOOLEAN]
Row  == [pid : Projects \union {None}, envs : [Envs -> Env \union {None}]]
Run  == [project : Projects, key : Keys, gen : Keys, envs : [Envs -> Env \union {None}],
         deliver : {"apply", "emit", "none"}, merge : BOOLEAN]

ASSUME OnboardAssumption ==
  /\ Fleet \in Projects /\ None \notin Projects \union Keys \union Env \union Row \union Run
  /\ Levels \subseteq Nat /\ Default \in Levels \ {0}
  /\ Commands \subseteq Flags
  /\ MaxRuns \in Nat /\ MaxEdits \in Nat

VARIABLES
  staged,   \* the key file of a project in the --keystore directory
  repo,     \* the recipient in its repo.yaml
  secret,   \* its key in the keystore Secret
  emitted,  \* keys written out with --emit-keyfile
  rows,     \* projects.json: the row of a recipient
  pc, run,  \* where the running onboard is, and what it works on
  runs, edits,
  loose,    \* history: projects onboarded without the kept directory, or before
  rotated,  \* history: projects onboarded with --rotate
  mints,    \* history: keys minted for a project since one was last delivered
  settled,  \* history: the run that brought a project to its end, until it is touched
  typed     \* history: rows an administrator edited

files == <<staged, repo, secret, emitted, rows>>
hist  == <<loose, rotated, mints, settled, typed>>
vars  == <<files, pc, run, runs, edits, hist>>

HasEnvs(row) == row # None /\ \E e \in Envs : row.envs[e] # None

-----------------------------------------------------------------------------

Init ==
  /\ staged = [p \in Projects |-> None]
  /\ repo = [p \in Projects |-> IF p = Fleet THEN 0 ELSE None]
  /\ secret = repo
  /\ emitted = {}
  /\ \E row \in [pid : {Fleet}, envs : [Envs -> [recipient : {0}, level : Levels, namespace : BOOLEAN]]] :
       rows = [k \in Keys |-> IF k = 0 THEN row ELSE None]
  /\ pc = "idle" /\ run = None /\ runs = 0 /\ edits = 0
  /\ loose = {Fleet} /\ rotated = {} /\ typed = {}
  /\ mints = [p \in Projects |-> 0] /\ settled = [p \in Projects |-> None]

\* Mutant of MintEnvMaterializerKeys: the recipients of the topology are kept.
BugMint(envs, g) == envs

\* MintEnvMaterializerKeys: the topology with a fresh key for every environment.
MintEnvMaterializerKeys(envs, g) ==
  [e \in Envs |-> IF envs[e] = None THEN None ELSE [envs[e] EXCEPT !.recipient = g]]

\* Mutant of RegistryEntryFor: the level is copied as it is.
BugRegistryEntryFor(p, envs) == [pid |-> p, envs |-> envs]

\* RegistryEntryFor: the whole row, with a level where the topology has none.
RegistryEntryFor(p, envs) ==
  [pid |-> p,
   envs |-> [e \in Envs |-> IF envs[e] = None THEN None
                            ELSE [envs[e] EXCEPT !.level = IF @ = 0 THEN Default ELSE @]]]

\* Mutant of KeyOf: a key is minted although there is one.
BugKeyOf(p, flags, g) == g

\* The key of PlanOnboard: the one in the directory, or a fresh one.
KeyOf(p, flags, g) ==
  IF flags.keystore /\ staged[p] # None /\ ~flags.rotate THEN staged[p] ELSE g

\* onboardClusterInputs and PlanOnboard.  The topology is that of any row that
\* has environments; one without a namespace ends the run before it wrote
\* anything.  Without --keystore the directory is a fresh one.
Plan(p, flags) ==
  /\ pc = "idle" /\ runs < MaxRuns /\ runs' = runs + 1
  /\ \E k \in Keys :
       LET envs == MintEnvMaterializerKeys(rows[k].envs, runs + 1)
           key  == KeyOf(p, flags, runs + 1)
       IN  /\ HasEnvs(rows[k])
           /\ \A e \in Envs : envs[e] # None => envs[e].namespace
           /\ run' = [project |-> p, key |-> key, gen |-> runs + 1, envs |-> envs,
                      deliver |-> flags.deliver, merge |-> flags.merge]
           /\ staged' = IF flags.keystore THEN [staged EXCEPT ![p] = key] ELSE staged
           /\ mints' = [mints EXCEPT ![p] = IF key = runs + 1 THEN @ + 1 ELSE @]
  /\ pc' = "planned"
  /\ loose' = IF flags.keystore THEN loose ELSE loose \union {p}
  /\ rotated' = IF flags.rotate THEN rotated \union {p} ELSE rotated
  /\ settled' = [settled EXCEPT ![p] = None]
  /\ UNCHANGED <<repo, secret, emitted, rows, edits, typed>>

\* repo.yaml, after the key was read back and checked against the recipient.
WriteRepo ==
  /\ pc = "planned" /\ pc' = "written"
  /\ repo' = [repo EXCEPT ![run.project] = run.key]
  /\ UNCHANGED <<staged, secret, emitted, rows, run, runs, edits, hist>>

\* Mutant of Deliver: the Secret is not read back.
BugDeliver ==
  /\ pc = "written"
  /\ \/ run.deliver = "apply" /\ secret' \in {secret, [secret EXCEPT ![run.project] = run.key]}
        /\ mints' = [mints EXCEPT ![run.project] = 0]
        /\ UNCHANGED emitted
     \/ run.deliver # "apply" /\ UNCHANGED <<secret, emitted, mints>>
  /\ pc' = "delivered"
  /\ UNCHANGED <<staged, repo, rows, run, runs, edits, loose, rotated, settled, typed>>

\* --apply patches the Secret and reads it back; --emit-keyfile writes the key
\* file out; without either the key is not delivered, and the run goes on.
Deliver ==
  /\ pc = "written" /\ pc' = "delivered"
  /\ CASE run.deliver = "apply" ->
            /\ secret' = [secret EXCEPT ![run.project] = run.key]
            /\ mints' = [mints EXCEPT ![run.project] = 0]
            /\ UNCHANGED emitted
       [] run.deliver = "emit" -> emitted' = emitted \union {run.key} /\ UNCHANGED <<secret, mints>>
       [] run.deliver = "none" -> UNCHANGED <<secret, emitted, mints>>
  /\ UNCHANGED <<staged, repo, rows, run, runs, edits, loose, rotated, settled, typed>>

\* mergeRegistryEntry replaces the row of the key; without --registry-file the
\* row is printed.
Merge ==
  /\ pc = "delivered" /\ pc' = "merged"
  /\ rows' = IF run.merge
             THEN [rows EXCEPT ![run.key] = RegistryEntryFor(run.project, run.envs)] ELSE rows
  /\ UNCHANGED <<staged, repo, secret, emitted, run, runs, edits, hist>>

\* The identities of the environments are printed last.
PrintIdentities ==
  /\ pc = "merged" /\ pc' = "idle" /\ run' = None
  /\ settled' = [settled EXCEPT ![run.project] =
                   IF run.deliver = "apply" /\ run.merge THEN run.gen ELSE None]
  /\ UNCHANGED <<files, runs, edits, loose, rotated, mints, typed>>

\* The run is killed, or kubectl fails: the patch may have been carried out, and
\* a file being written is left empty.
Die ==
  /\ pc # "idle" /\ pc' = "idle" /\ run' = None
  /\ \/ UNCHANGED <<repo, secret, rows, settled>>
     \/ pc = "planned" /\ repo' = [repo EXCEPT ![run.project] = None] /\ UNCHANGED <<secret, rows, settled>>
     \/ /\ pc = "written" /\ run.deliver = "apply"
        /\ secret' = [secret EXCEPT ![run.project] = run.key]
        /\ UNCHANGED <<repo, rows, settled>>
     \/ /\ pc = "delivered" /\ run.merge
        /\ rows' = [k \in Keys |-> None]
        /\ settled' = [p \in Projects |-> None]
        /\ UNCHANGED <<repo, secret>>
  /\ UNCHANGED <<staged, emitted, runs, edits, loose, rotated, mints, typed>>

\* ProjectRegistry.entry: a new row, or the one there is unless its project differs.
entry(k, pid) ==
  IF rows[k] = None THEN {[pid |-> pid, envs |-> [e \in Envs |-> None]]}
  ELSE IF pid # None /\ rows[k].pid # None /\ pid # rows[k].pid THEN {} ELSE {rows[k]}

\* The administrator's edit of the row of k.
Edited(k) ==
  /\ pc = "idle" /\ edits < MaxEdits /\ edits' = edits + 1
  /\ typed' = typed \union {k}
  /\ settled' = [p \in Projects |-> IF repo[p] = k THEN None ELSE settled[p]]
  /\ UNCHANGED <<staged, repo, secret, emitted, pc, run, runs, loose, rotated, mints>>

\* admin env set --apply: SetEnvV2 with everything given.
SetEnvV2(k, pid, e) ==
  /\ Edited(k)
  /\ \E row \in entry(k, pid), g \in 0 .. runs, l \in Levels \ {0} :
       rows' = [rows EXCEPT ![k] =
                  [row EXCEPT !.envs[e] = [recipient |-> g, level |-> l, namespace |-> TRUE]]]

\* admin env rm --apply.
RemoveEnv(k, e) ==
  /\ Edited(k)
  /\ rows[k] # None /\ rows[k].envs[e] # None
  /\ rows' = [rows EXCEPT ![k].envs[e] = None]

Next ==
  \/ \E p \in Projects, flags \in Commands : Plan(p, flags)
  \/ WriteRepo \/ Deliver \/ Merge \/ PrintIdentities \/ Die
  \/ \E k \in 0 .. runs, e \in Envs :
       (\E pid \in Projects \union {None} : SetEnvV2(k, pid, e)) \/ RemoveEnv(k, e)

Spec == Init /\ [][Next]_vars

-----------------------------------------------------------------------------
(***************************************************************************)
(* Properties                                                              *)
(***************************************************************************)

\* Every variable keeps its shape, and a row written here has a level everywhere.
TypeOK ==
  /\ staged \in [Projects -> Keys \union {None}] /\ repo \in [Projects -> Keys \union {None}]
  /\ secret \in [Projects -> Keys \union {None}] /\ emitted \subseteq Keys
  /\ rows \in [Keys -> Row \union {None}]
  /\ \A k \in Keys \ {0}, e \in Envs : rows[k] # None /\ rows[k].envs[e] # None => rows[k].envs[e].level # 0
  /\ pc \in {"idle", "planned", "written", "delivered", "merged"}
  /\ run \in Run \union {None} /\ (run = None <=> pc = "idle")
  /\ runs \in Keys /\ edits \in 0 .. MaxEdits
  /\ loose \subseteq Projects /\ rotated \subseteq Projects /\ typed \subseteq Keys
  /\ mints \in [Projects -> 0 .. MaxRuns] /\ settled \in [Projects -> Keys \union {None}]

\* A run that was told it succeeded leaves the places that must agree in agreement,
\* whatever runs that died before it left in them: the broker holds the key that
\* repo.yaml names, its row is the project's, and the recipients of the row are those
\* whose identities this run, and no other, has shown.
Agreement ==
  \A p \in Projects : settled[p] # None =>
    /\ repo[p] # None /\ secret[p] = repo[p]
    /\ rows[repo[p]] # None /\ rows[repo[p]].pid = p
    /\ \A e \in Envs : rows[repo[p]].envs[e] # None =>
         rows[repo[p]].envs[e].recipient = settled[p]

\* The double-mint footgun: with one directory of key files and no rotation, runs
\* that die anywhere never mint a project a second key, so no repo.yaml, Secret or
\* row of it names another one.
OneKey ==
  \A p \in Projects \ (loose \union rotated) :
    /\ {repo[p], secret[p]} \subseteq {None, staged[p]}
    /\ \A k \in Keys \ typed : rows[k] # None /\ rows[k].pid = p => k = staged[p]

\* With one directory of key files, the key repo.yaml names can be found, in the
\* directory, the Secret or a key file written out, also in the middle of a rotation.
\* Two rotations in a row that do not deliver their key can lose it.
RepoKeyKept ==
  \A p \in Projects \ loose : mints[p] <= 1 /\ repo[p] # None =>
    repo[p] \in {staged[p], secret[p]} \union emitted

\* A materializer's key serves one project: rows of different projects that no
\* administrator typed never share a recipient, though each was copied from another.
EnvKeysPrivate ==
  \A j, k \in Keys \ typed, e, f \in Envs :
    /\ rows[j] # None /\ rows[k] # None /\ rows[j].pid # rows[k].pid
    /\ rows[j].envs[e] # None /\ rows[k].envs[f] # None
    => rows[j].envs[e].recipient # rows[k].envs[f].recipient
-----------------------------------------------------------------------------
(***************************************************************************)
(* The inductive invariant                                                 *)
(***************************************************************************)

\* No place holds a key of a run that is still to come.
Minted ==
  /\ \A p \in Projects : {staged[p], repo[p], secret[p], settled[p]} \subseteq (0 .. runs) \union {None}
  /\ \A p \in Projects : mints[p] <= runs
  /\ \A k \in Keys : rows[k] # None =>
       /\ k <= runs
       /\ \A e \in Envs : rows[k].envs[e] # None => rows[k].envs[e].recipient <= runs

\* What a run has done by where it is, and that nobody undid it.
Progress ==
  pc # "idle" =>
    /\ run.key <= runs /\ run.gen = runs /\ settled[run.project] = None
    /\ \A e \in Envs : run.envs[e] # None => run.envs[e].recipient = run.gen
    /\ run.project \notin loose => staged[run.project] = run.key
    /\ pc # "planned" => repo[run.project] = run.key
    /\ pc \in {"delivered", "merged"} /\ run.deliver = "apply" => secret[run.project] = run.key
    /\ pc = "merged" /\ run.merge => rows[run.key] = RegistryEntryFor(run.project, run.envs)

\* The places a project's keys are in, and the key its run works on.
Held(p) ==
  {staged[p], repo[p], secret[p]} \union
    (IF pc # "idle" /\ run.project = p THEN {run.key} ELSE {})

\* A key is one project's.
Owned == \A p, q \in Projects : p # q => Held(p) \intersect Held(q) \subseteq {None}

\* With one directory of key files, between deliveries at most the last minted key
\* is not in the Secret.
Behind ==
  \A p \in Projects \ loose :
    /\ mints[p] = 0 => secret[p] = staged[p] /\ repo[p] \in {None, staged[p]}
    /\ mints[p] = 1 => repo[p] \in {None, staged[p], secret[p]}

\* The recipients a run mints are in no row of another project.
Fresh ==
  pc # "idle" =>
    \A k \in Keys \ typed, e \in Envs :
      rows[k] # None /\ rows[k].pid # run.project /\ rows[k].envs[e] # None =>
        rows[k].envs[e].recipient # run.gen

IInv == TypeOK /\ Minted /\ Progress /\ Owned /\ Behind /\ Fresh
          /\ Agreement /\ OneKey /\ EnvKeysPrivate
=============================================================================

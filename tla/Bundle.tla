------------------------------- MODULE Bundle -------------------------------
(***************************************************************************)
(* The life of one service's sealed bundle, .sealed/<svc>.app.json         *)
(* (internal/client/sealedbundle.go, sealedbundle_v4.go, rotate.go,        *)
(* sign_bundle.go, migrate_v3.go, migrate_v4.go, migrate_envrecip.go and   *)
(* the commands of cmd/sealdctl/main.go): seal, reseal --rotate, and the   *)
(* three migrations, each of which may stop between two writes of the      *)
(* file, while the owner changes recipients and collapses repo.yaml.       *)
(*                                                                         *)
(* A ciphertext is a record: what it holds, whom it opens for, and the run *)
(* that sealed it, which stands for its nonce.  A cluster is named by its  *)
(* key.  The human key, a recipient of everything, is left out of `to'.    *)
(***************************************************************************)
EXTENDS Naturals

CONSTANTS
  Envs, Keys, Values, Levels,
  Recipients,  \* the age keys of clusters and environments
  Inputs,      \* the base file and level an author may seal from
  Overrides,   \* and the override an environment may have
  Absent,      \* no section, entry, signature, label or key
  MaxRuns,     \* bound on the commands run
  MaxMoves     \* bound on the changes of recipients

Optional(S) == S \union {Absent}

ASSUME BundleAssumption ==
  /\ Absent \notin Values \union Recipients \union Keys
  /\ Inputs \subseteq [base : [Keys -> Optional(Values)], level : Levels]
  /\ Overrides \subseteq [Keys -> Optional(Values)]
  /\ MaxRuns \in Nat /\ MaxMoves \in Nat

VARIABLES
  repo,       \* "legacy": repo.yaml has project_id and clusters; "registry": recipient only
  recipient,  \* the key each environment is sealed to, in repo.yaml or in the registry
  cache,      \* the client's cached registry snapshot
  version,    \* of the file; "none": no file
  section,    \* SealedBundle.Envs
  run,        \* the command that runs, or ran last
  runs, moves,
  had,        \* history: the keys each environment has had
  settled     \* history: migrate-env sealed to the keys still current

vars == <<repo, recipient, cache, version, section, run, runs, moves, had, settled>>

Ids      == {"project_id", "pubkey"}
Cts      == [val : Values, level : Levels, id : Ids, to : Recipients, run : 0..MaxRuns]
Entries  == [Keys -> Optional(Cts)]
Sigs     == [domain : Ids, entries : Entries]
Sections == [entries : Entries, sig : Optional(Sigs), cluster : Optional(Recipients)]
Steps    == {"idle", "strip", "seal", "sign", "migrate-v3", "migrate-v4", "migrate-env", "done"}
Runs     == [at : Steps, repo : {"legacy", "registry"}, rc : [Envs -> Recipients],
             scope : SUBSET Envs, key : Optional(Keys)]

ASSUME NoRecordAssumption == Absent \notin Cts \union Sections

NoSections == [e \in Envs |-> Absent]
NoEntries  == [k \in Keys |-> Absent]
EntriesOf(sec) == IF sec = Absent THEN NoEntries ELSE sec.entries

\* The discriminator in the ciphertexts, and the domain of the signatures, of
\* a bundle of version v.
IdOf(v) == IF v = "v4" THEN "pubkey" ELSE "project_id"

-----------------------------------------------------------------------------

\* No file yet, or a v2 file from before the normalized versions.
Init ==
  /\ repo = "legacy"
  /\ recipient \in [Envs -> Recipients]
  /\ cache = recipient
  /\ \/ version = "none" /\ section = NoSections
     \/ /\ version = "v2"
        /\ \E input \in Inputs :
             section = [e \in Envs |->
               [entries |-> [k \in Keys |->
                  IF input.base[k] = Absent THEN Absent
                  ELSE [val |-> input.base[k], level |-> input.level, id |-> "project_id",
                        to |-> recipient[e], run |-> 0]],
                sig |-> Absent, cluster |-> recipient[e]]]
  /\ run = [at |-> "idle", repo |-> repo, rc |-> recipient, scope |-> {}, key |-> Absent]
  /\ runs = 0 /\ moves = 0
  /\ had = [e \in Envs |-> {recipient[e]}]
  /\ settled = FALSE

\* The owner gives an environment another key.
SetRecipient(e, r) ==
  /\ recipient[e] # r
  /\ moves < MaxMoves /\ moves' = moves + 1
  /\ recipient' = [recipient EXCEPT ![e] = r]
  /\ had' = [had EXCEPT ![e] = @ \union {r}]
  /\ settled' = FALSE
  /\ UNCHANGED <<repo, cache, version, section, run, runs>>

\* repo.yaml is reduced to `recipient:'; the rest now comes from the registry.
Collapse ==
  /\ repo = "legacy" /\ repo' = "registry"
  /\ UNCHANGED <<recipient, cache, version, section, run, runs, moves, had, settled>>

-----------------------------------------------------------------------------

\* A command starts: it reads its configuration, from repo.yaml or from the
\* registry, or its cached copy, and does not read it again.
Start(at, rc, scope, key) ==
  /\ run.at \in {"idle", "done"}
  /\ runs < MaxRuns /\ runs' = runs + 1
  /\ run' = [at |-> at, repo |-> repo, rc |-> rc, scope |-> scope, key |-> key]
  /\ cache' = IF repo = "registry" /\ at # "strip" THEN rc ELSE cache
  /\ UNCHANGED <<repo, recipient, version, section, moves, had, settled>>

Config == IF repo = "registry" THEN {recipient, cache} ELSE {recipient}

\* A seal of the environments in scope; so is, in a legacy repository, reseal
\* without --rotate.
CmdSeal(rc) == \E scope \in SUBSET Envs \ {{}} : Start("seal", rc, scope, Absent)

\* reseal --rotate reads repo.yaml alone, the other commands the registry too.
CmdReseal ==
  \E scope \in SUBSET Envs \ {{}}, key \in Keys : Start("strip", recipient, scope, key)

\* They want repo.yaml's project_id, its clusters, the registry's recipients.
CmdMigrateV3(rc)  == repo = "legacy" /\ Start("migrate-v3", rc, Envs, Absent)
CmdMigrateV4(rc)  == repo = "legacy" /\ Start("migrate-v4", rc, Envs, Absent)
CmdMigrateEnv(rc) == repo = "registry" /\ Start("migrate-env", rc, Envs, Absent)

Command ==
  \/ CmdReseal
  \/ \E rc \in Config :
       CmdSeal(rc) \/ CmdMigrateV3(rc) \/ CmdMigrateV4(rc) \/ CmdMigrateEnv(rc)

\* The command fails, dies, or has no signer: what it wrote stays.
Stop ==
  /\ run.at \notin {"idle", "done"}
  /\ run' = [run EXCEPT !.at = "idle"]
  /\ UNCHANGED <<repo, recipient, cache, version, section, runs, moves, had, settled>>

\* The file is written, and the command goes on.
Write(v, secs, at) ==
  /\ version' = v /\ section' = secs
  /\ run' = [run EXCEPT !.at = at]
  /\ UNCHANGED <<repo, recipient, cache, runs, moves, had>>

\* StripKeyFromBundle: the key goes from every section; the signatures stay.
Stripped(sec) ==
  IF sec = Absent THEN Absent ELSE [sec EXCEPT !.entries = [@ EXCEPT ![run.key] = Absent]]

\* Mutant of StripKeyFromBundle: only the sections in scope lose the key.
BugStripKeyFromBundle ==
  /\ run.at = "strip"
  /\ version # "none"
  /\ Write(version, [e \in Envs |-> IF e \in run.scope THEN Stripped(section[e]) ELSE section[e]],
           "seal")
  /\ UNCHANGED settled

StripKeyFromBundle ==
  /\ run.at = "strip"
  /\ version # "none"
  /\ Write(version, [e \in Envs |-> Stripped(section[e])], "seal")
  /\ UNCHANGED settled

\* ResolveEnvs: an override of an environment wins over the base, key by key.
Resolved(base, override) ==
  [k \in Keys |-> IF override[k] # Absent THEN override[k] ELSE base[k]]

\* Mutant of Prior: a file of any version is carried over.
BugPrior == section

\* SealBundleV2, SealBundleV4: what the file holds is carried over only when
\* it is of the generation to be written; anything else counts as no file.
Prior ==
  IF version \in (IF run.repo = "legacy" THEN {"v2", "v3"} ELSE {"v4"})
  THEN section ELSE NoSections

\* Mutant of Carried: a section without a label is taken to have moved.
BugCarried(e, k) ==
  /\ EntriesOf(Prior[e])[k] # Absent
  /\ run.repo = "legacy" => Prior[e].cluster = run.rc[e]

\* A present key is carried verbatim, unless a v2 label names another cluster.
Carried(e, k) ==
  /\ EntriesOf(Prior[e])[k] # Absent
  /\ run.repo = "legacy" => Prior[e].cluster \in {Absent, run.rc[e]}

Fresh(e, val, level, id) ==
  [val |-> val, level |-> level, id |-> id, to |-> run.rc[e], run |-> runs]

SealSection(e, values, level, id) ==
  [entries |-> [k \in Keys |->
     IF values[k] = Absent THEN Absent
     ELSE IF Carried(e, k) THEN EntriesOf(Prior[e])[k]
     ELSE Fresh(e, values[k], level, id)],
   sig |-> Absent, cluster |-> Absent]

\* A registry repo cannot get here by reseal: repo.yaml alone names no cluster.
SealBundle ==
  /\ run.at = "seal"
  /\ run.key # Absent => run.repo = "legacy"
  /\ LET v == IF run.repo = "legacy" THEN "v3" ELSE "v4"
     IN  \E input \in Inputs, overrides \in [run.scope -> Overrides] :
           /\ input.base # NoEntries
           /\ Write(v, [e \in Envs |->
                IF e \in run.scope
                THEN SealSection(e, Resolved(input.base, overrides[e]), input.level, IdOf(v))
                ELSE Prior[e]], "sign")
  /\ UNCHANGED settled

\* Mutant of Signed: a section that has a signature is not signed again.
BugSigned(sec, v) ==
  IF sec = Absent \/ sec.sig # Absent THEN sec
  ELSE [sec EXCEPT !.sig = [domain |-> IdOf(v), entries |-> sec.entries]]

\* SignBundleFile, SignBundleFileV4: every section, sealed by this run or not.
Signed(sec, v) ==
  IF sec = Absent THEN Absent
  ELSE [sec EXCEPT !.sig = [domain |-> IdOf(v), entries |-> sec.entries]]

SignBundleFile ==
  /\ run.at = "sign"
  /\ Write(version, [e \in Envs |-> Signed(section[e], version)], "done")
  /\ UNCHANGED settled

\* Mutant of MigrateBundleToV3: the labels stay.
BugMigrateBundleToV3 ==
  /\ run.at = "migrate-v3"
  /\ version \in {"v2", "v3"} /\ section # NoSections
  /\ Write("v3", [e \in Envs |-> Signed(section[e], "v3")], "done")
  /\ UNCHANGED settled

\* MigrateBundleToV3: labels go, ciphertexts stay, all is signed.
MigrateBundleToV3 ==
  /\ run.at = "migrate-v3"
  /\ version \in {"v2", "v3"} /\ section # NoSections
  /\ Write("v3", [e \in Envs |->
       IF section[e] = Absent THEN Absent
       ELSE Signed([section[e] EXCEPT !.cluster = Absent], "v3")], "done")
  /\ UNCHANGED settled

\* Mutants of Reencrypted: one environment's key for all sections; the default
\* level for every entry; what is of the new generation is left alone.
BugOneKey(e) ==
  [k \in Keys |-> LET c == EntriesOf(section[e])[k] IN
     IF c = Absent THEN Absent ELSE Fresh(CHOOSE d \in Envs : TRUE, c.val, c.level, "pubkey")]
BugLevel(e) ==
  [k \in Keys |-> LET c == EntriesOf(section[e])[k] IN
     IF c = Absent THEN Absent
     ELSE Fresh(e, c.val, CHOOSE l \in Levels : \A m \in Levels : l <= m, "pubkey")]
BugSkip(e) ==
  [k \in Keys |-> LET c == EntriesOf(section[e])[k] IN
     IF c = Absent \/ c.id = "pubkey" THEN c ELSE Fresh(e, c.val, c.level, "pubkey")]

\* What the owner's key opens is sealed anew, for the key of its environment.
Reencrypted(e) ==
  [k \in Keys |-> LET c == EntriesOf(section[e])[k] IN
     IF c = Absent THEN Absent ELSE Fresh(e, c.val, c.level, "pubkey")]

Resealed ==
  [e \in Envs |->
     IF section[e] = Absent THEN Absent
     ELSE Signed([entries |-> Reencrypted(e), sig |-> Absent, cluster |-> Absent], "v4")]

\* Each migration opens the entries by the discriminator it expects in them.
AllOf(id) ==
  \A e \in Envs, k \in Keys :
    EntriesOf(section[e])[k] # Absent => EntriesOf(section[e])[k].id = id

MigrateBundleToV4 ==
  /\ run.at = "migrate-v4"
  /\ version # "none" /\ section # NoSections
  /\ AllOf("project_id")
  /\ Write("v4", Resealed, "done")
  /\ UNCHANGED settled

ReSealToEnvRecipients ==
  /\ run.at = "migrate-env"
  /\ version = "v4"
  /\ AllOf("pubkey")
  /\ Write("v4", Resealed, "done")
  /\ settled' = (run.rc = recipient)

Next ==
  \/ \E e \in Envs, r \in Recipients : SetRecipient(e, r)
  \/ Collapse
  \/ Command \/ Stop
  \/ StripKeyFromBundle \/ SealBundle \/ SignBundleFile
  \/ MigrateBundleToV3 \/ MigrateBundleToV4 \/ ReSealToEnvRecipients

Spec == Init /\ [][Next]_vars
-----------------------------------------------------------------------------
(***************************************************************************)
(* Properties                                                              *)
(***************************************************************************)

Stored(e, k) == EntriesOf(section[e])[k] # Absent
Ct(e, k)     == EntriesOf(section[e])[k]

\* Every variable keeps its shape.
TypeOK ==
  /\ repo \in {"legacy", "registry"}
  /\ recipient \in [Envs -> Recipients] /\ cache \in [Envs -> Recipients]
  /\ version \in {"none", "v2", "v3", "v4"}
  /\ section \in [Envs -> Optional(Sections)]
  /\ run \in Runs
  /\ runs \in 0..MaxRuns /\ moves \in 0..MaxMoves
  /\ had \in [Envs -> SUBSET Recipients]
  /\ settled \in BOOLEAN

\* A file never mixes generations: whatever repo.yaml said when, and in which
\* order the commands ran, each ciphertext carries the discriminator that the
\* readers of a bundle of this version assert, else the service cannot start.
OneGeneration == \A e \in Envs, k \in Keys : Stored(e, k) => Ct(e, k).id = IdOf(version)

\* The per-environment boundary: no section holds a ciphertext that opens for a
\* key its environment never had (EnvSection, "the isolation boundary").
Isolated == \A e \in Envs, k \in Keys : Stored(e, k) => Ct(e, k).to \in had[e]

\* When a command reports that it has signed, the gate finds every section
\* signed over what it holds, in the domain of the bundle's version; a stale
\* signature that a strip left behind is gone.
SignedWhenDone == run.at = "done" =>
  \A e \in Envs : section[e] # Absent =>
    section[e].sig = [domain |-> IdOf(version), entries |-> section[e].entries]

\* Once `reseal --rotate KEY' has sealed, no section holds an older KEY, sealed
\* with the value that was to be rotated away or to another recipient (rotate.go).
RotatedEverywhere ==
  run.key # Absent /\ run.at \in {"sign", "done"} =>
    \A e \in Envs : Stored(e, run.key) =>
      Ct(e, run.key).run = runs /\ Ct(e, run.key).to = run.rc[e]

\* After migrate-env with the current keys every environment opens all of its
\* section, through every later command, until the next change of a key.
Deliverable == settled =>
  \A e \in Envs, k \in Keys : Stored(e, k) => Ct(e, k).to = recipient[e]

\* What the bundle says to whom: the value, and the level it asks for.
Plain == [e \in Envs |-> [k \in Keys |->
            IF Stored(e, k) THEN <<Ct(e, k).val, Ct(e, k).level>> ELSE Absent]]

\* No migration loses, adds or alters a secret, or the level it asks for.
PlaintextKept ==
  [][run.at \in {"migrate-v3", "migrate-v4", "migrate-env"} => Plain' = Plain]_vars

\* No nonce churn: in a file of the repository's generation a seal leaves the
\* sections out of scope as they are, and a key that stays keeps its ciphertext
\* unless the environment is known to have moved to another cluster.
MinimalDiff ==
  [][run.at = "seal" /\ version # "none" /\ IdOf(version') = IdOf(version) =>
       \A e \in Envs :
         /\ e \notin run.scope => section'[e] = section[e]
         /\ \A k \in Keys :
              Stored(e, k) /\ Stored(e, k)' /\ section[e].cluster \in {Absent, run.rc[e]}
                => Ct(e, k)' = Ct(e, k)]_vars

\* VerifyBundle, the check in CI that decrypts nothing: the environments and the
\* labels against repo.yaml, which names environments only before it is reduced.
\* What is neither v2 nor v3 gets a warning.  Every ciphertext here has two stanzas.
VerifyBundle ==
  CASE version = "v2" ->
         \A e \in Envs : IF repo = "legacy" THEN section[e] # Absent /\ section[e].cluster = recipient[e]
                         ELSE section[e] = Absent
    [] version = "v3" ->
         \A e \in Envs : IF section[e] = Absent THEN repo = "registry" ELSE section[e].cluster = Absent
    [] OTHER -> TRUE

\* CI never turns red by a command's doing: from a file that verifies, a command
\* stopping anywhere leaves one that verifies.  Not so a scoped seal over a file of
\* another version: over v2 it leaves labels behind, over v4 it drops sections.
VerifiedStaysVerified ==
  [][/\ VerifyBundle /\ version # "none" /\ UNCHANGED <<repo, recipient>>
     /\ run.at = "seal" => version = "v3" \/ run.scope = Envs
     => VerifyBundle']_vars

\* `--env': "the other env sections are preserved byte-identical" (main.go).
ScopedKeepsOthers ==
  [][\A e \in Envs :
       run.at \in {"strip", "seal"} /\ e \notin run.scope
         => EntriesOf(section[e])' = EntriesOf(section[e])]_vars

-----------------------------------------------------------------------------
(***************************************************************************)
(* The inductive invariant.  The keys a command works with are keys its    *)
(* environments had; a rotation finds its key gone when it seals; and once *)
(* settled, nothing that runs knows other keys or writes another version.  *)
(***************************************************************************)

Had == \A e \in Envs : {recipient[e], cache[e], run.rc[e]} \subseteq had[e]

Rotating == run.key # Absent =>
  /\ run.at \notin {"migrate-v3", "migrate-v4", "migrate-env"}
  /\ run.at = "seal" => \A e \in Envs : ~Stored(e, run.key)

Settling ==
  /\ run.at = "migrate-env" => repo = "registry" /\ cache = run.rc
  /\ settled =>
       /\ repo = "registry" /\ cache = recipient /\ version = "v4"
       /\ run.at \notin {"idle", "done"} =>
            run.repo = "registry" /\ run.at # "migrate-v4" /\ run.rc = recipient

IInv == TypeOK /\ OneGeneration /\ Isolated /\ SignedWhenDone /\ RotatedEverywhere
          /\ Deliverable /\ Had /\ Rotating /\ Settling
=============================================================================

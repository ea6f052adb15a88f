# gitseal: TLA+ models, model checking and proofs

gitseal keeps secrets encrypted inside a GitLab repository. Sealing is offline, to
public keys. Opening a secret is done by a broker that holds the private keys and asks
GitLab, on every request, whether the caller is entitled now; a materializer in each
cluster opens the secrets of its own environment with a key of its own.

This directory holds TLA+ modules translated from the Go source, TLC configurations
that model-check them on small instances, and theorems checked by TLAPS for every value
of the constants. `PROJECT.json` lists components, runs, hazards and theorems, and maps
each definition to the lines it models. All paths below are relative to `src/`.

    tlc -workers 2 -config MCBundle.cfg MCBundle     # one run
    tlapm BundleProofs.tla                           # the proofs of one module

Contents: [1 inventory](#1-inventory) · [2 modules](#2-modules) · [3 runs](#3-runs) ·
[4 fairness](#4-fairness) · [5 proofs](#5-proofs) · [6 code against its docs](#6-where-the-code-and-its-comments-disagree) ·
[7 not modelled](#7-what-is-not-modelled) · [8 plan](#8-plan)

## 1. Inventory

### The parts, the state each keeps, and what makes it correct

| part | state | operations | it is correct when |
|---|---|---|---|
| **Challenge nonces** `internal/broker/challenge.go` | per replica: nonce -> expiry, in memory | issue, sweep at the cap, consume locally, ask the peers one by one, answer a peer | a nonce is redeemed once over all replicas, retries, late calls and restarts; in time; a good one is not refused; the cap holds without evicting a live nonce; nobody hangs |
| **Unseal endpoint** `internal/broker/broker.go` | none but the shared keystore; one request in flight per goroutine | authenticate (SSH or PAT), resolve the target, account live?, level now?, open, compare levels | a plaintext leaves only for a caller who was entitled, on the secret's own project, during the request; the entitled are not denied |
| **Sealed envelope** `internal/crypto` | none (pure) | seal, seal v4, unseal, unseal v4 | the project and the level are bound into the blob and asserted on opening |
| **Identity index** `identity_index.go`, `identity_reconcile.go`, `system_hook.go`, `ssh_auth.go` | fingerprint -> user, swapped in whole; throttle stamps | sweep GitLab (poll loop, on-miss from a request, system hook), resolve a signer | no lasting key is ever missing from it, none is invented, it converges, SSH requests are answered |
| **Recipient registry** `recipient_registry.go`, `registry.go` | per replica: (project, env) -> recipient, in memory; static ones from projects.json | register, forward to the peers, answer a snapshot | an environment is sealed only to the key its cluster holds; every replica learns it |
| **Controller** `cmd/gitseal-controller`, `internal/client/controller.go` | none; the identity Secret in the cluster | each tick, per environment: read the Secret, mint and store if there is none, register | an identity that exists is adopted, never replaced |
| **Snapshot client** `internal/client/snapshot.go` | a cache file | fetch the recipients of a project, or fall back to the cache | what it seals to can be opened |
| **Keystore and reload** `reload.go`, `client/keyfile.go`, `cmd/sealdbroker` | project -> identity, and the files skipped | load the directory file by file on a ticker, swap; readiness; drain | a reload never blanks the broker, one bad file downs one project, no identity is misattributed, changes come into force |
| **Bundle authoring** `client/sealedbundle*.go`, `rotate.go`, `sign*.go`, `migrate_*.go`, the commands of `cmd/sealdctl` | the file `.sealed/<svc>.app.json`, repo.yaml, the snapshot cache | seal, reseal `--rotate`, `--env`, sign, migrate-v3, migrate-v4, migrate-env | one generation per file, no section leaves its environment, rotation is complete, signatures match, migrations lose nothing, seals churn nothing |
| **Write-authorization gate** `cmd/sealdctl/authz.go`, `client/authz_*.go`, `remote_resolver.go` | none; git and the broker, levels cached for one run | diff the entries of a merge request, author's level, signatures of the touched sections | a change merges only when its author, and its signers, had the level of the environment during the run; a refusal has a cause |
| **Materializer** `client/materialize.go` | Secrets of one namespace | open one environment of every bundle, apply, list by label, delete by name | nothing of a tree that does not build is delivered; a finished run leaves exactly its tree; others' Secrets stay |
| **Onboarding** `client/onboard.go`, `registry_edit.go`, `mint_env_keys.go` | key file, repo.yaml, keystore Secret, a registry row | mint, write, patch, merge the row; edit a row | after a finished run the four agree; a re-run mints no second key; no two projects share an environment key |
| **Verification** `client/verify.go` | none | decrypt-free check of a file against repo.yaml | what a command leaves of a file that passed passes |
| **Signer endpoint** `signer_endpoint.go` | the identity index | fingerprint -> user and level | the answer is live |
| **Clients** `client/ssh_client.go`, `seal.go`, `pat.go`, `gitlab.go` | none | challenge, sign, unseal; find a token | follow the protocol of the endpoints |
| **Root key** `client/root.go`, `admin.go` | none | Shamir split and combine, KEK wrap | calls into libraries |
| **CLI, parsing, reports, charts** | none | flags, formats, listings, manifests | — |

### How they interact

- *Client -> broker*: `GET /challenge`, a signature over the nonce, `POST /v1/unseal`. The
  Service may route the two calls to different replicas, so the second may have to find
  the nonce at a peer (`/internal/challenge/consume`, 3 s per peer).
- *Broker -> GitLab*: account, token, user and membership on every request; a sweep of
  projects, members and keys for the index. GitLab may be down or slow, and changes between any two reads.
- *GitLab -> broker*: system hooks, at most once, throttled.
- *Controller -> broker*: registrations, forwarded once to each peer without waiting.
  Nothing is stored: a restarted replica waits for the next tick.
- *Kubernetes -> broker*: the mounted keystore is relinked as a whole while the loader
  reads it file by file; SIGTERM starts a drain.
- *Merge request -> gate*: a pipeline compares base and head, asks GitLab for the author and
  the broker for each signer; the merge comes later, on a main that has moved.
- *Materializer -> Kubernetes*: a clone, then one kubectl call per Secret; several
  releases and people may write to the same namespace.
- *Operator -> four places*: onboarding writes a key file, repo.yaml, the keystore Secret and
  the registry row one after another.
- *Author -> repository*: a chain of commands that each rewrite the bundle, some of
  them twice, and may stop in between; the recipients come from repo.yaml or from a
  snapshot that may be old.

### What is hard

- **Concurrency**: two requests on one nonce at two replicas; a handler against every
  kind of change in GitLab and in the keystore; overlapping sweeps of which the older may finish last; merge
  requests that pass the gate side by side; releases that prune one namespace.
- **Failure**: late or lost peer calls, restarts that wipe memory, a failed read that
  must not look like an absence, a bad key file, a controller that dies between two calls,
  a command, a Job or an onboarding that stops between two writes, and is run again.
- **Ordering**: four file versions, two identities of a project and five commands in any order.
- **Boundaries**: the cap and the expiry of nonces, the level comparisons, an empty reload.
- **Time**: throttles, deadlines, ticks; what must happen eventually.

`PROJECT.json` lists these hazards at their lines with the properties that cover them, or
the reason that none does.

## 2. Modules

| component | model | proofs | instance |
|---|---|---|---|
| nonces, as seen from outside | `NonceToken` | | |
| nonces on replicas | `Challenge`, implements `NonceToken` | `ChallengeProofs` | `MCChallenge` |
| envelope | `Envelope` (pure) | | |
| unseal endpoint | `Unseal`, extends `Envelope` | `UnsealProofs` | `MCUnseal` |
| identity index | `IdentityIndex` | `IdentityIndexProofs` | `MCIdentityIndex` |
| recipient registry, controller, snapshot | `Recipients` | `RecipientsProofs` | `MCRecipients` |
| keystore, reload, readiness | `KeyStore` | `KeyProofs` | `MCKeyStore` |
| bundle authoring, migration, verification | `Bundle` | `BundleProofs` | `MCBundle` |
| write-authorization gate | `WriteGate` | `WriteGateProofs` | `MCWriteGate` |
| materializer | `Materialize` | `MaterializeProofs` | `MCMaterialize` |
| onboarding and registry editing | `Onboard` | `KeyProofs` | `MCOnboard` |

**Challenge.** `store[b]` is the map of one ChallengeStore. A request is a small
program, as `consumeNonce` is: `new` -> `local` -> `peers` -> granted or denied, with
`todo` the peers of the DNS answer it has not asked and `wait` the one it is blocked on.
The peer's work is an action of its own (`HandleChallengeConsume`), which may run after
the caller gave up: this is what makes a late call burn a nonce nobody is granted.
`Restart` empties a store and drops the requests the replica served. The refinement maps
the union of the stores to `live` and every successful consumption to `redeemed`.

**Unseal.** `pc[r]` walks the checks of HandleUnseal in the code's order; each is one
action with its own read of GitLab or of the keystore. `SetAccount`, `RevokeToken`,
`SetLevel` and `SwapKeys` change the world between any two. `sometime[r]` and
`throughout[r]` are history: the facts that held at some moment, or all the time,
between the arrival of the request and its answer. `authViaSSH` is one step here; its insides
are `Challenge` (the nonce) and `IdentityIndex` (the signer).

**IdentityIndex.** A sweep is a caller's loop: read a project's members, read a user's
keys, and swap the map in at the end. The reads of one sweep see different moments of
GitLab. The poll loop, the hook handlers and the requests are all such callers;
a request then consumes its nonce and resolves the signer. The window variables
record what was true ever since a sweep began (`keysKept`, `membersKept`) and at some moment of it (`keysSeen`, `membersSeen`).

**Recipients.** The controller's tick is a program with a location (`at`): read, seed,
register. A registration is stored at one replica and put on the way to the others
(`forwards`). `BrokerRestart` forgets a registry and the forwards to and from it;
`ControllerCrash` stops a tick anywhere. The client seals from a snapshot or, offline,
from its cache.

**KeyStore.** `List`, `ReadFile` and `Swap` are one load; `Relink` replaces any files in
between; `BeginDrain` and `Shutdown` are the SIGTERM path. `was[f]` is what file f has held
since the listing of the load. `KeyProofs` extends this module beside `Onboard`; hence the names that begin with
KS (`KSSpec`, `KSInv`, ...), and `Repositories` and `Identities` for the projects and keys of the broker.

**Bundle.** A ciphertext is a record of what it holds, for whom it opens, which
identity of the project it carries, and the run that sealed it, which stands for its nonce: equal
records are equal bytes. `Command` starts any command (`CmdSeal`, `CmdReseal`, `CmdMigrate*`), `StripKeyFromBundle`,
`SealBundle`, `SignBundleFile` and the migrations are its writes, `Stop` ends it between
two of them. `SetRecipient` moves an environment to another key, `Collapse` is the step
from the old repo.yaml to the registry. `had[e]` and `settled` are history. `VerifyBundle` is
the check of CI, an operator over the file and repo.yaml.

**WriteGate.** One sealed file and repo.yaml's policy, as they are on `main`, at the merge
base and at the head of each request. `Start` resolves the policy (of the head's repo.yaml, or of the
registry, or of the runner's cached snapshot), `AuthorLevel` compares the two files and the author,
`ReadHead` reads the head again, `CheckSection` attributes one touched section to its
signer, whose answer the run caches. `Merge` puts the branch on a main that may have moved:
git refuses a section that both sides changed. `seen[m]` is history: the worlds (levels and registrations) of the run.

**Materialize.** `Sync` clones and builds everything (phase 1), `Apply`, `List` and `Prune` are one kubectl call
each; `Abort` ends the Job at any of them, the call carried out or not. `Push` moves a head and
`Edit` is a person with kubectl. `origin[n]` (the release and tree a Secret came from) and `alone` (Jobs beside which
nobody else wrote) are history.

**Onboard.** `Plan`, `WriteRepo`, `Deliver`, `Merge`, `PrintIdentities` are the writes of `admin onboard` in
the code's order; `Die` ends it between any two. `SetEnvV2` and `RemoveEnv` are `admin env set` and `rm`. A run
works with a combination of flags of `Commands`.

Conventions: history variables are read by properties only; external systems
are actions with no guard from the code; every bound is a constant named `Max...`; a value that
is not there is a constant of its own (`NoKey`, `Absent`, ...), assumed distinct.

## 3. Runs

The runs leave the inductive invariants of section 5, and the type invariants in them, to the proofs, but for the `TypeOK` of `Onboard`. To see one hold on an instance, or to find out why a changed definition breaks
its proof, add `IInv` (`KSInv` for the keystore) to the INVARIANTS of the run; every one of them was found to hold there before it was
proved. The same goes for the action properties that only section 5 mentions, as PROPERTY.

| run | instance | what it checks |
|---|---|---|
| `nonce_replicas` | 2 brokers, 2 nonces, 2 requests, cap 1, TTL 1, clock to 2 | `SingleUse`, `RedeemedInTime`, `DeniedForCause`, `CapacityBound`, `ImplementsToken`, `NoLiveEviction`, and `Answered` under fairness |
| `unseal_entitled` | 1 user, 2 projects, 2 keys, levels 0/30/40, 1 request; a v2 and a v4 secret that both open with both keys | `AllowedIsEntitled`, `EntitledIsAllowed` |
| `index_converges` | 2 keys, 2 users, 1 project, poll loop, a hook, 1 request, a legacy entry, outages, 1 change | `NoLockout`, `Witnessed`, `Converges`, `Served` |
| `keystore` | 2 files, 2 projects, 2 keys, 2 relinks, 1 fault | `AlwaysReady`, `OthersKept`, `Converges` |
| `recipients` | 2 replicas, 1 environment with a recipient in projects.json, 4 keys, 2 faults, failed reads | `HeldKeys`, `KeepsIdentity`, `Converges` |
| `bundle` | 2 environments, 2 keys, 2 values, 2 recipients, 2 inputs, 2 overrides; 3 commands, 1 moved recipient | `OneGeneration`, `Isolated`, `SignedWhenDone`, `RotatedEverywhere`, `Deliverable`, `PlaintextKept`, `MinimalDiff`, `VerifiedStaysVerified` |
| `write_gate` | 2 requests (a developer's and a maintainer's), 2 environments, 2 policies or none in git, 3 contents; 1 change, 2 commits, 1 fault | `AuthorEntitled`, `Attributed`, `PolicyByOwner`, `RejectedForCause` |
| `materialize` | 2 releases in a namespace, an application and docker-secret, 7 trees; 1 push, 1 run of the other release, 1 edit, 1 fault | `WholeTree`, `Exact`, `ForeignKept`, `Converges` |
| `onboard` | 2 projects, 1 environment, 3 runs with 5 combinations of flags, 1 edit | `TypeOK`, `Agreement`, `OneKey`, `RepoKeyKept`, `EnvKeysPrivate` |
| `gate_fails_closed` | as `write_gate` | **violated**: `FailsClosed` |
| `adopts_existing` | 2 replicas, 1 environment, 1 failed read | **violated**: `AdoptsExisting` |
| `scoped_seal` | as `bundle`, 2 commands | **violated**: `ScopedKeepsOthers` |

What the properties say:

- *SingleUse*: two requests are never both granted on one nonce. *RedeemedInTime*: a
  redeemed nonce was within its TTL where and when it was consumed. *DeniedForCause*: a refusal means that
  the nonce was redeemed, expired, lost with its replica, or that a peer could not be
  asked; so a good nonce at the wrong replica is accepted. *ImplementsToken*: the
  replicas together behave as one single-use token. *NoLiveEviction*: making room for a
  nonce never evicts one that could still be redeemed.
- *AllowedIsEntitled*: an allowed request had, each at some moment within the request, a live
  account, the sealed level on the secret's own project, and that project's key loaded.
  So what was revoked before the request arrived denies it. The checks are separate reads, and
  the property claims no more than that. *EntitledIsAllowed*: a denial when GitLab answered means the caller
  named another target, the secret asks for less than the baseline, or some entitlement
  was missing at some moment. A key loaded under two project ids is excepted: a map scan
  then decides whose membership counts.
- *NoLockout*: an entry GitLab had ever since before the sweep that installed the
  index began is in the index. *Witnessed*: a key in the index was its user's at some moment of that sweep, the user was a member of a covered project at some
  moment of it (not necessarily the same one), and no key resolves to two users. The mixed picture of a sweep can lie between two states of GitLab, and
  these are the strongest bounds on either side the code keeps.
- *OthersKept*: a project whose file did not change during a load, and was not skipped, is loaded with its own key,
  whatever the other files did. *AlwaysReady*: serving and not draining means having a key.
- *HeldKeys*: replicas, forwards, caches and sealed files only ever name the key that is
  in the cluster's Secret, or the one projects.json gives the environment; and *KeepsIdentity*: no crash,
  failed apply or retried tick replaces that Secret. Both except an environment whose Secret a failed read took for missing
  (`misread`), which is what `adopts_existing` is about.
- *OneGeneration*: every ciphertext carries the identity of the project that the
  readers of the file's version assert. *Isolated*: no section holds a ciphertext for a key its environment never had.
  *RotatedEverywhere*: after `--rotate KEY` sealed, no section holds an older KEY.
  *Deliverable*: after migrate-env with the current keys every environment opens its whole
  section, through every later command, until a key changes. *MinimalDiff*: a seal leaves alone what it need not
  replace. *VerifiedStaysVerified*: from a file that CI accepts no command, wherever it stops, makes one that
  CI rejects, except a scoped seal over a file of another version.
- *AuthorEntitled*, *Attributed*: entries change on main only by a request whose author had the level during its run, and
  what lands is signed as it stands by somebody registered and entitled during the run, whatever was merged, revoked
  or edited meanwhile. They claim no single moment: author, policy and signers are separate reads. *PolicyByOwner*: a policy in git changes
  only by an Owner's request. *RejectedForCause*: a refusal means a failed call, a missing level or registration at some
  moment of the run, or a section not signed as it stands.
- *WholeTree* (gate #2): what a labelled Secret holds comes from a tree every file of which opens for the release; one
  file that does not open keeps the others from being delivered. *Exact*: a finished run, alone in the namespace, leaves
  its tree and no other labelled Secret, whatever earlier aborted runs left. *ForeignKept*: the prune deletes only what it had listed, and without the
  label only if somebody else wrote during the run; the label is the same for all releases. *Converges*: once the head rests and calls succeed, the namespace holds it and stays so.
- *Agreement*: after a run that reported success, repo.yaml, keystore Secret and row name one key, and the row's recipients
  are those the run has shown, whatever runs that died left behind. *OneKey*: with a kept `--keystore` directory and no rotation there is never a
  second key. *RepoKeyKept*: the key repo.yaml names is in the directory, the Secret or an emitted file, unless two
  rotations in a row were not delivered. *EnvKeysPrivate*: rows of two projects share no recipient, though each is copied from another.

Each property is also run against a mutant of the code's model (a dropped guard, an
off-by-one, a missing reset, a swapped order) that it must refuse; the mutants are the operators named for the mutated definition
and listed in `PROJECT.json`.

### Why the bounds are enough

- *Nonces.* Single use is about pairs of requests on one nonce; a second nonce and a cap of one make every issue meet the
  cap. Clock 0..2 with TTL 1 has the moments before, at and after expiry. With two replicas a request asks one peer;
  asking the next one, and any number of them, is left to the theorems, which hold for every set of replicas.
- *Unseal.* Requests share nothing but what they read, so one request against all changes is the general case; the
  theorem covers the rest. Levels 0/30/40 are "not a member", the baseline, and above it.
- *Index.* Two sweepers suffice for an old picture to land after a new one. More changes and projects are covered by
  the theorems. `StartsOnboarded` begins with every project visible and one member's key known; a change of the run can undo either.
- *Keystore.* Two files swap their contents, duplicate a project, or go bad, twice per behaviour: once during a load, once after it.
- *Recipients.* Keys are one per fault, one minted and one static, so minting never runs out. Environments do not interact but for the order of
  the tick, and the safety theorems hold for any number.
- *Bundle.* Three commands reach every pair of versions with a command in between: for example migrate-v3, migrate-v4,
  seal; or a stopped rotation, a migration, a seal. The starting file is absent or v2, so no command sequence is needed to get one.
- *WriteGate.* Two requests are what it takes for main to move between a run and its merge. A developer, below the level of production, and a
  maintainer, who is an Owner until removed; edits that are unsigned, well signed in either form, or signed over
  something else. `Starts`, `Begins` and `Later` fix where the instance begins; the theorems assume none of it.
- *Materialize.* The other release visits once, during or between the runs of the steady one. The trees differ by a missing
  file, a migrated file, a file for another cluster, an emptied file.
- *Onboard.* Three runs: one that dies, one that resumes it, one of the other project, in any order. `MCCommands` are the flags the documentation
  shows, and runs that leave the key or the row to the operator.

`CHECK_DEADLOCK FALSE` appears where the system may rightly stop: the nonce run (requests and
clock are finite), the bundle, gate and onboarding runs (nobody need run another command) and the materializer's (nobody need push).
Symmetry is used in safety runs only, over values the
specification treats alike.

## 4. Fairness

- `Challenge`: weak fairness of each request's handler. Its goroutine runs, and its 3 s client
  timeout fires. Nothing is assumed of peers, clients, clock or restarts.
- `IdentityIndex`: weak fairness of the poll (a ticker), of the steps of a sweep and of
  the requests (every read ends, by an answer or a deadline). No hook need arrive. *Converges* assumes `<>[]up`.
- `Recipients`: weak fairness of the controller's steps (a ticker) and, per peer and
  environment, of forwards (each is a call with a timeout). The choice of replica by the Service is **not** fair, since a
  kept-alive connection may stay with one; convergence then rests on the forwards.
- `KeyStore`: weak fairness of the load (a ticker) and of the shutdown (three seconds of grace, then a bounded server shutdown).
- `Materialize`: weak fairness of the steady release: its process runs, and its Job is started again after it ended.
  The second half is what a deployment does (a sync per push, a backoff limit), not this code. The other releases are **not** fair; their visits are bounded.
- `Bundle`, `Unseal`, `WriteGate`, `Onboard`: none; only safety is claimed.

Faults are bounded by constants, so "once faults stop" is built into these runs.

## 5. Proofs

Every theorem holds for all values of the constants under the named `ASSUME` of its
module: the sentinels differ from the values, the inputs are of their types, and bounds are
naturals. Only the bound on a nonce store needs finiteness, and proves it (`Bounded`).

| module | theorem | claim |
|---|---|---|
| `ChallengeProofs` | `NonceSingleUse` | `Spec => []SingleUse` |
| | `NoLateRedemption`, `RefusedForCause`, `StoreIsBounded`, `LiveNoncesKept` | `RedeemedInTime`, `DeniedForCause`, `CapacityBound`, `NoLiveEviction` |
| | `ReplicasImplementToken` | `Spec => ImplementsToken`: every step maps to a step of `NonceToken` or a stutter |
| `UnsealProofs` | `OnlyTheEntitled`, `TheEntitledAreServed` | `Spec => []AllowedIsEntitled`, `Spec => []EntitledIsAllowed` |
| `IdentityIndexProofs` | `NobodyLockedOut`, `NothingInvented` | `Spec => []NoLockout`, `Spec => []Witnessed` |
| | `CleanSweepsStayClean`, `CleanSweepIsExact`, `ConvergedIsStable` | while GitLab rests: a sweep meets only the truth, installs the truth, and a right index stays right |
| `KeyProofs` (of `KeyStore`) | `NeverBlank`, `BadKeyDownsItsOwn` | `KSSpec => []AlwaysReady`, `KSSpec => []OthersKept` |
| | `IdentitiesAreTheFiles` | a load resolves only what a file of the project held during it |
| | `QuietLoadIsExact`, `QuietLoadIsServed`, `ServedIsStable` | an undisturbed load reads exactly the directory, is put in place whole, and stays |
| `KeyProofs` (of `Onboard`) | `FinishedAgrees`, `NoSecondKey`, `KeyCanBeFound`, `EnvKeysArePrivate` | `Spec => []Agreement`, `[]OneKey`, `[]RepoKeyKept`, `[]EnvKeysPrivate` |
| `KeyProofs` (of both) | `DeliveredIsServed` | a quiet load of the mounted Secret serves, for every project whose onboarding succeeded, the key repo.yaml names |
| `RecipientsProofs` | `SealedToTheClustersKey`, `KeysAreAdopted` | `Spec => []HeldKeys`, `Spec => KeepsIdentity` |
| | `RegistryIsTheClusters`, `LearnedIsStable` | but for misread Secrets: a registry has no key but the cluster's; what all replicas learned only a restart undoes |
| `BundleProofs` | `OneGenerationAlways`, `IsolatedAlways`, `SignedAlways`, `RotatedAlways`, `DeliverableAlways` | `Spec => []` of the property |
| | `MigrationsKeepSecrets`, `SealsChurnNothing`, `VerifiedAlways` | `Spec => PlaintextKept`, `MinimalDiff`, `VerifiedStaysVerified` |
| `WriteGateProofs` | `LandedByEntitledAuthor`, `LandedIsAttributed`, `PolicyEditedByOwner`, `RefusedForCause` | `Spec => AuthorEntitled`, `Attributed`, `PolicyByOwner`, `[]RejectedForCause` |
| `MaterializeProofs` | `NothingFromABrokenTree`, `FinishedIsExact`, `OthersSecretsKept` | `Spec => []WholeTree`, `[]Exact`, `ForeignKept` |
| | `DeliveredIsStable` | further runs of the Job disturb nothing that is delivered |
| each | `TypeCorrect`, `InductiveInvariant` | `Spec => []TypeOK`, `Spec => []IInv` (of `KeyStore`: `StoreTypeCorrect`, `StoreInductiveInvariant`) |

Each proof follows one line: `Init => IInv`, one lemma or step per action for
`IInv /\ [Next]_vars => IInv'`, and the property from `IInv`. Why each property needs strengthening:

- **Challenge.** SingleUse speaks of granted requests; a nonce could be granted twice if two replicas
  held it, or if it were still held after a consumption whose answer is under way. Hence `OneHolder`,
  `RedeemedIsGone`, `OneRedeemer`, and `AskedOnce`, without which a peer asked twice could overwrite its positive answer. The
  refinement uses the same invariant; the step lemma has one case per action of Challenge. That is `Ownership`; `Causes` comes on top of it:
  an expiry is the issue plus TTL (`Timely`), an issued nonce is held or it is known what became of it (`Fate`), and the replicas a request has
  been to do not hold its nonce (`Searched`), so when it has asked them all the nonce is spent.
- **Unseal.** What was checked must be remembered: past each check the fact it established is in `sometime` (`AccountChecked`,
  `LevelChecked`), and the project in hand is the one the secret names (`TargetResolved`), which for a v4 secret holds only because the key was
  found in the keystore within the request. The other direction keeps that what held all along
  holds now (`StillTrue`), and that the request of somebody entitled throughout is about the entitling project with the level in hand (`OnCourse`).
- **IdentityIndex.** While a sweep runs, an entry owed is either in its map, or its user is still to be read, or its
  project is (`SweepOwes`); and what is in the map was seen on a profile, its user as a
  member, which the users still to be read must carry along as well (`SweepTruthful`).
- **KeyStore.** The directory's contents are in the history of the load (`Present`), and a project owed is read or still to be read (`OthersKept`).
  That a quiet load is exact needs the order of the reads as well: the map so far gives a project the key of the last of its files read (`InOrder`).
- **Onboard.** A key is the number of the run that minted it, so a fresh one is new because every place holds keys of past runs only (`Minted`). What a
  run has written, by where it is, is of the key in hand (`Progress`), which gives *Agreement* when it finishes. A key is in places of one project only
  (`Owned`), or the registry, a map by key, would lose a row. With the directory kept and at most one key minted since
  the last delivery, repo.yaml names the key of the directory or of the Secret (`Behind`), hence *RepoKeyKept*. The recipients being minted are in no other row (`Fresh`).
- **Onboard and KeyStore together.** `DeliveredIsServed` assumes that the two modules speak of the same projects and keys, and of the load that it was quiet
  (no relink, no failed read) and that the directory shows the Secret (`Mounted`: kubelet has synchronised). It then needs `IInv` of one side and `KSInv` of the other, and no invariant of its own.
- **Recipients.** A key being registered is the Secret's, and a key is stored only where there is none or where the Secret was misread (`InHand`).
  *HeldKeys* lets a registry hold the static recipient; that it never does (`FromSecret`) is what makes a late forward harmless to replicas that have converged.
- **Bundle.** Every key a command can work with is one its environment had (`Had`); a rotation finds its key gone when it seals (`Rotating`);
  once settled, no running command knows other keys or writes another version (`Settling`), which is what
  keeps *Deliverable* through a command started earlier.
- **WriteGate.** What a run has found so far is tied to the worlds it lived through: its policy (`Resolved`), its author (`AuthorChecked`), each
  cached answer (`Answers`), each section done (`SectionsChecked`). A merge then needs only that git refuses what both sides changed.
- **Materialize.** A Job past phase 1 has a tree that builds (`Building`); while nobody else writes, what it applied is there and what is
  labelled and not its own is listed or will be (`Progress`).

Each `Converges` claims that a good state is reached and then kept. The second half is safety and is proved, without fairness: `LearnedIsStable`,
`ConvergedIsStable`, `ServedIsStable`, `DeliveredIsStable`; and of the first half, what a load or a sweep achieves once it completes undisturbed
(`QuietLoadIsServed`, `CleanSweepIsExact`; for the Job, *Exact*). What is left to the runs is that it comes to that.

Only model-checked: the liveness properties (`Answered`, `Served`, the four
`Converges`), which need fairness and are out of this prover's reach. `Envelope`, a module of definitions, is proved about only as `Unseal` uses it.

## 6. Where the code and its comments disagree

With a run that shows it:

1. `--env` and `--rotate` together (`scoped_seal`). `StripKeyFromBundle` removes the key from every section
   (`internal/client/rotate.go:28`), the scoped seal puts it back in the named ones only. `cmd/sealdctl/main.go:1594`
   says the other sections "are preserved byte-identical". TLC's trace: on a v2 file with both sections, a reseal with both
   flags strips the key from both.
2. An existing identity is overwritten (`adopts_existing`). `controller.go:37` promises adoption;
   `getMaterializerIdentity` reads any kubectl error as "there is none" (`cmd/gitseal-controller/main.go:174`).
3. The gate skips a file it cannot read (`gate_fails_closed`). `authz.go:45` says "FAIL CLOSED on any lookup, parse, or plumbing error"; an error of the
   second `git show` is taken for a removed file, and its sections are not attributed (`authz.go:110`).

Met while reading, without a run of their own:

- A nonce is burned on a stale index. `ssh_auth.go:27` says the refresh comes first so that it is not; but
  `onMissRefresh` returns at once inside its 10 s throttle (`identity_reconcile.go:145`), and the nonce is consumed all the same (`ssh_auth.go:29`).
- A relevant system hook inside the throttle window is acknowledged and dropped (`system_hook.go`); the poll repairs
  it, which is why *Converges* does not rely on hooks.
- `reload.go:99` and `sealdbroker/main.go:147` say that a reload never goes below what was served; a reload that lost one of several
  projects succeeds and drops it (`reload.go:92`). The model does what the code does.
- `cmd/sealdctl/main.go:158` says that the broker hot-reloads projects.json; it reads it once, when it starts (`cmd/sealdbroker/main.go:75`). Only the
  keys are reloaded, and the recipients registered at run time. The model does what the code does.
- Until a replica hears of a registration it answers with the recipient of projects.json, if there is one (`registry.go:120`), against "never a silent
  wrong-key" (`register.go:28`). This is why *HeldKeys* allows the static recipient.
- `VerifyBundle` takes every version but v2 and v3 for v1 (`verify.go:99`): a v4 file is "not yet migrated", and fails under `--strict`.
- A scoped seal over a v2 file writes a v3 file in which the sections out of scope keep their `cluster` label, and `verify` rejects it; over a v4 file
  in a repository with the old repo.yaml it drops them. *VerifiedStaysVerified* excepts both.
- `MigrateBundleToV4` fails on a file that is already v4 (`migrate_v4.go:118`); the comment at line 30 says it is re-signed.
- A level from 1 to 29 can be sealed (`crypto.go:88`) and is never opened (the baseline is 30).
- A scoped seal signs every section of the file, its own and the others. The gate looks only at sections with changed entries, so a
  section whose signature alone changed, or went, lands without a look.
- v3 or v4 is a property of the file, and signatures are of one form: two accepted requests, a migration and a change of
  another section, can combine on main into a v4 file with a v3-signed section.
- The policy of a run may be old: it comes from the head's own repo.yaml, or from a snapshot cached on the runner without an age limit.
- `cmdMaterialize` says "ON ANY ERROR the whole run aborts non-zero and NOTHING is applied" (`cmd/sealdctl/main.go:1171`); that holds of errors of the build. A
  failed apply leaves what was applied before it. It also says it does not read repo.yaml (line 1166), and does (line 1237).
- `render_secret.go:16` says that the materializer prunes "exactly its own orphans (and nothing else)". The label is the same
  for all releases, so two releases in one namespace delete each other's Secrets; and a Secret listed by label is deleted by name.
- A re-run of onboarding "is a no-op (reuses the existing key ...)" (`README.md:374`, `cmd/sealdctl/main.go:404`), but the staging directory is a fresh
  temporary one unless `--keystore` names it (`cmd/sealdctl/main.go:479`): the re-run finds no key, mints a second one, and `--apply` replaces the
  first. Even with the directory kept, each re-run mints new environment keys into the row. *OneKey* is therefore about projects onboarded with the directory only.
- Without `--apply`, `--emit-keyfile` and `--keystore` the minted key is deleted with its directory while repo.yaml names it; and with
  the directory, two rotations in a row that are not delivered lose the key repo.yaml named first.
- `mergeRegistryEntry` replaces the whole row: levels and environments set by `admin env set` are gone, and the identity
  guard of `registry_edit.go:104` is not asked.
- `admin env set` without `--project-id` creates a row with project id 0; the usage says the id is "required to create one" (`cmd/sealdctl/main.go:159`).
- projects.json is written in place: a write that is cut short leaves an empty file, which parses as an empty registry.

## 7. What is not modelled

- **In the gate**: `--no-sig-check`; more than one sealed file (they are treated one by one); users with several keys.
- **In the materializer**: `--emit-yaml`, which only prints; labels other than the one it writes.
- **In onboarding**: several operators at once; git and the review of the files it writes; the seeding of the printed identities.
- **In verification**: the count of recipients of a ciphertext, which holds by construction here; the bundle's own copy of the recipients; `--strict`.
- **Cryptography** (age, SSH signatures, Shamir) is external: a ciphertext opens for the
  keys it was sealed to, a signature covers what it was made over, 32 random bytes do not repeat.
- **GitLab, kubectl, DNS, HTTP** are external; modelled from what the code asks of
  them and how it reads the answers. Pagination is left out: only the first 100 members of a project are read by the code
  (a limit it states).
- **Torn writes of a bundle.** `os.WriteFile` is not atomic; a write here is.
- **The flat v1 path** of sealing, and repositories with a self-contained repo.yaml in `Recipients`.
- **The legacy bundle.json keystore**, which is read once and never reloaded.
- **Parsing, rendering, listings, flags, charts**: conversions and constants.
- **Time** beyond order: the throttle ends at any time, deadlines may strike at any read.

## 8. Plan

Done: the broker's authentication path (nonces, index, unseal), its keys (keystore, recipients, onboarding), the
authoring, gating, verification and delivery of bundles, with the safety of each
proved for all constants, and of the path of a project key from onboarding to the broker.

What is left, in this order:

1. **Composition of Bundle and WriteGate**: which heads an author can produce with the commands, instead of any edit from a set.
2. **A run of Onboard and KeyStore together**, with kubelet's synchronisation as an action between the Secret and the directory: `DeliveredIsServed` takes it as the premise `Mounted`.
3. **Torn writes** of a bundle and of projects.json, with the next command starting from what is left.
4. **Larger instances** of the nonce run (a third replica) where the machine allows it.

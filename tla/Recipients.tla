----------------------------- MODULE Recipients -----------------------------
(***************************************************************************)
(* Who an environment's secrets are sealed to.  The controller of a        *)
(* cluster (cmd/gitseal-controller) mints the materializer key of each     *)
(* environment into a Secret and registers its public half with the        *)
(* broker; every broker replica keeps the registrations in memory only     *)
(* (internal/broker/recipient_registry.go) and forwards them to its peers, *)
(* without waiting for the outcome; a client reads one replica's snapshot, *)
(* caches it, and seals to what it says (internal/client/snapshot.go).     *)
(*                                                                         *)
(* A key pair is one value.  kubectl and the cluster are external.         *)
(***************************************************************************)
EXTENDS Naturals

CONSTANTS
  Brokers,
  Envs,         \* the (project, environment) pairs with a ManagedEnvironment
  Keys,
  NoKey,
  Unreadable,   \* a Secret whose identity does not decode
  Static,       \* the recipient projects.json gives an environment, or NoKey
  FanOut,       \* whether SEALD_PEER_DNS is set
  ReadErrors,   \* whether kubectl may fail to read a Secret that is there
  MaxFaults     \* bound on crashes, restarts, lost calls and kubectl errors

ASSUME RecipientsAssumption ==
  /\ NoKey \notin Keys /\ Unreadable \notin Keys /\ NoKey # Unreadable
  /\ Static \in [Envs -> Keys \union {NoKey}]
  /\ FanOut \in BOOLEAN /\ ReadErrors \in BOOLEAN /\ MaxFaults \in Nat

VARIABLES
  secret,      \* the environment's identity Secret in the cluster
  minted,      \* keys that exist
  at,          \* where the controller is
  todo,        \* the environments this tick has still to reconcile
  env,         \* the one in hand
  recipient,   \* the recipient in hand
  registry,    \* registry[b][e]: RecipientRegistry.m of a replica
  forwards,    \* registrations on their way to a peer
  cache,       \* the client's snapshot cache
  sealed,      \* whom the client last sealed each environment to
  faults,
  misread      \* environments whose Secret was read as missing though it is there

controller == <<at, todo, env, recipient>>
client     == <<cache, sealed>>
vars       == <<secret, minted, controller, registry, forwards, client, faults, misread>>

Recipient == Keys \union {NoKey}

\* HandleRegistrySnapshot: a registered recipient wins over the static one.
Snapshot(b) ==
  [e \in Envs |-> IF registry[b][e] # NoKey THEN registry[b][e] ELSE Static[e]]

Nothing == [e \in Envs |-> NoKey]

-----------------------------------------------------------------------------

Init ==
  /\ secret \in [Envs -> Recipient \union {Unreadable}]
  /\ \A d, e \in Envs : secret[d] \in Keys /\ secret[d] = secret[e] => d = e
  /\ minted = {k \in Keys : \E e \in Envs : k \in {secret[e], Static[e]}}
  /\ at = "idle" /\ todo = {} /\ env \in Envs /\ recipient = NoKey
  /\ registry = [b \in Brokers |-> Nothing]
  /\ forwards = {}
  /\ cache = Nothing /\ sealed = Nothing
  /\ faults = 0 /\ misread = {}

Fault == faults < MaxFaults /\ faults' = faults + 1

\* reconcileAll: the list of ManagedEnvironments is read, and taken in turn.
\* (When the listing fails nothing happens until the next tick.)
ReconcileAll ==
  /\ at = "idle"
  /\ at' = "next" /\ todo' = Envs
  /\ UNCHANGED <<secret, minted, env, recipient, registry, forwards, client, faults, misread>>

Tick ==
  /\ at = "next" /\ todo = {}
  /\ at' = "idle"
  /\ UNCHANGED <<secret, minted, todo, env, recipient, registry, forwards, client, faults, misread>>

\* Mutant of Plan: an unreadable Secret is taken for an absent one.
BugPlan(e, seen) ==
  \/ /\ seen \in {NoKey, Unreadable}
     /\ \E k \in Keys \ minted : recipient' = k /\ minted' = minted \union {k}
     /\ at' = "seed"
  \/ seen \in Keys /\ recipient' = seen /\ at' = "register" /\ UNCHANGED minted

\* PlanEnvReconcile on what getMaterializerIdentity saw: generate when there
\* is no Secret, adopt a readable one, and leave an unreadable one alone.
Plan(e, seen) ==
  \/ /\ seen = NoKey
     /\ \E k \in Keys \ minted : recipient' = k /\ minted' = minted \union {k}
     /\ at' = "seed"
  \/ seen \in Keys /\ recipient' = seen /\ at' = "register" /\ UNCHANGED minted
  \/ seen = Unreadable /\ at' = "next" /\ UNCHANGED <<recipient, minted>>

\* reconcileOne reads the Secret; any kubectl error reads as "not found".
ReadSecret ==
  /\ at = "next"
  /\ \E e \in todo :
       /\ env' = e /\ todo' = todo \ {e}
       /\ \/ Plan(e, secret[e]) /\ UNCHANGED <<faults, misread>>
          \/ /\ ReadErrors /\ secret[e] # NoKey /\ Fault
             /\ Plan(e, NoKey)
             /\ misread' = misread \union {e}
  /\ UNCHANGED <<secret, registry, forwards, client>>

\* Mutant of Seed: a failed apply does not stop the registration.
BugSeed ==
  /\ at = "seed"
  /\ \/ secret' = [secret EXCEPT ![env] = recipient] /\ UNCHANGED faults
     \/ Fault /\ UNCHANGED secret
  /\ at' = "register"
  /\ UNCHANGED <<minted, todo, env, recipient, registry, forwards, client, misread>>

\* seedIdentitySecret: kubectl apply overwrites whatever is there.  An error
\* does not say whether it did.
Seed ==
  /\ at = "seed"
  /\ \/ /\ secret' = [secret EXCEPT ![env] = recipient]
        /\ at' = "register"
        /\ UNCHANGED faults
     \/ /\ Fault
        /\ secret' \in {secret, [secret EXCEPT ![env] = recipient]}
        /\ at' = "next"
  /\ UNCHANGED <<minted, todo, env, recipient, registry, forwards, client, misread>>

\* Mutant of Register: only a recipient that is news is forwarded.
BugRegister(b) ==
  /\ at = "register"
  /\ registry' = [registry EXCEPT ![b][env] = recipient]
  /\ forwards' = IF ~FanOut \/ registry[b][env] = recipient THEN forwards ELSE
       forwards \union [from : {b}, to : Brokers \ {b}, env : {env}, recipient : {recipient}]
  /\ at' = "next"
  /\ UNCHANGED <<secret, minted, todo, env, recipient, client, faults, misread>>

\* HandleRecipientRegister at the replica the Service picked, the client's own
\* registration: set it, and start forwarding it to every peer.
Register(b) ==
  /\ at = "register"
  /\ registry' = [registry EXCEPT ![b][env] = recipient]
  /\ forwards' = IF ~FanOut THEN forwards ELSE forwards \union
       [from : {b}, to : Brokers \ {b}, env : {env}, recipient : {recipient}]
  /\ at' = "next"
  /\ UNCHANGED <<secret, minted, todo, env, recipient, client, faults, misread>>

\* RegisterRecipient fails, or the answer is lost: retried at the next tick.
RegisterFails ==
  /\ at = "register" /\ Fault
  /\ at' = "next"
  /\ UNCHANGED <<secret, minted, todo, env, recipient, registry, forwards, client, misread>>

ControllerCrash ==
  /\ at # "idle" /\ Fault
  /\ at' = "idle" /\ todo' = {} /\ recipient' = NoKey
  /\ UNCHANGED <<secret, minted, env, registry, forwards, client, misread>>

\* HandleRecipientRegister of a forwarded registration: set, and no further.
Forwarded(m) ==
  /\ registry' = [registry EXCEPT ![m.to][m.env] = m.recipient]
  /\ forwards' = forwards \ {m}
  /\ UNCHANGED <<secret, minted, controller, client, faults, misread>>

\* The peer was not resolved, not reached, or answered too late.
ForwardLost(m) ==
  /\ Fault
  /\ forwards' = forwards \ {m}
  /\ UNCHANGED <<secret, minted, controller, registry, client, misread>>

\* A replica restarts empty; what it was forwarding may die with it.
BrokerRestart(b) ==
  /\ Fault
  /\ registry' = [registry EXCEPT ![b] = Nothing]
  /\ \E lost \in SUBSET {m \in forwards : m.from = b} :
       forwards' = {m \in forwards : m.to # b} \ lost
  /\ UNCHANGED <<secret, minted, controller, client, misread>>

\* FetchProjectConfig against a reachable replica: a 200 refreshes the
\* cache; an environment without a recipient is not sealed.
SealOnline(b, e) ==
  /\ cache' = Snapshot(b)
  /\ sealed' = [sealed EXCEPT ![e] = IF Snapshot(b)[e] = NoKey THEN @ ELSE Snapshot(b)[e]]
  /\ UNCHANGED <<secret, minted, controller, registry, forwards, faults, misread>>

\* FetchProjectConfig when no broker answers: whatever the cache says.
SealOffline(e) ==
  /\ cache[e] # NoKey
  /\ sealed' = [sealed EXCEPT ![e] = cache[e]]
  /\ UNCHANGED <<secret, minted, controller, registry, forwards, cache, faults, misread>>

Reconcile == ReconcileAll \/ Tick \/ ReadSecret \/ Seed \/ \E b \in Brokers : Register(b)

Next ==
  \/ Reconcile \/ RegisterFails \/ ControllerCrash
  \/ \E m \in forwards : Forwarded(m) \/ ForwardLost(m)
  \/ \E b \in Brokers : BrokerRestart(b)
  \/ \E e \in Envs : SealOffline(e) \/ \E b \in Brokers : SealOnline(b, e)

Spec == Init /\ [][Next]_vars

\* The controller ticks and finishes its ticks; a forward ends.  Which replica
\* the Service picks is not fair: a kept-alive connection stays with one.
FairSpec ==
  /\ Spec
  /\ WF_vars(Reconcile)
  /\ \A b \in Brokers, e \in Envs :
       WF_vars(\E m \in forwards : m.to = b /\ m.env = e /\ Forwarded(m))

-----------------------------------------------------------------------------
(***************************************************************************)
(* Properties                                                              *)
(***************************************************************************)

\* Every variable keeps its shape.
TypeOK ==
  /\ secret \in [Envs -> Recipient \union {Unreadable}]
  /\ minted \subseteq Keys
  /\ at \in {"idle", "next", "seed", "register"}
  /\ todo \subseteq Envs /\ env \in Envs
  /\ recipient \in Recipient /\ (at \in {"seed", "register"} => recipient \in Keys)
  /\ registry \in [Brokers -> [Envs -> Recipient]]
  /\ forwards \subseteq [from : Brokers, to : Brokers, env : Envs, recipient : Keys]
  /\ cache \in [Envs -> Recipient]
  /\ sealed \in [Envs -> Recipient]
  /\ faults \in 0..MaxFaults
  /\ misread \subseteq Envs

\* Where a recipient of e is remembered outside its cluster.
Held(e) ==
  {registry[b][e] : b \in Brokers} \union {cache[e], sealed[e]}
    \union {m.recipient : m \in {f \in forwards : f.env = e}}

\* Whatever a replica registered, forwards or forgot, and however old the
\* snapshot, an environment is only ever sealed to the key its cluster holds or
\* to the one projects.json gives it; a misread Secret is the only exception.
HeldKeys ==
  \A e \in Envs \ misread : Held(e) \subseteq {NoKey, secret[e], Static[e]}

\* No crash, failed apply, lost answer or retried tick makes the controller
\* replace an identity Secret: that takes a misread of the same Secret.
KeepsIdentity ==
  [][\A e \in Envs \ misread : secret[e] # NoKey => secret'[e] = secret[e]]_vars

\* "an existing key is ADOPTED (never regenerated ...)" (controller.go): no step
\* replaces an identity Secret that is there, readable or not.
AdoptsExisting ==
  [][\A e \in Envs : secret[e] # NoKey => secret'[e] = secret[e]]_vars

\* Restarts, lost forwards and failed calls end: every replica then learns the
\* key of every environment and keeps it, though the registry is never stored.
Learned(e) == \A b \in Brokers : registry[b][e] = secret[e] /\ secret[e] # NoKey

Converges == \A e \in Envs : <>[](secret[e] = Unreadable \/ Learned(e))

-----------------------------------------------------------------------------
(***************************************************************************)
(* The inductive invariant.  A key in hand is the Secret's once it is to   *)
(* be registered; while one is to be seeded there is no Secret, unless it  *)
(* was misread.                                                            *)
(***************************************************************************)

InHand ==
  /\ at = "seed" => secret[env] = NoKey \/ env \in misread
  /\ at = "register" => secret[env] = recipient

\* A replica never has or forwards another key than the cluster's: what projects.json
\* says reaches a client from a snapshot only.
Registered(e) ==
  {registry[b][e] : b \in Brokers} \union {m.recipient : m \in {f \in forwards : f.env = e}}

FromSecret == \A e \in Envs \ misread : Registered(e) \subseteq {NoKey, secret[e]}

\* The safety half of Converges: what every replica has learned only a restart of
\* one can undo, whatever forwards are still under way and whatever is retried.
LearnedStays ==
  [][\A e \in Envs \ misread :
       Learned(e) => Learned(e)' \/ \E b \in Brokers : BrokerRestart(b)]_vars

IInv == TypeOK /\ InHand /\ HeldKeys /\ FromSecret
=============================================================================

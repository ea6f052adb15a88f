-------------------------- MODULE RecipientsProofs --------------------------
(***************************************************************************)
(* For every number of replicas, environments, keys and faults: an         *)
(* environment is only ever sealed to the key of its cluster, or to the    *)
(* one git names, and no identity Secret is ever replaced, unless a failed *)
(* read took that Secret for missing.                                      *)
(***************************************************************************)
EXTENDS Recipients, TLAPS

LEMMA InitTypeOK == Init => TypeOK
<1> SUFFICES ASSUME Init PROVE TypeOK
  OBVIOUS
<1>1. /\ secret \in [Envs -> Recipient \union {Unreadable}] /\ minted \subseteq Keys
      /\ at = "idle" /\ todo \subseteq Envs /\ env \in Envs /\ recipient \in Recipient
  BY DEF Init, Recipient
<1>2. Nothing \in [Envs -> Recipient]
  BY DEF Nothing, Recipient
<1>3. registry \in [Brokers -> [Envs -> Recipient]] /\ cache \in [Envs -> Recipient]
      /\ sealed \in [Envs -> Recipient]
  BY <1>2 DEF Init
<1>4. forwards = {} /\ faults \in 0..MaxFaults /\ misread \subseteq Envs
  BY RecipientsAssumption DEF Init
<1> QED
  BY <1>1, <1>3, <1>4 DEF TypeOK

LEMMA SnapshotType ==
  ASSUME TypeOK, NEW b \in Brokers
  PROVE  Snapshot(b) \in [Envs -> Recipient]
BY RecipientsAssumption DEF TypeOK, Snapshot, Recipient

\* A step of each kind keeps the shape of the state.
LEMMA NextTypeOK == TypeOK /\ [Next]_vars => TypeOK'
<1> SUFFICES ASSUME TypeOK, [Next]_vars PROVE TypeOK'
  OBVIOUS
<1> USE DEF TypeOK
<1>1. CASE ReconcileAll \/ Tick
  BY <1>1 DEF ReconcileAll, Tick, client
<1>2. CASE ReadSecret
  <2>1. PICK e \in todo : env' = e /\ todo' = todo \ {e}
          /\ \/ Plan(e, secret[e]) /\ UNCHANGED <<faults, misread>>
             \/ Fault /\ Plan(e, NoKey) /\ misread' = misread \union {e}
    BY <1>2 DEF ReadSecret
  <2>2. faults' \in 0..MaxFaults /\ misread' \subseteq Envs
    BY <2>1, RecipientsAssumption DEF Fault
  <2>3. /\ recipient' \in Recipient /\ minted' \subseteq Keys
        /\ at' \in {"next", "seed", "register"}
        /\ (at' \in {"seed", "register"} => recipient' \in Keys)
    BY <2>1 DEF Plan, Recipient
  <2> QED
    BY <1>2, <2>1, <2>2, <2>3 DEF ReadSecret, client
<1>3. CASE Seed
  <2>1. faults' \in 0..MaxFaults
    BY <1>3, RecipientsAssumption DEF Seed, Fault
  <2>2. secret' \in [Envs -> Recipient \union {Unreadable}]
    BY <1>3 DEF Seed
  <2> QED
    BY <1>3, <2>1, <2>2 DEF Seed, client
<1>4. ASSUME NEW b \in Brokers, Register(b) PROVE TypeOK'
  <2>1. registry' \in [Brokers -> [Envs -> Recipient]]
    BY <1>4 DEF Register
  <2>2. recipient \in Keys
    BY <1>4 DEF Register
  <2>3. [from : {b}, to : Brokers \ {b}, env : {env}, recipient : {recipient}]
          \subseteq [from : Brokers, to : Brokers, env : Envs, recipient : Keys]
    BY <2>2
  <2>4. forwards' \subseteq [from : Brokers, to : Brokers, env : Envs, recipient : Keys]
    BY <1>4, <2>3 DEF Register
  <2> QED
    BY <1>4, <2>1, <2>2 DEF Register, client
<1>5. CASE RegisterFails \/ ControllerCrash
  BY <1>5, RecipientsAssumption DEF RegisterFails, ControllerCrash, Fault, client, Recipient
<1>6. ASSUME NEW m \in forwards, Forwarded(m) \/ ForwardLost(m) PROVE TypeOK'
  BY <1>6, RecipientsAssumption DEF Forwarded, ForwardLost, Fault, client, controller, Recipient
<1>7. ASSUME NEW b \in Brokers, BrokerRestart(b) PROVE TypeOK'
  <2>1. faults' \in 0..MaxFaults
    BY <1>7, RecipientsAssumption DEF BrokerRestart, Fault
  <2>2. registry' \in [Brokers -> [Envs -> Recipient]]
    BY <1>7 DEF BrokerRestart, Nothing, Recipient
  <2>3. forwards' \subseteq forwards
    BY <1>7 DEF BrokerRestart
  <2> QED
    BY <1>7, <2>1, <2>2, <2>3 DEF BrokerRestart, client, controller
<1>8. ASSUME NEW e \in Envs, SealOffline(e) \/ \E b \in Brokers : SealOnline(b, e)
      PROVE  TypeOK'
  BY <1>8, SnapshotType DEF SealOffline, SealOnline, controller
<1>9. CASE UNCHANGED vars
  BY <1>9 DEF vars, controller, client
<1> QED
  BY <1>1, <1>2, <1>3, <1>4, <1>5, <1>6, <1>7, <1>8, <1>9 DEF Next, Reconcile

\* Every variable keeps its shape.
THEOREM TypeCorrect == Spec => []TypeOK
<1> QED
  BY InitTypeOK, NextTypeOK, PTL DEF Spec

-----------------------------------------------------------------------------

\* HeldKeys, place by place.
LEMMA Places ==
  HeldKeys <=> \A e \in Envs \ misread :
    /\ \A b \in Brokers : registry[b][e] \in {NoKey, secret[e], Static[e]}
    /\ cache[e] \in {NoKey, secret[e], Static[e]}
    /\ sealed[e] \in {NoKey, secret[e], Static[e]}
    /\ \A m \in forwards : m.env = e => m.recipient \in {NoKey, secret[e], Static[e]}
<1>1. ASSUME NEW e \in Envs
      PROVE  Held(e) \subseteq {NoKey, secret[e], Static[e]} <=>
               /\ \A b \in Brokers : registry[b][e] \in {NoKey, secret[e], Static[e]}
               /\ cache[e] \in {NoKey, secret[e], Static[e]}
               /\ sealed[e] \in {NoKey, secret[e], Static[e]}
               /\ \A m \in forwards : m.env = e => m.recipient \in {NoKey, secret[e], Static[e]}
  BY Zenon DEF Held
<1> QED
  BY <1>1, Zenon DEF HeldKeys

LEMMA PlacesPrime ==
  HeldKeys' <=> \A e \in Envs \ misread' :
    /\ \A b \in Brokers : registry'[b][e] \in {NoKey, secret'[e], Static[e]}
    /\ cache'[e] \in {NoKey, secret'[e], Static[e]}
    /\ sealed'[e] \in {NoKey, secret'[e], Static[e]}
    /\ \A m \in forwards' : m.env = e => m.recipient \in {NoKey, secret'[e], Static[e]}
<1>1. ASSUME NEW e \in Envs
      PROVE  Held(e)' \subseteq {NoKey, secret'[e], Static[e]} <=>
               /\ \A b \in Brokers : registry'[b][e] \in {NoKey, secret'[e], Static[e]}
               /\ cache'[e] \in {NoKey, secret'[e], Static[e]}
               /\ sealed'[e] \in {NoKey, secret'[e], Static[e]}
               /\ \A m \in forwards' : m.env = e => m.recipient \in {NoKey, secret'[e], Static[e]}
  BY Zenon DEF Held
<1> QED
  BY <1>1, Zenon DEF HeldKeys

\* FromSecret, place by place.
LEMMA RegisteredPlaces ==
  FromSecret <=> \A e \in Envs \ misread :
    /\ \A b \in Brokers : registry[b][e] \in {NoKey, secret[e]}
    /\ \A m \in forwards : m.env = e => m.recipient \in {NoKey, secret[e]}
<1>1. ASSUME NEW e \in Envs
      PROVE  Registered(e) \subseteq {NoKey, secret[e]} <=>
               /\ \A b \in Brokers : registry[b][e] \in {NoKey, secret[e]}
               /\ \A m \in forwards : m.env = e => m.recipient \in {NoKey, secret[e]}
  BY Zenon DEF Registered
<1> QED
  BY <1>1, Zenon DEF FromSecret

LEMMA RegisteredPlacesPrime ==
  FromSecret' <=> \A e \in Envs \ misread' :
    /\ \A b \in Brokers : registry'[b][e] \in {NoKey, secret'[e]}
    /\ \A m \in forwards' : m.env = e => m.recipient \in {NoKey, secret'[e]}
<1>1. ASSUME NEW e \in Envs
      PROVE  Registered(e)' \subseteq {NoKey, secret'[e]} <=>
               /\ \A b \in Brokers : registry'[b][e] \in {NoKey, secret'[e]}
               /\ \A m \in forwards' : m.env = e => m.recipient \in {NoKey, secret'[e]}
  BY Zenon DEF Registered
<1> QED
  BY <1>1, Zenon DEF FromSecret

LEMMA InitIInv == Init => IInv
<1> SUFFICES ASSUME Init PROVE IInv
  OBVIOUS
<1>1. HeldKeys
  BY Places DEF Init, Nothing
<1>2. FromSecret
  BY RegisteredPlaces DEF Init, Nothing
<1> QED
  BY <1>1, <1>2, InitTypeOK DEF IInv, InHand, Init

\* The steps that may write a Secret: none replaces one that was not misread.
LEMMA NextAdopts ==
  ASSUME IInv, [Next]_vars
  PROVE  \A e \in Envs \ misread : secret[e] # NoKey => secret'[e] = secret[e]
<1>1. CASE Seed
  <2>1. secret[env] = NoKey \/ env \in misread
    BY <1>1 DEF Seed, IInv, InHand
  <2>2. secret' \in {secret, [secret EXCEPT ![env] = recipient]}
    BY <1>1 DEF Seed
  <2> QED
    BY <2>1, <2>2 DEF IInv, TypeOK
<1>2. CASE ~Seed
  <2>1. UNCHANGED secret
    BY <1>2 DEF Next, Reconcile, ReconcileAll, Tick, ReadSecret, Register, RegisterFails,
      ControllerCrash, Forwarded, ForwardLost, BrokerRestart, SealOffline, SealOnline, vars
  <2> QED
    BY <2>1
<1> QED
  BY <1>1, <1>2

LEMMA NextIInv ==
  ASSUME IInv, [Next]_vars
  PROVE  IInv'
<1> USE DEF IInv
<1>t. TypeOK'
  BY NextTypeOK
<1>a. \A e \in Envs \ misread : secret[e] # NoKey => secret'[e] = secret[e]
  BY NextAdopts
<1>m. misread \subseteq misread'
  <2>1. CASE ReadSecret
    BY <2>1 DEF ReadSecret
  <2>2. CASE ~ReadSecret
    BY <2>2 DEF Next, Reconcile, ReconcileAll, Tick, Seed, Register, RegisterFails,
      ControllerCrash, Forwarded, ForwardLost, BrokerRestart, SealOffline, SealOnline, vars
  <2> QED
    BY <2>1, <2>2
<1>i. InHand'
  <2>1. CASE ReadSecret
    <3>1. PICK e \in todo : /\ env' = e /\ UNCHANGED secret
                            /\ Plan(e, secret[e]) \/ (Plan(e, NoKey) /\ e \in misread')
      BY <2>1 DEF ReadSecret
    <3> QED
      BY <3>1, RecipientsAssumption DEF Plan, InHand
  <2>2. CASE Seed
    BY <2>2 DEF Seed, InHand, TypeOK
  <2>3. CASE ReconcileAll \/ Tick \/ RegisterFails \/ ControllerCrash
             \/ \E b \in Brokers : Register(b)
    BY <2>3 DEF ReconcileAll, Tick, RegisterFails, ControllerCrash, Register, InHand
  <2>4. CASE UNCHANGED <<secret, controller, misread>>
    BY <2>4 DEF InHand, controller
  <2> QED
    BY <2>1, <2>2, <2>3, <2>4 DEF Next, Reconcile, Forwarded, ForwardLost, BrokerRestart,
      SealOffline, SealOnline, vars
<1>h. HeldKeys'
  <2>1. CASE UNCHANGED <<registry, forwards, client>>
    BY <2>1, <1>a, <1>m, Places, PlacesPrime DEF client
  <2>2. ASSUME NEW b \in Brokers, Register(b) PROVE HeldKeys'
    <3>1. recipient = secret[env] /\ env \in Envs /\ UNCHANGED <<secret, client, misread>>
      BY <2>2 DEF Register, InHand, TypeOK
    <3>2. \A c \in Brokers, e \in Envs :
            registry'[c][e] = registry[c][e] \/ (e = env /\ registry'[c][e] = recipient)
      BY <2>2, <3>1 DEF Register, TypeOK
    <3>3. \A m \in forwards' : m \in forwards \/ (m.env = env /\ m.recipient = recipient)
      BY <2>2 DEF Register
    <3> QED
      BY <3>1, <3>2, <3>3, Places, PlacesPrime DEF client
  <2>3. ASSUME NEW m \in forwards, Forwarded(m) PROVE HeldKeys'
    <3>1. UNCHANGED <<secret, client, misread>> /\ forwards' \subseteq forwards
      BY <2>3 DEF Forwarded
    <3>2. \A c \in Brokers, e \in Envs :
            registry'[c][e] = registry[c][e] \/ (e = m.env /\ registry'[c][e] = m.recipient)
      BY <2>3 DEF Forwarded, TypeOK
    <3> QED
      BY <3>1, <3>2, Places, PlacesPrime DEF client
  <2>4. ASSUME NEW m \in forwards, ForwardLost(m) PROVE HeldKeys'
    BY <2>4, Places, PlacesPrime DEF ForwardLost, client
  <2>5. ASSUME NEW b \in Brokers, BrokerRestart(b) PROVE HeldKeys'
    <3>1. UNCHANGED <<secret, client, misread>> /\ forwards' \subseteq forwards
      BY <2>5 DEF BrokerRestart
    <3>2. \A c \in Brokers, e \in Envs : registry'[c][e] \in {registry[c][e], NoKey}
      BY <2>5 DEF BrokerRestart, TypeOK, Nothing
    <3> QED
      BY <3>1, <3>2, Places, PlacesPrime DEF client
  <2>6. ASSUME NEW e \in Envs, NEW b \in Brokers, SealOnline(b, e) PROVE HeldKeys'
    <3>1. \A d \in Envs : Snapshot(b)[d] \in {registry[b][d], Static[d]}
      BY DEF Snapshot
    <3>2. UNCHANGED <<secret, registry, forwards, misread>> /\ cache' = Snapshot(b)
      BY <2>6 DEF SealOnline
    <3>3. \A d \in Envs : sealed'[d] = sealed[d] \/ (sealed'[d] = Snapshot(b)[d])
      BY <2>6 DEF SealOnline, TypeOK
    <3> QED
      BY <3>1, <3>2, <3>3, Places, PlacesPrime
  <2>7. ASSUME NEW e \in Envs, SealOffline(e) PROVE HeldKeys'
    <3>1. UNCHANGED <<secret, registry, forwards, cache, misread>>
      BY <2>7 DEF SealOffline
    <3>2. \A d \in Envs : sealed'[d] \in {sealed[d], cache[d]}
      BY <2>7 DEF SealOffline, TypeOK
    <3> QED
      BY <3>1, <3>2, Places, PlacesPrime
  <2> QED
    BY <2>1, <2>2, <2>3, <2>4, <2>5, <2>6, <2>7 DEF Next, Reconcile, ReconcileAll, Tick,
      ReadSecret, Seed, RegisterFails, ControllerCrash, vars, client
<1>r. FromSecret'
  <2>1. CASE UNCHANGED <<registry, forwards>>
    BY <2>1, <1>a, <1>m, RegisteredPlaces, RegisteredPlacesPrime
  <2>2. ASSUME NEW b \in Brokers, Register(b) PROVE FromSecret'
    <3>1. recipient = secret[env] /\ UNCHANGED <<secret, misread>>
      BY <2>2 DEF Register, InHand
    <3>2. \A c \in Brokers, e \in Envs :
            registry'[c][e] = registry[c][e] \/ (e = env /\ registry'[c][e] = recipient)
      BY <2>2 DEF Register, TypeOK
    <3>3. \A m \in forwards' : m \in forwards \/ (m.env = env /\ m.recipient = recipient)
      BY <2>2 DEF Register
    <3> QED
      BY <3>1, <3>2, <3>3, RegisteredPlaces, RegisteredPlacesPrime
  <2>3. ASSUME NEW m \in forwards, Forwarded(m) PROVE FromSecret'
    <3>1. UNCHANGED <<secret, misread>> /\ forwards' \subseteq forwards
      BY <2>3 DEF Forwarded
    <3>2. \A c \in Brokers, e \in Envs :
            registry'[c][e] = registry[c][e] \/ (e = m.env /\ registry'[c][e] = m.recipient)
      BY <2>3 DEF Forwarded, TypeOK
    <3> QED
      BY <3>1, <3>2, RegisteredPlaces, RegisteredPlacesPrime
  <2>4. ASSUME NEW m \in forwards, ForwardLost(m) PROVE FromSecret'
    BY <2>4, RegisteredPlaces, RegisteredPlacesPrime DEF ForwardLost
  <2>5. ASSUME NEW b \in Brokers, BrokerRestart(b) PROVE FromSecret'
    <3>1. UNCHANGED <<secret, misread>> /\ forwards' \subseteq forwards
      BY <2>5 DEF BrokerRestart
    <3>2. \A c \in Brokers, e \in Envs : registry'[c][e] \in {registry[c][e], NoKey}
      BY <2>5 DEF BrokerRestart, TypeOK, Nothing
    <3> QED
      BY <3>1, <3>2, RegisteredPlaces, RegisteredPlacesPrime
  <2> QED
    BY <2>1, <2>2, <2>3, <2>4, <2>5 DEF Next, Reconcile, ReconcileAll, Tick,
      ReadSecret, Seed, RegisterFails, ControllerCrash, SealOnline, SealOffline, vars
<1> QED
  BY <1>t, <1>i, <1>h, <1>r

\* The inductive invariant, whatever git and the controllers say.
THEOREM InductiveInvariant == Spec => []IInv
<1>1. IInv /\ [Next]_vars => IInv'
  BY NextIInv
<1> QED
  BY <1>1, InitIInv, PTL DEF Spec

\* Whatever a replica registered, forwards or forgot, and however old the
\* client's snapshot: an environment whose Secret was never misread is only
\* sealed to its cluster's key, or to the one projects.json gives it.
THEOREM SealedToTheClustersKey == Spec => []HeldKeys
<1>1. IInv => HeldKeys
  BY DEF IInv
<1> QED
  BY <1>1, InductiveInvariant, PTL

\* The controller never replaces an identity Secret it did not misread.
THEOREM KeysAreAdopted == Spec => KeepsIdentity
<1>1. IInv /\ [Next]_vars
        => [\A e \in Envs \ misread : secret[e] # NoKey => secret'[e] = secret[e]]_vars
  BY NextAdopts
<1> QED
  BY <1>1, InductiveInvariant, PTL DEF Spec, KeepsIdentity

-----------------------------------------------------------------------------

\* A replica has, and forwards, no other key for an environment than the one in
\* its cluster: the static recipient of projects.json never enters a registry.
THEOREM RegistryIsTheClusters == Spec => []FromSecret
<1>1. IInv => FromSecret
  BY DEF IInv
<1> QED
  BY <1>1, InductiveInvariant, PTL

\* A step that restarts no replica: what it writes to a registry that has the
\* cluster's key is that key again, be it a retry or a late forward.
LEMMA LearnedStep ==
  ASSUME IInv, [Next]_vars, NEW e \in Envs \ misread, Learned(e),
         ~ \E b \in Brokers : BrokerRestart(b)
  PROVE  Learned(e)'
<1> USE DEF IInv
<1>1. (secret'[e] = secret[e] /\ secret[e] # NoKey) \/ Brokers = {}
  BY NextAdopts DEF Learned
<1>2. ASSUME NEW c \in Brokers PROVE registry'[c][e] = secret[e] /\ secret[e] # NoKey
  <2>0. registry[c][e] = secret[e] /\ secret[e] # NoKey
    BY DEF Learned
  <2>1. CASE UNCHANGED registry
    BY <2>0, <2>1
  <2>2. ASSUME NEW b \in Brokers, Register(b) PROVE registry'[c][e] = secret[e]
    <3>1. recipient = secret[env]
      BY <2>2 DEF Register, InHand
    <3>2. registry'[c][e] = registry[c][e] \/ (e = env /\ registry'[c][e] = recipient)
      BY <2>2 DEF Register, TypeOK
    <3> QED
      BY <2>0, <3>1, <3>2
  <2>3. ASSUME NEW m \in forwards, Forwarded(m) PROVE registry'[c][e] = secret[e]
    <3>1. registry'[c][e] = registry[c][e] \/ (e = m.env /\ registry'[c][e] = m.recipient)
      BY <2>3 DEF Forwarded, TypeOK
    <3>2. m.recipient # NoKey
      BY RecipientsAssumption DEF TypeOK
    <3>3. m.env = e => m.recipient = secret[e]
      BY <3>2, RegisteredPlaces
    <3> QED
      BY <2>0, <3>1, <3>3
  <2> QED
    BY <2>0, <2>1, <2>2, <2>3 DEF Next, Reconcile, ReconcileAll, Tick, ReadSecret, Seed,
      RegisterFails, ControllerCrash, ForwardLost, SealOnline, SealOffline, vars
<1> QED
  BY <1>1, <1>2 DEF Learned

\* What every replica has learned only a restart of one of them can undo: the
\* safety half of Converges, for any number of replicas and any faults.
THEOREM LearnedIsStable == Spec => LearnedStays
<1>1. IInv /\ [Next]_vars
        => [\A e \in Envs \ misread :
              Learned(e) => Learned(e)' \/ \E b \in Brokers : BrokerRestart(b)]_vars
  BY LearnedStep
<1> QED
  BY <1>1, InductiveInvariant, PTL DEF Spec, LearnedStays
=============================================================================

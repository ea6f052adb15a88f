----------------------------- MODULE Challenge ------------------------------
(***************************************************************************)
(* The SSH challenge nonces of the replicated broker                       *)
(* (internal/broker/challenge.go).  Every replica keeps its own map of     *)
(* issued, unconsumed nonces; a request that presents a nonce to a replica *)
(* other than its issuer is answered by asking the peers one after the     *)
(* other, over calls that can be delayed, lost, or answered too late.      *)
(*                                                                         *)
(* A request here is one run of consumeNonce, from the arrival of an SSH   *)
(* unseal at a replica to the boolean that authViaSSH acts on.             *)
(***************************************************************************)
EXTENDS Integers, FiniteSets

CONSTANTS
  Brokers,     \* replicas behind the Service
  Nonces,      \* values rand.Read can draw; 32 random bytes never repeat
  Requests,    \* unseal requests that present a nonce (retries are others)
  NoPeer,      \* "not waiting for any peer"
  MaxNonces,   \* maxNonces: the cap on one replica's outstanding nonces
  TTL,         \* NewChallengeStore(ttl)
  MaxTime      \* bound of the model: the clock stops here

ASSUME ChallengeAssumption ==
  /\ NoPeer \notin Brokers
  /\ MaxNonces \in Nat \ {0}
  /\ TTL \in Nat
  /\ MaxTime \in Nat

VARIABLES
  now,         \* clock; expiries are only compared on the replica that set them
  store,       \* store[b][n]: expiry of n in replica b's ChallengeStore.n
  pc,          \* where each request's handler is
  home,        \* the replica the Service routed the request to
  nonce,       \* the nonce it presents
  todo,        \* peers of the DNS answer it has not asked yet
  wait,        \* the peer whose answer it is blocked on
  call,        \* call[r][b]: state of r's consumption attempt at b
  issuedAt,    \* history: when a nonce was issued
  redeemedAt,  \* history: when a request's consumption succeeded
  wiped,       \* history: nonces lost with a replica's memory
  lossy        \* history: requests that missed a peer's answer

reqVars  == <<pc, home, nonce, todo, wait, call>>
histVars == <<issuedAt, redeemedAt, wiped, lossy>>
vars     == <<now, store, reqVars, histVars>>

Absent == -1

Held(b)     == {n \in Nonces : store[b][n] # Absent}
Stale(b, n) == now > store[b][n]
\* Mutant of Valid: the expiry is not looked at.
BugValid(b, n) == store[b][n] # Absent
Valid(b, n) == store[b][n] # Absent /\ ~Stale(b, n)

Redeemed(r) == \E b \in Brokers : call[r][b] = "ok"
Finished    == {"granted", "denied", "lost"}

-----------------------------------------------------------------------------

Init ==
  /\ now = 0
  /\ store = [b \in Brokers |-> [n \in Nonces |-> Absent]]
  /\ pc = [r \in Requests |-> "new"]
  /\ home \in [Requests -> Brokers]
  /\ nonce \in [Requests -> Nonces]
  /\ todo = [r \in Requests |-> {}]
  /\ wait = [r \in Requests |-> NoPeer]
  /\ call = [r \in Requests |-> [b \in Brokers |-> "none"]]
  /\ issuedAt = [n \in Nonces |-> Absent]
  /\ redeemedAt = [r \in Requests |-> Absent]
  /\ wiped = {}
  /\ lossy = {}

Tick ==
  /\ now < MaxTime
  /\ now' = now + 1
  /\ UNCHANGED <<store, reqVars, histVars>>

\* Mutant of Swept: a nonce is swept in the last instant of its life.
BugSwept(b) ==
  IF Cardinality(Held(b)) < MaxNonces
  THEN store[b]
  ELSE [n \in Nonces |-> IF now >= store[b][n] THEN Absent ELSE store[b][n]]

\* What Issue works on: at the cap, the store without its expired nonces.
Swept(b) ==
  IF Cardinality(Held(b)) < MaxNonces
  THEN store[b]
  ELSE [n \in Nonces |-> IF Stale(b, n) THEN Absent ELSE store[b][n]]

\* Mutant of HasRoom: one nonce too many.
BugHasRoom(s) == Cardinality({n \in Nonces : s[n] # Absent}) <= MaxNonces

\* Room is left after the sweep; without it the caller is answered 429 and
\* nothing changes (a full store from which nothing was swept).
HasRoom(s) == Cardinality({n \in Nonces : s[n] # Absent}) < MaxNonces

\* POST /v1/challenge at b draws the fresh nonce n.
Issue(b, n) ==
  /\ issuedAt[n] = Absent
  /\ HasRoom(Swept(b))
  /\ store' = [store EXCEPT ![b] = [Swept(b) EXCEPT ![n] = now + TTL]]
  /\ issuedAt' = [issuedAt EXCEPT ![n] = now]
  /\ UNCHANGED <<now, reqVars, redeemedAt, wiped, lossy>>

\* A client that was handed the nonce presents it.
Submit(r) ==
  /\ pc[r] = "new"
  /\ issuedAt[nonce[r]] # Absent
  /\ pc' = [pc EXCEPT ![r] = "local"]
  /\ UNCHANGED <<now, store, home, nonce, todo, wait, call, histVars>>

\* Mutant of ConsumeAt: a nonce that is still good is left in the store.
BugConsumeAt(r, b) ==
  LET n == nonce[r] IN
  /\ store' = [store EXCEPT ![b][n] = IF Valid(b, n) THEN @ ELSE Absent]
  /\ call' = [call EXCEPT ![r][b] = IF Valid(b, n) THEN "ok" ELSE "refused"]
  /\ redeemedAt' = [redeemedAt EXCEPT ![r] = IF Valid(b, n) THEN now ELSE @]

\* ChallengeStore.Consume at b for r, under the store mutex: the nonce goes
\* whatever the answer, and the answer is whether it was there unexpired.
ConsumeAt(r, b) ==
  LET n == nonce[r] IN
  /\ store' = [store EXCEPT ![b][n] = Absent]
  /\ call' = [call EXCEPT ![r][b] = IF Valid(b, n) THEN "ok" ELSE "refused"]
  /\ redeemedAt' = [redeemedAt EXCEPT ![r] = IF Valid(b, n) THEN now ELSE @]

\* consumeNonce first tries its own store; on a miss it resolves the peers.
\* The DNS answer can lack replicas, or be empty (the lookup failed, peer
\* discovery or the register token is not configured).
ConsumeLocal(r) ==
  /\ pc[r] = "local"
  /\ ConsumeAt(r, home[r])
  /\ IF Valid(home[r], nonce[r])
     THEN /\ pc' = [pc EXCEPT ![r] = "granted"]
          /\ UNCHANGED <<todo, lossy>>
     ELSE /\ pc' = [pc EXCEPT ![r] = "peers"]
          /\ \E peers \in SUBSET (Brokers \ {home[r]}) :
               /\ todo' = [todo EXCEPT ![r] = peers]
               /\ lossy' = IF peers = Brokers \ {home[r]}
                           THEN lossy ELSE lossy \union {r}
  /\ UNCHANGED <<now, home, nonce, wait, issuedAt, wiped>>

\* POST /v1/challenge/consume to the next peer, in the DNS answer's order.
AskPeer(r, p) ==
  /\ pc[r] = "peers" /\ wait[r] = NoPeer
  /\ p \in todo[r]
  /\ todo' = [todo EXCEPT ![r] = @ \ {p}]
  /\ wait' = [wait EXCEPT ![r] = p]
  /\ call' = [call EXCEPT ![r][p] = "sent"]
  /\ UNCHANGED <<now, store, pc, home, nonce, histVars>>

\* The peer serves the call from its own store and never fans out; it does
\* so however late the call arrives, the caller waiting or not.
HandleChallengeConsume(r, p) ==
  /\ call[r][p] = "sent"
  /\ ConsumeAt(r, p)
  /\ UNCHANGED <<now, pc, home, nonce, todo, wait, issuedAt, wiped, lossy>>

\* Mutant of PeerAnswer: any answer counts as success, a 409 too.
BugPeerAnswer(r) ==
  /\ pc[r] = "peers" /\ wait[r] # NoPeer
  /\ call[r][wait[r]] \in {"ok", "refused"}
  /\ pc' = [pc EXCEPT ![r] = "granted"]
  /\ wait' = [wait EXCEPT ![r] = NoPeer]
  /\ UNCHANGED <<now, store, home, nonce, todo, call, histVars>>

\* The answer arrives in time: 200 ends the search, anything else moves on.
PeerAnswer(r) ==
  /\ pc[r] = "peers" /\ wait[r] # NoPeer
  /\ call[r][wait[r]] \in {"ok", "refused"}
  /\ pc' = [pc EXCEPT ![r] = IF call[r][wait[r]] = "ok" THEN "granted" ELSE @]
  /\ wait' = [wait EXCEPT ![r] = NoPeer]
  /\ UNCHANGED <<now, store, home, nonce, todo, call, histVars>>

\* Mutant of PeerTimeout: no deadline; a peer is waited for until it answers.
BugPeerTimeout(r) ==
  /\ pc[r] = "peers" /\ wait[r] # NoPeer
  /\ call[r][wait[r]] # "sent"
  /\ wait' = [wait EXCEPT ![r] = NoPeer]
  /\ lossy' = lossy \union {r}
  /\ UNCHANGED <<now, store, pc, home, nonce, todo, call, issuedAt, redeemedAt, wiped>>

\* The 3 s deadline, or a connection failure, before or after the peer served.
PeerTimeout(r) ==
  /\ pc[r] = "peers" /\ wait[r] # NoPeer
  /\ wait' = [wait EXCEPT ![r] = NoPeer]
  /\ lossy' = lossy \union {r}
  /\ UNCHANGED <<now, store, pc, home, nonce, todo, call, issuedAt, redeemedAt, wiped>>

\* Mutant of Deny: the first refusal ends the search.
BugDeny(r) ==
  /\ pc[r] = "peers" /\ wait[r] = NoPeer
  /\ pc' = [pc EXCEPT ![r] = "denied"]
  /\ UNCHANGED <<now, store, home, nonce, todo, wait, call, histVars>>

\* No peer is left to ask: the nonce is unknown, expired or already used.
Deny(r) ==
  /\ pc[r] = "peers" /\ wait[r] = NoPeer
  /\ todo[r] = {}
  /\ pc' = [pc EXCEPT ![r] = "denied"]
  /\ UNCHANGED <<now, store, home, nonce, todo, wait, call, histVars>>

\* A replica stops and a fresh one takes its place: its nonces and the
\* requests it was serving are gone.
Restart(b) ==
  /\ store' = [store EXCEPT ![b] = [n \in Nonces |-> Absent]]
  /\ wiped' = wiped \union Held(b)
  /\ pc' = [r \in Requests |-> IF home[r] = b /\ pc[r] \in {"local", "peers"}
                               THEN "lost" ELSE pc[r]]
  /\ UNCHANGED <<now, home, nonce, todo, wait, call, issuedAt, redeemedAt, lossy>>

Handle(r) ==
  \/ ConsumeLocal(r)
  \/ \E p \in Brokers : AskPeer(r, p)
  \/ PeerAnswer(r)
  \/ PeerTimeout(r)
  \/ Deny(r)

Next ==
  \/ Tick
  \/ \E b \in Brokers, n \in Nonces : Issue(b, n)
  \/ \E r \in Requests : Submit(r)
  \/ \E r \in Requests : Handle(r)
  \/ \E r \in Requests, p \in Brokers : HandleChallengeConsume(r, p)
  \/ \E b \in Brokers : Restart(b)

Spec == Init /\ [][Next]_vars

\* The handler goroutine of a request runs, and its timer fires; nothing is
\* assumed of the peers, the clients, the clock or the absence of restarts.
FairSpec == Spec /\ \A r \in Requests : WF_vars(Handle(r))

-----------------------------------------------------------------------------
(***************************************************************************)
(* Properties                                                              *)
(***************************************************************************)

\* Every variable keeps its shape.
TypeOK ==
  /\ now \in Nat
  /\ store \in [Brokers -> [Nonces -> Nat \union {Absent}]]
  /\ pc \in [Requests -> {"new", "local", "peers"} \union Finished]
  /\ home \in [Requests -> Brokers]
  /\ nonce \in [Requests -> Nonces]
  /\ todo \in [Requests -> SUBSET Brokers]
  /\ wait \in [Requests -> Brokers \union {NoPeer}]
  /\ call \in [Requests -> [Brokers -> {"none", "sent", "ok", "refused"}]]
  /\ issuedAt \in [Nonces -> Nat \union {Absent}]
  /\ redeemedAt \in [Requests -> Nat \union {Absent}]
  /\ wiped \subseteq Nonces
  /\ lossy \subseteq Requests

\* No replay: over all replicas, retries, late peer calls and restarts, two
\* requests are never both granted on one nonce (consumeNonce, "single-use
\* holds because the nonce lives on exactly one replica").
SingleUse ==
  \A r, s \in Requests :
    pc[r] = "granted" /\ pc[s] = "granted" /\ nonce[r] = nonce[s] => r = s

\* A nonce was redeemed within TTL of being issued, on whichever replica and
\* however long the peer call that redeemed it was under way.
RedeemedInTime ==
  \A r \in Requests :
    redeemedAt[r] # Absent =>
      redeemedAt[r] \in issuedAt[nonce[r]] .. issuedAt[nonce[r]] + TTL

\* Flood protection: no replica ever holds more than maxNonces nonces.
CapacityBound == \A b \in Brokers : Cardinality(Held(b)) <= MaxNonces

\* A nonce nobody can redeem any more: used, expired, or lost with its replica.
Spent(n) ==
  \/ \E r \in Requests : nonce[r] = n /\ Redeemed(r)
  \/ now > issuedAt[n] + TTL
  \/ n \in wiped

\* A refusal has a cause the client can understand: the nonce was redeemed
\* (by another request, or by this one with the answer lost), it expired,
\* its issuer restarted, or a peer could not be asked.  In particular a good
\* nonce presented to a replica that did not issue it is accepted.
DeniedForCause ==
  \A r \in Requests : pc[r] = "denied" => Spent(nonce[r]) \/ r \in lossy

\* A nonce leaves a store before its expiry only by being redeemed or by a
\* restart: the sweep that makes room for a new nonce never evicts a live one.
NoLiveEviction ==
  [][\A b \in Brokers, n \in Nonces :
       Valid(b, n) /\ store'[b][n] = Absent =>
         \/ n \in wiped'
         \/ \E r \in Requests : nonce[r] = n /\ call'[r][b] = "ok"]_vars

\* Peers that hang, die or answer late never hang the caller: a presented
\* nonce is granted or refused, unless the caller's replica itself restarts.
Answered == \A r \in Requests : pc[r] = "local" ~> pc[r] \in Finished

\* The replicas together, seen as NonceToken sees them.
Issued   == {n \in Nonces : issuedAt[n] # Absent}
Live     == {n \in Nonces : \E b \in Brokers : Valid(b, n)}
Redeems  == {<<nonce[r], r>> : r \in {s \in Requests : Redeemed(s)}}
Accepted == {r \in Requests : pc[r] = "granted"}

Token == INSTANCE NonceToken WITH
  issued <- Issued, live <- Live, redeemed <- Redeems, accepted <- Accepted

\* The promise of NonceToken, kept across replicas, peer calls and restarts.

ImplementsToken == Token!Spec

-----------------------------------------------------------------------------
(***************************************************************************)
(* The inductive invariant                                                 *)
(***************************************************************************)

\* A nonce is held by one replica at most, and only after it was issued.
OneHolder ==
  \A n \in Nonces, b, c \in Brokers :
    store[b][n] # Absent =>
      /\ issuedAt[n] # Absent
      /\ store[c][n] # Absent => b = c

\* A redeemed nonce is held nowhere, so nobody can redeem it again.
RedeemedIsGone ==
  \A r \in Requests, b \in Brokers :
    Redeemed(r) => /\ issuedAt[nonce[r]] # Absent
                   /\ store[b][nonce[r]] = Absent

\* At most one request redeems a nonce, and only a redeemer is granted.
OneRedeemer ==
  /\ \A r, s \in Requests :
       Redeemed(r) /\ Redeemed(s) /\ nonce[r] = nonce[s] => r = s
  /\ \A r \in Requests : pc[r] = "granted" => Redeemed(r)

\* A request is known to the handlers only after its nonce was issued.
SubmittedIsIssued ==
  \A r \in Requests :
    (pc[r] # "new" \/ \E b \in Brokers : call[r][b] # "none")
      => issuedAt[nonce[r]] # Absent

\* A replica is consulted once per request, and a peer still to be asked has
\* given no answer that asking again could overwrite.
AskedOnce ==
  \A r \in Requests :
    /\ pc[r] \in {"new", "local"} => \A b \in Brokers : call[r][b] = "none"
    /\ \A p \in todo[r] : pc[r] \in {"peers", "lost"} => call[r][p] = "none"

\* Who holds, redeems and asks.
Ownership == /\ TypeOK
             /\ OneHolder
             /\ RedeemedIsGone
             /\ OneRedeemer
             /\ SubmittedIsIssued
             /\ AskedOnce

\* Times are those of the issue: a held nonce expires TTL after it.
Timely ==
  /\ \A n \in Nonces : issuedAt[n] <= now
  /\ \A b \in Brokers, n \in Nonces :
       store[b][n] # Absent => issuedAt[n] # Absent /\ store[b][n] = issuedAt[n] + TTL
  /\ \A r \in Requests : redeemedAt[r] # Absent => issuedAt[nonce[r]] # Absent

\* An issued nonce is held somewhere, or it is known what became of it.
Fate ==
  \A n \in Nonces : issuedAt[n] # Absent =>
    Spent(n) \/ \E b \in Brokers : store[b][n] # Absent

\* A replica a request has been to does not hold its nonce; the others it has
\* still to ask, or is asking.
Searched ==
  \A r \in Requests : pc[r] = "peers" =>
    \/ r \in lossy
    \/ \A b \in Brokers :
         \/ b \in todo[r]
         \/ b = wait[r] /\ call[r][b] = "sent"
         \/ store[b][nonce[r]] = Absent

\* Cardinality means what it says only of finite sets.
Bounded == CapacityBound /\ \A b \in Brokers : IsFiniteSet(Held(b))

Causes == /\ Timely
          /\ RedeemedInTime
          /\ Fate
          /\ Searched
          /\ DeniedForCause
          /\ Bounded

IInv == Ownership /\ Causes
=============================================================================

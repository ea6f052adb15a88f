----------------------------- MODULE NonceToken -----------------------------
(***************************************************************************)
(* What the broker promises about SSH challenge nonces, seen from outside, *)
(* with no replicas, stores, peers or clocks: a nonce is issued once, and  *)
(* while it is live at most one request may redeem it; only a request that *)
(* redeemed its nonce is ever accepted.  A live nonce may also stop being  *)
(* live without having been redeemed (it expired, or the process that held *)
(* it stopped).                                                            *)
(***************************************************************************)
CONSTANTS
  Nonces,      \* values a replica may draw at random
  Requests     \* authentication attempts

VARIABLES
  issued,      \* nonces handed out so far
  live,        \* nonces that a request could still redeem
  redeemed,    \* pairs <<nonce, request>>: who redeemed what
  accepted     \* requests that were told their nonce is good

vars == <<issued, live, redeemed, accepted>>

Init ==
  /\ issued = {}
  /\ live = {}
  /\ redeemed = {}
  /\ accepted = {}

Issue(n) ==
  /\ n \notin issued
  /\ issued' = issued \union {n}
  /\ live' = live \union {n}
  /\ UNCHANGED <<redeemed, accepted>>

\* Nonces expire, or are lost, without being redeemed.
Void(S) ==
  /\ S \subseteq live
  /\ live' = live \ S
  /\ UNCHANGED <<issued, redeemed, accepted>>

\* The redeeming request may learn of it at once, later, or never.
Redeem(n, r) ==
  /\ n \in live
  /\ live' = live \ {n}
  /\ redeemed' = redeemed \union {<<n, r>>}
  /\ accepted' \in {accepted, accepted \union {r}}
  /\ UNCHANGED issued

Accept(r) ==
  /\ \E n \in Nonces : <<n, r>> \in redeemed
  /\ accepted' = accepted \union {r}
  /\ UNCHANGED <<issued, live, redeemed>>

Next ==
  \/ \E n \in Nonces : Issue(n)
  \/ \E S \in SUBSET Nonces : Void(S)
  \/ \E n \in Nonces, r \in Requests : Redeem(n, r)
  \/ \E r \in Requests : Accept(r)

Spec == Init /\ [][Next]_vars
=============================================================================

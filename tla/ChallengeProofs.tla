--------------------------- MODULE ChallengeProofs --------------------------
(***************************************************************************)
(* Proofs about Challenge, for any number of replicas, nonces and requests *)
(* and any TTL: type correctness, the single use of a nonce, that the      *)
(* replicas together implement NonceToken, that redemptions are in time    *)
(* and refusals have a cause, and that a store keeps its cap and its live  *)
(* nonces.                                                                 *)
(***************************************************************************)
EXTENDS Challenge, FiniteSetTheorems, TLAPS

\* Every step keeps the shape of the variables (ChallengeStore's map and the
\* handlers' local state).
LEMMA TypeStep == TypeOK /\ [Next]_vars => TypeOK'
<1> SUFFICES ASSUME TypeOK, [Next]_vars PROVE TypeOK'
  OBVIOUS
<1> USE ChallengeAssumption DEF TypeOK, Finished, Absent
<1>1. CASE Tick
  BY <1>1 DEF Tick, reqVars, histVars
<1>2. ASSUME NEW b \in Brokers, NEW n \in Nonces, Issue(b, n) PROVE TypeOK'
  <2>1. Swept(b) \in [Nonces -> Nat \union {-1}]
    BY DEF Swept
  <2>2. store' \in [Brokers -> [Nonces -> Nat \union {-1}]]
    <3>1. now + TTL \in Nat \union {-1}
      OBVIOUS
    <3>2. [Swept(b) EXCEPT ![n] = now + TTL] \in [Nonces -> Nat \union {-1}]
      BY <2>1, <3>1
    <3>3. store' = [store EXCEPT ![b] = [Swept(b) EXCEPT ![n] = now + TTL]]
      BY <1>2 DEF Issue
    <3> QED
      BY <3>2, <3>3
  <2> QED
    BY <1>2, <2>2 DEF Issue, reqVars
<1>3. ASSUME NEW r \in Requests, Submit(r) PROVE TypeOK'
  BY <1>3 DEF Submit, histVars
<1>4. ASSUME NEW r \in Requests, ConsumeLocal(r) PROVE TypeOK'
  <2>1. lossy' \subseteq Requests /\ todo' \in [Requests -> SUBSET Brokers]
    <3>1. CASE Valid(home[r], nonce[r])
      BY <1>4, <3>1 DEF ConsumeLocal
    <3>2. CASE ~Valid(home[r], nonce[r])
      <4>1. PICK peers \in SUBSET (Brokers \ {home[r]}) :
              /\ todo' = [todo EXCEPT ![r] = peers]
              /\ lossy' \in {lossy, lossy \union {r}}
        BY <1>4, <3>2 DEF ConsumeLocal
      <4> QED
        BY <4>1
    <3> QED
      BY <3>1, <3>2
  <2>2. pc' \in [Requests -> {"new", "local", "peers"} \union Finished]
    BY <1>4 DEF ConsumeLocal
  <2> QED
    BY <1>4, <2>1, <2>2 DEF ConsumeLocal, ConsumeAt
<1>5. ASSUME NEW r \in Requests, NEW p \in Brokers, AskPeer(r, p) PROVE TypeOK'
  BY <1>5 DEF AskPeer, histVars
<1>6. ASSUME NEW r \in Requests, PeerAnswer(r) PROVE TypeOK'
  BY <1>6 DEF PeerAnswer, histVars
<1>7. ASSUME NEW r \in Requests, PeerTimeout(r) PROVE TypeOK'
  BY <1>7 DEF PeerTimeout
<1>8. ASSUME NEW r \in Requests, Deny(r) PROVE TypeOK'
  BY <1>8 DEF Deny, histVars
<1>9. ASSUME NEW r \in Requests, NEW p \in Brokers, HandleChallengeConsume(r, p)
      PROVE TypeOK'
  BY <1>9 DEF HandleChallengeConsume, ConsumeAt
<1>10. ASSUME NEW b \in Brokers, Restart(b) PROVE TypeOK'
  BY <1>10 DEF Restart, Held
<1>11. CASE UNCHANGED vars
  BY <1>11 DEF vars, reqVars, histVars
<1> QED
  BY <1>1, <1>2, <1>3, <1>4, <1>5, <1>6, <1>7, <1>8, <1>9, <1>10, <1>11
     DEF Next, Handle

\* Type correctness of the nonce stores and of every handler's state.
THEOREM TypeCorrect == Spec => []TypeOK
<1>1. Init => TypeOK
  BY ChallengeAssumption DEF Init, TypeOK, Finished, Absent
<1> QED
  BY <1>1, TypeStep, PTL DEF Spec

-----------------------------------------------------------------------------

\* One consumption, local or for a peer, keeps a nonce with a single holder
\* and a single redeemer: where it was held there was no redeemer yet, and
\* afterwards it is held nowhere.
LEMMA ConsumeKeeps ==
  ASSUME Ownership, NEW r \in Requests, NEW b \in Brokers,
         ConsumeAt(r, b), UNCHANGED <<now, nonce, issuedAt>>,
         call[r][b] # "ok" \/ pc[r] # "granted",
         pc[r] # "new" \/ call[r][b] # "none",
         \A s \in Requests :
           pc'[s] = pc[s] \/ (s = r /\ pc[r] # "new"
                                    /\ (pc'[r] = "granted" => call'[r][b] = "ok"))
  PROVE  OneHolder' /\ RedeemedIsGone' /\ OneRedeemer' /\ SubmittedIsIssued'
<1> DEFINE n == nonce[r]
<1> USE DEF Ownership, Absent
<1>0. n \in Nonces /\ issuedAt[n] # -1
  BY DEF TypeOK, SubmittedIsIssued
<1>1. store' = [store EXCEPT ![b][n] = -1]
  BY DEF ConsumeAt
<1>2. call' = [call EXCEPT ![r][b] = IF Valid(b, n) THEN "ok" ELSE "refused"]
  BY DEF ConsumeAt
<1>3. \A c \in Brokers, m \in Nonces :
        store'[c][m] = IF c = b /\ m = n THEN -1 ELSE store[c][m]
  BY <1>0, <1>1 DEF TypeOK
<1>4. \A s \in Requests, c \in Brokers :
        call'[s][c] = IF s = r /\ c = b
                      THEN IF Valid(b, n) THEN "ok" ELSE "refused"
                      ELSE call[s][c]
  BY <1>2 DEF TypeOK
<1>5. OneHolder'
  BY <1>3 DEF OneHolder
<1>6. \A s \in Requests : Redeemed(s)' => Redeemed(s) \/ (s = r /\ Valid(b, n))
  BY <1>4 DEF Redeemed
<1>7. Valid(b, n) => /\ \A s \in Requests : Redeemed(s) => nonce[s] # n
                     /\ \A c \in Brokers : store'[c][n] = -1
  BY <1>0, <1>3 DEF Valid, RedeemedIsGone, OneHolder
<1>8. RedeemedIsGone'
  <2> SUFFICES ASSUME NEW s \in Requests, NEW c \in Brokers, Redeemed(s)'
               PROVE  issuedAt[nonce[s]] # -1 /\ store'[c][nonce[s]] = -1
    BY DEF RedeemedIsGone
  <2>0. nonce[s] \in Nonces
    BY DEF TypeOK
  <2>1. CASE Redeemed(s)
    BY <2>0, <2>1, <1>3 DEF RedeemedIsGone
  <2>2. CASE s = r /\ Valid(b, n)
    BY <2>2, <1>0, <1>7
  <2> QED
    BY <2>1, <2>2, <1>6
<1>9. OneRedeemer'
  <2>1. ASSUME NEW s \in Requests, NEW t \in Requests,
               Redeemed(s)', Redeemed(t)', nonce[s] = nonce[t]
        PROVE  s = t
    BY <2>1, <1>6, <1>7 DEF OneRedeemer
  <2>2. ASSUME NEW s \in Requests, pc'[s] = "granted"
        PROVE  Redeemed(s)'
    <3>1. CASE pc'[s] = pc[s]
      <4>1. PICK c \in Brokers : call[s][c] = "ok"
        BY <2>2, <3>1 DEF OneRedeemer, Redeemed
      <4>2. call'[s][c] = "ok"
        BY <4>1, <3>1, <2>2, <1>4
      <4> QED
        BY <4>2 DEF Redeemed
    <3>2. CASE s = r /\ call'[r][b] = "ok"
      BY <3>2 DEF Redeemed
    <3> QED
      BY <2>2, <3>1, <3>2
  <2> QED
    BY <2>1, <2>2 DEF OneRedeemer
<1>10. SubmittedIsIssued'
  <2> SUFFICES ASSUME NEW s \in Requests,
                      pc'[s] # "new" \/ \E c \in Brokers : call'[s][c] # "none"
               PROVE  issuedAt[nonce[s]] # -1
    BY DEF SubmittedIsIssued
  <2>1. CASE s = r
    BY <2>1, <1>0
  <2>2. CASE s # r
    BY <2>2, <1>4 DEF SubmittedIsIssued
  <2> QED
    BY <2>1, <2>2
<1> QED
  BY <1>5, <1>8, <1>9, <1>10

\* A step that redeems nothing, issues nothing and grants only redeemers.
LEMMA QuietKeeps ==
  ASSUME Ownership, UNCHANGED <<nonce, issuedAt>>,
         \A b \in Brokers, n \in Nonces : store'[b][n] \in {store[b][n], Absent},
         \A s \in Requests, c \in Brokers : call'[s][c] = "ok" <=> call[s][c] = "ok",
         \A s \in Requests : pc'[s] = "granted" => Redeemed(s),
         \A s \in Requests :
           (pc'[s] # "new" \/ \E c \in Brokers : call'[s][c] # "none")
             => issuedAt[nonce[s]] # Absent
  PROVE  OneHolder' /\ RedeemedIsGone' /\ OneRedeemer' /\ SubmittedIsIssued'
<1>1. \A s \in Requests : Redeemed(s)' <=> Redeemed(s)
  BY DEF Redeemed
<1>2. OneHolder'
  BY DEF Ownership, OneHolder, Absent
<1>3. RedeemedIsGone'
  BY <1>1 DEF Ownership, TypeOK, RedeemedIsGone, Absent
<1>4. OneRedeemer'
  BY <1>1 DEF Ownership, OneRedeemer
<1>5. SubmittedIsIssued'
  BY DEF SubmittedIsIssued, Absent
<1> QED
  BY <1>2, <1>3, <1>4, <1>5

\* consumeNonce consults a replica once: an answer is never overwritten.
LEMMA AskedOnceStep == TypeOK /\ AskedOnce /\ [Next]_vars => AskedOnce'
<1> SUFFICES ASSUME TypeOK, AskedOnce, [Next]_vars PROVE AskedOnce'
  OBVIOUS
<1>1. ASSUME NEW r \in Requests, ConsumeLocal(r) PROVE AskedOnce'
  <2>1. /\ pc[r] = "local" /\ home[r] \in Brokers
        /\ pc' = [pc EXCEPT ![r] = IF Valid(home[r], nonce[r]) THEN "granted" ELSE "peers"]
    BY <1>1 DEF ConsumeLocal, TypeOK
  <2>2. \A s \in Requests, b \in Brokers :
          s # r \/ b # home[r] => call'[s][b] = call[s][b]
    BY <1>1, <2>1 DEF ConsumeLocal, ConsumeAt, TypeOK
  <2>3. \A s \in Requests : s # r => todo'[s] = todo[s]
    BY <1>1 DEF ConsumeLocal, TypeOK
  <2>4. ~Valid(home[r], nonce[r]) => todo'[r] \subseteq Brokers \ {home[r]}
    BY <1>1 DEF ConsumeLocal, TypeOK
  <2> QED
    BY <2>1, <2>2, <2>3, <2>4 DEF AskedOnce, TypeOK
<1>2. ASSUME NEW r \in Requests, NEW p \in Brokers, AskPeer(r, p) PROVE AskedOnce'
  BY <1>2 DEF AskPeer, AskedOnce, TypeOK
<1>3. ASSUME NEW r \in Requests, NEW p \in Brokers, HandleChallengeConsume(r, p)
      PROVE AskedOnce'
  <2>1. \A s \in Requests, b \in Brokers :
          call'[s][b] # call[s][b] => s = r /\ b = p
    BY <1>3 DEF HandleChallengeConsume, ConsumeAt, TypeOK
  <2>2. UNCHANGED <<pc, todo>> /\ call[r][p] = "sent"
    BY <1>3 DEF HandleChallengeConsume
  <2>3. \A s \in Requests, b \in Brokers : call[s][b] = "none" => call'[s][b] = "none"
    BY <2>1, <2>2
  <2> QED
    BY <2>2, <2>3 DEF AskedOnce, TypeOK
<1>4. ASSUME UNCHANGED <<todo, call>>,
             \A s \in Requests :
               \/ pc'[s] = pc[s]
               \/ pc'[s] = "local" /\ pc[s] = "new"
               \/ pc'[s] \in {"granted", "denied"}
               \/ pc'[s] = "lost" /\ (pc[s] = "peers" \/ todo[s] = {})
      PROVE  AskedOnce'
  BY <1>4 DEF AskedOnce, TypeOK
<1>5. Tick \/ UNCHANGED vars \/ (\E b \in Brokers, n \in Nonces : Issue(b, n)) => AskedOnce'
  BY <1>4 DEF Tick, Issue, vars, reqVars
<1>6. ASSUME NEW r \in Requests, Submit(r) \/ PeerAnswer(r) \/ PeerTimeout(r) \/ Deny(r)
      PROVE  AskedOnce'
  BY <1>4, <1>6 DEF Submit, PeerAnswer, PeerTimeout, Deny, TypeOK
<1>7. ASSUME NEW b \in Brokers, Restart(b) PROVE AskedOnce'
  BY <1>7 DEF Restart, AskedOnce, TypeOK
<1> QED
  BY <1>1, <1>2, <1>3, <1>5, <1>6, <1>7 DEF Next, Handle

\* Every step keeps Ownership.
LEMMA OwnershipStep == Ownership /\ [Next]_vars => Ownership'
<1> SUFFICES ASSUME Ownership, [Next]_vars PROVE Ownership'
  OBVIOUS
<1>0. TypeOK /\ TypeOK' /\ AskedOnce'
  BY TypeStep, AskedOnceStep DEF Ownership
<1> DEFINE Goal == OneHolder' /\ RedeemedIsGone' /\ OneRedeemer' /\ SubmittedIsIssued'
<1>i. /\ \A s \in Requests, c \in Brokers : call[s][c] # "none" => issuedAt[nonce[s]] # Absent
      /\ \A s \in Requests : pc[s] # "new" => issuedAt[nonce[s]] # Absent
      /\ \A s \in Requests : pc[s] = "granted" => Redeemed(s)
  BY DEF Ownership, SubmittedIsIssued, OneRedeemer
<1>1. ASSUME Tick PROVE Goal
  BY <1>1, <1>i, QuietKeeps DEF Tick, reqVars, histVars
<1>2. ASSUME NEW b \in Brokers, NEW n \in Nonces, Issue(b, n) PROVE Goal
  <2>1. issuedAt[n] = Absent /\ issuedAt' = [issuedAt EXCEPT ![n] = now]
    BY <1>2 DEF Issue
  <2>2. \A m \in Nonces : issuedAt'[m] # Absent <=> (m = n \/ issuedAt[m] # Absent)
    BY <2>1, <1>0 DEF TypeOK, Absent
  <2>3. \A m \in Nonces : Swept(b)[m] \in {store[b][m], Absent}
    BY <1>0 DEF Swept, TypeOK
  <2>4. store' = [store EXCEPT ![b] = [Swept(b) EXCEPT ![n] = now + TTL]]
    BY <1>2 DEF Issue
  <2>5. \A c \in Brokers, m \in Nonces :
          m # n => store'[c][m] \in {store[c][m], Absent}
    BY <2>3, <2>4, <1>0 DEF TypeOK
  <2>6. \A c \in Brokers : c # b => store'[c][n] = Absent
    BY <2>1, <2>4, <1>0 DEF Ownership, OneHolder, TypeOK, Absent
  <2>7. UNCHANGED <<pc, nonce, call>>
    BY <1>2 DEF Issue, reqVars
  <2>8. \A s \in Requests : Redeemed(s)' <=> Redeemed(s)
    BY <2>7 DEF Redeemed
  <2>9. OneHolder'
    <3> SUFFICES ASSUME NEW m \in Nonces, NEW c \in Brokers, NEW d \in Brokers,
                        store'[c][m] # Absent
                 PROVE  issuedAt'[m] # Absent /\ (store'[d][m] # Absent => c = d)
      BY DEF OneHolder, Absent
    <3>1. CASE m = n
      BY <3>1, <2>2, <2>6
    <3>2. CASE m # n
      BY <3>2, <2>2, <2>5 DEF Ownership, OneHolder
    <3> QED
      BY <3>1, <3>2
  <2>10. RedeemedIsGone'
    <3> SUFFICES ASSUME NEW s \in Requests, NEW c \in Brokers, Redeemed(s)
                 PROVE  issuedAt'[nonce[s]] # Absent /\ store'[c][nonce[s]] = Absent
      BY <2>7, <2>8 DEF RedeemedIsGone, Absent
    <3>1. issuedAt[nonce[s]] # Absent /\ store[c][nonce[s]] = Absent
      BY DEF Ownership, RedeemedIsGone
    <3>2. nonce[s] \in Nonces /\ nonce[s] # n
      BY <3>1, <2>1, <1>0 DEF TypeOK
    <3> QED
      BY <3>1, <3>2, <2>2, <2>5
  <2>11. OneRedeemer'
    BY <2>7, <2>8 DEF Ownership, OneRedeemer
  <2>12. SubmittedIsIssued'
    <3> SUFFICES ASSUME NEW s \in Requests,
                        pc[s] # "new" \/ \E c \in Brokers : call[s][c] # "none"
                 PROVE  issuedAt'[nonce[s]] # Absent
      BY <2>7 DEF SubmittedIsIssued, Absent
    <3> QED
      BY <2>2, <1>i, <1>0 DEF TypeOK
  <2> QED
    BY <2>9, <2>10, <2>11, <2>12
<1>3. ASSUME NEW r \in Requests, Submit(r) PROVE Goal
  BY <1>3, <1>i, <1>0, QuietKeeps DEF Submit, histVars, TypeOK
<1>4. ASSUME NEW r \in Requests, ConsumeLocal(r) PROVE Goal
  <2>1. pc[r] = "local" /\ ConsumeAt(r, home[r]) /\ UNCHANGED <<now, nonce, issuedAt>>
    BY <1>4 DEF ConsumeLocal
  <2>2. pc' = [pc EXCEPT ![r] = IF Valid(home[r], nonce[r]) THEN "granted" ELSE "peers"]
    BY <1>4 DEF ConsumeLocal
  <2>3. home[r] \in Brokers
    BY <1>0 DEF TypeOK
  <2>4. pc'[r] = "granted" => call'[r][home[r]] = "ok"
    BY <2>1, <2>2, <2>3, <1>0 DEF ConsumeAt, TypeOK
  <2> QED
    BY <2>1, <2>2, <2>3, <2>4, <1>0, ConsumeKeeps DEF TypeOK
<1>5. ASSUME NEW r \in Requests, NEW p \in Brokers, AskPeer(r, p) PROVE Goal
  <2>1. pc[r] = "peers" /\ UNCHANGED <<store, pc, nonce, issuedAt>>
    BY <1>5 DEF AskPeer, histVars
  <2>2. \A s \in Requests, c \in Brokers :
          call'[s][c] = IF s = r /\ c = p THEN "sent" ELSE call[s][c]
    BY <1>5, <1>0 DEF AskPeer, TypeOK
  <2>3. call[r][p] # "ok"
    BY <1>5, <2>1 DEF AskPeer, Ownership, AskedOnce
  <2> QED
    BY <2>1, <2>2, <2>3, <1>i, QuietKeeps
<1>6. ASSUME NEW r \in Requests, PeerAnswer(r) PROVE Goal
  <2>1. pc[r] = "peers" /\ wait[r] \in Brokers /\ UNCHANGED <<store, call, nonce, issuedAt>>
    BY <1>6, <1>0 DEF PeerAnswer, histVars, TypeOK
  <2>2. pc' = [pc EXCEPT ![r] = IF call[r][wait[r]] = "ok" THEN "granted" ELSE @]
    BY <1>6 DEF PeerAnswer
  <2>3. \A s \in Requests : pc'[s] = "granted" => Redeemed(s)
    BY <2>1, <2>2, <1>i, <1>0 DEF Redeemed, TypeOK
  <2>4. \A s \in Requests : pc'[s] # "new" => pc[s] # "new"
    BY <2>1, <2>2, <1>0 DEF TypeOK
  <2> QED
    BY <2>1, <2>3, <2>4, <1>i, QuietKeeps
<1>7. ASSUME NEW r \in Requests, PeerTimeout(r) PROVE Goal
  BY <1>7, <1>i, QuietKeeps DEF PeerTimeout
<1>8. ASSUME NEW r \in Requests, Deny(r) PROVE Goal
  BY <1>8, <1>i, <1>0, QuietKeeps DEF Deny, histVars, TypeOK
<1>9. ASSUME NEW r \in Requests, NEW p \in Brokers, HandleChallengeConsume(r, p)
      PROVE Goal
  BY <1>9, ConsumeKeeps DEF HandleChallengeConsume
<1>10. ASSUME NEW b \in Brokers, Restart(b) PROVE Goal
  <2>1. \A c \in Brokers, m \in Nonces : store'[c][m] \in {store[c][m], Absent}
    BY <1>10, <1>0 DEF Restart, TypeOK
  <2>2. \A s \in Requests : pc'[s] = pc[s] \/ (pc'[s] = "lost" /\ pc[s] # "new")
    BY <1>10, <1>0 DEF Restart, TypeOK
  <2> QED
    BY <1>10, <2>1, <2>2, <1>i, QuietKeeps DEF Restart
<1>11. ASSUME UNCHANGED vars PROVE Goal
  BY <1>11, <1>i, QuietKeeps DEF vars, reqVars, histVars
<1> QED
  BY <1>0, <1>1, <1>2, <1>3, <1>4, <1>5, <1>6, <1>7, <1>8, <1>9, <1>10, <1>11
     DEF Next, Handle, Ownership

\* The inductive invariant: it holds initially and every step keeps it.
THEOREM OwnershipInvariant == Spec => []Ownership
<1>1. Init => Ownership
  <2> SUFFICES ASSUME Init PROVE Ownership
    OBVIOUS
  <2>1. TypeOK
    BY ChallengeAssumption DEF Init, TypeOK, Finished, Absent
  <2>2. /\ \A b \in Brokers, n \in Nonces : store[b][n] = Absent
        /\ \A r \in Requests : pc[r] = "new" /\ todo[r] = {}
        /\ \A r \in Requests, b \in Brokers : call[r][b] = "none"
    BY DEF Init
  <2> QED
    BY <2>1, <2>2 DEF Ownership, OneHolder, RedeemedIsGone, OneRedeemer,
                      SubmittedIsIssued, AskedOnce, Redeemed
<1> QED
  BY <1>1, OwnershipStep, PTL DEF Spec

\* No replay, for any number of replicas and requests: two requests are never
\* granted on one nonce (challenge.go, consumeNonce).
THEOREM NonceSingleUse == Spec => []SingleUse
<1>1. Ownership => SingleUse
  BY DEF Ownership, OneRedeemer, SingleUse
<1> QED
  BY <1>1, OwnershipInvariant, PTL

-----------------------------------------------------------------------------

\* A consumption redeems a live nonce for its request, or changes nothing
\* that NonceToken sees.
LEMMA ConsumeMaps ==
  ASSUME Ownership, NEW r \in Requests, NEW b \in Brokers,
         ConsumeAt(r, b), UNCHANGED <<now, nonce, issuedAt>>,
         call[r][b] # "ok",
         Accepted' = Accepted \/ (Valid(b, nonce[r]) /\ Accepted' = Accepted \union {r}),
         ~Valid(b, nonce[r]) => Accepted' = Accepted
  PROVE  [Token!Next]_(Token!vars)
<1> DEFINE n == nonce[r]
<1>0. n \in Nonces /\ TypeOK
  BY DEF TypeOK, Ownership
<1>1. \A c \in Brokers, m \in Nonces :
        store'[c][m] = IF c = b /\ m = n THEN -1 ELSE store[c][m]
  BY <1>0 DEF ConsumeAt, TypeOK, Absent
<1>2. \A s \in Requests, c \in Brokers :
        call'[s][c] = IF s = r /\ c = b
                      THEN IF Valid(b, n) THEN "ok" ELSE "refused"
                      ELSE call[s][c]
  BY <1>0 DEF ConsumeAt, TypeOK
<1>3. \A c \in Brokers, m \in Nonces :
        Valid(c, m)' <=> Valid(c, m) /\ ~(c = b /\ m = n)
  BY <1>1 DEF Valid, Stale, Absent
<1>4. UNCHANGED Issued
  BY DEF Issued, Absent
<1>5. CASE Valid(b, n)
  <2>1. n \in Live /\ Live' = Live \ {n}
    <3>1. \A c \in Brokers : Valid(c, n) => c = b
      BY <1>0, <1>5 DEF Ownership, OneHolder, Valid
    <3> QED
      BY <1>0, <1>3, <1>5, <3>1 DEF Live
  <2>2. \A s \in Requests : Redeemed(s)' <=> Redeemed(s) \/ s = r
    BY <1>2, <1>5 DEF Redeemed
  <2>3. Redeems' = Redeems \union {<<n, r>>}
    BY <2>2 DEF Redeems
  <2> QED
    BY <1>0, <1>4, <1>5, <2>1, <2>3 DEF Token!Next, Token!Redeem
<1>6. CASE ~Valid(b, n)
  <2>1. UNCHANGED Live
    BY <1>3, <1>6 DEF Live
  <2>2. \A s \in Requests : Redeemed(s)' <=> Redeemed(s)
    BY <1>2, <1>6 DEF Redeemed
  <2>3. UNCHANGED Redeems
    BY <2>2 DEF Redeems
  <2> QED
    BY <1>4, <1>6, <2>1, <2>3 DEF Token!vars
<1> QED
  BY <1>5, <1>6

\* A step that consumes and issues nothing voids nonces at most.
LEMMA VoidMaps ==
  ASSUME UNCHANGED <<issuedAt, nonce, call>>, Live' \subseteq Live, UNCHANGED Accepted
  PROVE  [Token!Next]_(Token!vars)
<1>1. UNCHANGED <<Issued, Redeems>>
  BY DEF Issued, Redeems, Redeemed, Absent
<1>2. (Live \ Live') \in SUBSET Nonces /\ Live' = Live \ (Live \ Live')
  BY DEF Live
<1>3. Token!Void(Live \ Live')
  BY <1>1, <1>2 DEF Token!Void
<1> QED
  BY <1>2, <1>3 DEF Token!Next

\* Every step of the replicas is a step, or a stutter, of NonceToken.
LEMMA TokenStep == Ownership /\ [Next]_vars => [Token!Next]_(Token!vars)
<1> SUFFICES ASSUME Ownership, [Next]_vars PROVE [Token!Next]_(Token!vars)
  OBVIOUS
<1> DEFINE Goal == [Token!Next]_(Token!vars)
<1>0. TypeOK /\ AskedOnce
  BY DEF Ownership
<1>1. ASSUME Tick PROVE Goal
  <2>1. now' = now + 1 /\ UNCHANGED <<store, pc, issuedAt, nonce, call>>
    BY <1>1 DEF Tick, reqVars, histVars
  <2>2. Live' \subseteq Live
    BY <2>1, <1>0 DEF Live, Valid, Stale, TypeOK, Absent
  <2> QED
    BY <2>1, <2>2, VoidMaps DEF Accepted
<1>2. ASSUME NEW b \in Brokers, NEW n \in Nonces, Issue(b, n) PROVE Goal
  <2>1. /\ store' = [store EXCEPT ![b] = [Swept(b) EXCEPT ![n] = now + TTL]]
        /\ issuedAt[n] = -1 /\ issuedAt' = [issuedAt EXCEPT ![n] = now]
        /\ UNCHANGED <<now, pc, nonce, call>>
    BY <1>2 DEF Issue, reqVars, Absent
  <2>2. \A c \in Brokers, m \in Nonces : c = b /\ m = n => Valid(c, m)'
    BY <2>1, <1>0, ChallengeAssumption DEF Valid, Stale, TypeOK, Absent, Swept
  <2>3. \A c \in Brokers, m \in Nonces :
          m # n /\ c = b => store'[c][m] = Swept(b)[m]
    BY <2>1, <1>0 DEF TypeOK, Swept
  <2>4. \A m \in Nonces : Swept(b)[m] = store[b][m] \/ (Swept(b)[m] = -1 /\ Stale(b, m))
    BY <1>0 DEF Swept, TypeOK, Absent
  <2>5. \A c \in Brokers, m \in Nonces : c # b => store'[c][m] = store[c][m]
    BY <2>1, <1>0 DEF TypeOK
  <2>6. \A c \in Brokers, m \in Nonces : m # n => (Valid(c, m)' <=> Valid(c, m))
    <3>1. ASSUME NEW c \in Brokers, NEW m \in Nonces, m # n, c = b
          PROVE  Valid(c, m)' <=> Valid(c, m)
      BY <3>1, <2>1, <2>3, <2>4 DEF Valid, Stale, Absent
    <3>2. ASSUME NEW c \in Brokers, NEW m \in Nonces, m # n, c # b
          PROVE  Valid(c, m)' <=> Valid(c, m)
      BY <3>2, <2>1, <2>5 DEF Valid, Stale, Absent
    <3> QED
      BY <3>1, <3>2
  <2>7. Live' = Live \union {n}
    BY <2>2, <2>6 DEF Live
  <2>8. n \notin Issued /\ Issued' = Issued \union {n}
    BY <2>1, <1>0 DEF Issued, TypeOK, Absent
  <2>9. UNCHANGED <<Redeems, Accepted>>
    BY <2>1 DEF Redeems, Redeemed, Accepted
  <2> QED
    BY <2>7, <2>8, <2>9 DEF Token!Next, Token!Issue
<1>3. ASSUME NEW r \in Requests, ConsumeLocal(r) PROVE Goal
  <2>1. /\ pc[r] = "local" /\ ConsumeAt(r, home[r]) /\ home[r] \in Brokers
        /\ UNCHANGED <<now, nonce, issuedAt>>
        /\ pc' = [pc EXCEPT ![r] = IF Valid(home[r], nonce[r]) THEN "granted" ELSE "peers"]
    BY <1>3, <1>0 DEF ConsumeLocal, TypeOK
  <2>2. call[r][home[r]] # "ok"
    BY <2>1, <1>0 DEF AskedOnce
  <2>3. Valid(home[r], nonce[r]) => Accepted' = Accepted \union {r}
    BY <2>1, <1>0 DEF Accepted, TypeOK
  <2>4. ~Valid(home[r], nonce[r]) => Accepted' = Accepted
    BY <2>1, <1>0 DEF Accepted, TypeOK
  <2> QED
    BY <2>1, <2>2, <2>3, <2>4, ConsumeMaps
<1>4. ASSUME NEW r \in Requests, NEW p \in Brokers, HandleChallengeConsume(r, p) PROVE Goal
  <2>1. UNCHANGED Accepted
    BY <1>4 DEF HandleChallengeConsume, Accepted
  <2> QED
    BY <1>4, <2>1, ConsumeMaps DEF HandleChallengeConsume
<1>5. ASSUME NEW r \in Requests, PeerAnswer(r) PROVE Goal
  <2>1. /\ UNCHANGED <<now, store, nonce, call, issuedAt>> /\ wait[r] \in Brokers
        /\ pc' = [pc EXCEPT ![r] = IF call[r][wait[r]] = "ok" THEN "granted" ELSE @]
    BY <1>5, <1>0 DEF PeerAnswer, histVars, TypeOK
  <2>2. UNCHANGED <<Live, Issued, Redeems>>
    BY <2>1 DEF Live, Issued, Redeems, Redeemed, Valid, Stale, Absent
  <2>3. CASE call[r][wait[r]] = "ok"
    <3>1. Accepted' = Accepted \union {r}
      BY <2>1, <2>3, <1>0 DEF Accepted, TypeOK
    <3>2. <<nonce[r], r>> \in Redeems /\ nonce[r] \in Nonces
      BY <2>1, <2>3, <1>0 DEF Redeems, Redeemed, TypeOK
    <3> QED
      BY <2>2, <3>1, <3>2 DEF Token!Next, Token!Accept
  <2>4. CASE call[r][wait[r]] # "ok"
    BY <2>1, <2>2, <2>4, <1>0 DEF Accepted, TypeOK, Token!vars
  <2> QED
    BY <2>3, <2>4
<1>6. ASSUME NEW b \in Brokers, Restart(b) PROVE Goal
  <2>1. UNCHANGED <<now, nonce, call, issuedAt>>
    BY <1>6 DEF Restart
  <2>2. \A c \in Brokers, m \in Nonces : Valid(c, m)' => Valid(c, m)
    BY <1>6, <1>0 DEF Restart, TypeOK, Valid, Stale, Absent
  <2>3. UNCHANGED Accepted
    BY <1>6, <1>0 DEF Restart, Accepted, TypeOK
  <2> QED
    BY <2>1, <2>2, <2>3, VoidMaps DEF Live
<1>7. ASSUME UNCHANGED <<now, store, nonce, issuedAt>>, UNCHANGED Accepted,
             \A s \in Requests, c \in Brokers : call'[s][c] = "ok" <=> call[s][c] = "ok"
      PROVE  Goal
  <2>1. UNCHANGED <<Live, Issued>>
    BY <1>7 DEF Live, Issued, Valid, Stale, Absent
  <2>2. \A s \in Requests : Redeemed(s)' <=> Redeemed(s)
    BY <1>7 DEF Redeemed
  <2>3. UNCHANGED Redeems
    BY <1>7, <2>2 DEF Redeems
  <2> QED
    BY <1>7, <2>1, <2>3 DEF Token!vars
<1>8. ASSUME NEW r \in Requests, Submit(r) \/ PeerTimeout(r) \/ Deny(r) PROVE Goal
  <2>1. UNCHANGED Accepted
    BY <1>8, <1>0 DEF Accepted, Submit, PeerTimeout, Deny, TypeOK
  <2> QED
    BY <1>7, <1>8, <2>1 DEF Submit, PeerTimeout, Deny, histVars
<1>9. ASSUME NEW r \in Requests, NEW p \in Brokers, AskPeer(r, p) PROVE Goal
  <2>1. call[r][p] = "none"
    BY <1>9, <1>0 DEF AskPeer, AskedOnce
  <2>2. \A s \in Requests, c \in Brokers : call'[s][c] = "ok" <=> call[s][c] = "ok"
    BY <1>9, <2>1, <1>0 DEF AskPeer, TypeOK
  <2>3. UNCHANGED Accepted
    BY <1>9 DEF AskPeer, Accepted
  <2> QED
    BY <1>7, <1>9, <2>2, <2>3 DEF AskPeer, histVars
<1>10. ASSUME UNCHANGED vars PROVE Goal
  BY <1>7, <1>10 DEF vars, reqVars, histVars, Accepted
<1> QED
  BY <1>1, <1>2, <1>3, <1>4, <1>5, <1>6, <1>8, <1>9, <1>10 DEF Next, Handle

\* The replicated nonce store is a NonceToken: whatever the replicas, peer
\* calls, timeouts and restarts do, a client sees single-use nonces.
THEOREM ReplicasImplementToken == Spec => ImplementsToken
<1>1. Init => Token!Init
  BY DEF Init, Token!Init, Issued, Live, Redeems, Accepted, Redeemed, Valid, Absent
<1> QED
  BY <1>1, TokenStep, OwnershipInvariant, PTL DEF Spec, Token!Spec, ImplementsToken

-----------------------------------------------------------------------------
(***************************************************************************)
(* What became of a nonce                                                  *)
(***************************************************************************)

\* What no step takes back: the clock, an issue, a redemption, a loss; and a
\* nonce once issued is never put into a store again.
LEMMA StepFacts ==
  ASSUME Ownership, [Next]_vars
  PROVE  /\ nonce' = nonce /\ now' >= now /\ wiped \subseteq wiped' /\ lossy \subseteq lossy'
         /\ \A n \in Nonces : issuedAt[n] # Absent => issuedAt'[n] = issuedAt[n]
         /\ \A r \in Requests : Redeemed(r) => Redeemed(r)'
         /\ \A b \in Brokers, n \in Nonces :
              issuedAt[n] # Absent /\ store[b][n] = Absent => store'[b][n] = Absent
<1> DEFINE Goal == /\ nonce' = nonce /\ now' >= now /\ wiped \subseteq wiped' /\ lossy \subseteq lossy'
                   /\ \A n \in Nonces : issuedAt[n] # Absent => issuedAt'[n] = issuedAt[n]
                   /\ \A r \in Requests : Redeemed(r) => Redeemed(r)'
                   /\ \A b \in Brokers, n \in Nonces :
                        issuedAt[n] # Absent /\ store[b][n] = Absent => store'[b][n] = Absent
<1>0. TypeOK /\ AskedOnce
  BY DEF Ownership
<1>1. ASSUME call' = call PROVE \A r \in Requests : Redeemed(r) => Redeemed(r)'
  BY <1>1 DEF Redeemed
<1>2. CASE Tick
  BY <1>2, <1>1, <1>0 DEF Tick, reqVars, histVars, TypeOK
<1>3. ASSUME NEW b \in Brokers, NEW n \in Nonces, Issue(b, n) PROVE Goal
  <2>1. \A m \in Nonces : Swept(b)[m] = store[b][m] \/ Swept(b)[m] = Absent
    BY <1>0 DEF Swept, TypeOK
  <2>2. Swept(b) \in [Nonces -> Nat \union {-1}]
    BY <1>0 DEF Swept, TypeOK, Absent
  <2>3. /\ store' = [store EXCEPT ![b] = [Swept(b) EXCEPT ![n] = now + TTL]]
        /\ issuedAt[n] = Absent /\ issuedAt' = [issuedAt EXCEPT ![n] = now]
        /\ call' = call /\ nonce' = nonce /\ now' = now /\ wiped' = wiped /\ lossy' = lossy
    BY <1>3 DEF Issue, reqVars
  <2>4. \A c \in Brokers, m \in Nonces :
          issuedAt[m] # Absent /\ store[c][m] = Absent => store'[c][m] = Absent
    BY <2>1, <2>2, <2>3, <1>0 DEF TypeOK
  <2> QED
    BY <2>3, <2>4, <1>1, <1>0 DEF TypeOK
<1>4. ASSUME NEW r \in Requests, NEW b \in Brokers, ConsumeAt(r, b), call[r][b] # "ok",
             UNCHANGED <<nonce, now, issuedAt, wiped>>, lossy \subseteq lossy'
      PROVE  Goal
  <2>1. \A s \in Requests, c \in Brokers : call[s][c] = "ok" => call'[s][c] = "ok"
    BY <1>4, <1>0 DEF ConsumeAt, TypeOK
  <2>2. \A c \in Brokers, n \in Nonces : store[c][n] = Absent => store'[c][n] = Absent
    BY <1>4, <1>0 DEF ConsumeAt, TypeOK
  <2>3. \A s \in Requests : Redeemed(s) => Redeemed(s)'
    BY <2>1 DEF Redeemed
  <2> QED
    BY <2>2, <2>3, <1>4, <1>0 DEF TypeOK
<1>5. ASSUME NEW r \in Requests, ConsumeLocal(r) PROVE Goal
  <2>1. ConsumeAt(r, home[r]) /\ home[r] \in Brokers /\ call[r][home[r]] # "ok"
    BY <1>5, <1>0 DEF ConsumeLocal, AskedOnce, TypeOK
  <2>2. lossy \subseteq lossy'
    BY <1>5 DEF ConsumeLocal
  <2> QED
    BY <1>4, <1>5, <2>1, <2>2 DEF ConsumeLocal
<1>6. ASSUME NEW r \in Requests, NEW p \in Brokers, HandleChallengeConsume(r, p) PROVE Goal
  BY <1>4, <1>6 DEF HandleChallengeConsume
<1>7. ASSUME NEW r \in Requests, NEW p \in Brokers, AskPeer(r, p) PROVE Goal
  <2>1. call[r][p] = "none"
    BY <1>7, <1>0 DEF AskPeer, AskedOnce
  <2>2. \A s \in Requests, c \in Brokers : call[s][c] = "ok" => call'[s][c] = "ok"
    BY <1>7, <2>1, <1>0 DEF AskPeer, TypeOK
  <2>3. \A s \in Requests : Redeemed(s) => Redeemed(s)'
    BY <2>2 DEF Redeemed
  <2> QED
    BY <2>3, <1>7, <1>0 DEF AskPeer, histVars, TypeOK
<1>8. ASSUME NEW b \in Brokers, Restart(b) PROVE Goal
  <2>1. \A c \in Brokers, n \in Nonces : store[c][n] = Absent => store'[c][n] = Absent
    BY <1>8, <1>0 DEF Restart, TypeOK
  <2> QED
    BY <2>1, <1>1, <1>8, <1>0 DEF Restart, TypeOK
<1>9. ASSUME NEW r \in Requests, Submit(r) \/ PeerAnswer(r) \/ PeerTimeout(r) \/ Deny(r) PROVE Goal
  BY <1>9, <1>1, <1>0 DEF Submit, PeerAnswer, PeerTimeout, Deny, histVars, TypeOK
<1>10. CASE UNCHANGED vars
  BY <1>10, <1>1, <1>0 DEF vars, reqVars, histVars, TypeOK
<1> QED
  BY <1>2, <1>3, <1>5, <1>6, <1>7, <1>8, <1>9, <1>10 DEF Next, Handle

\* A spent nonce stays spent.
LEMMA SpentStays ==
  ASSUME Ownership, [Next]_vars, NEW n \in Nonces, issuedAt[n] # Absent, Spent(n)
  PROVE  Spent(n)'
<1>1. CASE \E r \in Requests : nonce[r] = n /\ Redeemed(r)
  BY <1>1, StepFacts DEF Spent
<1>2. CASE now > issuedAt[n] + TTL
  <2>1. TypeOK /\ TypeOK'
    BY TypeStep DEF Ownership
  <2>2. now' > issuedAt'[n] + TTL
    BY <1>2, <2>1, StepFacts, ChallengeAssumption DEF TypeOK, Absent
  <2> QED
    BY <2>2 DEF Spent
<1>3. CASE n \in wiped
  BY <1>3, StepFacts DEF Spent
<1> QED
  BY <1>1, <1>2, <1>3 DEF Spent

\* A nonce leaves a store when it is spent, and only a redemption takes a good one
\* without a restart.
LEMMA LeavesWhenSpent ==
  ASSUME Ownership, Timely, [Next]_vars, NEW b \in Brokers, NEW n \in Nonces,
         store[b][n] # Absent, store'[b][n] = Absent
  PROVE  Spent(n)' /\ (Valid(b, n) => n \in wiped' \/ \E r \in Requests : nonce[r] = n /\ call'[r][b] = "ok")
<1> DEFINE Goal == Spent(n)' /\ (Valid(b, n) => n \in wiped' \/ \E r \in Requests : nonce[r] = n /\ call'[r][b] = "ok")
<1>0. TypeOK
  BY DEF Ownership
<1>1. /\ issuedAt[n] # Absent /\ store[b][n] = issuedAt[n] + TTL
      /\ issuedAt'[n] = issuedAt[n] /\ nonce' = nonce /\ now' >= now
  BY StepFacts DEF Timely
<1>2. ASSUME NEW r \in Requests, NEW c \in Brokers, ConsumeAt(r, c), UNCHANGED now PROVE Goal
  <2>1. c = b /\ nonce[r] = n
    BY <1>2, <1>0 DEF ConsumeAt, TypeOK
  <2>2. CASE Valid(b, n)
    <3>1. call'[r][b] = "ok"
      BY <1>2, <2>1, <2>2, <1>0 DEF ConsumeAt, TypeOK
    <3> QED
      BY <3>1, <2>1, <1>1 DEF Spent, Redeemed
  <2>3. CASE ~Valid(b, n)
    <3>1. now > issuedAt[n] + TTL
      BY <2>3, <1>1 DEF Valid, Stale
    <3> QED
      BY <3>1, <2>3, <1>1, <1>2 DEF Spent
  <2> QED
    BY <2>2, <2>3
<1>3. ASSUME NEW c \in Brokers, NEW m \in Nonces, Issue(c, m) PROVE Goal
  <2>1. m # n /\ c = b /\ Swept(b)[n] = Absent /\ now' = now
    <3>1. Swept(c) \in [Nonces -> Nat \union {-1}] /\ now + TTL \in Nat
      BY <1>0, ChallengeAssumption DEF Swept, TypeOK, Absent
    <3> QED
      BY <1>3, <3>1, <1>0, <1>1 DEF Issue, TypeOK, Absent
  <2>2. Stale(b, n)
    BY <2>1, <1>0 DEF Swept, TypeOK
  <2> QED
    BY <2>1, <2>2, <1>1 DEF Stale, Valid, Spent
<1>4. ASSUME NEW c \in Brokers, Restart(c) PROVE Goal
  <2>1. c = b
    BY <1>4, <1>0 DEF Restart, TypeOK
  <2>2. n \in wiped'
    BY <1>4, <2>1 DEF Restart, Held
  <2> QED
    BY <2>2 DEF Spent
<1>5. store' # store
  OBVIOUS
<1>6. ASSUME NEW r \in Requests, ConsumeLocal(r) PROVE Goal
  BY <1>2, <1>6, <1>0 DEF ConsumeLocal, TypeOK
<1>7. ASSUME NEW r \in Requests, NEW c \in Brokers, HandleChallengeConsume(r, c) PROVE Goal
  BY <1>2, <1>7 DEF HandleChallengeConsume
<1> HIDE DEF Goal
<1>10. Goal
  BY <1>3, <1>4, <1>5, <1>6, <1>7 DEF Next, Handle, Tick, Submit, AskPeer, PeerAnswer,
     PeerTimeout, Deny, vars
<1> QED
  BY <1>10 DEF Goal

\* An issued nonce is held, or it is spent.
LEMMA FateStep == ASSUME Ownership, Timely, Fate, [Next]_vars PROVE Fate'
<1> SUFFICES ASSUME NEW n \in Nonces, issuedAt'[n] # Absent
             PROVE  Spent(n)' \/ \E b \in Brokers : store'[b][n] # Absent
  BY DEF Fate, Absent
<1>1. CASE issuedAt[n] # Absent
  <2>1. CASE Spent(n)
    BY <1>1, <2>1, SpentStays
  <2>2. CASE ~Spent(n)
    <3>1. PICK b \in Brokers : store[b][n] # Absent
      BY <1>1, <2>2 DEF Fate
    <3> QED
      BY <3>1, LeavesWhenSpent
  <2> QED
    BY <2>1, <2>2
<1>2. CASE issuedAt[n] = Absent
  <2>1. issuedAt' # issuedAt
    BY <1>2
  <2>2. PICK b \in Brokers, m \in Nonces : Issue(b, m)
    BY <2>1 DEF Next, Handle, Tick, Submit, ConsumeLocal, AskPeer, PeerAnswer, PeerTimeout,
       Deny, HandleChallengeConsume, Restart, vars, histVars
  <2>3. m = n
    BY <1>2, <2>2 DEF Issue, Ownership, TypeOK
  <2>4. store'[b][n] # Absent
    <3>1. Swept(b) \in [Nonces -> Nat \union {-1}] /\ now + TTL \in Nat
      BY ChallengeAssumption DEF Swept, Ownership, TypeOK, Absent
    <3>2. store' = [store EXCEPT ![b] = [Swept(b) EXCEPT ![n] = now + TTL]]
      BY <2>2, <2>3 DEF Issue
    <3>3. store \in [Brokers -> [Nonces -> Nat \union {Absent}]]
      BY DEF Ownership, TypeOK
    <3>4. store'[b][n] = now + TTL
      BY <3>1, <3>2, <3>3
    <3> QED
      BY <3>1, <3>4 DEF Absent
  <2> QED
    BY <2>4
<1> QED
  BY <1>1, <1>2

\* The times of issues, stores and redemptions stay consistent.
LEMMA TimesStep ==
  ASSUME Ownership, Timely, RedeemedInTime, [Next]_vars PROVE Timely' /\ RedeemedInTime'
<1> USE DEF Absent
<1>0. TypeOK /\ TypeOK' /\ SubmittedIsIssued
  BY TypeStep DEF Ownership
<1>1. \A n \in Nonces : issuedAt'[n] <= now'
  <2>1. ASSUME NEW b \in Brokers, NEW m \in Nonces, Issue(b, m) PROVE \A n \in Nonces : issuedAt'[n] <= now'
    BY <2>1, <1>0 DEF Issue, Timely, TypeOK
  <2>2. CASE issuedAt' = issuedAt
    <3>1. now' >= now
      BY StepFacts
    <3>2. now \in Int /\ now' \in Int
      BY <1>0 DEF TypeOK
    <3>3. ASSUME NEW n \in Nonces PROVE issuedAt'[n] <= now'
      <4>1. issuedAt[n] <= now /\ issuedAt[n] \in Int
        BY <1>0 DEF TypeOK, Timely
      <4> QED
        BY <2>2, <3>1, <3>2, <4>1
    <3> QED
      BY <3>3
  <2> QED
    BY <2>1, <2>2 DEF Next, Handle, Tick, Submit, ConsumeLocal, AskPeer, PeerAnswer, PeerTimeout,
       Deny, HandleChallengeConsume, Restart, vars, histVars
<1>2. ASSUME NEW b \in Brokers, NEW n \in Nonces, store'[b][n] # -1
      PROVE  issuedAt'[n] # -1 /\ store'[b][n] = issuedAt'[n] + TTL
  <2>1. CASE store'[b][n] = store[b][n]
    BY <1>2, <2>1, StepFacts DEF Timely
  <2>2. ASSUME NEW c \in Brokers, NEW m \in Nonces, Issue(c, m), store'[b][n] # store[b][n]
        PROVE  issuedAt'[n] # -1 /\ store'[b][n] = issuedAt'[n] + TTL
    <3>1. Swept(c) \in [Nonces -> Nat \union {-1}]
      BY <1>0 DEF Swept, TypeOK
    <3>2. c = b
      BY <2>2, <1>0 DEF Issue, TypeOK
    <3>3. m = n
      BY <2>2, <3>1, <3>2, <1>0, <1>2 DEF Issue, TypeOK, Swept
    <3> QED
      BY <2>2, <3>1, <3>2, <3>3, <1>0 DEF Issue, TypeOK
  <2>3. ASSUME NEW r \in Requests, NEW c \in Brokers, ConsumeAt(r, c) PROVE store'[b][n] = store[b][n]
    BY <2>3, <1>0, <1>2 DEF ConsumeAt, TypeOK
  <2>4. ASSUME NEW r \in Requests, ConsumeLocal(r) PROVE store'[b][n] = store[b][n]
    BY <2>3, <2>4, <1>0 DEF ConsumeLocal, TypeOK
  <2>5. ASSUME NEW c \in Brokers, Restart(c) PROVE store'[b][n] = store[b][n]
    BY <2>5, <1>0, <1>2 DEF Restart, TypeOK
  <2> QED
    BY <2>1, <2>2, <2>3, <2>4, <2>5 DEF Next, Handle, Tick, Submit, AskPeer, PeerAnswer, PeerTimeout,
       Deny, HandleChallengeConsume, vars
<1>3. ASSUME NEW q \in Requests, redeemedAt'[q] # -1
      PROVE  /\ issuedAt'[nonce'[q]] # -1
             /\ redeemedAt'[q] \in issuedAt'[nonce'[q]] .. issuedAt'[nonce'[q]] + TTL
  <2>0. nonce[q] \in Nonces
    BY <1>0 DEF TypeOK
  <2>1. CASE redeemedAt'[q] = redeemedAt[q]
    BY <1>3, <2>0, <2>1, StepFacts DEF Timely, RedeemedInTime
  <2>2. ASSUME NEW r \in Requests, NEW b \in Brokers, ConsumeAt(r, b), UNCHANGED <<now, nonce, issuedAt>>,
               redeemedAt'[q] # redeemedAt[q]
        PROVE  /\ issuedAt'[nonce'[q]] # -1
               /\ redeemedAt'[q] \in issuedAt'[nonce'[q]] .. issuedAt'[nonce'[q]] + TTL
    <3>1. r = q /\ Valid(b, nonce[q]) /\ redeemedAt'[q] = now
      BY <2>2, <1>0 DEF ConsumeAt, TypeOK
    <3>2. issuedAt[nonce[q]] # -1 /\ store[b][nonce[q]] = issuedAt[nonce[q]] + TTL /\ issuedAt[nonce[q]] <= now
      BY <3>1, <2>0 DEF Valid, Timely
    <3>3. now <= issuedAt[nonce[q]] + TTL
      BY <3>1, <3>2, <2>0, <1>0, ChallengeAssumption DEF Valid, Stale, TypeOK
    <3> QED
      BY <2>2, <2>0, <3>1, <3>2, <3>3, <1>0, ChallengeAssumption DEF TypeOK
  <2>3. ASSUME NEW r \in Requests, ConsumeLocal(r), redeemedAt'[q] # redeemedAt[q]
        PROVE  /\ issuedAt'[nonce'[q]] # -1
               /\ redeemedAt'[q] \in issuedAt'[nonce'[q]] .. issuedAt'[nonce'[q]] + TTL
    BY <2>2, <2>3, <1>0 DEF ConsumeLocal, TypeOK
  <2> QED
    BY <2>1, <2>2, <2>3 DEF Next, Handle, Tick, Issue, Submit, AskPeer, PeerAnswer, PeerTimeout,
       Deny, HandleChallengeConsume, Restart, vars, histVars
<1> QED
  BY <1>1, <1>2, <1>3 DEF Timely, RedeemedInTime

\* Where a request has been, its nonce is not; the rest it has still to ask.
LEMMA SearchedStep == ASSUME Ownership, Searched, [Next]_vars PROVE Searched'
<1>0. TypeOK /\ TypeOK'
  BY TypeStep DEF Ownership
<1> SUFFICES ASSUME NEW q \in Requests, pc'[q] = "peers", q \notin lossy', NEW b \in Brokers,
                    b \notin todo'[q], ~(b = wait'[q] /\ call'[q][b] = "sent")
             PROVE  store'[b][nonce'[q]] = Absent
  BY DEF Searched, Absent
<1> DEFINE Goal == store'[b][nonce'[q]] = Absent
<1>1. q \notin lossy /\ nonce' = nonce /\ nonce[q] \in Nonces
  BY <1>0, StepFacts DEF TypeOK
<1>2. pc[q] # "new" => issuedAt[nonce[q]] # Absent
  BY DEF Ownership, SubmittedIsIssued
<1>3. CASE pc[q] = "peers" /\ b \notin todo[q] /\ ~(b = wait[q] /\ call[q][b] = "sent")
  <2>1. store[b][nonce[q]] = Absent
    BY <1>1, <1>3 DEF Searched
  <2> QED
    BY <1>1, <1>2, <1>3, <2>1, StepFacts
<1>4. ASSUME NEW r \in Requests, ConsumeLocal(r) PROVE Goal
  <2>1. CASE r = q
    <3>1. ~Valid(home[q], nonce[q])
      BY <1>4, <2>1, <1>0 DEF ConsumeLocal, TypeOK
    <3>2. PICK peers \in SUBSET (Brokers \ {home[q]}) :
            /\ todo' = [todo EXCEPT ![q] = peers]
            /\ lossy' = IF peers = Brokers \ {home[q]} THEN lossy ELSE lossy \union {q}
      BY <1>4, <2>1, <3>1 DEF ConsumeLocal
    <3>3. todo'[q] = Brokers \ {home[q]}
      BY <3>2, <1>0 DEF TypeOK
    <3>4. b = home[q]
      BY <3>3
    <3> QED
      BY <1>4, <2>1, <3>4, <1>0, <1>1 DEF ConsumeLocal, ConsumeAt, TypeOK
  <2>2. CASE r # q
    <3>1. /\ pc'[q] = pc[q] /\ todo'[q] = todo[q] /\ wait'[q] = wait[q]
          /\ call'[q][b] = call[q][b]
      BY <1>4, <2>2, <1>0 DEF ConsumeLocal, ConsumeAt, TypeOK
    <3> QED
      BY <3>1, <1>3
  <2> QED
    BY <2>1, <2>2
<1>5. ASSUME NEW r \in Requests, NEW p \in Brokers, HandleChallengeConsume(r, p) PROVE Goal
  <2>1. CASE r = q /\ p = b
    BY <1>5, <2>1, <1>0, <1>1 DEF HandleChallengeConsume, ConsumeAt, TypeOK
  <2>2. CASE ~(r = q /\ p = b)
    <3>1. pc' = pc /\ todo' = todo /\ wait' = wait /\ call'[q][b] = call[q][b]
      BY <1>5, <2>2, <1>0 DEF HandleChallengeConsume, ConsumeAt, TypeOK
    <3> QED
      BY <3>1, <1>3
  <2> QED
    BY <2>1, <2>2
<1>6. ASSUME NEW r \in Requests, NEW p \in Brokers, AskPeer(r, p) PROVE Goal
  <2>1. CASE r = q
    <3>1. pc[q] = "peers" /\ wait[q] = NoPeer /\ todo'[q] = todo[q] \ {p} /\ wait'[q] = p
          /\ call'[q][p] = "sent" /\ b # wait[q]
      BY <1>6, <2>1, <1>0, ChallengeAssumption DEF AskPeer, TypeOK
    <3> QED
      BY <3>1, <1>3
  <2>2. CASE r # q
    <3>1. /\ pc'[q] = pc[q] /\ todo'[q] = todo[q] /\ wait'[q] = wait[q]
          /\ call'[q][b] = call[q][b]
      BY <1>6, <2>2, <1>0 DEF AskPeer, TypeOK
    <3> QED
      BY <3>1, <1>3
  <2> QED
    BY <2>1, <2>2
<1>7. ASSUME NEW r \in Requests, PeerAnswer(r) PROVE Goal
  <2>1. pc[q] = "peers" /\ todo'[q] = todo[q] /\ call' = call
        /\ (wait'[q] = wait[q] \/ call[q][wait[q]] # "sent")
    BY <1>7, <1>0 DEF PeerAnswer, TypeOK
  <2> QED
    BY <2>1, <1>3
<1>8. ASSUME NEW r \in Requests, PeerTimeout(r) PROVE Goal
  <2>1. r # q /\ pc[q] = "peers" /\ todo'[q] = todo[q] /\ call' = call /\ wait'[q] = wait[q]
    BY <1>8, <1>0 DEF PeerTimeout, TypeOK
  <2> QED
    BY <2>1, <1>3
<1>9. ASSUME pc'[q] = pc[q], todo' = todo, wait' = wait, call' = call PROVE Goal
  BY <1>9, <1>3
<1>10. ASSUME NEW c \in Brokers, NEW n \in Nonces, Issue(c, n) PROVE Goal
  BY <1>9, <1>10 DEF Issue, reqVars
<1>11. ASSUME NEW r \in Requests, Submit(r) \/ Deny(r) PROVE Goal
  BY <1>9, <1>11, <1>0 DEF Submit, Deny, TypeOK
<1>12. ASSUME NEW c \in Brokers, Restart(c) PROVE Goal
  BY <1>9, <1>12, <1>0 DEF Restart, TypeOK
<1>13. CASE Tick \/ UNCHANGED vars
  BY <1>9, <1>13 DEF Tick, vars, reqVars
<1> QED
  BY <1>4, <1>5, <1>6, <1>7, <1>8, <1>10, <1>11, <1>12, <1>13 DEF Next, Handle

\* Who is refused was refused for a cause, and stays so.
LEMMA DeniedStep ==
  ASSUME Ownership, Fate, Searched, DeniedForCause, [Next]_vars PROVE DeniedForCause'
<1>0. TypeOK
  BY DEF Ownership
<1> SUFFICES ASSUME NEW q \in Requests, pc'[q] = "denied"
             PROVE  Spent(nonce[q])' \/ q \in lossy'
  BY StepFacts DEF DeniedForCause
<1>1. nonce[q] \in Nonces /\ nonce' = nonce /\ lossy \subseteq lossy'
  BY <1>0, StepFacts DEF TypeOK
<1>2. pc[q] # "new" => issuedAt[nonce[q]] # Absent
  BY DEF Ownership, SubmittedIsIssued
<1>3. CASE pc[q] = "denied"
  BY <1>1, <1>2, <1>3, SpentStays DEF DeniedForCause
<1>4. CASE pc[q] # "denied"
  <2>1. Deny(q)
    <3>1. ASSUME NEW r \in Requests, Deny(r), r # q PROVE FALSE
      BY <3>1, <1>4, <1>0 DEF Deny, TypeOK
    <3>2. ASSUME NEW c \in Brokers, NEW n \in Nonces, Issue(c, n) PROVE FALSE
      BY <3>2, <1>4 DEF Issue, reqVars
    <3>3. ASSUME NEW r \in Requests,
                 Submit(r) \/ ConsumeLocal(r) \/ PeerAnswer(r) \/ PeerTimeout(r)
          PROVE  FALSE
      BY <3>3, <1>4, <1>0 DEF Submit, ConsumeLocal, PeerAnswer, PeerTimeout, TypeOK
    <3>4. ASSUME NEW r \in Requests, NEW p \in Brokers, AskPeer(r, p) \/ HandleChallengeConsume(r, p)
          PROVE  FALSE
      BY <3>4, <1>4 DEF AskPeer, HandleChallengeConsume
    <3>5. ASSUME NEW c \in Brokers, Restart(c) PROVE FALSE
      BY <3>5, <1>4, <1>0 DEF Restart, TypeOK
    <3>6. CASE Tick \/ UNCHANGED vars
      BY <3>6, <1>4 DEF Tick, vars, reqVars
    <3> QED
      BY <3>1, <3>2, <3>3, <3>4, <3>5, <3>6 DEF Next, Handle
  <2>2. pc[q] = "peers" /\ wait[q] = NoPeer /\ todo[q] = {}
    BY <2>1 DEF Deny
  <2>3. q \in lossy \/ \A b \in Brokers : store[b][nonce[q]] = Absent
    BY <2>2, ChallengeAssumption DEF Searched
  <2>4. q \in lossy \/ Spent(nonce[q])
    BY <2>2, <2>3, <1>1, <1>2 DEF Fate
  <2> QED
    BY <2>2, <2>4, <1>1, <1>2, SpentStays
<1> QED
  BY <1>3, <1>4

\* The cap: a nonce is added only where there is room, and the rest removes.
LEMMA BoundedStep == ASSUME Ownership, Bounded, [Next]_vars PROVE Bounded'
<1>0. TypeOK
  BY DEF Ownership
<1> SUFFICES ASSUME NEW b \in Brokers
             PROVE  IsFiniteSet(Held(b)') /\ Cardinality(Held(b)') <= MaxNonces
  BY DEF Bounded, CapacityBound
<1>1. IsFiniteSet(Held(b)) /\ Cardinality(Held(b)) <= MaxNonces /\ MaxNonces \in Nat
  BY ChallengeAssumption DEF Bounded, CapacityBound
<1>2. ASSUME NEW S, S \subseteq Held(b) PROVE IsFiniteSet(S) /\ Cardinality(S) <= MaxNonces
  <2>1. IsFiniteSet(S) /\ Cardinality(S) <= Cardinality(Held(b))
    BY <1>1, <1>2, FS_Subset
  <2>2. Cardinality(S) \in Nat /\ Cardinality(Held(b)) \in Nat
    BY <1>1, <2>1, FS_CardinalityType
  <2> QED
    BY <1>1, <2>1, <2>2
<1>3. ASSUME NEW c \in Brokers, NEW n \in Nonces, Issue(c, n), c = b
      PROVE  IsFiniteSet(Held(b)') /\ Cardinality(Held(b)') <= MaxNonces
  <2> DEFINE S == {m \in Nonces : Swept(b)[m] # Absent}
  <2>1. S \subseteq Held(b)
    BY <1>0 DEF Swept, Held, TypeOK, Absent
  <2>2. IsFiniteSet(S) /\ Cardinality(S) < MaxNonces
    BY <1>2, <1>3, <2>1 DEF Issue, HasRoom
  <2>3. Held(b)' \subseteq S \union {n}
    <3>1. Swept(b) \in [Nonces -> Nat \union {-1}]
      BY <1>0 DEF Swept, TypeOK, Absent
    <3>2. store'[b] = [Swept(b) EXCEPT ![n] = now + TTL]
      BY <1>3, <1>0 DEF Issue, TypeOK
    <3> QED
      BY <3>1, <3>2 DEF Held
  <2>4. IsFiniteSet(S \union {n}) /\ Cardinality(S \union {n}) <= MaxNonces
    <3>1. Cardinality(S \union {n}) = IF n \in S THEN Cardinality(S) ELSE Cardinality(S) + 1
      BY <2>2, FS_AddElement
    <3>2. IsFiniteSet(S \union {n}) /\ Cardinality(S) \in Nat
      BY <2>2, FS_AddElement, FS_CardinalityType
    <3> QED
      BY <2>2, <3>1, <3>2, <1>1
  <2>5. IsFiniteSet(Held(b)') /\ Cardinality(Held(b)') <= Cardinality(S \union {n})
    BY <2>3, <2>4, FS_Subset
  <2>6. Cardinality(Held(b)') \in Nat /\ Cardinality(S \union {n}) \in Nat
    BY <2>4, <2>5, FS_CardinalityType
  <2> QED
    BY <2>4, <2>5, <2>6, <1>1
<1>4. ASSUME \A m \in Nonces : store'[b][m] # Absent => store[b][m] # Absent
      PROVE  IsFiniteSet(Held(b)') /\ Cardinality(Held(b)') <= MaxNonces
  BY <1>2, <1>4 DEF Held, Absent
<1>5. ASSUME NEW c \in Brokers, NEW n \in Nonces, Issue(c, n), c # b
      PROVE  \A m \in Nonces : store'[b][m] # Absent => store[b][m] # Absent
  BY <1>5, <1>0 DEF Issue, TypeOK
<1>6. ASSUME NEW r \in Requests, NEW c \in Brokers, ConsumeAt(r, c)
      PROVE  \A m \in Nonces : store'[b][m] # Absent => store[b][m] # Absent
  BY <1>6, <1>0 DEF ConsumeAt, TypeOK
<1>7. ASSUME NEW r \in Requests, ConsumeLocal(r)
      PROVE  \A m \in Nonces : store'[b][m] # Absent => store[b][m] # Absent
  BY <1>6, <1>7, <1>0 DEF ConsumeLocal, TypeOK
<1>8. ASSUME NEW c \in Brokers, Restart(c)
      PROVE  \A m \in Nonces : store'[b][m] # Absent => store[b][m] # Absent
  BY <1>8, <1>0 DEF Restart, TypeOK
<1> QED
  BY <1>3, <1>4, <1>5, <1>6, <1>7, <1>8 DEF Next, Handle, Tick, Submit, AskPeer, PeerAnswer,
     PeerTimeout, Deny, HandleChallengeConsume, vars

\* The whole inductive invariant.
THEOREM InductiveInvariant == Spec => []IInv
<1>1. Init => Causes
  <2> SUFFICES ASSUME Init PROVE Causes
    OBVIOUS
  <2>1. \A b \in Brokers, n \in Nonces : store[b][n] = Absent
    BY DEF Init
  <2>2. \A b \in Brokers : Held(b) = {}
    BY <2>1 DEF Held
  <2>3. Bounded
    BY <2>2, FS_EmptySet, ChallengeAssumption DEF Bounded, CapacityBound
  <2>4. Timely /\ RedeemedInTime
    BY <2>1 DEF Init, Timely, RedeemedInTime, Absent
  <2> QED
    BY <2>3, <2>4 DEF Init, Causes, Fate, Searched, DeniedForCause
<1>2. Ownership /\ Causes /\ [Next]_vars => Causes'
  BY TimesStep, FateStep, SearchedStep, DeniedStep, BoundedStep DEF Causes
<1> QED
  BY <1>1, <1>2, OwnershipInvariant, PTL DEF Spec, IInv

\* A nonce is redeemed within TTL of its issue, on whichever replica.
THEOREM NoLateRedemption == Spec => []RedeemedInTime
<1>1. IInv => RedeemedInTime
  BY DEF IInv, Causes
<1> QED
  BY <1>1, InductiveInvariant, PTL

\* A refused nonce was used, expired or lost, or a peer was not heard.
THEOREM RefusedForCause == Spec => []DeniedForCause
<1>1. IInv => DeniedForCause
  BY DEF IInv, Causes
<1> QED
  BY <1>1, InductiveInvariant, PTL

\* No store holds more than maxNonces.
THEOREM StoreIsBounded == Spec => []CapacityBound
<1>1. IInv => CapacityBound
  BY DEF IInv, Causes, Bounded
<1> QED
  BY <1>1, InductiveInvariant, PTL

\* Making room for a nonce never evicts one that could still be redeemed.
THEOREM LiveNoncesKept == Spec => NoLiveEviction
<1>1. IInv /\ [Next]_vars =>
        [\A b \in Brokers, n \in Nonces :
           Valid(b, n) /\ store'[b][n] = Absent =>
             \/ n \in wiped'
             \/ \E r \in Requests : nonce[r] = n /\ call'[r][b] = "ok"]_vars
  <2> SUFFICES ASSUME IInv, [Next]_vars, NEW b \in Brokers, NEW n \in Nonces,
                      Valid(b, n), store'[b][n] = Absent
               PROVE  n \in wiped' \/ \E r \in Requests : nonce[r] = n /\ call'[r][b] = "ok"
    OBVIOUS
  <2> QED
    BY LeavesWhenSpent DEF IInv, Causes, Valid
<1> QED
  BY <1>1, InductiveInvariant, PTL DEF Spec, NoLiveEviction
=============================================================================

------------------------------- MODULE Unseal -------------------------------
(***************************************************************************)
(* POST /v1/unseal (internal/broker/broker.go, HandleUnseal): the chain of *)
(* checks between a caller and a plaintext.  Every check is a separate     *)
(* read, of GitLab over the network or of the broker's keystore, and       *)
(* between two of them an administrator may block the account, revoke the  *)
(* token, change a membership, or the keystore may be reloaded.            *)
(*                                                                         *)
(* GitLab is external and modelled from how the handler uses it: it keeps  *)
(* the membership rows of a blocked user, and refuses a blocked user's     *)
(* token.  authViaSSH (its nonce and its fingerprint index are the modules *)
(* Challenge and IdentityIndex) is here one step that yields the user who  *)
(* signed, or fails.                                                       *)
(***************************************************************************)
EXTENDS Envelope

CONSTANTS
  Users,
  Projects,    \* numeric project ids
  Keys,        \* age key pairs
  NoKey,       \* no key file for a project
  Levels,      \* GitLab access levels; 0 is "not a member"
  Secrets,     \* the blobs callers may present
  Requests

ASSUME UnsealAssumption ==
  /\ NoKey \notin Keys
  /\ Levels \subseteq Nat /\ 0 \in Levels
  /\ Secrets \subseteq [for : {ById(p) : p \in Projects} \union {ByKey(k) : k \in Keys},
                        level : Nat \union {NoLevel}, to : SUBSET Keys, body : {"value"}]

VARIABLES
  active,      \* GitLab: accounts that are active humans
  token,       \* GitLab: users whose access token is active
  level,       \* GitLab: level[u][p], effective access level
  keystore,    \* keystore[p]: the identity loaded for p
  req,         \* what each request asks: [user, auth, target, secret]
  pc,          \* where its handler is
  pid,         \* the numeric project the live checks are about
  identity,    \* the identity resolved up front for a v4 request
  granted,     \* the level members/all returned
  failed,      \* history: a GitLab call failed, or the SSH proof did
  sometime,    \* history: facts that held at some moment of the request
  throughout   \* history: facts that held at every moment of the request

gitlab  == <<active, token, level>>
handler == <<pc, pid, identity, granted, failed>>
vars    == <<gitlab, keystore, req, handler, sometime, throughout>>

Targets  == {ById(p) : p \in Projects} \union {ByKey(k) : k \in Keys}
Finished == {"allow", "deny"}

\* A call with the user's own token works while token and account are active;
\* the broker's service token, used on the SSH path, always works.
TokenWorks(u) == u \in token /\ u \in active

Holders(k) == {p \in Projects : keystore[p] = k}

\* What entitles r's caller to r's secret, by the secret's own embedded data
\* and not by anything the request claims: a live account, the required level
\* on a project, and the key of that project being what the secret is for.
Facts(r) ==
  LET q == req[r]  s == q.secret IN
  {<<"account", p>> : p \in {x \in Projects :
     IF q.auth = "pat" THEN TokenWorks(q.user) ELSE q.user \in active}}
  \union
  {<<"member", p>> : p \in {x \in Projects :
     level[q.user][x] >= DefaultMinAccessLevel /\ level[q.user][x] >= EmbeddedLevel(s)}}
  \union
  {<<"key", p>> : p \in {x \in Projects :
     keystore[x] \in s.to /\ s.for \in {ById(x), ByKey(keystore[x])}}}

Entitling(p) == {"account", "member", "key"} \X {p}

-----------------------------------------------------------------------------

Init ==
  /\ active \in SUBSET Users
  /\ token \in SUBSET Users
  /\ level \in [Users -> [Projects -> Levels]]
  /\ keystore \in [Projects -> Keys \union {NoKey}]
  /\ \E p \in Projects : keystore[p] # NoKey
  /\ req \in [Requests -> [user : Users, auth : {"ssh", "pat"},
                           target : Targets, secret : Secrets]]
  /\ pc = [r \in Requests |-> "new"]
  /\ pid = [r \in Requests |-> CHOOSE p \in Projects : TRUE]
  /\ identity = [r \in Requests |-> NoKey]
  /\ granted = [r \in Requests |-> 0]
  /\ failed = {}
  /\ sometime = [r \in Requests |-> {}]
  /\ throughout = [r \in Requests |-> {}]

\* GitLab's administrators and the project's maintainers.
SetAccount ==
  /\ \E u \in Users : active' = IF u \in active THEN active \ {u} ELSE active \union {u}
  /\ UNCHANGED <<token, level, keystore, req, handler>>

RevokeToken ==
  /\ \E u \in token : token' = token \ {u}
  /\ UNCHANGED <<active, level, keystore, req, handler>>

SetLevel ==
  /\ \E u \in Users, p \in Projects, l \in Levels :
       level[u][p] # l /\ level' = [level EXCEPT ![u][p] = l]
  /\ UNCHANGED <<active, token, keystore, req, handler>>

\* SwapKeys: a reload replaces the whole keystore, never by an empty one.
SwapKeys ==
  /\ keystore' \in [Projects -> Keys \union {NoKey}] \ {keystore}
  /\ \E p \in Projects : keystore'[p] # NoKey
  /\ UNCHANGED <<gitlab, req, handler>>

Goto(r, next) == pc' = [pc EXCEPT ![r] = next]

\* A request arrives.  A v4 request names the project's public key: identity
\* and numeric id are read from the keystore at once (keyForPubkey, over a map
\* in no fixed order); an unknown key is a 404.
Receive(r) ==
  /\ pc[r] = "new"
  /\ LET t == req[r].target IN
     \/ /\ t.form = "id"
        /\ pid' = [pid EXCEPT ![r] = t.id]
        /\ Goto(r, "auth")
        /\ UNCHANGED identity
     \/ /\ t.form = "key"
        /\ \E p \in Holders(t.id) : pid' = [pid EXCEPT ![r] = p]
        /\ identity' = [identity EXCEPT ![r] = t.id]
        /\ Goto(r, "auth")
     \/ /\ t.form = "key" /\ Holders(t.id) = {}
        /\ Goto(r, "deny")
        /\ UNCHANGED <<pid, identity>>
  /\ UNCHANGED <<gitlab, keystore, req, granted, failed>>

\* One check of the chain: go on or deny.
Check(r, at, ok, next) ==
  /\ pc[r] = at
  /\ Goto(r, IF ok THEN next ELSE "deny")
  /\ UNCHANGED <<gitlab, keystore, req, pid, identity, granted, failed>>

\* Mutant of CheckUserActive: the SSH path trusts the signature alone.
BugCheckUserActive(r) == Check(r, "active", TRUE, "level")

\* SSH: authViaSSH accepts the signed nonce; then checkUserActive.
AuthViaSSH(r)      == req[r].auth = "ssh" /\ Check(r, "auth", TRUE, "active")
CheckUserActive(r) == Check(r, "active", req[r].user \in active, "level")

\* PAT: personal_access_tokens/self, then /user, both with the caller's token.
CheckToken(r)      == req[r].auth = "pat" /\ Check(r, "auth", TokenWorks(req[r].user), "user")
CheckUser(r)       == Check(r, "user", TokenWorks(req[r].user), "level")

\* Mutant of CallerLevel: a Developer is not enough for the baseline.
BugCallerLevel(r) ==
  LET l == level[req[r].user][pid[r]]
      answered == req[r].auth = "pat" => TokenWorks(req[r].user) IN
  /\ pc[r] = "level"
  /\ granted' = [granted EXCEPT ![r] = IF answered THEN l ELSE @]
  /\ Goto(r, IF answered /\ l > DefaultMinAccessLevel THEN "decrypt" ELSE "deny")
  /\ UNCHANGED <<gitlab, keystore, req, pid, identity, failed>>

\* callerLevel, with the caller's token or the service token.
CallerLevel(r) ==
  LET l == level[req[r].user][pid[r]]
      answered == req[r].auth = "pat" => TokenWorks(req[r].user) IN
  /\ pc[r] = "level"
  /\ granted' = [granted EXCEPT ![r] = IF answered THEN l ELSE @]
  /\ Goto(r, IF answered /\ l >= DefaultMinAccessLevel THEN "decrypt" ELSE "deny")
  /\ UNCHANGED <<gitlab, keystore, req, pid, identity, failed>>

\* keyFor, unless the identity was resolved up front; then decrypt, re-assert
\* the embedded discriminator, and compare the embedded level.
Decrypt(r) ==
  LET key == IF identity[r] # NoKey THEN identity[r] ELSE keystore[pid[r]]
      ct  == req[r].secret IN
  Check(r, "decrypt",
        /\ key # NoKey
        /\ Unseals(ct, key, req[r].target)
        /\ granted[r] >= EmbeddedLevel(ct),
        "allow")

\* A GitLab call fails or is truncated, the deadline passes, or the SSH proof
\* is not accepted: every such outcome denies.
Fail(r) ==
  /\ pc[r] \in {"auth", "active", "user", "level"}
  /\ Goto(r, "deny")
  /\ failed' = failed \union {r}
  /\ UNCHANGED <<gitlab, keystore, req, pid, identity, granted>>

Handle(r) ==
  \/ Receive(r)
  \/ AuthViaSSH(r) \/ CheckUserActive(r)
  \/ CheckToken(r) \/ CheckUser(r)
  \/ CallerLevel(r)
  \/ Decrypt(r)
  \/ Fail(r)

\* The window of a request is from its arrival to its answer.
Observe ==
  /\ sometime' = [r \in Requests |->
       IF pc'[r] = "new" \/ pc[r] \in Finished THEN sometime[r]
       ELSE sometime[r] \union Facts(r)']
  /\ throughout' = [r \in Requests |->
       IF pc'[r] = "new" \/ pc[r] \in Finished THEN throughout[r]
       ELSE IF pc[r] = "new" THEN Facts(r)' ELSE throughout[r] \intersect Facts(r)']

Next ==
  /\ \/ SetAccount
     \/ RevokeToken
     \/ SetLevel
     \/ SwapKeys
     \/ \E r \in Requests : Handle(r)
  /\ Observe

Spec == Init /\ [][Next]_vars

-----------------------------------------------------------------------------
(***************************************************************************)
(* Properties                                                              *)
(***************************************************************************)

\* Every variable keeps its shape.
TypeOK ==
  /\ active \subseteq Users
  /\ token \subseteq Users
  /\ level \in [Users -> [Projects -> Levels]]
  /\ keystore \in [Projects -> Keys \union {NoKey}]
  /\ req \in [Requests -> [user : Users, auth : {"ssh", "pat"},
                           target : Targets, secret : Secrets]]
  /\ pc \in [Requests -> {"new", "auth", "active", "user", "level", "decrypt"}
                         \union Finished]
  /\ pid \in [Requests -> Projects]
  /\ identity \in [Requests -> Keys \union {NoKey}]
  /\ granted \in [Requests -> Levels]
  /\ failed \subseteq Requests
  /\ sometime \in [Requests -> SUBSET ({"account", "member", "key"} \X Projects)]

\* Live revocation: a plaintext leaves only for a caller whose account was
\* live, who had the level sealed into the secret on the secret's own
\* project, and whose project's key was loaded, each at some moment between
\* the request's arrival and its answer.  So a member removed, a user blocked
\* or a token revoked before the request arrives is denied, whatever the
\* request claims (README: "the next unseal is denied").
AllowedIsEntitled ==
  \A r \in Requests : pc[r] = "allow" =>
    \E p \in Projects : Entitling(p) \subseteq sometime[r]

\* No false denial: a caller who is entitled throughout the request, and who
\* names the secret's own project, is served when GitLab answers.  (A key
\* loaded under two project ids is looked up under either of them.)
EntitledIsAllowed ==
  \A r \in Requests : pc[r] = "deny" /\ r \notin failed =>
    \/ req[r].target # req[r].secret.for
    \/ EmbeddedLevel(req[r].secret) < DefaultMinAccessLevel
    \/ \A p \in Projects :
         \/ ~(Entitling(p) \subseteq throughout[r])
         \/ \E x \in Projects \ {p} : <<"key", x>> \in sometime[r]

-----------------------------------------------------------------------------
(***************************************************************************)
(* The inductive invariant: behind AllowedIsEntitled, what was checked was *)
(* seen to hold; behind EntitledIsAllowed, what always held passes a check *)
(***************************************************************************)

Started(r) == pc[r] \notin {"new", "deny"}

\* Past the account checks, the account was seen live.
AccountChecked ==
  \A r \in Requests : pc[r] \in {"level", "decrypt", "allow"} =>
    \A p \in Projects : <<"account", p>> \in sometime[r]

\* The level in hand was the caller's level on the project in hand.
LevelChecked ==
  \A r \in Requests : pc[r] \in {"decrypt", "allow"} =>
    /\ granted[r] >= DefaultMinAccessLevel
    /\ granted[r] >= EmbeddedLevel(req[r].secret) => <<"member", pid[r]>> \in sometime[r]

\* checkUserActive serves the SSH path, the caller's own /user the PAT path.
AuthRoute == \A r \in Requests :
  /\ pc[r] = "active" => req[r].auth = "ssh"
  /\ pc[r] = "user" => req[r].auth = "pat"

\* No identity is resolved before the request is read.
Unresolved == \A r \in Requests : pc[r] = "new" => identity[r] = NoKey

\* The project in hand is the one the request names, or the one whose key
\* file held the key it names when the request arrived.
TargetResolved ==
  \A r \in Requests : Started(r) =>
    \/ req[r].target = ById(pid[r]) /\ identity[r] = NoKey
    \/ /\ identity[r] # NoKey
       /\ req[r].target = ByKey(identity[r])
       /\ identity[r] \in req[r].secret.to /\ req[r].secret.for = req[r].target
            => <<"key", pid[r]>> \in sometime[r]

AllowedByPid ==
  \A r \in Requests : pc[r] = "allow" => Entitling(pid[r]) \subseteq sometime[r]

\* What was checked was seen to hold.
Justified ==
  TypeOK /\ AuthRoute /\ AccountChecked /\ LevelChecked /\ Unresolved /\ TargetResolved /\ AllowedByPid

\* What held at every moment so far holds now.
StillTrue ==
  \A r \in Requests : pc[r] \notin {"new"} \union Finished => throughout[r] \subseteq Facts(r)

\* r's caller has been entitled on p all along, names the secret's own project,
\* and no other project held its key.
Due(r, p) ==
  /\ req[r].target = req[r].secret.for
  /\ EmbeddedLevel(req[r].secret) >= DefaultMinAccessLevel
  /\ Entitling(p) \subseteq throughout[r]
  /\ \A x \in Projects \ {p} : <<"key", x>> \notin sometime[r]

\* The handler is then about p, has the caller's level, and denies nothing.
OnCourse ==
  \A r \in Requests, p \in Projects : pc[r] # "new" /\ Due(r, p) =>
    /\ pc[r] = "deny" => r \in failed
    /\ pc[r] \notin Finished => pid[r] = p
    /\ pc[r] = "decrypt" => granted[r] >= EmbeddedLevel(req[r].secret)

IInv == Justified /\ StillTrue /\ OnCourse
=============================================================================

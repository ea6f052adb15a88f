--------------------------- MODULE IdentityIndex ---------------------------
(***************************************************************************)
(* The broker's identity index (internal/broker/identity_index.go,         *)
(* identity_reconcile.go, system_hook.go, ssh_auth.go): which user signs   *)
(* with which SSH key, rebuilt from GitLab by a sweep of many separate     *)
(* reads and swapped in whole.  The poll loop, the system hook and every   *)
(* SSH request whose fingerprint is unknown may sweep at the same time.    *)
(*                                                                         *)
(* An index is a set of pairs <<fingerprint, user>>.  GitLab is external;  *)
(* a fingerprint belongs to at most one user there.  Nonces are the module *)
(* Challenge, the live checks after authentication the module Unseal.      *)
(***************************************************************************)
EXTENDS Naturals

CONSTANTS
  Fps,        \* key fingerprints
  Users,
  NoUser,     \* a key on nobody's profile
  Projects,   \* the projects the broker holds a key for
  Legacy,     \* the registry's users map, consulted when the index misses
  Poll,       \* the poll loop, the hook handlers and the SSH requests
  Hooks,
  Requests,
  Outages,    \* whether GitLab may be unreachable, or too slow for a deadline
  MaxChanges  \* bound on the changes made in GitLab

Callers == {Poll} \union Hooks \union Requests

ASSUME IdentityAssumption ==
  /\ NoUser \notin Users
  /\ Legacy \subseteq Fps \X Users
  /\ Poll \notin Hooks \union Requests
  /\ Hooks \intersect Requests = {}
  /\ Outages \in BOOLEAN /\ MaxChanges \in Nat

VARIABLES
  keyOwner,    \* GitLab: whose profile a key is on
  member,      \* GitLab: <<project, user>>, direct or inherited
  hidden,      \* GitLab: projects the service token cannot see (404 / 403)
  up,          \* GitLab answers
  changes,
  events,      \* system hooks GitLab has not delivered
  index,       \* IdentityIndex.m
  throttled,   \* the last on-miss sweep began less than onMissMinInterval ago
  pc,          \* per caller
  todoP, todoU, done, acc,  \* the sweep: projects and users to read, users read, entries
  fp,          \* the fingerprint each request presents
  signer,      \* whom a request was resolved to
  keysKept, membersKept, keysSeen, membersSeen,  \* history of a sweep: see Window
  lasting,     \* history: entries true since before the installed index's sweep
  witnessed    \* history: entries whose key and membership each held at some moment
               \* of that sweep

gitlab  == <<keyOwner, member, hidden, up, changes, events>>
sweep   == <<todoP, todoU, done, acc>>
window  == <<keysKept, membersKept, keysSeen, membersSeen>>
request == <<fp, signer>>
vars    == <<gitlab, index, throttled, pc, sweep, request, window,
             lasting, witnessed>>

Owned   == {e \in Fps \X Users : keyOwner[e[1]] = e[2]}
Visible == {m \in member : m[1] \notin hidden}

\* The entries that some keys and memberships call for.
Entries(keys, members) == {e \in keys : \E p \in Projects : <<p, e[2]>> \in members}

\* What a sweep of an unchanging GitLab returns.
Known == Entries(Owned, Visible)

\* The hook events that matter; only the name of one is read.
Events == {"key_create", "key_destroy", "user_add_to_team"}

Answered == {"ok", "deny"}

-----------------------------------------------------------------------------

Init ==
  /\ keyOwner \in [Fps -> Users \union {NoUser}]
  /\ member \in SUBSET (Projects \X Users)
  /\ hidden \in SUBSET Projects
  /\ up \in {TRUE, ~Outages}
  /\ changes = 0
  /\ events = {}
  /\ index = {}
  /\ throttled = FALSE
  /\ pc = [c \in Callers |-> IF c \in Requests THEN "new" ELSE "idle"]
  /\ todoP = [c \in Callers |-> {}]
  /\ todoU = [c \in Callers |-> {}]
  /\ done = [c \in Callers |-> {}]
  /\ acc = [c \in Callers |-> {}]
  /\ fp \in [Requests -> Fps]
  /\ signer = [r \in Requests |-> NoUser]
  /\ keysKept = [c \in Callers |-> {}]
  /\ membersKept = [c \in Callers |-> {}]
  /\ keysSeen = [c \in Callers |-> {}]
  /\ membersSeen = [c \in Callers |-> {}]
  /\ lasting = {}
  /\ witnessed = {}

\* What a sweep must not miss, and may contain: the keys and memberships that
\* held throughout it so far, and those that held at some moment of it.
Window ==
  /\ keysKept' = [c \in Callers |-> keysKept[c] \intersect Owned']
  /\ membersKept' = [c \in Callers |-> membersKept[c] \intersect Visible']
  /\ keysSeen' = [c \in Callers |->
       IF pc[c] = "sweep" THEN keysSeen[c] \union Owned' ELSE {}]
  /\ membersSeen' = [c \in Callers |->
       IF pc[c] = "sweep" THEN membersSeen[c] \union Visible' ELSE {}]

\* GitLab changes; users and administrators act, and a hook is queued where
\* the broker has the hook enabled.
Change(event) ==
  /\ changes < MaxChanges /\ changes' = changes + 1
  /\ events' = IF Hooks = {} THEN events ELSE events \union {event}
  /\ Window
  /\ lasting' = lasting \intersect Known'
  /\ UNCHANGED <<up, index, throttled, pc, sweep, request, witnessed>>

KeyCreate(f, u) ==
  /\ keyOwner[f] = NoUser
  /\ keyOwner' = [keyOwner EXCEPT ![f] = u]
  /\ UNCHANGED <<member, hidden>>
  /\ Change("key_create")

KeyDestroy(f) ==
  /\ keyOwner[f] # NoUser
  /\ keyOwner' = [keyOwner EXCEPT ![f] = NoUser]
  /\ UNCHANGED <<member, hidden>>
  /\ Change("key_destroy")

TeamChange ==
  /\ \/ /\ UNCHANGED hidden
        /\ \E m \in Projects \X Users :
             member' = IF m \in member THEN member \ {m} ELSE member \union {m}
     \/ /\ UNCHANGED member
        /\ \E p \in Projects :
             hidden' = IF p \in hidden THEN hidden \ {p} ELSE hidden \union {p}
  /\ UNCHANGED keyOwner
  /\ Change("user_add_to_team")

Outage ==
  /\ Outages /\ up' = ~up
  /\ UNCHANGED <<keyOwner, member, hidden, changes, events, index, throttled, pc, sweep,
                 request, window, lasting, witnessed>>

\* A hook delivery is lost.
LoseHook ==
  /\ Outages
  /\ \E e \in events : events' = events \ {e}
  /\ UNCHANGED <<keyOwner, member, hidden, up, changes, index, throttled, pc, sweep,
                 request, window, lasting, witnessed>>

-----------------------------------------------------------------------------

Goto(c, next) == pc' = [pc EXCEPT ![c] = next]

\* Where a caller goes on when its sweep is over, or was throttled.
After(c) == IF c \in Requests THEN "consume" ELSE "idle"

\* ReconcileIdentityIndex begins.
StartSweep(c) ==
  /\ Goto(c, "sweep")
  /\ todoP' = [todoP EXCEPT ![c] = Projects]
  /\ todoU' = [todoU EXCEPT ![c] = {}]
  /\ done' = [done EXCEPT ![c] = {}]
  /\ acc' = [acc EXCEPT ![c] = {}]
  /\ keysKept' = [keysKept EXCEPT ![c] = Owned]
  /\ membersKept' = [membersKept EXCEPT ![c] = Visible]
  /\ keysSeen' = [keysSeen EXCEPT ![c] = Owned]
  /\ membersSeen' = [membersSeen EXCEPT ![c] = Visible]

\* The sweep's locals are gone when it is over.
EndSweep(c) ==
  /\ pc[c] = "sweep"
  /\ Goto(c, After(c))
  /\ todoP' = [todoP EXCEPT ![c] = {}]
  /\ todoU' = [todoU EXCEPT ![c] = {}]
  /\ done' = [done EXCEPT ![c] = {}]
  /\ acc' = [acc EXCEPT ![c] = {}]
  /\ keysKept' = [keysKept EXCEPT ![c] = {}]
  /\ membersKept' = [membersKept EXCEPT ![c] = {}]
  /\ keysSeen' = [keysSeen EXCEPT ![c] = {}]
  /\ membersSeen' = [membersSeen EXCEPT ![c] = {}]

\* f.members of the next project; a project the token cannot see is skipped,
\* and a user read before is not read again.
FetchMembers(c) ==
  /\ pc[c] = "sweep" /\ todoU[c] = {} /\ up
  /\ \E p \in todoP[c] :
       /\ todoP' = [todoP EXCEPT ![c] = @ \ {p}]
       /\ todoU' = [todoU EXCEPT ![c] =
            IF p \in hidden THEN {} ELSE {u \in Users : <<p, u>> \in member} \ done[c]]
  /\ UNCHANGED <<gitlab, index, throttled, pc, done, acc, request, window, lasting, witnessed>>

\* Mutant of FetchKeys: a user whose keys could not be read counts as read.
BugFetchKeys(c) ==
  /\ pc[c] = "sweep"
  /\ \E u \in todoU[c] :
       LET read == IF up THEN {e \in Owned : e[2] = u} ELSE {} IN
       /\ todoU' = [todoU EXCEPT ![c] = @ \ {u}]
       /\ done' = [done EXCEPT ![c] = @ \union {u}]
       /\ acc' = [acc EXCEPT ![c] = {e \in @ : \A n \in read : n[1] # e[1]} \union read]
  /\ UNCHANGED <<gitlab, index, throttled, pc, todoP, request, window, lasting, witnessed>>

\* f.keys of the next member; an entry overwrites one with the same fingerprint.
FetchKeys(c) ==
  /\ pc[c] = "sweep" /\ up
  /\ \E u \in todoU[c] :
       LET read == {e \in Owned : e[2] = u} IN
       /\ todoU' = [todoU EXCEPT ![c] = @ \ {u}]
       /\ done' = [done EXCEPT ![c] = @ \union {u}]
       /\ acc' = [acc EXCEPT ![c] = {e \in @ : \A n \in read : n[1] # e[1]} \union read]
  /\ UNCHANGED <<gitlab, index, throttled, pc, todoP, request, window, lasting, witnessed>>

\* Mutant of Abort: only the poll loop gives a hung read up.
BugAbort(c) ==
  /\ EndSweep(c)
  /\ ~up /\ c = Poll
  /\ UNCHANGED <<gitlab, index, throttled, request, lasting, witnessed>>

\* A read fails, or the sweep of a hook or a request meets unsealDeadline: the
\* sweep is dropped and the index stays as it is.
Abort(c) ==
  /\ EndSweep(c)
  /\ ~up \/ (Outages /\ c # Poll)
  /\ UNCHANGED <<gitlab, index, throttled, request, lasting, witnessed>>

\* Mutant of Swap: the entries are put into the map that is there.
BugSwap(c) ==
  /\ EndSweep(c) /\ todoP[c] = {} /\ todoU[c] = {}
  /\ IF acc[c] = {}
     THEN UNCHANGED <<index, lasting, witnessed>>
     ELSE /\ index' = index \union acc[c]
          /\ lasting' = Entries(keysKept[c], membersKept[c])
          /\ witnessed' = Entries(keysSeen[c], membersSeen[c])
  /\ UNCHANGED <<gitlab, throttled, request>>

\* The sweep is complete: IdentityIndex.Swap, which refuses an empty map.
Swap(c) ==
  /\ EndSweep(c) /\ todoP[c] = {} /\ todoU[c] = {}
  /\ IF acc[c] = {}
     THEN UNCHANGED <<index, lasting, witnessed>>
     ELSE /\ index' = acc[c]
          /\ lasting' = Entries(keysKept[c], membersKept[c])
          /\ witnessed' = Entries(keysSeen[c], membersSeen[c])
  /\ UNCHANGED <<gitlab, throttled, request>>

Sweep(c) == FetchMembers(c) \/ FetchKeys(c) \/ Abort(c) \/ Swap(c)

-----------------------------------------------------------------------------

\* Mutant of PollIdentityIndex: it primes the index and then never ticks.
BugPollIdentityIndex ==
  /\ pc[Poll] = "idle" /\ index = {}
  /\ StartSweep(Poll)
  /\ UNCHANGED <<gitlab, index, throttled, request, lasting, witnessed>>

\* PollIdentityIndex: the priming sweep, then one per tick.
PollIdentityIndex ==
  /\ pc[Poll] = "idle"
  /\ StartSweep(Poll)
  /\ UNCHANGED <<gitlab, index, throttled, request, lasting, witnessed>>

\* onMissRefresh: at most one sweep per onMissMinInterval, whoever asks.
onMissRefresh(c) ==
  \/ /\ throttled
     /\ Goto(c, After(c))
     /\ UNCHANGED <<sweep, window, throttled>>
  \/ ~throttled /\ throttled' = TRUE /\ StartSweep(c)

\* onMissMinInterval has passed.
Unthrottle ==
  /\ throttled /\ throttled' = FALSE
  /\ UNCHANGED <<gitlab, index, pc, sweep, request, window, lasting, witnessed>>

\* A hook is delivered: only the event's name counts, the state is read anew, and
\* inside the throttle window the event is answered 200 and dropped.
HandleSystemHook(h) ==
  /\ pc[h] = "idle"
  /\ \E e \in events : events' = events \ {e}
  /\ onMissRefresh(h)
  /\ UNCHANGED <<keyOwner, member, hidden, up, changes, index, request, lasting, witnessed>>

\* resolveSigner: the index first, the registry's users map when it misses.
Resolves(f, u) ==
  \/ <<f, u>> \in index
  \/ <<f, u>> \in Legacy /\ \A v \in Users : <<f, v>> \notin index
Unresolved(f) == \A u \in Users : ~Resolves(f, u)

\* authViaSSH: an unknown fingerprint asks for a sweep first.
AuthViaSSH(r) ==
  /\ pc[r] = "new"
  /\ IF Unresolved(fp[r])
     THEN onMissRefresh(r)
     ELSE Goto(r, "consume") /\ UNCHANGED <<sweep, window, throttled>>
  /\ UNCHANGED <<gitlab, index, request, lasting, witnessed>>

\* consumeNonce: the nonce is spent, or the request is refused.
Consume(r) ==
  /\ pc[r] = "consume"
  /\ \/ Goto(r, "resolve")
     \/ Goto(r, "refused")
  /\ UNCHANGED <<gitlab, index, throttled, sweep, request, window, lasting, witnessed>>

\* Only now is the signer resolved, and the signature verified.
Resolve(r) ==
  /\ pc[r] = "resolve"
  /\ \/ \E u \in Users :
          Resolves(fp[r], u) /\ signer' = [signer EXCEPT ![r] = u] /\ Goto(r, "ok")
     \/ Unresolved(fp[r]) /\ Goto(r, "deny") /\ UNCHANGED signer
  /\ UNCHANGED <<gitlab, index, throttled, sweep, fp, window, lasting, witnessed>>

Next ==
  \/ \E f \in Fps : KeyDestroy(f) \/ \E u \in Users : KeyCreate(f, u)
  \/ TeamChange \/ Outage \/ LoseHook \/ Unthrottle
  \/ PollIdentityIndex
  \/ \E c \in Callers : Sweep(c)
  \/ \E h \in Hooks : HandleSystemHook(h)
  \/ \E r \in Requests : AuthViaSSH(r) \/ Consume(r) \/ Resolve(r)

Spec == Init /\ [][Next]_vars

\* The loop and the handlers run on; every read ends, by an answer or by the
\* client's timeout.  Nothing makes GitLab deliver a hook or stay up.
Fairness ==
  /\ WF_vars(PollIdentityIndex)
  /\ \A c \in Callers : WF_vars(Sweep(c))
  /\ \A r \in Requests : WF_vars(AuthViaSSH(r) \/ Consume(r) \/ Resolve(r))

FairSpec == Spec /\ Fairness

-----------------------------------------------------------------------------
(***************************************************************************)
(* Properties                                                              *)
(***************************************************************************)

\* Every variable keeps its shape.
TypeOK ==
  /\ keyOwner \in [Fps -> Users \union {NoUser}]
  /\ member \subseteq Projects \X Users
  /\ hidden \subseteq Projects
  /\ up \in BOOLEAN /\ throttled \in BOOLEAN
  /\ changes \in 0..MaxChanges
  /\ events \subseteq Events
  /\ index \subseteq Fps \X Users
  /\ pc \in [Callers -> {"idle", "new", "sweep", "consume", "resolve", "refused"}
                        \union Answered]
  /\ todoP \in [Callers -> SUBSET Projects]
  /\ todoU \in [Callers -> SUBSET Users]
  /\ done \in [Callers -> SUBSET Users]
  /\ acc \in [Callers -> SUBSET (Fps \X Users)]
  /\ fp \in [Requests -> Fps]
  /\ signer \in [Requests -> Users \union {NoUser}]
  /\ keysKept \in [Callers -> SUBSET (Fps \X Users)]
  /\ membersKept \in [Callers -> SUBSET (Projects \X Users)]
  /\ keysSeen \in [Callers -> SUBSET (Fps \X Users)]
  /\ membersSeen \in [Callers -> SUBSET (Projects \X Users)]
  /\ lasting \subseteq Fps \X Users
  /\ witnessed \subseteq Fps \X Users

\* No lock-out: a key that has been its member's since before the installed
\* index's sweep began is in the index, whatever changed meanwhile, whichever
\* reads failed and however many sweeps raced ("a WRONGLY-dropped user is a
\* self-inflicted outage", buildIndex).
NoLockout == lasting \subseteq index

\* Nobody is resolved by a key that was not theirs at any moment of the sweep
\* that installed the index, or while a member of no covered project at any moment
\* of it; and a fingerprint resolves to one user.
Witnessed ==
  /\ index \subseteq witnessed
  /\ \A d, e \in index : d[1] = e[1] => d[2] = e[2]

\* The inductive invariant behind both: of every sweep, the entries already
\* owed are in the map, the memberships already owed lead to a user read or to
\* be read; and nobody is read, and no key put in the map, that was not seen.
Functional(entries) == \A d, e \in entries : d[1] = e[1] => d[2] = e[2]

SweepOwes == \A c \in Callers :
  /\ keysKept[c] \subseteq Owned
  /\ membersKept[c] \subseteq Visible
  /\ \A e \in keysKept[c] : e[2] \in done[c] => e \in acc[c]
  /\ \A m \in membersKept[c] : m[1] \in todoP[c] \/ m[2] \in todoU[c] \union done[c]

SweepTruthful == \A c \in Callers :
  /\ IF pc[c] = "sweep" THEN Owned \subseteq keysSeen[c] /\ Visible \subseteq membersSeen[c]
                         ELSE acc[c] = {} /\ todoU[c] = {}
  /\ \A u \in todoU[c] : \E p \in Projects : <<p, u>> \in membersSeen[c]
  /\ acc[c] \subseteq Entries(keysSeen[c], membersSeen[c])
  /\ Functional(acc[c])

IInv == TypeOK /\ SweepOwes /\ SweepTruthful /\ NoLockout /\ Witnessed

\* The poll is the source of truth: once GitLab stays up, the index becomes
\* and stays what GitLab says (an empty truth keeps the last good index).
Converges == <>[]up => <>[](index = Known \/ Known = {})

\* A sweep that has met GitLab as it is, and nothing else.
Clean(c) ==
  pc[c] = "sweep" =>
    /\ keysKept[c] = Owned /\ membersKept[c] = Visible
    /\ acc[c] \subseteq Known
    /\ \A u \in todoU[c] : \E p \in Projects : <<p, u>> \in Visible

\* The safety half of Converges.  A sweep begun since the last change stays clean, ...
CleanStays ==
  [][\A c \in Callers : Clean(c) /\ UNCHANGED <<keyOwner, member, hidden>> => Clean(c)']_vars

\* ... the index a clean sweep installs is the truth, unless that is empty, ...
CleanIsExact ==
  [][\A c \in Callers : Swap(c) /\ Clean(c) /\ Known # {} => index' = Known]_vars

\* ... and an index that is right stays right, though sweeps go on.
Converged == index = Known /\ \A c \in Callers : Clean(c)

ConvergedStays == [][Converged /\ UNCHANGED <<keyOwner, member, hidden>> => Converged']_vars

\* An SSH request is answered although GitLab hangs.
Served == \A r \in Requests :
  pc[r] = "new" ~> pc[r] \in Answered \union {"refused"}
=============================================================================

------------------------ MODULE IdentityIndexProofs ------------------------
(***************************************************************************)
(* Proofs about IdentityIndex for any keys, users, projects and number of  *)
(* concurrent sweeps: whatever GitLab does meanwhile, the installed index  *)
(* misses no lasting entry and invents none.                               *)
(***************************************************************************)
EXTENDS IdentityIndex, TLAPS

\* The part of TypeOK about the sweeps and their callers.
SweepTyped ==
  /\ pc \in [Callers -> {"idle", "new", "sweep", "consume", "resolve", "refused"}
                        \union Answered]
  /\ todoP \in [Callers -> SUBSET Projects]
  /\ todoU \in [Callers -> SUBSET Users]
  /\ done \in [Callers -> SUBSET Users]
  /\ acc \in [Callers -> SUBSET (Fps \X Users)]
  /\ keysKept \in [Callers -> SUBSET (Fps \X Users)]
  /\ membersKept \in [Callers -> SUBSET (Projects \X Users)]
  /\ keysSeen \in [Callers -> SUBSET (Fps \X Users)]
  /\ membersSeen \in [Callers -> SUBSET (Projects \X Users)]

\* What a caller may leave behind: a handler's pc, never in a sweep.
LEMMA CallersType ==
  /\ Poll \in Callers /\ Hooks \subseteq Callers /\ Requests \subseteq Callers
BY DEF Callers

LEMMA OwnedType ==
  /\ Owned \subseteq Fps \X Users /\ Owned' \subseteq Fps \X Users
  /\ Functional(Owned)
BY DEF Owned, Functional

LEMMA VisibleType ==
  TypeOK => Visible \subseteq Projects \X Users
BY DEF Visible, TypeOK

\* Type correctness is kept by every step.
LEMMA TypeStep == TypeOK /\ [Next]_vars => TypeOK'
<1> SUFFICES ASSUME TypeOK, [Next]_vars PROVE TypeOK'
  OBVIOUS
<1> USE DEF TypeOK, Answered, SweepTyped
<1>1. ASSUME NEW event \in Events, Change(event),
             keyOwner' \in [Fps -> Users \union {NoUser}], member' \subseteq Projects \X Users,
             hidden' \subseteq Projects
      PROVE  TypeOK'
  <2>1. changes' \in 0..MaxChanges
    BY <1>1, IdentityAssumption DEF Change
  <2>2. events' \subseteq Events
    BY <1>1 DEF Change
  <2>3. /\ keysKept' \in [Callers -> SUBSET (Fps \X Users)]
        /\ membersKept' \in [Callers -> SUBSET (Projects \X Users)]
        /\ keysSeen' \in [Callers -> SUBSET (Fps \X Users)]
        /\ membersSeen' \in [Callers -> SUBSET (Projects \X Users)]
    BY <1>1, OwnedType DEF Change, Window, Visible
  <2>4. lasting' \subseteq Fps \X Users
    BY <1>1 DEF Change
  <2> QED
    BY <1>1, <2>1, <2>2, <2>3, <2>4 DEF Change, sweep, request
<1>2. ASSUME NEW f \in Fps, KeyDestroy(f) PROVE TypeOK'
  BY <1>1, <1>2 DEF KeyDestroy, Events
<1>3. ASSUME NEW f \in Fps, NEW u \in Users, KeyCreate(f, u) PROVE TypeOK'
  BY <1>1, <1>3 DEF KeyCreate, Events
<1>4. ASSUME TeamChange PROVE TypeOK'
  <2>1. member' \subseteq Projects \X Users /\ hidden' \subseteq Projects
    BY <1>4 DEF TeamChange
  <2> QED
    BY <1>1, <1>4, <2>1, IdentityAssumption DEF TeamChange, Events
<1>5. ASSUME Outage \/ LoseHook \/ Unthrottle PROVE TypeOK'
  BY <1>5 DEF Outage, LoseHook, Unthrottle, gitlab, sweep, window, request
<1>6. ASSUME NEW c \in Callers, StartSweep(c)
      PROVE  SweepTyped'
  BY <1>6, OwnedType, VisibleType DEF StartSweep, Goto
<1>7. ASSUME NEW c \in Callers, EndSweep(c)
      PROVE  SweepTyped'
  BY <1>7 DEF EndSweep, Goto, After
<1>8. ASSUME PollIdentityIndex PROVE TypeOK'
  BY <1>6, <1>8, CallersType DEF PollIdentityIndex, gitlab, request
<1>9. ASSUME NEW c \in Callers, FetchMembers(c) PROVE TypeOK'
  <2>1. todoP' \in [Callers -> SUBSET Projects] /\ todoU' \in [Callers -> SUBSET Users]
    BY <1>9 DEF FetchMembers
  <2> QED
    BY <1>9, <2>1 DEF FetchMembers, gitlab, request, window
<1>10. ASSUME NEW c \in Callers, FetchKeys(c) PROVE TypeOK'
  <2>1. /\ todoU' \in [Callers -> SUBSET Users] /\ done' \in [Callers -> SUBSET Users]
        /\ acc' \in [Callers -> SUBSET (Fps \X Users)]
    <3>1. PICK u \in todoU[c] :
            /\ todoU' = [todoU EXCEPT ![c] = @ \ {u}]
            /\ done' = [done EXCEPT ![c] = @ \union {u}]
            /\ acc' = [acc EXCEPT ![c] =
                 {e \in @ : \A n \in {o \in Owned : o[2] = u} : n[1] # e[1]}
                   \union {o \in Owned : o[2] = u}]
      BY <1>10 DEF FetchKeys
    <3> QED
      BY <3>1, OwnedType
  <2> QED
    BY <1>10, <2>1 DEF FetchKeys, gitlab, request, window
<1>11. ASSUME NEW c \in Callers, Abort(c) PROVE TypeOK'
  BY <1>7, <1>11 DEF Abort, gitlab, request
<1>12. ASSUME NEW c \in Callers, Swap(c) PROVE TypeOK'
  <2>1. index' \subseteq Fps \X Users /\ lasting' \subseteq Fps \X Users /\ witnessed' \subseteq Fps \X Users
    BY <1>12 DEF Swap, Entries
  <2> QED
    BY <1>7, <1>12, <2>1 DEF Swap, gitlab, request
<1>13. ASSUME NEW c \in Callers, onMissRefresh(c)
       PROVE  SweepTyped' /\ throttled' \in BOOLEAN
  <2>1. CASE throttled /\ Goto(c, After(c)) /\ UNCHANGED <<sweep, window, throttled>>
    BY <2>1 DEF Goto, After, sweep, window
  <2>2. CASE throttled' = TRUE /\ StartSweep(c)
    BY <1>6, <2>2
  <2> QED
    BY <1>13, <2>1, <2>2 DEF onMissRefresh
<1>14. ASSUME NEW h \in Hooks, HandleSystemHook(h) PROVE TypeOK'
  BY <1>13, <1>14, CallersType DEF HandleSystemHook, request
<1>16. ASSUME NEW r \in Requests, AuthViaSSH(r) PROVE TypeOK'
  <2>1. CASE onMissRefresh(r)
    BY <1>13, <1>16, <2>1, CallersType DEF AuthViaSSH, gitlab, request
  <2>2. CASE Goto(r, "consume") /\ UNCHANGED <<sweep, window, throttled>>
    BY <1>16, <2>2, CallersType DEF AuthViaSSH, Goto, gitlab, sweep, window, request
  <2> QED
    BY <1>16, <2>1, <2>2 DEF AuthViaSSH
<1>17. ASSUME NEW r \in Requests, Consume(r) PROVE TypeOK'
  BY <1>17, CallersType DEF Consume, Goto, gitlab, sweep, window, request
<1>18. ASSUME NEW r \in Requests, Resolve(r) PROVE TypeOK'
  <2>1. signer' \in [Requests -> Users \union {NoUser}]
    BY <1>18 DEF Resolve
  <2> QED
    BY <1>18, <2>1, CallersType DEF Resolve, Goto, gitlab, sweep, window
<1>19. CASE UNCHANGED vars
  BY <1>19 DEF vars, gitlab, sweep, window, request
<1> QED
  BY <1>2, <1>3, <1>4, <1>5, <1>8, <1>9, <1>10, <1>11, <1>12, <1>14, <1>16, <1>17,
     <1>18, <1>19 DEF Next, Sweep

\* One caller's share of the invariant.
Owes(c) ==
  /\ keysKept[c] \subseteq Owned
  /\ membersKept[c] \subseteq Visible
  /\ \A e \in keysKept[c] : e[2] \in done[c] => e \in acc[c]
  /\ \A m \in membersKept[c] : m[1] \in todoP[c] \/ m[2] \in todoU[c] \union done[c]
  /\ IF pc[c] = "sweep" THEN Owned \subseteq keysSeen[c] /\ Visible \subseteq membersSeen[c]
                         ELSE acc[c] = {} /\ todoU[c] = {}
  /\ \A u \in todoU[c] : \E p \in Projects : <<p, u>> \in membersSeen[c]
  /\ acc[c] \subseteq Entries(keysSeen[c], membersSeen[c])
  /\ Functional(acc[c])

LEMMA InvByCaller ==
  /\ IInv <=> TypeOK /\ (\A c \in Callers : Owes(c)) /\ NoLockout /\ Witnessed
  /\ IInv' <=> TypeOK' /\ (\A c \in Callers : Owes(c)') /\ NoLockout' /\ Witnessed'
BY DEF IInv, SweepOwes, SweepTruthful, Owes

\* A step that leaves one caller's sweep and GitLab alone leaves its share.
LEMMA OthersKeep ==
  ASSUME NEW c \in Callers, Owes(c), UNCHANGED <<keyOwner, member, hidden>>,
         UNCHANGED <<todoP[c], todoU[c], done[c], acc[c], keysKept[c], membersKept[c], keysSeen[c],
                     membersSeen[c]>>,
         pc'[c] = "sweep" <=> pc[c] = "sweep"
  PROVE  Owes(c)'
BY DEF Owes, Owned, Visible, Functional

\* GitLab changes: the windows of the sweeps shrink and grow with it.
LEMMA ChangeKeeps ==
  ASSUME IInv, NEW event, Change(event), TypeOK'
  PROVE  IInv'
<1>1. \A c \in Callers : Owes(c)'
  <2> SUFFICES ASSUME NEW c \in Callers PROVE Owes(c)'
    OBVIOUS
  <2>1. Owes(c) /\ TypeOK
    BY InvByCaller
  <2>2. /\ keysKept'[c] = keysKept[c] \intersect Owned'
        /\ membersKept'[c] = membersKept[c] \intersect Visible'
        /\ keysSeen'[c] = IF pc[c] = "sweep" THEN keysSeen[c] \union Owned' ELSE {}
        /\ membersSeen'[c] = IF pc[c] = "sweep" THEN membersSeen[c] \union Visible' ELSE {}
    BY DEF Change, Window
  <2>3. UNCHANGED <<pc, todoP, todoU, done, acc>>
    BY DEF Change, sweep
  <2>4. /\ IF pc'[c] = "sweep" THEN Owned' \subseteq keysSeen'[c] /\ Visible' \subseteq membersSeen'[c]
                               ELSE acc'[c] = {} /\ todoU'[c] = {}
        /\ \A u \in todoU'[c] : \E p \in Projects : <<p, u>> \in membersSeen'[c]
    BY <2>1, <2>2, <2>3 DEF Owes
  <2>5. acc'[c] \subseteq Entries(keysSeen'[c], membersSeen'[c])
    BY <2>1, <2>2, <2>3 DEF Owes, Entries
  <2> QED
    BY <2>1, <2>2, <2>3, <2>4, <2>5 DEF Owes, Functional
<1>2. NoLockout' /\ Witnessed'
  BY DEF Change, IInv, NoLockout, Witnessed
<1> QED
  BY <1>1, <1>2, InvByCaller

\* A sweep begins owing nothing yet.
LEMMA StartKeeps ==
  ASSUME IInv, NEW c \in Callers, StartSweep(c),
         UNCHANGED <<keyOwner, member, hidden, index, lasting, witnessed>>, TypeOK'
  PROVE  IInv'
<1>0. TypeOK /\ \A d \in Callers : Owes(d)
  BY InvByCaller
<1>1. ASSUME NEW d \in Callers, d # c PROVE Owes(d)'
  BY <1>0, <1>1, OthersKeep DEF StartSweep, Goto, TypeOK
<1>2. Owes(c)'
  <2>1. /\ pc'[c] = "sweep" /\ todoP'[c] = Projects /\ todoU'[c] = {} /\ done'[c] = {}
        /\ acc'[c] = {} /\ keysKept'[c] = Owned /\ membersKept'[c] = Visible /\ keysSeen'[c] = Owned
        /\ membersSeen'[c] = Visible
    BY <1>0 DEF StartSweep, Goto, TypeOK
  <2>2. Owned' = Owned /\ Visible' = Visible
    BY DEF Owned, Visible
  <2>3. \A m \in Visible : m[1] \in Projects
    BY <1>0, VisibleType
  <2> QED
    BY <2>1, <2>2, <2>3 DEF Owes, Functional
<1>3. NoLockout' /\ Witnessed'
  BY DEF IInv, NoLockout, Witnessed
<1> QED
  BY <1>1, <1>2, <1>3, InvByCaller

\* A sweep that is over owes nothing any more.
LEMMA EndKeeps ==
  ASSUME IInv, NEW c \in Callers, EndSweep(c), UNCHANGED <<keyOwner, member, hidden>>
  PROVE  \A d \in Callers : Owes(d)'
<1>0. TypeOK /\ \A d \in Callers : Owes(d)
  BY InvByCaller
<1>1. ASSUME NEW d \in Callers, d # c PROVE Owes(d)'
  BY <1>0, <1>1, OthersKeep DEF EndSweep, Goto, TypeOK
<1>2. Owes(c)'
  BY <1>0 DEF EndSweep, Goto, After, TypeOK, Owes, Functional
<1> QED
  BY <1>1, <1>2

\* A completed sweep holds every lasting entry, and was seen in whole.
LEMMA SwapKeeps ==
  ASSUME IInv, NEW c \in Callers, Swap(c), TypeOK'
  PROVE  IInv'
<1>0. TypeOK /\ Owes(c)
  BY InvByCaller
<1>1. \A d \in Callers : Owes(d)'
  BY EndKeeps DEF Swap, gitlab
<1>2. CASE UNCHANGED <<index, lasting, witnessed>>
  BY <1>1, <1>2, InvByCaller DEF IInv, NoLockout, Witnessed
<1>3. CASE /\ index' = acc[c]
           /\ lasting' = Entries(keysKept[c], membersKept[c])
           /\ witnessed' = Entries(keysSeen[c], membersSeen[c])
  <2>1. todoP[c] = {} /\ todoU[c] = {}
    BY DEF Swap
  <2>2. ASSUME NEW e \in Entries(keysKept[c], membersKept[c]) PROVE e \in acc[c]
    <3>1. PICK p \in Projects : <<p, e[2]>> \in membersKept[c]
      BY DEF Entries
    <3>2. e[2] \in done[c]
      BY <1>0, <2>1, <3>1 DEF Owes
    <3> QED
      BY <1>0, <3>2 DEF Owes, Entries
  <2>3. NoLockout'
    BY <1>3, <2>2 DEF NoLockout
  <2>4. Witnessed'
    BY <1>0, <1>3 DEF Owes, Functional, Witnessed
  <2> QED
    BY <1>1, <2>3, <2>4, InvByCaller
<1> QED
  BY <1>2, <1>3 DEF Swap

\* The members of a project read become users to read, unless read before.
LEMMA MembersKeep ==
  ASSUME IInv, NEW c \in Callers, FetchMembers(c), TypeOK'
  PROVE  IInv'
<1>0. TypeOK /\ \A d \in Callers : Owes(d)
  BY InvByCaller
<1>f. UNCHANGED <<keyOwner, member, hidden, index, pc, done, acc, keysKept, membersKept, keysSeen,
                  membersSeen, lasting, witnessed>>
  BY DEF FetchMembers, gitlab, window
<1>1. ASSUME NEW d \in Callers, d # c PROVE Owes(d)'
  BY <1>0, <1>f, <1>1, OthersKeep DEF FetchMembers, TypeOK
<1>2. Owes(c)'
  <2>1. PICK p \in todoP[c] :
          /\ todoP' = [todoP EXCEPT ![c] = @ \ {p}]
          /\ todoU' = [todoU EXCEPT ![c] =
               IF p \in hidden THEN {} ELSE {u \in Users : <<p, u>> \in member} \ done[c]]
    BY DEF FetchMembers
  <2>2. todoU[c] = {}
    BY DEF FetchMembers
  <2>3. ASSUME NEW m \in membersKept[c] PROVE m[1] \in todoP'[c] \/ m[2] \in todoU'[c] \union done[c]
    <3>1. m \in Visible /\ m \in Projects \X Users /\ m = <<m[1], m[2]>>
      BY <1>0, VisibleType DEF Owes
    <3>2. m[1] \in todoP[c] \/ m[2] \in done[c]
      BY <1>0, <2>2 DEF Owes
    <3>3. CASE m[1] = p
      BY <2>1, <3>1, <3>3 DEF Visible, TypeOK
    <3>4. CASE m[1] # p
      BY <2>1, <3>2, <3>4 DEF TypeOK
    <3> QED
      BY <3>3, <3>4
  <2>4. pc[c] = "sweep" /\ Owned' = Owned /\ Visible' = Visible
    BY <1>f DEF FetchMembers, Owned, Visible
  <2>5. \A u \in todoU'[c] : \E q \in Projects : <<q, u>> \in membersSeen[c]
    <3>1. Visible \subseteq membersSeen[c] /\ p \in Projects
      BY <1>0, <2>4 DEF Owes, TypeOK
    <3> QED
      BY <1>0, <2>1, <3>1 DEF Visible, TypeOK
  <2> QED
    BY <1>0, <1>f, <2>3, <2>4, <2>5 DEF Owes, Functional
<1>3. NoLockout' /\ Witnessed'
  BY <1>f DEF IInv, NoLockout, Witnessed
<1> QED
  BY <1>1, <1>2, <1>3, InvByCaller

\* Reading a user's keys adds them all, and overwrites no entry still owed: a
\* key that was another user's throughout cannot be this one's.
LEMMA KeysKeep ==
  ASSUME IInv, NEW c \in Callers, FetchKeys(c), TypeOK'
  PROVE  IInv'
<1>0. TypeOK /\ \A d \in Callers : Owes(d)
  BY InvByCaller
<1>f. UNCHANGED <<keyOwner, member, hidden, index, pc, todoP, keysKept, membersKept, keysSeen,
                  membersSeen, lasting, witnessed>>
  BY DEF FetchKeys, gitlab, window
<1>1. ASSUME NEW d \in Callers, d # c PROVE Owes(d)'
  BY <1>0, <1>f, <1>1, OthersKeep DEF FetchKeys, TypeOK
<1>2. Owes(c)'
  <2>1. PICK u \in todoU[c] :
          /\ todoU' = [todoU EXCEPT ![c] = @ \ {u}]
          /\ done' = [done EXCEPT ![c] = @ \union {u}]
          /\ acc' = [acc EXCEPT ![c] =
               {e \in @ : \A n \in {o \in Owned : o[2] = u} : n[1] # e[1]}
                 \union {o \in Owned : o[2] = u}]
    BY DEF FetchKeys
  <2> DEFINE read == {o \in Owned : o[2] = u}
  <2>2. /\ acc'[c] = {e \in acc[c] : \A n \in read : n[1] # e[1]} \union read
        /\ todoU'[c] = todoU[c] \ {u} /\ done'[c] = done[c] \union {u}
    BY <2>1 DEF TypeOK
  <2>3. ASSUME NEW e \in keysKept[c], e[2] \in done'[c] PROVE e \in acc'[c]
    <3>1. e \in Owned /\ e \in Fps \X Users /\ e = <<e[1], e[2]>>
      BY <1>0, OwnedType DEF Owes
    <3>2. CASE e[2] = u
      BY <2>2, <3>1, <3>2
    <3>3. CASE e[2] # u
      <4>1. e \in acc[c]
        BY <1>0, <2>2, <2>3, <3>3 DEF Owes
      <4>2. \A n \in read : n[1] # e[1]
        BY <3>1, <3>3, OwnedType DEF Functional
      <4> QED
        BY <2>2, <4>1, <4>2
    <3> QED
      BY <3>2, <3>3
  <2>4. \A m \in membersKept[c] : m[1] \in todoP[c] \/ m[2] \in todoU'[c] \union done'[c]
    BY <1>0, <2>2 DEF Owes
  <2>5. acc'[c] \subseteq Entries(keysSeen[c], membersSeen[c]) /\ pc[c] = "sweep"
    <3>1. pc[c] = "sweep" /\ Owned \subseteq keysSeen[c]
      BY <1>0 DEF Owes, FetchKeys
    <3>2. PICK p \in Projects : <<p, u>> \in membersSeen[c]
      BY <1>0 DEF Owes
    <3>3. read \subseteq Entries(keysSeen[c], membersSeen[c])
      BY <3>1, <3>2 DEF Entries
    <3> QED
      BY <1>0, <2>2, <3>1, <3>3 DEF Owes
  <2>6. Functional(acc'[c])
    BY <1>0, <2>2, OwnedType DEF Owes, Functional
  <2>7. Owned' = Owned /\ Visible' = Visible
    BY <1>f DEF Owned, Visible
  <2>8. \A v \in todoU'[c] : \E p \in Projects : <<p, v>> \in membersSeen[c]
    BY <1>0, <2>2 DEF Owes
  <2> HIDE DEF read
  <2> QED
    BY <1>0, <1>f, <2>3, <2>4, <2>5, <2>6, <2>7, <2>8 DEF Owes, Functional
<1>3. NoLockout' /\ Witnessed'
  BY <1>f DEF IInv, NoLockout, Witnessed
<1> QED
  BY <1>1, <1>2, <1>3, InvByCaller

\* A step outside the sweeps.
LEMMA QuietKeeps ==
  ASSUME IInv, UNCHANGED <<keyOwner, member, hidden, index, sweep, window, lasting, witnessed>>,
         \A c \in Callers : pc'[c] = "sweep" <=> pc[c] = "sweep", TypeOK'
  PROVE  IInv'
<1>1. \A c \in Callers : Owes(c)'
  BY InvByCaller, OthersKeep DEF sweep, window
<1>2. NoLockout' /\ Witnessed'
  BY DEF IInv, NoLockout, Witnessed
<1> QED
  BY <1>1, <1>2, InvByCaller

LEMMA IInvStep == IInv /\ [Next]_vars => IInv'
<1> SUFFICES ASSUME IInv, [Next]_vars PROVE IInv'
  OBVIOUS
<1>0. TypeOK /\ TypeOK'
  BY TypeStep DEF IInv
<1>1. ASSUME NEW f \in Fps, KeyDestroy(f) PROVE IInv'
  BY <1>0, <1>1, ChangeKeeps DEF KeyDestroy
<1>2. ASSUME NEW f \in Fps, NEW u \in Users, KeyCreate(f, u) PROVE IInv'
  BY <1>0, <1>2, ChangeKeeps DEF KeyCreate
<1>3. CASE TeamChange
  BY <1>0, <1>3, ChangeKeeps DEF TeamChange
<1>4. CASE Outage \/ LoseHook \/ Unthrottle
  BY <1>0, <1>4, QuietKeeps DEF Outage, LoseHook, Unthrottle, gitlab
<1>5. CASE PollIdentityIndex
  BY <1>0, <1>5, StartKeeps, CallersType DEF PollIdentityIndex, gitlab
<1>6. ASSUME NEW c \in Callers, FetchMembers(c) PROVE IInv'
  BY <1>0, <1>6, MembersKeep
<1>7. ASSUME NEW c \in Callers, FetchKeys(c) PROVE IInv'
  BY <1>0, <1>7, KeysKeep
<1>8. ASSUME NEW c \in Callers, Abort(c) PROVE IInv'
  <2>1. (\A d \in Callers : Owes(d)') /\ UNCHANGED <<index, lasting, witnessed>>
    BY <1>0, <1>8, EndKeeps DEF Abort, gitlab
  <2> QED
    BY <1>0, <2>1, InvByCaller DEF IInv, NoLockout, Witnessed
<1>9. ASSUME NEW c \in Callers, Swap(c) PROVE IInv'
  BY <1>0, <1>9, SwapKeeps
<1>10. ASSUME NEW c \in Callers, onMissRefresh(c), pc[c] # "sweep",
              UNCHANGED <<keyOwner, member, hidden, index, lasting, witnessed>>
       PROVE  IInv'
  <2>1. CASE Goto(c, After(c)) /\ UNCHANGED <<sweep, window>>
    BY <1>0, <1>10, <2>1, QuietKeeps DEF Goto, After, TypeOK
  <2>2. CASE StartSweep(c)
    BY <1>0, <1>10, <2>2, StartKeeps
  <2> QED
    BY <1>0, <1>10, <2>1, <2>2 DEF onMissRefresh
<1>11. ASSUME NEW h \in Hooks, HandleSystemHook(h) PROVE IInv'
  BY <1>0, <1>10, <1>11, CallersType DEF HandleSystemHook
<1>13. ASSUME NEW r \in Requests, AuthViaSSH(r) PROVE IInv'
  <2>1. CASE onMissRefresh(r)
    BY <1>0, <1>10, <1>13, <2>1, CallersType DEF AuthViaSSH, gitlab
  <2>2. CASE Goto(r, "consume") /\ UNCHANGED <<sweep, window>>
    BY <1>0, <1>13, <2>2, QuietKeeps, CallersType DEF AuthViaSSH, Goto, TypeOK, gitlab
  <2> QED
    BY <1>0, <1>13, <2>1, <2>2 DEF AuthViaSSH
<1>14. ASSUME NEW r \in Requests, Consume(r) PROVE IInv'
  BY <1>0, <1>14, QuietKeeps, CallersType DEF Consume, Goto, TypeOK, gitlab
<1>15. ASSUME NEW r \in Requests, Resolve(r) PROVE IInv'
  BY <1>0, <1>15, QuietKeeps, CallersType DEF Resolve, Goto, TypeOK, gitlab
<1>16. CASE UNCHANGED vars
  BY <1>0, <1>16, QuietKeeps DEF vars, gitlab
<1> QED
  BY <1>1, <1>2, <1>3, <1>4, <1>5, <1>6, <1>7, <1>8, <1>9, <1>11, <1>13, <1>14, <1>15,
     <1>16 DEF Next, Sweep

LEMMA InitIInv == Init => IInv
<1>1. Init => TypeOK
  <2>2. 0 \in 0..MaxChanges
    BY IdentityAssumption
  <2>3. Init => up \in BOOLEAN
    BY IdentityAssumption DEF Init
  <2>4. Init => signer \in [Requests -> Users \union {NoUser}]
    BY DEF Init
  <2>5. Init => pc \in [Callers -> {"idle", "new", "sweep", "consume", "resolve",
                                   "refused"} \union Answered]
    BY DEF Init
  <2>6. Init => /\ keyOwner \in [Fps -> Users \union {NoUser}]
                /\ member \subseteq Projects \X Users /\ hidden \subseteq Projects
                /\ fp \in [Requests -> Fps]
    BY DEF Init
  <2>7. Init => /\ events \subseteq Events
                /\ index \subseteq Fps \X Users
                /\ lasting \subseteq Fps \X Users /\ witnessed \subseteq Fps \X Users
                /\ throttled \in BOOLEAN
    BY DEF Init
  <2>8. Init => /\ todoP \in [Callers -> SUBSET Projects]
                /\ todoU \in [Callers -> SUBSET Users] /\ done \in [Callers -> SUBSET Users]
                /\ acc \in [Callers -> SUBSET (Fps \X Users)]
    BY DEF Init
  <2>9. Init => /\ keysKept \in [Callers -> SUBSET (Fps \X Users)]
                /\ membersKept \in [Callers -> SUBSET (Projects \X Users)]
                /\ keysSeen \in [Callers -> SUBSET (Fps \X Users)]
                /\ membersSeen \in [Callers -> SUBSET (Projects \X Users)]
    BY DEF Init
  <2>10. Init => changes \in 0..MaxChanges
    BY <2>2 DEF Init
  <2> QED
    BY <2>3, <2>4, <2>5, <2>6, <2>7, <2>8, <2>9, <2>10 DEF TypeOK
<1>2. Init => SweepOwes /\ SweepTruthful
  BY DEF Init, SweepOwes, SweepTruthful, Functional
<1>3. Init => NoLockout /\ Witnessed
  BY DEF Init, NoLockout, Witnessed
<1> QED
  BY <1>1, <1>2, <1>3 DEF IInv

\* Every variable keeps its shape.
THEOREM TypeCorrect == Spec => []TypeOK
BY InitIInv, TypeStep, PTL DEF Spec, IInv

\* Of every sweep: what it owes is in its map or still to be read, and nothing
\* in the map was invented.
THEOREM InductiveInvariant == Spec => []IInv
BY InitIInv, IInvStep, PTL DEF Spec

\* No sweep, failed, late or racing another, ever puts in place an index from
\* which a key that lasted since before the sweep is missing.
THEOREM NobodyLockedOut == Spec => []NoLockout
BY InductiveInvariant, PTL DEF IInv

\* The index never resolves a key to somebody who did not have it during the
\* sweep, nor to two users.
THEOREM NothingInvented == Spec => []Witnessed
BY InductiveInvariant, PTL DEF IInv

-----------------------------------------------------------------------------
(***************************************************************************)
(* The safety half of Converges, for a GitLab that rests: sweeps that are  *)
(* clean stay so, and what one of them installs is the truth.              *)
(***************************************************************************)

LEMMA KnownKept ==
  ASSUME UNCHANGED <<keyOwner, member, hidden>>
  PROVE  Owned' = Owned /\ Visible' = Visible /\ Known' = Known
BY DEF Owned, Visible, Known, Entries

\* A step of others, or one that only ends a sweep.
LEMMA CleanKept ==
  ASSUME NEW c \in Callers, Clean(c), UNCHANGED <<keyOwner, member, hidden>>,
         pc'[c] = "sweep" =>
           /\ pc[c] = "sweep"
           /\ UNCHANGED <<todoU[c], acc[c], keysKept[c], membersKept[c]>>
  PROVE  Clean(c)'
BY KnownKept DEF Clean

\* A change that leaves keys and memberships as they are leaves the windows.
LEMMA CleanChange ==
  ASSUME NEW c \in Callers, Clean(c), UNCHANGED <<keyOwner, member, hidden>>,
         NEW event, Change(event)
  PROVE  Clean(c)'
<1>1. UNCHANGED <<pc, todoU, acc>>
  BY DEF Change, sweep
<1>2. /\ keysKept'[c] = keysKept[c] \intersect Owned'
      /\ membersKept'[c] = membersKept[c] \intersect Visible'
  BY DEF Change, Window
<1> QED
  BY <1>1, <1>2, KnownKept DEF Clean

\* A sweep begins clean.
LEMMA CleanStart ==
  ASSUME TypeOK, NEW c \in Callers, Clean(c), UNCHANGED <<keyOwner, member, hidden>>,
         NEW d \in Callers, StartSweep(d)
  PROVE  Clean(c)'
<1>1. CASE c = d
  <2>1. todoU'[c] = {} /\ acc'[c] = {} /\ keysKept'[c] = Owned /\ membersKept'[c] = Visible
    BY <1>1 DEF StartSweep, TypeOK
  <2> QED
    BY <2>1, KnownKept DEF Clean
<1>2. CASE c # d
  BY <1>2, CleanKept DEF StartSweep, Goto, TypeOK
<1> QED
  BY <1>1, <1>2

LEMMA CleanEnd ==
  ASSUME TypeOK, NEW c \in Callers, Clean(c), UNCHANGED <<keyOwner, member, hidden>>,
         NEW d \in Callers, EndSweep(d)
  PROVE  Clean(c)'
<1>1. CASE c = d
  BY <1>1, CleanKept DEF EndSweep, Goto, After, TypeOK
<1>2. CASE c # d
  BY <1>2, CleanKept DEF EndSweep, Goto, TypeOK
<1> QED
  BY <1>1, <1>2

\* The users a clean sweep has still to read are members now.
LEMMA CleanMembers ==
  ASSUME TypeOK, NEW c \in Callers, Clean(c), NEW d \in Callers, FetchMembers(d)
  PROVE  Clean(c)'
<1>f. UNCHANGED <<keyOwner, member, hidden, pc, acc, keysKept, membersKept>>
  BY DEF FetchMembers, gitlab, window
<1>1. PICK p \in todoP[d] :
        todoU' = [todoU EXCEPT ![d] =
          IF p \in hidden THEN {} ELSE {u \in Users : <<p, u>> \in member} \ done[d]]
  BY DEF FetchMembers
<1>2. CASE c # d
  BY <1>f, <1>1, <1>2, CleanKept DEF TypeOK
<1>3. CASE c = d
  <2>1. p \in Projects
    BY DEF TypeOK
  <2>2. \A u \in todoU'[c] : <<p, u>> \in Visible
    BY <1>1, <1>3 DEF Visible, TypeOK
  <2> QED
    BY <1>f, <2>1, <2>2, KnownKept DEF Clean
<1> QED
  BY <1>2, <1>3

\* The keys a clean sweep reads belong into the index now.
LEMMA CleanKeys ==
  ASSUME TypeOK, NEW c \in Callers, Clean(c), NEW d \in Callers, FetchKeys(d)
  PROVE  Clean(c)'
<1>f. UNCHANGED <<keyOwner, member, hidden, pc, keysKept, membersKept>> /\ pc[d] = "sweep"
  BY DEF FetchKeys, gitlab, window
<1>1. PICK u \in todoU[d] :
        /\ todoU' = [todoU EXCEPT ![d] = @ \ {u}]
        /\ acc' = [acc EXCEPT ![d] =
             {e \in @ : \A n \in {o \in Owned : o[2] = u} : n[1] # e[1]}
               \union {o \in Owned : o[2] = u}]
  BY DEF FetchKeys
<1>2. CASE c # d
  BY <1>f, <1>1, <1>2, CleanKept DEF TypeOK
<1>3. CASE c = d
  <2>1. PICK p \in Projects : <<p, u>> \in Visible
    BY <1>f, <1>3 DEF Clean
  <2>2. {o \in Owned : o[2] = u} \subseteq Known
    BY <2>1 DEF Known, Entries
  <2>3. acc'[c] \subseteq acc[c] \union {o \in Owned : o[2] = u}
    BY <1>1, <1>3 DEF TypeOK
  <2>4. acc'[c] \subseteq Known /\ todoU'[c] \subseteq todoU[c]
    BY <1>f, <1>1, <1>3, <2>2, <2>3 DEF Clean, TypeOK
  <2> QED
    BY <1>f, <2>4, KnownKept DEF Clean
<1> QED
  BY <1>2, <1>3

LEMMA CleanMiss ==
  ASSUME TypeOK, NEW c \in Callers, Clean(c), UNCHANGED <<keyOwner, member, hidden>>,
         NEW d \in Callers, onMissRefresh(d)
  PROVE  Clean(c)'
<1>1. CASE Goto(d, After(d)) /\ UNCHANGED <<sweep, window>>
  BY <1>1, CleanKept DEF Goto, After, TypeOK, sweep, window
<1>2. CASE StartSweep(d)
  BY <1>2, CleanStart
<1> QED
  BY <1>1, <1>2 DEF onMissRefresh

LEMMA CleanStep ==
  ASSUME IInv, [Next]_vars, UNCHANGED <<keyOwner, member, hidden>>,
         NEW c \in Callers, Clean(c)
  PROVE  Clean(c)'
<1>0. TypeOK
  BY DEF IInv
<1>1. CASE TeamChange \/ \E f \in Fps : KeyDestroy(f) \/ \E u \in Users : KeyCreate(f, u)
  BY <1>1, CleanChange DEF TeamChange, KeyDestroy, KeyCreate
<1>2. CASE Outage \/ LoseHook \/ Unthrottle \/ UNCHANGED vars
  BY <1>2, CleanKept DEF Outage, LoseHook, Unthrottle, vars, gitlab, sweep, window
<1>3. CASE PollIdentityIndex
  BY <1>0, <1>3, CleanStart, CallersType DEF PollIdentityIndex
<1>4. ASSUME NEW d \in Callers, Sweep(d) PROVE Clean(c)'
  BY <1>0, <1>4, CleanMembers, CleanKeys, CleanEnd DEF Sweep, Abort, Swap
<1>5. ASSUME NEW h \in Hooks, HandleSystemHook(h) PROVE Clean(c)'
  BY <1>0, <1>5, CleanMiss, CallersType DEF HandleSystemHook
<1>6. ASSUME NEW r \in Requests, AuthViaSSH(r) \/ Consume(r) \/ Resolve(r) PROVE Clean(c)'
  <2>1. CASE onMissRefresh(r)
    BY <1>0, <2>1, CleanMiss, CallersType
  <2>2. CASE /\ UNCHANGED <<sweep, window>>
             /\ Goto(r, "consume") \/ Goto(r, "resolve") \/ Goto(r, "refused")
                  \/ Goto(r, "ok") \/ Goto(r, "deny")
    BY <1>0, <2>2, CleanKept, CallersType DEF Goto, TypeOK, sweep, window
  <2> QED
    BY <1>6, <2>1, <2>2 DEF AuthViaSSH, Consume, Resolve
<1> QED
  BY <1>1, <1>2, <1>3, <1>4, <1>5, <1>6 DEF Next

\* A clean sweep that is complete has every entry of the truth, and no other.
LEMMA CleanIsKnown ==
  ASSUME IInv, NEW c \in Callers, Swap(c), Clean(c)
  PROVE  acc[c] = Known
<1>1. Owes(c) /\ pc[c] = "sweep" /\ todoP[c] = {} /\ todoU[c] = {}
  BY InvByCaller DEF Swap, EndSweep
<1>2. keysKept[c] = Owned /\ membersKept[c] = Visible /\ acc[c] \subseteq Known
  BY <1>1 DEF Clean
<1>3. ASSUME NEW e \in Known PROVE e \in acc[c]
  <2>1. e \in keysKept[c] /\ \E p \in Projects : <<p, e[2]>> \in membersKept[c]
    BY <1>2 DEF Known, Entries
  <2>2. e[2] \in done[c]
    BY <1>1, <2>1 DEF Owes
  <2> QED
    BY <1>1, <2>1, <2>2 DEF Owes
<1> QED
  BY <1>2, <1>3

\* A sweep begun since the last change of keys or memberships stays clean, whatever
\* reads fail and whoever else sweeps.
THEOREM CleanSweepsStayClean == Spec => CleanStays
<1>1. IInv /\ [Next]_vars => [\A c \in Callers :
        Clean(c) /\ UNCHANGED <<keyOwner, member, hidden>> => Clean(c)']_vars
  BY CleanStep
<1> QED
  BY <1>1, InductiveInvariant, PTL DEF Spec, CleanStays

\* The index a clean sweep puts in place is exactly what GitLab says.
THEOREM CleanSweepIsExact == Spec => CleanIsExact
<1>1. IInv /\ [Next]_vars => [\A c \in Callers :
        Swap(c) /\ Clean(c) /\ Known # {} => index' = Known]_vars
  BY CleanIsKnown DEF Swap
<1> QED
  BY <1>1, InductiveInvariant, PTL DEF Spec, CleanIsExact

\* An index that is right stays right while GitLab rests, though hooks, requests
\* and the poll go on sweeping and their reads fail.
THEOREM ConvergedIsStable == Spec => ConvergedStays
<1>1. ASSUME IInv, [Next]_vars, Converged, UNCHANGED <<keyOwner, member, hidden>>
      PROVE  Converged'
  <2>1. \A c \in Callers : Clean(c)'
    BY <1>1, CleanStep DEF Converged
  <2>2. index' = index \/ \E c \in Callers : Swap(c) /\ index' = acc[c]
    BY <1>1 DEF Next, Sweep, KeyDestroy, KeyCreate, TeamChange, Change, Outage, LoseHook,
      Unthrottle, PollIdentityIndex, FetchMembers, FetchKeys, Abort, Swap,
      HandleSystemHook, AuthViaSSH, Consume, Resolve, vars
  <2>3. index' = Known
    BY <1>1, <2>2, CleanIsKnown DEF Converged
  <2> QED
    BY <1>1, <2>1, <2>3, KnownKept DEF Converged
<1>2. IInv /\ [Next]_vars
        => [Converged /\ UNCHANGED <<keyOwner, member, hidden>> => Converged']_vars
  BY <1>1
<1> QED
  BY <1>2, InductiveInvariant, PTL DEF Spec, ConvergedStays
=============================================================================

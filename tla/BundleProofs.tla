---------------------------- MODULE BundleProofs ----------------------------
(***************************************************************************)
(* For any environments, keys, secrets, files and number of commands that  *)
(* stop anywhere: a bundle is of one generation, opens in no section for a *)
(* foreign key, is signed when a command says so, and loses a rotated key  *)
(* everywhere; migrations keep every secret, and seals churn none.         *)
(***************************************************************************)
EXTENDS Bundle, TLAPS

LEMMA EntriesType == ASSUME NEW sec \in Optional(Sections) PROVE EntriesOf(sec) \in Entries
BY DEF EntriesOf, Optional, Sections, Entries, NoEntries

LEMMA SectionType ==
  ASSUME NEW entries \in Entries, NEW sig \in Optional(Sigs), NEW cluster \in Optional(Recipients)
  PROVE  [entries |-> entries, sig |-> sig, cluster |-> cluster] \in Sections
BY DEF Sections

LEMMA SignedType ==
  ASSUME NEW sec \in Optional(Sections), NEW v PROVE Signed(sec, v) \in Optional(Sections)
BY DEF Signed, Optional, Sections, Sigs, IdOf, Ids

LEMMA StrippedType ==
  ASSUME NEW sec \in Optional(Sections) PROVE Stripped(sec) \in Optional(Sections)
BY DEF Stripped, Optional, Sections, Entries

LEMMA InitType == Init => TypeOK
<1> SUFFICES ASSUME Init PROVE TypeOK
  OBVIOUS
<1>1. section \in [Envs -> Optional(Sections)]
  <2>1. CASE section = NoSections
    BY <2>1 DEF NoSections, Optional
  <2>2. CASE section # NoSections
    <3>1. PICK input \in Inputs : section = [e \in Envs |->
               [entries |-> [k \in Keys |->
                  IF input.base[k] = Absent THEN Absent
                  ELSE [val |-> input.base[k], level |-> input.level, id |-> "project_id",
                        to |-> recipient[e], run |-> 0]],
                sig |-> Absent, cluster |-> recipient[e]]]
      BY <2>2 DEF Init
    <3> QED
      BY <3>1, BundleAssumption DEF Init, Optional, Sections, Entries, Cts, Ids
  <2> QED
    BY <2>1, <2>2
<1>2. recipient \in [Envs -> Recipients] /\ cache \in [Envs -> Recipients]
  BY DEF Init
<1>3. run \in Runs
  BY <1>2 DEF Init, Runs, Steps, Optional
<1>4. had \in [Envs -> SUBSET Recipients]
  BY <1>2 DEF Init
<1>5. runs \in 0..MaxRuns /\ moves \in 0..MaxMoves
  BY BundleAssumption DEF Init
<1>6. /\ repo \in {"legacy", "registry"} /\ version \in {"none", "v2", "v3", "v4"}
      /\ settled \in BOOLEAN
  BY DEF Init
<1> QED
  BY <1>1, <1>2, <1>3, <1>4, <1>5, <1>6 DEF TypeOK

\* A ciphertext of this run, whatever it holds.
LEMMA FreshType ==
  ASSUME TypeOK, NEW e \in Envs, NEW val \in Values, NEW level \in Levels, NEW id \in Ids
  PROVE  Fresh(e, val, level, id) \in Cts
BY DEF Fresh, Cts, TypeOK, Runs

LEMMA PriorType == TypeOK => Prior \in [Envs -> Optional(Sections)]
BY DEF TypeOK, Prior, NoSections, Optional

LEMMA SealSectionType ==
  ASSUME TypeOK, NEW e \in Envs, NEW values \in [Keys -> Optional(Values)],
         NEW level \in Levels, NEW id \in Ids
  PROVE  SealSection(e, values, level, id) \in Sections
<1>1. EntriesOf(Prior[e]) \in Entries
  BY PriorType, EntriesType
<1>2. ASSUME NEW k \in Keys
      PROVE  (IF values[k] = Absent THEN Absent
              ELSE IF Carried(e, k) THEN EntriesOf(Prior[e])[k]
              ELSE Fresh(e, values[k], level, id)) \in Optional(Cts)
  BY <1>1, FreshType DEF Entries, Optional
<1> QED
  BY <1>2, SectionType DEF SealSection, Entries, Optional

LEMMA ReencryptedType ==
  ASSUME TypeOK, NEW e \in Envs PROVE Reencrypted(e) \in Entries
<1>1. EntriesOf(section[e]) \in Entries
  BY EntriesType DEF TypeOK
<1>2. ASSUME NEW k \in Keys, EntriesOf(section[e])[k] # Absent
      PROVE  Fresh(e, EntriesOf(section[e])[k].val, EntriesOf(section[e])[k].level, "pubkey") \in Cts
  BY <1>1, <1>2, FreshType DEF Entries, Optional, Cts, Ids
<1> QED
  BY <1>2 DEF Reencrypted, Entries, Optional

LEMMA ResealedType == TypeOK => Resealed \in [Envs -> Optional(Sections)]
BY ReencryptedType, SectionType, SignedType DEF Resealed, Optional

LEMMA ResolvedType ==
  ASSUME NEW base \in [Keys -> Optional(Values)], NEW override \in [Keys -> Optional(Values)]
  PROVE  Resolved(base, override) \in [Keys -> Optional(Values)]
BY DEF Resolved

\* The sections a seal writes, whatever the author gives it.
LEMMA SealedType ==
  ASSUME TypeOK, NEW input \in Inputs, NEW overrides \in [run.scope -> Overrides], NEW id \in Ids
  PROVE  [e \in Envs |->
            IF e \in run.scope
            THEN SealSection(e, Resolved(input.base, overrides[e]), input.level, id)
            ELSE Prior[e]] \in [Envs -> Optional(Sections)]
<1>1. input.base \in [Keys -> Optional(Values)] /\ input.level \in Levels
  BY BundleAssumption
<1>2. ASSUME NEW e \in run.scope
      PROVE  Resolved(input.base, overrides[e]) \in [Keys -> Optional(Values)]
  BY <1>1, ResolvedType, BundleAssumption
<1>3. ASSUME NEW e \in Envs, e \in run.scope
      PROVE  SealSection(e, Resolved(input.base, overrides[e]), input.level, id) \in Sections
  BY <1>1, <1>2, <1>3, SealSectionType
<1> QED
  BY <1>3, PriorType DEF Optional

LEMMA WriteType ==
  ASSUME TypeOK, NEW v \in {"none", "v2", "v3", "v4"}, NEW secs \in [Envs -> Optional(Sections)],
         NEW at \in Steps, Write(v, secs, at), settled' \in BOOLEAN
  PROVE  TypeOK'
<1>1. run' \in Runs
  BY DEF Write, TypeOK, Runs
<1> QED
  BY <1>1 DEF Write, TypeOK

LEMMA NextType == TypeOK /\ [Next]_vars => TypeOK'
<1> SUFFICES ASSUME TypeOK, [Next]_vars PROVE TypeOK'
  OBVIOUS
<1>1. ASSUME NEW e \in Envs, NEW r \in Recipients, SetRecipient(e, r) PROVE TypeOK'
  <2>1. moves' \in 0..MaxMoves
    BY <1>1, BundleAssumption DEF SetRecipient, TypeOK
  <2> QED
    BY <1>1, <2>1 DEF SetRecipient, TypeOK
<1>2. CASE Collapse
  BY <1>2 DEF Collapse, TypeOK
<1>3. CASE Command
  <2>1. Config \subseteq [Envs -> Recipients] /\ recipient \in [Envs -> Recipients]
    BY DEF Config, TypeOK
  <2>2. ASSUME NEW at \in Steps, NEW rc \in [Envs -> Recipients], NEW scope \in SUBSET Envs,
               NEW key \in Optional(Keys), Start(at, rc, scope, key)
        PROVE  TypeOK'
    <3>1. runs' \in 0..MaxRuns
      BY <2>2, BundleAssumption DEF Start, TypeOK
    <3>2. run' \in Runs
      BY <2>2 DEF Start, TypeOK, Runs
    <3> QED
      BY <2>2, <3>1, <3>2 DEF Start, TypeOK
  <2>3. PICK at \in Steps, rc \in [Envs -> Recipients], scope \in SUBSET Envs, key \in Optional(Keys) :
          Start(at, rc, scope, key)
    BY <1>3, <2>1 DEF Command,
         CmdSeal, CmdReseal, CmdMigrateV3, CmdMigrateV4, CmdMigrateEnv, Steps, Optional
  <2> QED
    BY <2>2, <2>3
<1>4. CASE Stop
  BY <1>4 DEF Stop, TypeOK, Runs, Steps
<1>5. CASE StripKeyFromBundle
  <2>1. [e \in Envs |-> Stripped(section[e])] \in [Envs -> Optional(Sections)]
    BY StrippedType DEF TypeOK
  <2> QED
    BY <1>5, <2>1, WriteType DEF StripKeyFromBundle, TypeOK, Steps
<1>6. CASE SealBundle
  <2> DEFINE v == IF run.repo = "legacy" THEN "v3" ELSE "v4"
  <2>1. PICK input \in Inputs, overrides \in [run.scope -> Overrides] :
          Write(v, [e \in Envs |->
                IF e \in run.scope
                THEN SealSection(e, Resolved(input.base, overrides[e]), input.level, IdOf(v))
                ELSE Prior[e]], "sign")
    BY <1>6 DEF SealBundle
  <2>2. settled' \in BOOLEAN /\ v \in {"v3", "v4"} /\ IdOf(v) \in Ids
    BY <1>6 DEF SealBundle, TypeOK, IdOf, Ids
  <2> HIDE DEF v
  <2> QED
    BY <2>1, <2>2, SealedType, WriteType DEF Steps
<1>7. CASE SignBundleFile
  <2>1. [e \in Envs |-> Signed(section[e], version)] \in [Envs -> Optional(Sections)]
    BY SignedType DEF TypeOK
  <2> QED
    BY <1>7, <2>1, WriteType DEF SignBundleFile, TypeOK, Steps
<1>8. CASE MigrateBundleToV3
  <2>1. ASSUME NEW e \in Envs
        PROVE  (IF section[e] = Absent THEN Absent
                ELSE Signed([section[e] EXCEPT !.cluster = Absent], "v3")) \in Optional(Sections)
    <3>1. CASE section[e] = Absent
      BY <3>1 DEF Optional
    <3>2. CASE section[e] # Absent
      <4>1. [section[e] EXCEPT !.cluster = Absent] \in Sections
        BY <3>2 DEF TypeOK, Sections, Optional
      <4> QED
        BY <3>2, <4>1, SignedType DEF Optional
    <3> QED
      BY <3>1, <3>2
  <2> QED
    BY <1>8, <2>1, WriteType DEF MigrateBundleToV3, TypeOK, Steps
<1>9. CASE MigrateBundleToV4
  BY <1>9, ResealedType, WriteType DEF MigrateBundleToV4, TypeOK, Steps
<1>10. CASE ReSealToEnvRecipients
  BY <1>10, ResealedType, WriteType DEF ReSealToEnvRecipients, TypeOK, Steps
<1>11. CASE UNCHANGED vars
  BY <1>11 DEF vars, TypeOK
<1> QED
  BY <1>1, <1>2, <1>3, <1>4, <1>5, <1>6, <1>7, <1>8, <1>9, <1>10, <1>11 DEF Next

\* Every variable keeps its shape, for any environments, keys and recipients.
THEOREM TypeCorrect == Spec => []TypeOK
BY InitType, NextType, PTL DEF Spec

-----------------------------------------------------------------------------
(***************************************************************************)
(* What the steps write: a ciphertext is kept, in a file of the same       *)
(* generation, or sealed by the run with the key it has for that section.  *)
(***************************************************************************)

Kept(e, k) == Stored(e, k) /\ Ct(e, k)' = Ct(e, k) /\ IdOf(version') = IdOf(version)

Sealed(e, k) ==
  Ct(e, k)'.id = IdOf(version') /\ Ct(e, k)'.to = run.rc[e] /\ Ct(e, k)'.run = runs

LEMMA SignedEntries ==
  ASSUME NEW sec \in Optional(Sections), NEW v
  PROVE  EntriesOf(Signed(sec, v)) = EntriesOf(sec)
<1>1. CASE sec = Absent
  BY <1>1 DEF Signed
<1>2. CASE sec # Absent
  <2>1. Signed(sec, v) \in Sections
    BY <1>2 DEF Signed, Optional, Sections, Sigs, IdOf, Ids
  <2>2. Signed(sec, v).entries = sec.entries
    BY <1>2 DEF Signed, Optional, Sections
  <2> QED
    BY <1>2, <2>1, <2>2, NoRecordAssumption DEF EntriesOf
<1> QED
  BY <1>1, <1>2

LEMMA StrippedEntries ==
  ASSUME NEW sec \in Optional(Sections), NEW k \in Keys
  PROVE  EntriesOf(Stripped(sec))[k] = IF k = run.key THEN Absent ELSE EntriesOf(sec)[k]
<1>1. CASE sec = Absent
  BY <1>1 DEF Stripped, EntriesOf, NoEntries
<1>2. CASE sec # Absent
  <2>1. Stripped(sec) \in Sections
    BY <1>2 DEF Stripped, Optional, Sections, Entries
  <2>2. Stripped(sec).entries = [sec.entries EXCEPT ![run.key] = Absent] /\ sec.entries \in Entries
    BY <1>2 DEF Stripped, Optional, Sections
  <2> QED
    BY <1>2, <2>1, <2>2, NoRecordAssumption DEF EntriesOf, Entries
<1> QED
  BY <1>1, <1>2

LEMMA SealSectionEntries ==
  ASSUME TypeOK, NEW e \in Envs, NEW values \in [Keys -> Optional(Values)],
         NEW level \in Levels, NEW id \in Ids, NEW k \in Keys
  PROVE  EntriesOf(SealSection(e, values, level, id))[k] =
           IF values[k] = Absent THEN Absent
           ELSE IF Carried(e, k) THEN EntriesOf(Prior[e])[k]
           ELSE Fresh(e, values[k], level, id)
<1>1. SealSection(e, values, level, id) # Absent
  BY SealSectionType, NoRecordAssumption
<1> QED
  BY <1>1 DEF SealSection, EntriesOf

LEMMA ResealedEntries ==
  ASSUME TypeOK, NEW e \in Envs, NEW k \in Keys
  PROVE  EntriesOf(Resealed[e])[k] =
           IF Stored(e, k) THEN Fresh(e, Ct(e, k).val, Ct(e, k).level, "pubkey") ELSE Absent
<1>1. CASE section[e] = Absent
  BY <1>1 DEF Resealed, Stored, EntriesOf, NoEntries
<1>2. CASE section[e] # Absent
  <2> DEFINE sec == [entries |-> Reencrypted(e), sig |-> Absent, cluster |-> Absent]
  <2>1. sec \in Sections
    BY ReencryptedType, SectionType DEF Optional
  <2>2. Resealed[e] = Signed(sec, "v4")
    BY <1>2 DEF Resealed
  <2>3. EntriesOf(Resealed[e]) = EntriesOf(sec)
    BY <2>1, <2>2, SignedEntries DEF Optional
  <2>4. EntriesOf(sec) = Reencrypted(e)
    BY <2>1, NoRecordAssumption DEF EntriesOf
  <2> QED
    BY <2>3, <2>4 DEF Reencrypted, Stored, Ct
<1> QED
  BY <1>1, <1>2

\* The file the seal carries over is of the generation it writes.
LEMMA PriorKept ==
  ASSUME NEW v, v = (IF run.repo = "legacy" THEN "v3" ELSE "v4"), NEW e \in Envs, NEW k \in Keys,
         EntriesOf(Prior[e])[k] # Absent
  PROVE  IdOf(v) = IdOf(version) /\ Prior[e] = section[e]
BY DEF Prior, NoSections, EntriesOf, NoEntries, IdOf

LEMMA SealWrites ==
  ASSUME TypeOK, SealBundle, NEW e \in Envs, NEW k \in Keys, Stored(e, k)'
  PROVE  Kept(e, k) \/ Sealed(e, k)
<1> DEFINE v == IF run.repo = "legacy" THEN "v3" ELSE "v4"
<1>1. PICK input \in Inputs, overrides \in [run.scope -> Overrides] :
        Write(v, [d \in Envs |->
              IF d \in run.scope
              THEN SealSection(d, Resolved(input.base, overrides[d]), input.level, IdOf(v))
              ELSE Prior[d]], "sign")
  BY DEF SealBundle
<1>2. version' = v /\ IdOf(v) \in Ids
  BY <1>1 DEF Write, IdOf, Ids
<1>3. CASE e \notin run.scope
  <2>1. section'[e] = Prior[e]
    BY <1>1, <1>3 DEF Write
  <2> QED
    BY <1>2, <2>1, PriorKept DEF Stored, Ct, Kept
<1>4. CASE e \in run.scope
  <2> DEFINE values == Resolved(input.base, overrides[e])
  <2>1. values \in [Keys -> Optional(Values)] /\ input.level \in Levels
    BY <1>4, BundleAssumption, ResolvedType
  <2>2. section'[e] = SealSection(e, values, input.level, IdOf(v))
    BY <1>1, <1>4 DEF Write
  <2> HIDE DEF values
  <2>3. Ct(e, k)' = IF values[k] = Absent THEN Absent
                    ELSE IF Carried(e, k) THEN EntriesOf(Prior[e])[k]
                    ELSE Fresh(e, values[k], input.level, IdOf(v))
    BY <1>2, <2>1, <2>2, SealSectionEntries DEF Ct
  <2>4. values[k] # Absent
    BY <2>3 DEF Stored, Ct
  <2>5. CASE Carried(e, k)
    BY <1>2, <2>3, <2>4, <2>5, PriorKept DEF Kept, Stored, Ct, Carried
  <2>6. CASE ~Carried(e, k)
    BY <1>2, <2>3, <2>4, <2>6 DEF Sealed, Fresh
  <2> QED
    BY <2>5, <2>6
<1> QED
  BY <1>3, <1>4

\* The two re-encrypting migrations seal everything anew.
LEMMA ResealWrites ==
  ASSUME TypeOK, section' = Resealed, version' = "v4", NEW e \in Envs, NEW k \in Keys
  PROVE  /\ Stored(e, k)' <=> Stored(e, k)
         /\ Stored(e, k) => /\ Sealed(e, k)
                            /\ Ct(e, k)'.val = Ct(e, k).val /\ Ct(e, k)'.level = Ct(e, k).level
<1>1. Ct(e, k)' = IF Stored(e, k) THEN Fresh(e, Ct(e, k).val, Ct(e, k).level, "pubkey") ELSE Absent
  BY ResealedEntries DEF Ct
<1>2. Stored(e, k) => Fresh(e, Ct(e, k).val, Ct(e, k).level, "pubkey") \in Cts
  <2>1. EntriesOf(section[e]) \in Entries
    BY EntriesType DEF TypeOK
  <2> QED
    BY <2>1, FreshType DEF Stored, Ct, Entries, Optional, Cts, Ids
<1>3. Stored(e, k)' <=> Ct(e, k)' # Absent
  BY DEF Stored, Ct
<1> QED
  BY <1>1, <1>2, <1>3, NoRecordAssumption DEF Sealed, Fresh, IdOf

LEMMA MigrateV3Writes ==
  ASSUME TypeOK, MigrateBundleToV3, NEW e \in Envs
  PROVE  EntriesOf(section'[e]) = EntriesOf(section[e])
<1>1. CASE section[e] = Absent
  BY <1>1 DEF MigrateBundleToV3, Write
<1>2. CASE section[e] # Absent
  <2> DEFINE sec == [section[e] EXCEPT !.cluster = Absent]
  <2>1. sec \in Sections /\ sec.entries = section[e].entries
    BY <1>2 DEF TypeOK, Sections, Optional
  <2>2. section'[e] = Signed(sec, "v3")
    BY <1>2 DEF MigrateBundleToV3, Write
  <2>3. EntriesOf(section'[e]) = EntriesOf(sec)
    BY <2>1, <2>2, SignedEntries DEF Optional
  <2> QED
    BY <1>2, <2>1, <2>3, NoRecordAssumption DEF EntriesOf
<1> QED
  BY <1>1, <1>2

LEMMA SignWrites ==
  ASSUME TypeOK, SignBundleFile, NEW e \in Envs
  PROVE  EntriesOf(section'[e]) = EntriesOf(section[e])
BY SignedEntries DEF TypeOK, SignBundleFile, Write

LEMMA StripWrites ==
  ASSUME TypeOK, StripKeyFromBundle, NEW e \in Envs, NEW k \in Keys
  PROVE  Ct(e, k)' = IF k = run.key THEN Absent ELSE Ct(e, k)
BY StrippedEntries DEF TypeOK, StripKeyFromBundle, Write, Ct

LEMMA NextWrites ==
  ASSUME TypeOK, [Next]_vars, NEW e \in Envs, NEW k \in Keys, Stored(e, k)'
  PROVE  Kept(e, k) \/ Sealed(e, k)
<1>1. CASE UNCHANGED <<version, section>>
  BY <1>1 DEF Kept, Stored, Ct
<1>2. CASE StripKeyFromBundle
  BY <1>2, StripWrites DEF Kept, Stored, Ct, StripKeyFromBundle, Write
<1>3. CASE SealBundle
  BY <1>3, SealWrites
<1>4. CASE SignBundleFile
  BY <1>4, SignWrites DEF Kept, Stored, Ct, SignBundleFile, Write
<1>5. CASE MigrateBundleToV3
  <2>1. version' = "v3" /\ version \in {"v2", "v3"}
    BY <1>5 DEF MigrateBundleToV3, Write
  <2> QED
    BY <1>5, <2>1, MigrateV3Writes DEF Kept, Stored, Ct, IdOf
<1>6. CASE MigrateBundleToV4
  BY <1>6, ResealWrites DEF MigrateBundleToV4, Write
<1>7. CASE ReSealToEnvRecipients
  BY <1>7, ResealWrites DEF ReSealToEnvRecipients, Write
<1> QED
  BY <1>1, <1>2, <1>3, <1>4, <1>5, <1>6, <1>7
     DEF Next, vars, SetRecipient, Collapse, Command,
          CmdSeal, CmdReseal, CmdMigrateV3, CmdMigrateV4, CmdMigrateEnv, Start, Stop

-----------------------------------------------------------------------------
(***************************************************************************)
(* The inductive invariant, one lemma per conjunct.                        *)
(***************************************************************************)

LEMMA InitIInv == Init => IInv
<1> SUFFICES ASSUME Init PROVE IInv
  OBVIOUS
<1>1. ASSUME NEW e \in Envs, NEW k \in Keys, Stored(e, k)
      PROVE  Ct(e, k).id = IdOf(version) /\ Ct(e, k).to = recipient[e]
  BY <1>1 DEF Init, NoSections, Stored, Ct, EntriesOf, NoEntries, IdOf
<1>2. Had
  BY DEF Init, Had
<1>3. OneGeneration /\ Isolated
  BY <1>1 DEF Init, OneGeneration, Isolated
<1> QED
  BY <1>2, <1>3, InitType
     DEF Init, IInv, SignedWhenDone, RotatedEverywhere, Deliverable, Rotating, Settling

\* The histories and what a command read: no key is forgotten.
LEMMA NextHad == TypeOK /\ Had /\ [Next]_vars =>
  Had' /\ \A e \in Envs : had[e] \subseteq had'[e]
<1> SUFFICES ASSUME TypeOK, Had, [Next]_vars
             PROVE  Had' /\ \A e \in Envs : had[e] \subseteq had'[e]
  OBVIOUS
<1>1. ASSUME NEW e \in Envs, NEW r \in Recipients, SetRecipient(e, r)
      PROVE  Had' /\ \A d \in Envs : had[d] \subseteq had'[d]
  BY <1>1 DEF SetRecipient, Had, TypeOK
<1>2. CASE Command
  <2>1. PICK rc \in {recipient, cache} : run'.rc = rc /\ cache' \in {rc, cache}
    BY <1>2 DEF Command,
         CmdSeal, CmdReseal, CmdMigrateV3, CmdMigrateV4, CmdMigrateEnv, Config, Start
  <2>2. UNCHANGED <<recipient, had>>
    BY <1>2 DEF Command,
         CmdSeal, CmdReseal, CmdMigrateV3, CmdMigrateV4, CmdMigrateEnv, Start
  <2> QED
    BY <2>1, <2>2 DEF Had
<1>3. CASE UNCHANGED <<recipient, cache, had>> /\ run'.rc = run.rc
  BY <1>3 DEF Had
<1> QED
  BY <1>1, <1>2, <1>3
     DEF Next, vars, Collapse, Stop, StripKeyFromBundle, SealBundle, SignBundleFile,
         MigrateBundleToV3, MigrateBundleToV4, ReSealToEnvRecipients, Write, TypeOK, Runs

LEMMA NextOneGeneration == TypeOK /\ OneGeneration /\ [Next]_vars => OneGeneration'
<1> SUFFICES ASSUME TypeOK, OneGeneration, [Next]_vars, NEW e \in Envs, NEW k \in Keys,
                    Stored(e, k)'
             PROVE  Ct(e, k)'.id = IdOf(version')
  BY DEF OneGeneration
<1> QED
  BY NextWrites DEF OneGeneration, Kept, Sealed

LEMMA NextIsolated == TypeOK /\ Had /\ Isolated /\ [Next]_vars => Isolated'
<1> SUFFICES ASSUME TypeOK, Had, Isolated, [Next]_vars, NEW e \in Envs, NEW k \in Keys,
                    Stored(e, k)'
             PROVE  Ct(e, k)'.to \in had'[e]
  BY DEF Isolated
<1> QED
  BY NextWrites, NextHad DEF Isolated, Had, Kept, Sealed

\* Signing covers what the section holds, of the version that is written.
LEMMA SignedSig ==
  ASSUME NEW sec \in Optional(Sections), NEW v, Signed(sec, v) # Absent
  PROVE  Signed(sec, v).sig = [domain |-> IdOf(v), entries |-> Signed(sec, v).entries]
BY DEF Signed, Optional, Sections

LEMMA NextSignedWhenDone == TypeOK /\ SignedWhenDone /\ [Next]_vars => SignedWhenDone'
<1> SUFFICES ASSUME TypeOK, SignedWhenDone, [Next]_vars, (run.at = "done")',
                    NEW e \in Envs, section'[e] # Absent
             PROVE  section'[e].sig = [domain |-> IdOf(version'), entries |-> section'[e].entries]
  BY DEF SignedWhenDone
<1>1. CASE SignBundleFile
  BY <1>1, SignedSig DEF SignBundleFile, Write, TypeOK
<1>2. CASE MigrateBundleToV3
  <2> DEFINE sec == [section[e] EXCEPT !.cluster = Absent]
  <2>1. section[e] # Absent /\ section'[e] = Signed(sec, "v3") /\ version' = "v3"
    BY <1>2 DEF MigrateBundleToV3, Write
  <2>2. sec \in Sections
    BY <2>1 DEF TypeOK, Sections, Optional
  <2> QED
    BY <2>1, <2>2, SignedSig DEF Optional
<1>3. CASE section' = Resealed /\ version' = "v4"
  <2> DEFINE sec == [entries |-> Reencrypted(e), sig |-> Absent, cluster |-> Absent]
  <2>1. section'[e] = Signed(sec, "v4")
    BY <1>3 DEF Resealed
  <2>2. sec \in Sections
    BY ReencryptedType, SectionType DEF Optional
  <2> QED
    BY <1>3, <2>1, <2>2, SignedSig DEF Optional
<1>4. CASE UNCHANGED <<run, version, section>>
  BY <1>4 DEF SignedWhenDone
<1> QED
  BY <1>1, <1>2, <1>3, <1>4
     DEF Next, vars, SetRecipient, Collapse, Command,
          CmdSeal, CmdReseal, CmdMigrateV3, CmdMigrateV4, CmdMigrateEnv,
          Start, Stop, StripKeyFromBundle, SealBundle,
         MigrateBundleToV4, ReSealToEnvRecipients, Write, TypeOK, Runs

LEMMA NextRotating == TypeOK /\ Rotating /\ [Next]_vars => Rotating'
<1> SUFFICES ASSUME TypeOK, Rotating, [Next]_vars PROVE Rotating'
  OBVIOUS
<1>1. CASE Command
  BY <1>1 DEF Command,
       CmdSeal, CmdReseal, CmdMigrateV3, CmdMigrateV4, CmdMigrateEnv, Start, Rotating
<1>2. CASE StripKeyFromBundle
  <2>1. run' = [run EXCEPT !.at = "seal"]
    BY <1>2 DEF StripKeyFromBundle, Write
  <2>2. run'.key = run.key /\ run'.at = "seal"
    BY <2>1 DEF TypeOK, Runs
  <2>3. ASSUME run.key # Absent, NEW e \in Envs PROVE ~Stored(e, run.key)'
    <3>1. run.key \in Keys
      BY <2>3 DEF TypeOK, Runs, Optional
    <3>2. Ct(e, run.key)' = Absent
      BY <1>2, <2>2, <3>1, StripWrites DEF Ct
    <3> QED
      BY <3>2 DEF Ct, Stored
  <2> QED
    BY <2>2, <2>3 DEF Rotating, Stored
<1>3. CASE run'.key = run.key /\ run'.at \in {"idle", "sign", "done"}
  BY <1>3 DEF Rotating
<1>4. CASE UNCHANGED <<run, section>>
  BY <1>4 DEF Rotating, Stored
<1> QED
  BY <1>1, <1>2, <1>3, <1>4
     DEF Next, vars, SetRecipient, Collapse, Stop, SealBundle, SignBundleFile,
         MigrateBundleToV3, MigrateBundleToV4, ReSealToEnvRecipients, Write, TypeOK, Runs

\* The run that has stripped its key finds none to carry over.
LEMMA NextRotatedEverywhere ==
  TypeOK /\ Rotating /\ RotatedEverywhere /\ [Next]_vars => RotatedEverywhere'
<1> SUFFICES ASSUME TypeOK, Rotating, RotatedEverywhere, [Next]_vars,
                    (run.key # Absent /\ run.at \in {"sign", "done"})',
                    NEW e \in Envs, Stored(e, run.key)'
             PROVE  Ct(e, run.key)'.run = runs' /\ Ct(e, run.key)'.to = run'.rc[e]
  BY DEF RotatedEverywhere
<1>1. run'.key \in Keys
  <2>1. run' \in Runs
    BY NextType DEF TypeOK
  <2> QED
    BY <2>1 DEF Runs, Optional
<1>2. CASE SealBundle
  <2>1. run' = [run EXCEPT !.at = "sign"] /\ runs' = runs /\ run.at = "seal"
    BY <1>2 DEF SealBundle, Write
  <2>2. run'.key = run.key /\ run'.rc = run.rc
    BY <2>1 DEF TypeOK, Runs
  <2>3. ~Stored(e, run.key)
    BY <2>1, <2>2 DEF Rotating
  <2>4. Sealed(e, run.key)
    BY <1>1, <1>2, <2>2, <2>3, SealWrites DEF Kept, Stored
  <2> QED
    BY <2>1, <2>2, <2>4 DEF Sealed, Ct
<1>3. CASE SignBundleFile
  <2>1. run' = [run EXCEPT !.at = "done"] /\ runs' = runs /\ run.at = "sign"
    BY <1>3 DEF SignBundleFile, Write
  <2>2. run'.key = run.key /\ run'.rc = run.rc
    BY <2>1 DEF TypeOK, Runs
  <2> QED
    BY <1>3, <2>1, <2>2, SignWrites DEF RotatedEverywhere, Ct, Stored
<1>4. CASE UNCHANGED <<run, runs, section>>
  BY <1>4 DEF RotatedEverywhere, Stored, Ct
<1> QED
  BY <1>2, <1>3, <1>4
     DEF Next, vars, SetRecipient, Collapse, Command,
          CmdSeal, CmdReseal, CmdMigrateV3, CmdMigrateV4, CmdMigrateEnv,
          Start, Stop, StripKeyFromBundle, Rotating,
         MigrateBundleToV3, MigrateBundleToV4, ReSealToEnvRecipients, Write, TypeOK, Runs

LEMMA NextSettling == TypeOK /\ Settling /\ [Next]_vars => Settling'
<1> SUFFICES ASSUME TypeOK, Settling, [Next]_vars PROVE Settling'
  OBVIOUS
<1>1. ASSUME NEW e \in Envs, NEW r \in Recipients, SetRecipient(e, r) PROVE Settling'
  BY <1>1 DEF SetRecipient, Settling
<1>2. CASE Collapse
  BY <1>2 DEF Collapse, Settling
<1>3. CASE Command
  <2>1. PICK at \in Steps, rc \in {recipient, cache} :
          /\ run'.at = at /\ run'.rc = rc /\ run'.repo = repo
          /\ cache' = IF repo = "registry" /\ at # "strip" THEN rc ELSE cache
          /\ at = "migrate-env" => repo = "registry"
          /\ at = "migrate-v4" => repo = "legacy"
    BY <1>3 DEF Command,
         CmdSeal, CmdReseal, CmdMigrateV3, CmdMigrateV4, CmdMigrateEnv, Config, Start, Steps
  <2>2. UNCHANGED <<repo, recipient, version, settled>>
    BY <1>3 DEF Command,
         CmdSeal, CmdReseal, CmdMigrateV3, CmdMigrateV4, CmdMigrateEnv, Start
  <2> QED
    BY <2>1, <2>2 DEF Settling
<1>4. CASE Stop
  BY <1>4 DEF Stop, Settling, TypeOK, Runs
<1>5. CASE StripKeyFromBundle
  BY <1>5 DEF StripKeyFromBundle, Write, Settling, TypeOK, Runs
<1>6. CASE SealBundle
  BY <1>6 DEF SealBundle, Write, Settling, TypeOK, Runs
<1>7. CASE SignBundleFile
  BY <1>7 DEF SignBundleFile, Write, Settling, TypeOK, Runs
<1>8. CASE MigrateBundleToV3
  BY <1>8 DEF MigrateBundleToV3, Write, Settling, TypeOK, Runs
<1>9. CASE MigrateBundleToV4
  BY <1>9 DEF MigrateBundleToV4, Write, Settling, TypeOK, Runs
<1>10. CASE ReSealToEnvRecipients
  BY <1>10 DEF ReSealToEnvRecipients, Write, Settling, TypeOK, Runs
<1>11. CASE UNCHANGED vars
  BY <1>11 DEF vars, Settling
<1> QED
  BY <1>1, <1>2, <1>3, <1>4, <1>5, <1>6, <1>7, <1>8, <1>9, <1>10, <1>11 DEF Next

\* Once settled, whatever is sealed anew is sealed to the current keys.
LEMMA NextDeliverable ==
  TypeOK /\ Settling /\ Deliverable /\ [Next]_vars => Deliverable'
<1> SUFFICES ASSUME TypeOK, Settling, Deliverable, [Next]_vars, settled',
                    NEW e \in Envs, NEW k \in Keys, Stored(e, k)'
             PROVE  Ct(e, k)'.to = recipient'[e]
  BY DEF Deliverable
<1>1. CASE ReSealToEnvRecipients
  <2>1. section' = Resealed /\ version' = "v4" /\ recipient' = recipient /\ run.rc = recipient
    BY <1>1 DEF ReSealToEnvRecipients, Write
  <2> QED
    BY <2>1, ResealWrites DEF Sealed
<1>2. CASE ~ReSealToEnvRecipients
  <2>1. settled /\ recipient' = recipient
    BY <1>2 DEF Next, vars, SetRecipient, Collapse, Command,
         CmdSeal, CmdReseal, CmdMigrateV3, CmdMigrateV4, CmdMigrateEnv,
         Start, Stop, StripKeyFromBundle,
       SealBundle, SignBundleFile, MigrateBundleToV3, MigrateBundleToV4, Write
  <2>2. CASE Kept(e, k)
    BY <2>1, <2>2 DEF Deliverable, Kept
  <2>3. CASE Sealed(e, k) /\ run.rc = recipient
    BY <2>1, <2>3 DEF Sealed
  <2>4. CASE UNCHANGED section
    BY <2>1, <2>4 DEF Deliverable, Stored, Ct
  <2>5. run.at \in {"idle", "done"} => UNCHANGED section
    BY <1>2 DEF Next, vars, SetRecipient, Collapse, Command,
         CmdSeal, CmdReseal, CmdMigrateV3, CmdMigrateV4, CmdMigrateEnv,
         Start, Stop, StripKeyFromBundle,
       SealBundle, SignBundleFile, MigrateBundleToV3, MigrateBundleToV4
  <2>6. run.at \notin {"idle", "done"} => run.rc = recipient
    BY <2>1 DEF Settling
  <2> QED
    BY <2>2, <2>3, <2>4, <2>5, <2>6, NextWrites
<1> QED
  BY <1>1, <1>2

\* For every set of environments, keys, secrets and files, and any number of
\* commands, stopped anywhere: the safety properties of the bundle, together.
THEOREM InductiveInvariant == Spec => []IInv
<1>1. IInv /\ [Next]_vars => IInv'
  BY NextType, NextOneGeneration, NextIsolated, NextSignedWhenDone, NextRotatedEverywhere,
     NextDeliverable, NextHad, NextRotating, NextSettling DEF IInv
<1> QED
  BY <1>1, InitIInv, PTL DEF Spec

\* No section ever holds what opens for a key its environment never had.
THEOREM IsolatedAlways == Spec => []Isolated
BY InductiveInvariant, PTL DEF IInv

\* Every ciphertext carries the identity that readers of the file's version assert,
\* whatever repo.yaml said when and in which order the commands ran or stopped.
THEOREM OneGenerationAlways == Spec => []OneGeneration
BY InductiveInvariant, PTL DEF IInv

\* A command that reports success leaves every section signed as it is.
THEOREM SignedAlways == Spec => []SignedWhenDone
BY InductiveInvariant, PTL DEF IInv

\* A rotated secret survives in no section, whatever the scope of the command.
THEOREM RotatedAlways == Spec => []RotatedEverywhere
BY InductiveInvariant, PTL DEF IInv

\* After migrate-env every environment opens its section, until a key changes.
THEOREM DeliverableAlways == Spec => []Deliverable
BY InductiveInvariant, PTL DEF IInv

-----------------------------------------------------------------------------

LEMMA PlainSame ==
  ASSUME \A e \in Envs, k \in Keys : Ct(e, k)' = Ct(e, k)
  PROVE  Plain' = Plain
BY DEF Plain, Stored, Ct

LEMMA PlainResealed ==
  ASSUME TypeOK, section' = Resealed, version' = "v4"
  PROVE  Plain' = Plain
<1>1. ASSUME NEW e \in Envs, NEW k \in Keys
      PROVE  (IF Stored(e, k)' THEN <<Ct(e, k)'.val, Ct(e, k)'.level>> ELSE Absent)
               = IF Stored(e, k) THEN <<Ct(e, k).val, Ct(e, k).level>> ELSE Absent
  BY ResealWrites
<1> QED
  BY <1>1 DEF Plain

\* A migration changes who can open the secrets and how, never what they say.
THEOREM MigrationsKeepSecrets == Spec => PlaintextKept
<1>1. ASSUME TypeOK, [Next]_vars, run.at \in {"migrate-v3", "migrate-v4", "migrate-env"}
      PROVE  Plain' = Plain
  <2>1. CASE MigrateBundleToV3
    BY <1>1, <2>1, MigrateV3Writes, PlainSame DEF Ct
  <2>2. CASE section' = Resealed /\ version' = "v4"
    BY <1>1, <2>2, PlainResealed
  <2>3. CASE UNCHANGED section
    BY <2>3, PlainSame DEF Ct
  <2> QED
    BY <1>1, <2>1, <2>2, <2>3
       DEF Next, vars, SetRecipient, Collapse, Command,
            CmdSeal, CmdReseal, CmdMigrateV3, CmdMigrateV4, CmdMigrateEnv,
            Start, Stop, StripKeyFromBundle,
           SealBundle, SignBundleFile, MigrateBundleToV4, ReSealToEnvRecipients, Write
<1>2. TypeOK /\ [Next]_vars =>
        [run.at \in {"migrate-v3", "migrate-v4", "migrate-env"} => Plain' = Plain]_vars
  BY <1>1
<1> QED
  BY <1>2, TypeCorrect, PTL DEF Spec, PlaintextKept

LEMMA SealKeeps ==
  ASSUME TypeOK, SealBundle, version # "none", IdOf(version') = IdOf(version), NEW e \in Envs
  PROVE  /\ e \notin run.scope => section'[e] = section[e]
         /\ \A k \in Keys :
              Stored(e, k) /\ Stored(e, k)' /\ section[e].cluster \in {Absent, run.rc[e]}
                => Ct(e, k)' = Ct(e, k)
<1> DEFINE v == IF run.repo = "legacy" THEN "v3" ELSE "v4"
<1>1. PICK input \in Inputs, overrides \in [run.scope -> Overrides] :
        Write(v, [d \in Envs |->
              IF d \in run.scope
              THEN SealSection(d, Resolved(input.base, overrides[d]), input.level, IdOf(v))
              ELSE Prior[d]], "sign")
  BY DEF SealBundle
<1>2. version' = v /\ IdOf(v) \in Ids
  BY <1>1 DEF Write, IdOf, Ids
<1>3. Prior = section
  BY <1>2 DEF Prior, IdOf, TypeOK
<1>4. CASE e \notin run.scope
  BY <1>1, <1>3, <1>4 DEF Write, Stored, Ct
<1>5. CASE e \in run.scope
  <2> DEFINE values == Resolved(input.base, overrides[e])
  <2>1. values \in [Keys -> Optional(Values)] /\ input.level \in Levels
    BY <1>5, BundleAssumption, ResolvedType
  <2>2. section'[e] = SealSection(e, values, input.level, IdOf(v))
    BY <1>1, <1>5 DEF Write
  <2> HIDE DEF values
  <2>3. ASSUME NEW k \in Keys, Stored(e, k), Stored(e, k)',
               section[e].cluster \in {Absent, run.rc[e]}
        PROVE  Ct(e, k)' = Ct(e, k)
    <3>1. Carried(e, k)
      BY <1>3, <2>3 DEF Carried, Stored
    <3>2. Ct(e, k)' = IF values[k] = Absent THEN Absent ELSE EntriesOf(Prior[e])[k]
      BY <1>2, <2>1, <2>2, <3>1, SealSectionEntries DEF Ct
    <3> QED
      BY <1>3, <2>3, <3>2 DEF Ct, Stored
  <2> QED
    BY <1>5, <2>3
<1> QED
  BY <1>4, <1>5

\* A seal replaces no ciphertext that it could have left alone.
THEOREM SealsChurnNothing == Spec => MinimalDiff
<1> DEFINE Diff ==
  run.at = "seal" /\ version # "none" /\ IdOf(version') = IdOf(version) =>
    \A e \in Envs :
      /\ e \notin run.scope => section'[e] = section[e]
      /\ \A k \in Keys :
           Stored(e, k) /\ Stored(e, k)' /\ section[e].cluster \in {Absent, run.rc[e]}
             => Ct(e, k)' = Ct(e, k)
<1>1. TypeOK /\ [Next]_vars => Diff
  <2> SUFFICES ASSUME TypeOK, [Next]_vars PROVE Diff
    OBVIOUS
  <2>1. CASE SealBundle
    BY <2>1, SealKeeps
  <2>2. CASE UNCHANGED section
    BY <2>2 DEF Stored, Ct
  <2>3. CASE run.at # "seal"
    BY <2>3
  <2> QED
    BY <2>1, <2>2, <2>3
       DEF Next, vars, SetRecipient, Collapse, Command,
            CmdSeal, CmdReseal, CmdMigrateV3, CmdMigrateV4, CmdMigrateEnv,
            Start, Stop, StripKeyFromBundle,
           SignBundleFile, MigrateBundleToV3, MigrateBundleToV4, ReSealToEnvRecipients
<1> QED
  BY <1>1, TypeCorrect, PTL DEF Spec, MinimalDiff

-----------------------------------------------------------------------------

\* What the check in CI looks at besides the version: which sections there are,
\* and their labels.  Stripping and signing leave both.
LEMMA SignedLabel ==
  ASSUME NEW sec \in Optional(Sections), NEW v
  PROVE  /\ Signed(sec, v) = Absent <=> sec = Absent
         /\ sec # Absent => Signed(sec, v).cluster = sec.cluster
<1>1. CASE sec = Absent
  BY <1>1 DEF Signed
<1>2. CASE sec # Absent
  <2>1. Signed(sec, v) \in Sections /\ Signed(sec, v).cluster = sec.cluster
    BY <1>2 DEF Signed, Optional, Sections, Sigs, IdOf, Ids
  <2> QED
    BY <1>2, <2>1, NoRecordAssumption
<1> QED
  BY <1>1, <1>2

LEMMA StrippedLabel ==
  ASSUME NEW sec \in Optional(Sections)
  PROVE  /\ Stripped(sec) = Absent <=> sec = Absent
         /\ sec # Absent => Stripped(sec).cluster = sec.cluster
<1>1. CASE sec = Absent
  BY <1>1 DEF Stripped
<1>2. CASE sec # Absent
  <2>1. Stripped(sec) \in Sections /\ Stripped(sec).cluster = sec.cluster
    BY <1>2 DEF Stripped, Optional, Sections, Entries
  <2> QED
    BY <1>2, <2>1, NoRecordAssumption
<1> QED
  BY <1>1, <1>2

LEMMA SealedVerifies ==
  ASSUME TypeOK, SealBundle, VerifyBundle, UNCHANGED <<repo, recipient>>,
         version = "v3" \/ run.scope = Envs
  PROVE  VerifyBundle'
<1> DEFINE v == IF run.repo = "legacy" THEN "v3" ELSE "v4"
<1>1. PICK input \in Inputs, overrides \in [run.scope -> Overrides] :
        Write(v, [d \in Envs |->
              IF d \in run.scope
              THEN SealSection(d, Resolved(input.base, overrides[d]), input.level, IdOf(v))
              ELSE Prior[d]], "sign")
  BY DEF SealBundle
<1>2. CASE run.repo # "legacy"
  BY <1>1, <1>2 DEF Write, VerifyBundle
<1>3. CASE run.repo = "legacy"
  <2>1. ASSUME NEW e \in run.scope, e \in Envs
        PROVE  section'[e] # Absent /\ section'[e].cluster = Absent
    <3> DEFINE values == Resolved(input.base, overrides[e])
    <3>1. values \in [Keys -> Optional(Values)] /\ input.level \in Levels
      BY <2>1, BundleAssumption, ResolvedType
    <3>2. section'[e] = SealSection(e, values, input.level, IdOf(v))
      BY <1>1, <2>1 DEF Write
    <3>3. IdOf(v) \in Ids
      BY DEF IdOf, Ids
    <3> HIDE DEF values, v
    <3>4. SealSection(e, values, input.level, IdOf(v)) # Absent
      BY <2>1, <3>1, <3>3, SealSectionType, NoRecordAssumption
    <3> QED
      BY <3>2, <3>4 DEF SealSection
  <2>2. ASSUME NEW e \in Envs, e \notin run.scope
        PROVE  version = "v3" /\ section'[e] = section[e]
    BY <1>1, <1>3, <2>2 DEF Write, Prior
  <2> QED
    BY <1>1, <1>3, <2>1, <2>2 DEF Write, VerifyBundle
<1> QED
  BY <1>2, <1>3

LEMMA MigratedVerifies ==
  ASSUME TypeOK, MigrateBundleToV3, VerifyBundle, UNCHANGED <<repo, recipient>>
  PROVE  VerifyBundle'
<1>1. ASSUME NEW e \in Envs
      PROVE  /\ section'[e] = Absent <=> section[e] = Absent
             /\ section[e] # Absent => section'[e].cluster = Absent
  <2>1. CASE section[e] = Absent
    BY <2>1 DEF MigrateBundleToV3, Write
  <2>2. CASE section[e] # Absent
    <3> DEFINE sec == [section[e] EXCEPT !.cluster = Absent]
    <3>1. sec \in Sections /\ sec.cluster = Absent
      BY <2>2 DEF TypeOK, Sections, Optional
    <3>2. section'[e] = Signed(sec, "v3")
      BY <2>2 DEF MigrateBundleToV3, Write
    <3> HIDE DEF sec
    <3>3. sec \in Optional(Sections) /\ sec # Absent
      BY <3>1, NoRecordAssumption DEF Optional
    <3>4. Signed(sec, "v3") # Absent /\ Signed(sec, "v3").cluster = sec.cluster
      BY <3>3, SignedLabel
    <3> QED
      BY <2>2, <3>1, <3>2, <3>4
  <2> QED
    BY <2>1, <2>2
<1>2. ~ \A e \in Envs : section[e] = Absent
  BY DEF MigrateBundleToV3, NoSections, TypeOK
<1>3. ASSUME NEW e \in Envs, section[e] = Absent PROVE repo = "registry"
  BY <1>2, <1>3 DEF MigrateBundleToV3, VerifyBundle, TypeOK
<1> QED
  BY <1>1, <1>3 DEF MigrateBundleToV3, Write, VerifyBundle

\* No command, stopping anywhere, turns a bundle that CI accepts into one that
\* it rejects, but for the scoped seal over a file of another version.
THEOREM VerifiedAlways == Spec => VerifiedStaysVerified
<1> DEFINE Stays ==
  /\ VerifyBundle /\ version # "none" /\ UNCHANGED <<repo, recipient>>
  /\ run.at = "seal" => version = "v3" \/ run.scope = Envs
  => VerifyBundle'
<1>1. TypeOK /\ [Next]_vars => Stays
  <2> SUFFICES ASSUME TypeOK, [Next]_vars, VerifyBundle, UNCHANGED <<repo, recipient>>,
                      run.at = "seal" => version = "v3" \/ run.scope = Envs
               PROVE  VerifyBundle'
    OBVIOUS
  <2>1. CASE SealBundle
    BY <2>1, SealedVerifies DEF SealBundle
  <2>2. CASE MigrateBundleToV3
    BY <2>2, MigratedVerifies
  <2>3. CASE StripKeyFromBundle
    <3>1. ASSUME NEW e \in Envs
          PROVE  /\ section'[e] = Absent <=> section[e] = Absent
                 /\ section[e] # Absent => section'[e].cluster = section[e].cluster
      BY <2>3, StrippedLabel DEF StripKeyFromBundle, Write, TypeOK
    <3> QED
      BY <2>3, <3>1 DEF StripKeyFromBundle, Write, VerifyBundle
  <2>4. CASE SignBundleFile
    <3>1. ASSUME NEW e \in Envs
          PROVE  /\ section'[e] = Absent <=> section[e] = Absent
                 /\ section[e] # Absent => section'[e].cluster = section[e].cluster
      BY <2>4, SignedLabel DEF SignBundleFile, Write, TypeOK
    <3> QED
      BY <2>4, <3>1 DEF SignBundleFile, Write, VerifyBundle
  <2>5. CASE MigrateBundleToV4 \/ ReSealToEnvRecipients
    BY <2>5 DEF MigrateBundleToV4, ReSealToEnvRecipients, Write, VerifyBundle
  <2>6. CASE UNCHANGED <<version, section>>
    BY <2>6 DEF VerifyBundle
  <2> QED
    BY <2>1, <2>2, <2>3, <2>4, <2>5, <2>6
       DEF Next, vars, SetRecipient, Collapse, Command,
            CmdSeal, CmdReseal, CmdMigrateV3, CmdMigrateV4, CmdMigrateEnv, Start, Stop
<1> QED
  BY <1>1, TypeCorrect, PTL DEF Spec, VerifiedStaysVerified
=============================================================================

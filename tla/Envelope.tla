------------------------------ MODULE Envelope ------------------------------
(***************************************************************************)
(* The sealed blob (internal/crypto): an authenticated encryption whose    *)
(* payload carries, besides the body, the discriminator it was sealed for  *)
(* (a numeric project id up to v3, the project's public key in v4) and the *)
(* access level that unsealing requires.  A key pair is one value: the     *)
(* recipient one seals to and the identity that opens what was sealed to   *)
(* it.  age, an external library, guarantees that only the identities of   *)
(* the recipients open a blob and that nobody can change what is inside.   *)
(***************************************************************************)
EXTENDS Integers

DefaultMinAccessLevel == 30

\* A blob sealed before levels existed carries no level header.
NoLevel == -1

\* The two forms of the discriminator header.
ById(pid)  == [form |-> "id",  id |-> pid]
ByKey(key) == [form |-> "key", id |-> key]

Sealed(for, level, to, body) ==
  [for |-> for, level |-> level, to |-> to, body |-> body]

\* SealMulti / SealMultiV4 accept any positive level and at least one recipient.
Sealable(level, to) == level > 0 /\ to # {}

EmbeddedLevel(ct) ==
  IF ct.level = NoLevel THEN DefaultMinAccessLevel ELSE ct.level

\* UnsealVerified (for = ById(pid)) and UnsealVerifiedByKey (for = ByKey(key))
\* succeed: the identity opens the blob, the embedded level is trustworthy,
\* and the blob was sealed for what the caller names, in the same form.
Unseals(ct, identity, for) ==
  /\ identity \in ct.to
  /\ EmbeddedLevel(ct) >= DefaultMinAccessLevel
  /\ ct.for.form = for.form
  /\ ct.for = for
=============================================================================

------------------------------- MODULE AgeEngine -------------------------------
(***************************************************************************)
(* The age engine (crates/pass-ffi/src/age_engine.rs) and the adapter       *)
(* between it and the core (crates/pass-ffi/src/lib.rs).  A ciphertext is   *)
(* the set of keys it is for and what is in it; a passphrase file is the    *)
(* same with a passphrase and a work factor.                                *)
(***************************************************************************)
EXTENDS Naturals, Sequences, SequencesExt

CONSTANTS MaxWork,        \* the highest work factor accepted
          DefaultWork,
          AgeRecipients   \* what parses as an age recipient

Sealed(to, text) == [to |-> to, text |-> text]

\* No recipients: to the device's own identities.
AgeEncrypt(identities, recipients, text) ==
  IF identities = <<>> /\ recipients = <<>> THEN <<"no usable key">>
  ELSE IF recipients = <<>> THEN <<"ok", Sealed(ToSet(identities), text)>>
  ELSE IF \E i \in DOMAIN recipients : recipients[i] \notin AgeRecipients THEN <<"encryption failed">>
  ELSE <<"ok", Sealed(ToSet(recipients), text)>>

AgeDecrypt(identities, sealed) ==
  IF identities = <<>> THEN <<"no usable key">>
  ELSE IF ToSet(identities) \intersect sealed.to = {} THEN <<"decryption failed">>
  ELSE <<"ok", sealed.text>>

PassphraseFile(passphrase, work, text) ==
  [passphrase |-> passphrase, work |-> work, text |-> text]

AgeEncryptWithPassphrase(text, passphrase) ==
  PassphraseFile(passphrase, DefaultWork, text)

DecryptIdentitiesFile(file, passphrase) ==
  IF file.work > MaxWork THEN <<"unavailable">>
  ELSE IF file.passphrase # passphrase THEN <<"decryption failed">>
  ELSE <<"ok", file.text>>

\* Having no key is one failure among others to the core.
AdaptEncrypt(result) == IF result[1] = "no usable key" THEN <<"encryption failed">> ELSE result
AdaptDecrypt(result) == IF result[1] = "no usable key" THEN <<"decryption failed">> ELSE result
=============================================================================

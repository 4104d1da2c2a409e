------------------------------- MODULE PgpEngine -------------------------------
(***************************************************************************)
(* The OpenPGP engine (crates/pass-ffi/src/pgp_engine.rs).  A key is a      *)
(* sequence of components, the primary first; a component has an id (its    *)
(* fingerprint, and anything else that names it), what its algorithm can    *)
(* do, its bindings (a primary's are the signatures it made of itself), and *)
(* how its secret part is kept: none, stub, plain, or locked with a         *)
(* passphrase.  A blob is a sequence of keys.  Packets, algorithms and      *)
(* versions are left out.                                                   *)
(***************************************************************************)
EXTENDS Naturals, Sequences, SequencesExt

CONSTANT Now

Component(id, encrypts, revoked, bindings, lock) ==
  [id |-> id, encrypts |-> encrypts, revoked |-> revoked, bindings |-> bindings,
   lock |-> lock]
Binding(made, encrypts, validity) ==
  [made |-> made, encrypts |-> encrypts, validity |-> validity]   \* 0: for ever
Locked(passphrase) == <<"locked", passphrase>>
Plainly == <<"plain">>
NoPassphrase == ""

Ids(key) == {key[i].id : i \in DOMAIN key}
HasSecret(key) == key[1].lock # <<"none">>

\* The public keys of a blob count only when it has no secret key.
ParseBlob(blob) ==
  LET secret == SelectSeq(blob, HasSecret)
  IN  [secret |-> secret, public |-> IF secret = <<>> THEN blob ELSE <<>>]

Public(key) == [i \in DOMAIN key |-> [key[i] EXCEPT !.lock = <<"none">>]]

IsLocked(c) == c.lock[1] = "locked"
IsPlain(c) == c.lock = Plainly

Open(c, passphrase) ==
  IF IsLocked(c) /\ passphrase # NoPassphrase /\ c.lock[2] = passphrase
  THEN [c EXCEPT !.lock = Plainly] ELSE c

\* Mutant: only the primary is unlocked.
OpenPrimary(key, passphrase) == [key EXCEPT ![1] = Open(@, passphrase)]

Unlocked(key, passphrase) == [i \in DOMAIN key |-> Open(key[i], passphrase)]

Usable(key) == \E i \in DOMAIN key : IsPlain(key[i])

\* Mutant: what is not locked is taken to be open.
LockStateOfStubs(key, passphrase) ==
  LET protected == {i \in DOMAIN key : IsLocked(key[i])}
  IN  CASE protected = {} -> "unprotected"
        [] protected # {} /\ passphrase = NoPassphrase -> "passphrase required"
        [] OTHER -> "unlocked"

LockState(key, passphrase) ==
  LET protected == {i \in DOMAIN key : IsLocked(key[i])}
      opened == {i \in protected : IsPlain(Open(key[i], passphrase))}
  IN  CASE protected = {} /\ Usable(key) -> "unprotected"
        [] protected = {} /\ ~Usable(key) -> "not secret"
        [] protected # {} /\ passphrase = NoPassphrase -> "passphrase required"
        [] protected # {} /\ passphrase # NoPassphrase /\ opened = {} -> "wrong passphrase"
        [] OTHER -> "unlocked"

KeyLockState(blob, passphrase) ==
  LET secret == ParseBlob(blob).secret
  IN  IF secret = <<>> THEN "not secret" ELSE LockState(secret[1], passphrase)

\* Unlocked once, here; a key with nothing usable is left out.
FromKeyBlobs(blobs, passphrase) ==
  LET parsed == [i \in DOMAIN blobs |-> ParseBlob(blobs[i])]
      secret == FlattenSeq([i \in DOMAIN parsed |-> parsed[i].secret])
      opened == [i \in DOMAIN secret |-> Unlocked(secret[i], passphrase)]
      Certs(p) == [i \in DOMAIN p.secret |-> Public(p.secret[i])] \o p.public
  IN  [secret |-> SelectSeq(opened, Usable),
       public |-> FlattenSeq([i \in DOMAIN parsed |-> Certs(parsed[i])]),
       states |-> [i \in DOMAIN blobs |-> KeyLockState(blobs[i], passphrase)]]

-----------------------------------------------------------------------------
\* Mutant: the first binding counts, whatever came later.
FirstBinding(bindings) == bindings[1]

NewestBinding(bindings) ==
  bindings[CHOOSE i \in DOMAIN bindings :
             \A j \in DOMAIN bindings :
               \/ bindings[j].made < bindings[i].made
               \/ bindings[j].made = bindings[i].made /\ j <= i]

\* A validity is counted from 0, when the subkeys here were made.
SubkeyEncrypts(sub) ==
  /\ sub.encrypts
  /\ ~sub.revoked
  /\ sub.bindings # <<>>
  /\ LET b == NewestBinding(sub.bindings)
     IN  b.encrypts /\ (b.validity = 0 \/ Now < b.validity)

\* A primary's revocation, expiry and flags are not asked.
EncryptionTargets(cert) ==
  LET live == {i \in 2..Len(cert) : SubkeyEncrypts(cert[i])}
  IN  IF live = {} /\ cert[1].encrypts THEN {cert[1].id}
      ELSE {cert[i].id : i \in live}

\* The first certificate with a component of this name.
Resolve(engine, spec) == SelectInSeq(engine.public, LAMBDA cert : spec \in Ids(cert))

\* All recipients or none.
PgpEncrypt(engine, recipients, text) ==
  LET certs == {Resolve(engine, recipients[i]) : i \in DOMAIN recipients}
      targets == [i \in certs \ {0} |-> EncryptionTargets(engine.public[i])]
  IN  IF recipients = <<>> THEN <<"no usable key">>
      ELSE IF 0 \in certs THEN <<"unavailable">>
      ELSE IF \E i \in certs : targets[i] = {} THEN <<"unavailable">>
      ELSE <<"ok", [to |-> UNION {targets[i] : i \in certs}, text |-> text]>>

PgpDecrypt(engine, message) ==
  IF engine.secret = <<>> THEN <<"no usable key">>
  ELSE IF \E i \in DOMAIN engine.secret : \E j \in DOMAIN engine.secret[i] :
            IsPlain(engine.secret[i][j]) /\ engine.secret[i][j].id \in message.to
  THEN <<"ok", message.text>>
  ELSE <<"no usable key">>

\* What the key list shows.
KeyInfos(blob) ==
  LET parsed == ParseBlob(blob)
      Info(key, secret) == [ids |-> Ids(key), secret |-> secret,
                            encrypts |-> EncryptionTargets(key) # {}]
  IN  [i \in DOMAIN parsed.secret |-> Info(parsed.secret[i], TRUE)]
        \o [i \in DOMAIN parsed.public |-> Info(parsed.public[i], FALSE)]
=============================================================================

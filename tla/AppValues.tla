------------------------------- MODULE AppValues -------------------------------
(***************************************************************************)
(* The texts of AppTexts, and the values the app only encodes, decodes or   *)
(* computes with: a behaviour that starts from one of those is that value,  *)
(* `text`, and what the code makes of it.                                   *)
(***************************************************************************)
EXTENDS AppTexts, Migration, Backup, Generate, PgpEngine, SshRemote, WebAuthn

\* The encoders lose no bit of a secret, a key or an export, whatever its
\* length (totp.rs, migration.rs and ssh.rs base32 and base64).
BitsRoundTrip ==
  kind = "bytes" => /\ DecodeBase32(EncodeBase32(text)) = text
                    /\ DecodeBase64(EncodeBase64(text)) = text

\* A label comes back from its escapes also when it holds what looks like one
\* (totp.rs percent_encode, percent_decode).
EscapesRoundTrip == kind = "label" => PercentDecode(PercentEncode(text)) = text

FromUri(uri) == IF uri.kind = "totp" THEN TotpFromUri(uri) ELSE HotpFromUri(uri)

\* What the manual form accepts is what the stored URI says, with every
\* parameter left out because it has its default, and is of the kind typed
\* (Totp and Hotp new, to_uri and from_uri; otp_kind).
StoredAsTyped ==
  kind = "form" => \A i \in DOMAIN NewOtp(text) :
                     /\ FromUri(ToUri(NewOtp(text)[i])) = NewOtp(text)
                     /\ OtpKind(ToUri(NewOtp(text)[i])) = Some(text.kind)

\* The code shown stays valid exactly for the seconds the ring shows, also for
\* a stored URI with a period of 0 (totp.rs code_at, seconds_remaining).
CodeLastsAsShown ==
  kind = "uri" /\ text.kind = "totp" =>
    \A i \in DOMAIN TotpFromUri(text) :
      LET c == TotpFromUri(text)[i] IN
      \A time \in 0..8 :
        /\ CodeAt(c, time + SecondsRemaining(c, time)) # CodeAt(c, time)
        /\ \A later \in time..(time + SecondsRemaining(c, time) - 1) :
             CodeAt(c, later) = CodeAt(c, time)

Counters(uri) == SelectSeq(uri.params, IsCounter)

\* A rewritten HOTP URI says the next counter and nothing else of it changed,
\* wherever the counter stands and however it is spelled, if there is one
\* counter only; at the highest counter there is no next one (hotp.rs next,
\* uri_with_counter).
CounterAdvances ==
  kind = "uri" /\ text.kind = "hotp" /\ Len(Counters(text)) = 1 =>
    \A i \in DOMAIN HotpFromUri(text) :
      LET c == HotpFromUri(text)[i] IN
      IF c.moving = MaxCounter THEN NextStep(c) = None
      ELSE LET step == NextStep(c)[1]  next == UriWithCounter(text, step.counter) IN
           /\ HotpFromUri(next) = Some([c EXCEPT !.moving = @ + 1])
           /\ SelectSeq(next.params, LAMBDA p : ~IsCounter(p))
                = SelectSeq(text.params, LAMBDA p : ~IsCounter(p))
           /\ step.code # CodeAtCounter(c, c.moving)

\* Nothing in an export is lost or made up: every account of it becomes a URI
\* that says the same, or is skipped with a reason; and of an export cut short
\* only whole accounts are read (migration.rs parse_payload, parse_account).
ExportReadWhole ==
  kind = "export" =>
    \A data \in {EncodeBase64(text.buf)} :
      \A all \in {ParseMigrationUri([prefix |-> "offline", data |-> data])[2].accounts},
         cut \in {ParsePayload(SubSeq(text.buf, 1, text.cut))} :   \* one or none
        /\ Len(all) = Len(text.secrets)
        /\ \A i \in DOMAIN all :
             LET a == all[i] IN
             \/ "skipped" \in DOMAIN a
             \/ \E c \in {FromUri(a.uri)} :
                  /\ c # None
                  /\ c[1].secret = text.secrets[i]
                  /\ c[1].label = OtpLabel(a.issuer, a.account)
                  /\ c[1].issuer = a.issuer
                  /\ c[1].kind = "hotp" => c[1].moving = text.counters[i]
        /\ \A batch \in cut : IsPrefix(batch.accounts, all)

\* The suggested name is a path of non-empty segments of its own (suggest_name).
NamesAreSegments ==
  kind = "export" =>
    \A batch \in ParsePayload(text.buf) : \A a \in ToSet(batch.accounts) :
      "suggested" \in DOMAIN a =>
        \A segment \in ToSet(a.suggested) : segment # <<>> /\ ~Contains(segment, Slash)

\* A container restores every section or none: cut short, or with anything
\* after it, it is refused, whatever its data looks like (backup.rs decode).
RestoresAllOrNothing ==
  kind = "backup" =>
    LET data == BackupEncode(text.sections) IN
    /\ BackupDecode(data) = <<"ok", text.sections>>
    /\ \A n \in 0..(Len(data) - 1) : BackupDecode(SubSeq(data, 1, n))[1] # "ok"
    /\ \A b \in ToSet(data) : BackupDecode(Append(data, b))[1] # "ok"

\* One wrong character of a recovery code is always caught, two neighbours
\* swapped are unless they are the first and the last value, and the
\* look-alikes and separators change nothing (backup.rs check_value,
\* normalize_recovery_code).
TyposCaught ==
  kind = "code" =>
    LET code == RecoveryCode(text)
        Swapped(i) == [code EXCEPT ![i] = code[i + 1], ![i + 1] = code[i]]
        LookAlike(v) == CASE v = 0 -> TypedO [] v = 1 -> TypedL [] OTHER -> v
    IN  /\ NormalizeRecoveryCode(<<Separator>> \o [i \in DOMAIN code |-> LookAlike(code[i])])
             = <<"ok", code>>
        /\ \A i \in DOMAIN code, v \in 0..(CodeValues - 1) :
             v # code[i] => NormalizeRecoveryCode([code EXCEPT ![i] = v])[1] = "checksum"
        /\ \A i \in 1..(Len(code) - 1) :
             code[i] # code[i + 1] /\ {code[i], code[i + 1]} # {0, CodeValues - 1} =>
               NormalizeRecoveryCode(Swapped(i))[1] = "checksum"

\* A password can be drawn for every setting the generator accepts: its loop
\* can end (generate.rs validate, generate).
DrawCanEnd == kind = "spec" => (Validate(text) => Generated(text) # {})

\* No character is favoured: as many draws are kept for every index below n
\* (generate.rs uniform_index).
DrawIsFair ==
  kind = "alphabet" =>
    LET Draws(r) == {v \in KeptDraws(text) : UniformIndex(v, text) = r}
    IN  \A r \in 0..(text - 1) : /\ Draws(r) # {}
                                 /\ Cardinality(Draws(r)) = Cardinality(Draws(0))

Loaded(blobs) == FromKeyBlobs(blobs, text.passphrase)

\* A device that holds a key with every part of it open reads whatever any
\* device encrypts to that key, by any of its names.
OpenKeyReads ==
  kind = "pgp" =>
    LET engine == Loaded(text.blobs)
        own == ToSet(FlattenSeq([i \in DOMAIN text.blobs |-> ParseBlob(text.blobs[i]).secret]))
    IN  \A key \in own :
          (\A i \in DOMAIN key : IsPlain(Open(key[i], text.passphrase))) =>
            \A id \in Ids(key) :
              LET sealed == PgpEncrypt(engine, <<id>>, "secret") IN
              sealed[1] = "ok" /\ Resolve(engine, id) # 0 /\
                Ids(engine.public[Resolve(engine, id)]) = Ids(key) =>
                PgpDecrypt(engine, sealed[2]) = <<"ok", "secret">>

\* Encryption reaches every recipient or fails, and it reaches all live subkeys
\* of a recipient's key and no subkey that was revoked, expired or made for
\* something else by its newest binding.  The primary is encrypted to only
\* where no subkey lives, and then on its algorithm alone: a revoked or expired
\* key, or a primary bound to certify only, is encrypted to all the same
\* (pgp_engine.rs encryption_targets).  A key listed as able to encrypt is.
NeverNarrowed ==
  kind = "pgp" =>
    /\ LET engine == Loaded(text.blobs)
           all == UNION {Ids(engine.public[i]) : i \in DOMAIN engine.public}
           Dead(c) == \/ c.revoked \/ ~c.encrypts \/ c.bindings = <<>>
                      \/ \E b \in ToSet(c.bindings) :
                           /\ \A d \in ToSet(c.bindings) : d = b \/ d.made < b.made
                           /\ ~b.encrypts \/ (b.validity # 0 /\ b.validity <= Now)
           Live(cert) == {cert[i].id : i \in {j \in 2..Len(cert) : ~Dead(cert[j])}}
       IN  \A specs \in BoundedSeq(all \union {"nobody"}, 2) :
             LET sealed == PgpEncrypt(engine, specs, "secret")
                 certs == {engine.public[Resolve(engine, specs[i])] : i \in DOMAIN specs}
             IN  sealed[1] = "ok" =>
                   /\ \A i \in DOMAIN specs : \E cert \in ToSet(engine.public) :
                        specs[i] \in Ids(cert) /\ Ids(cert) \intersect sealed[2].to # {}
                   /\ \A cert \in certs : Live(cert) \subseteq sealed[2].to
                   /\ \A id \in sealed[2].to : \E cert \in certs :
                        \/ id \in Live(cert)
                        \/ id = cert[1].id /\ cert[1].encrypts /\ Live(cert) = {}
    /\ \A i \in DOMAIN text.blobs :
         Len(text.blobs[i]) = 1 /\ KeyInfos(text.blobs[i])[1].encrypts =>
           \A id \in KeyInfos(text.blobs[i])[1].ids :
             PgpEncrypt(Loaded(<<text.blobs[i]>>), <<id>>, "secret")[1] = "ok"

\* A blob reported as needing a passphrase opens with the one its first key
\* was locked with, and one reported open lends the engine a usable key.
LockStateIsHonest ==
  kind = "pgp" =>
    \A i \in DOMAIN text.blobs :
      LET states == Loaded(text.blobs).states  secret == ParseBlob(text.blobs[i]).secret IN
      CASE states[i] = "passphrase required" ->
             \E c \in ToSet(secret[1]) :
               IsLocked(c) /\ KeyLockState(text.blobs[i], c.lock[2]) = "unlocked"
        [] states[i] \in {"unlocked", "unprotected"} -> Loaded(<<text.blobs[i]>>).secret # <<>>
        [] OTHER -> TRUE

\* The key kept after an import can be read again without the passphrase it
\* was imported with, and a generated one is such a key (ssh.rs
\* import_private_key, describe_key, generate_ed25519).
ImportedKeyReopens ==
  kind = "key file" =>
    \A passphrase \in {<<>>, <<"p">>, <<"q">>} :
      LET imported == ImportPrivateKey(text, passphrase) IN
      imported[1] = "key" => /\ ~KeyIsEncrypted(imported[2])
                             /\ ImportPrivateKey(imported[2], <<>>) = imported
                             /\ LET made == GenerateKey(text.key)
                                IN  ImportPrivateKey(made, <<>>) = <<"key", made>>

\* Two remotes have one name in known_hosts exactly when they are one host and
\* port, however their URLs are written (ssh.rs known_hosts_name).
PinNamesDiffer ==
  kind = "urls" =>
    LET ends == [i \in 1..2 |-> SshEndpoint(text[i])]
        Name(i) == KnownHostsName(ends[i][1].host, ends[i][1].port)
    IN  ends[1] # <<>> /\ ends[2] # <<>> =>
          (Name(1) = Name(2) <=> /\ ends[1][1].host = ends[2][1].host
                                 /\ ends[1][1].port = ends[2][1].port)

\* The length in a CBOR head is the one meant, at the borders too.
HeadReadsBack ==
  kind = "length" =>
    LET head == CborHead(2, text)
        info == head[1] % 32
        tail == FoldLeft(LAMBDA n, b : 256 * n + b, 0, Tail(head))
    IN  /\ head[1] \div 32 = 2
        /\ IF info < 24 THEN Len(head) = 1 /\ info = text
           ELSE Len(head) = 1 + 2^(info - 24) /\ tail = text

-----------------------------------------------------------------------------
\* What the app stores it reads back as what was meant: bits, escapes, the
\* length in a CBOR head, a form's values in an otpauth URI, a key without the
\* passphrase it came with, and a host and port in the name of a pin.
StoredReadsBack ==
  /\ BitsRoundTrip
  /\ EscapesRoundTrip
  /\ HeadReadsBack
  /\ StoredAsTyped
  /\ ImportedKeyReopens
  /\ PinNamesDiffer

\* A code is replaced when the app says so and not before: the time-based one
\* when the ring ends, the counter-based one with every rewrite of its URI.
CodesMoveOn == CodeLastsAsShown /\ CounterAdvances

\* An export is imported whole or refused, under names that are paths.
ExportImported == ExportReadWhole /\ NamesAreSegments

\* A backup comes back whole or not at all, and no mistyped code is tried on it.
BackupsRestore == RestoresAllOrNothing /\ TyposCaught

\* The generator ends, and favours nothing.
DrawsAreSound == DrawCanEnd /\ DrawIsFair

\* What is said of a key before it is used is true of its use.
KeysOpenAsReported == OpenKeyReads /\ LockStateIsHonest
=============================================================================

-------------------------------- MODULE WebAuthn --------------------------------
(***************************************************************************)
(* Passkeys and the WebAuthn messages about them                            *)
(* (crates/pass-core/src/passkey.rs, webauthn.rs).  JSON is a record;       *)
(* what a request may leave out is a sequence of at most one element.       *)
(* Base64url is TextCodec's; handles and ids are atoms, Empty when empty    *)
(* and Long over the 64 bytes of a user handle.                             *)
(***************************************************************************)
EXTENDS Naturals, Sequences, SequencesExt

Empty == "empty"
Long == "long"
BadText == "bad base64"   \* where base64url is expected

Passkey(id, rp, handle, key) == [id |-> id, rp |-> rp, handle |-> handle, key |-> key]

ToCxf(p) == [type |-> "passkey", id |-> p.id, rp |-> p.rp, handle |-> p.handle, key |-> p.key]

FromCxf(json) ==
  CASE json.type # "passkey" -> <<"wrong type">>
    [] BadText \in {json.id, json.handle, json.key} -> <<"bad base64">>
    [] Empty \in {json.id, json.rp, json.handle} -> <<"missing">>
    [] json.handle = Long -> <<"user handle too long">>
    [] json.key \in {Empty, "not der"} -> <<"bad key">>
    [] OTHER -> <<"ok", Passkey(json.id, json.rp, json.handle, json.key)>>

\* An entry's value is the object itself or damaged text.
ToValue(p) == <<"passkey", ToCxf(p)>>
FromValue(v) == IF v[1] = "passkey" THEN FromCxf(v[2]) ELSE <<"bad base64">>

\* Mutant: a length of 24 is put in the first byte.
CborHeadOneByte(major, len) ==
  IF len <= 24 THEN <<32 * major + len>>
  ELSE IF len < 256 THEN <<32 * major + 24, len>>
  ELSE IF len < 65536 THEN <<32 * major + 25, len \div 256, len % 256>>
  ELSE <<32 * major + 26, len \div 16777216, (len \div 65536) % 256,
         (len \div 256) % 256, len % 256>>

\* A CBOR head: the major type and the length, in the fewest bytes.
CborHead(major, len) ==
  CASE len < 24 -> <<32 * major + len>>
    [] len >= 24 /\ len < 256 -> <<32 * major + 24, len>>
    [] len >= 256 /\ len < 65536 -> <<32 * major + 25, len \div 256, len % 256>>
    [] OTHER -> <<32 * major + 26, len \div 16777216, (len \div 65536) % 256,
                  (len \div 256) % 256, len % 256>>

\* Mutant: a sign-in does not say that the passkey syncs.
FlagsOfNew(verified, attested) ==
  {"UP"} \union (IF verified THEN {"UV"} ELSE {})
         \union (IF attested THEN {"AT", "BE", "BS"} ELSE {})

Flags(verified, attested) ==
  {"UP", "BE", "BS"} \union (IF verified THEN {"UV"} ELSE {})
                     \union (IF attested THEN {"AT"} ELSE {})

CoseKey(public) == <<"cose", public>>

\* The counter is always 0: it could not stay monotonic across devices.
AuthenticatorData(rp, verified, attested) ==
  [rpHash |-> <<"hash", rp>>, flags |-> Flags(verified, attested # <<>>), counter |-> 0,
   attested |-> attested]

AttestationNone(authData) == [fmt |-> "none", attStmt |-> {}, authData |-> authData]

PublicOf(key) == <<"public", key>>   \* by the platform

\* Mutant: the value is not read back.
RegisterUnread(id, rp, handle, key, verified) ==
  LET data == AuthenticatorData(rp, verified, << <<id, CoseKey(PublicOf(key))>> >>)
  IN  <<"ok", [value |-> ToValue(Passkey(id, rp, handle, key)), id |-> id,
               data |-> data, attestation |-> AttestationNone(data)]>>

Register(id, rp, handle, key, verified) ==
  LET value == ToValue(Passkey(id, rp, handle, key))
      data == AuthenticatorData(rp, verified, << <<id, CoseKey(PublicOf(key))>> >>)
  IN  IF FromValue(value)[1] # "ok" THEN <<"unreadable">>
      ELSE <<"ok", [value |-> value, id |-> id, data |-> data,
                    attestation |-> AttestationNone(data)]>>

AssertPasskey(p, verified) ==
  [id |-> p.id, handle |-> p.handle, data |-> AuthenticatorData(p.rp, verified, <<>>),
   key |-> p.key]

SignedMessage(data, clientHash) == <<data, clientHash>>

-----------------------------------------------------------------------------
CredentialIds(list) ==
  IF \E i \in DOMAIN list : list[i] = BadText THEN <<"bad request">> ELSE <<"ok", list>>

ParseCreateOptions(request) ==
  CASE request.rp \in {<<>>, <<Empty>>} -> <<"bad request">>
    [] request.user \in {<<>>, <<BadText>>, <<Empty>>, <<Long>>} -> <<"bad request">>
    [] request.algorithms # <<>> /\ ~Contains(request.algorithms[1], "ES256") ->
         <<"no supported algorithm">>
    [] OTHER ->
         LET excluded == CredentialIds(request.exclude)
         IN  IF excluded[1] # "ok" THEN excluded
             ELSE <<"ok", [rp |-> request.rp[1], handle |-> request.user[1],
                           exclude |-> excluded[2]]>>

ParseGetOptions(request) ==
  LET allowed == CredentialIds(request.allow)
  IN  IF allowed[1] # "ok" THEN allowed
      ELSE <<"ok", [rp |-> IF request.rp = <<>> THEN Empty ELSE request.rp[1],
                    allow |-> allowed[2]]>>

RegistrationResponse(reg) ==
  [id |-> reg.id, attestation |-> reg.attestation]

AssertionResponse(a, signature) ==
  [id |-> a.id, data |-> a.data, signature |-> signature, handle |-> a.handle]
=============================================================================

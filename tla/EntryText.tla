------------------------------- MODULE EntryText -------------------------------
(***************************************************************************)
(* The plaintext of an entry (crates/pass-core/src/entry.rs) and the        *)
(* passkeys in it (passkey.rs, webauthn.rs).  A line is a field (key and    *)
(* value), an otpauth URI, or neither (no key).  Line 1 is the password,    *)
(* whatever it looks like.  Spaces around the colon and keys that contain   *)
(* one are left out; values are tuples.                                     *)
(***************************************************************************)
EXTENDS LineText

CONSTANT Credential   \* the credential id of each readable passkey value

UriKey == "otpauth"
Blank == [key |-> "", value |-> <<>>]
Plain(v) == [key |-> "", value |-> v]
FieldLine(k, v) == [key |-> k, value |-> v]
IsField(line) == line.body.key \notin {"", UriKey}

\* What a reader sees before the newline, with a carriage return.
Seen(line) == <<line.body, line.end = "crlf">>

Password(t) == IF t = <<>> THEN <<Blank, FALSE>> ELSE Seen(t[1])

Fields(t) ==
  [i \in 1..(IF t = <<>> THEN 0 ELSE Len(t) - 1) |-> t[i + 1]]

Values(t) == {line.body.value : line \in ToSet(t)}

\* The first line after the password that is a field of this key and one of
\* these values.
FieldAt(t, k, values) ==
  SelectInSubSeq(t, 2, Len(t),
    LAMBDA line : IsField(line) /\ line.body.key = k /\ line.body.value \in values)

UriAt(t) == SelectInSeq(t, LAMBDA line : line.body.key = UriKey)
Otpauth(t) == t[UriAt(t)].body.value
IsOtpOnly(t) == UriAt(t) = 1

SetPassword(t, p) ==
  IF t = <<>> \/ t[1].end = "none"
  THEN IF p = Blank THEN <<>> ELSE <<Line(p, "none")>>
  ELSE [t EXCEPT ![1] = Line(p, "lf")]

SetOtpauth(t, u) ==
  IF UriAt(t) = 0 THEN WithLine(t, FieldLine(UriKey, u))
  ELSE WithBody(t, UriAt(t), FieldLine(UriKey, u))

\* Mutant: a URI on line 1 goes too, and line 2 becomes the password.
RemoveAnyOtpauth(t) == Without(t, UriAt(t))

RemoveOtpauth(t) == IF UriAt(t) = 1 THEN t ELSE Without(t, UriAt(t))

AppendField(t, k, v) == WithLine(t, FieldLine(k, v))

\* The value's bytes reach up to the newline, a carriage return included.
SetField(t, k, v) ==
  LET i == FieldAt(t, k, Values(t)) IN
  IF i = 0 THEN AppendField(t, k, v)
  ELSE [t EXCEPT ![i] = Line(FieldLine(k, v), IF @.end = "crlf" THEN "lf" ELSE @.end)]

RemoveFieldWhere(t, k, values) == Without(t, FieldAt(t, k, values))

-----------------------------------------------------------------------------
PasskeyKey == "passkey"

\* Damaged lines are skipped; they stay in the entry.
IsPasskey(line) == line.body.key = PasskeyKey /\ line.body.value \in DOMAIN Credential
PasskeysAt(t) == {i \in 2..Len(t) : IsPasskey(t[i])}

EntryPasskeys(t) ==
  LET held == Picked(t, PasskeysAt(t))
  IN  [i \in DOMAIN held |-> held[i].body.value]

\* Mutant: the passkey of an empty entry becomes its password.
AppendPasskey(t, v) == AppendField(t, PasskeyKey, v)

EntryAddPasskey(t, v) ==
  AppendField(IF t = <<>> THEN <<Line(Blank, "lf")>> ELSE t, PasskeyKey, v)

EntryRemovePasskey(t, id) ==
  RemoveFieldWhere(t, PasskeyKey, {v \in DOMAIN Credential : Credential[v] = id})
=============================================================================

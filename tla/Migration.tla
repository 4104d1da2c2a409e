------------------------------- MODULE Migration -------------------------------
(***************************************************************************)
(* Import of a Google Authenticator export                                  *)
(* (crates/pass-core/src/migration.rs): a protobuf message read byte by     *)
(* byte.  Texts are over the alphabet of TextCodec.  A varint has at most   *)
(* VarintBytes bytes.                                                       *)
(***************************************************************************)
EXTENDS Otp

CONSTANT VarintBytes

\* What is read at a position, with the position after it: nothing or one.
Read(value, next) == {[value |-> value, next |-> next]}

Varint(buf, pos) ==
  LET ends == {n \in 1..VarintBytes : pos + n - 1 <= Len(buf) /\ buf[pos + n - 1] < 128}
      Digits(n) == [i \in 1..n |-> buf[pos + n - i] % 128]
  IN  UNION {Read(FoldLeft(LAMBDA v, d : 128 * v + d, 0, Digits(n)), pos + n) :
               n \in {n \in ends : \A m \in ends : n <= m}}

\* Mutant: a length past the end takes what there is.
AdvanceToEnd(buf, pos, n) ==
  IF pos + n > Len(buf) + 1 THEN Read(SubSeq(buf, pos, Len(buf)), Len(buf) + 1)
  ELSE Read(SubSeq(buf, pos, pos + n - 1), pos + n)

Advance(buf, pos, n) ==
  IF pos + n > Len(buf) + 1 THEN {} ELSE Read(SubSeq(buf, pos, pos + n - 1), pos + n)

FieldBytes(buf, pos) ==
  UNION {Advance(buf, len.next, len.value) : len \in Varint(buf, pos)}

Payload(buf, pos, wire) ==
  CASE wire = 0 -> Varint(buf, pos)
    [] wire = 1 -> Advance(buf, pos, 8)
    [] wire = 2 -> FieldBytes(buf, pos)
    [] wire = 5 -> Advance(buf, pos, 4)
    [] OTHER -> {}

MessageField(buf, pos) ==
  UNION {{[number |-> key.value \div 8, wire |-> key.value % 8,
           value |-> p.value, next |-> p.next] : p \in Payload(buf, key.next, key.value % 8)} :
           key \in Varint(buf, pos)}

\* The fields of a message in order; a damaged message has no reading.
FieldsOf(buf) ==
  LET from[pos \in 1..(Len(buf) + 1)] ==
        IF pos > Len(buf) THEN {<<>>}
        ELSE UNION {{<<f>> \o rest : rest \in from[f.next]} : f \in MessageField(buf, pos)}
  IN  from[1]

\* The last value of a field with its own wire type.
LastOf(fields, number, wire, default) ==
  LET these == SelectSeq(fields, LAMBDA f : f.number = number /\ f.wire = wire)
  IN  IF these = <<>> THEN default ELSE Last(these).value

Skipped(label, reason) == [skipped |-> reason, label |-> label]

\* Mutant: slashes stay.
TrimDots(s) ==
  LET start == SelectInSeq(Trim(s), LAMBDA c : c # Dot)
  IN  IF start = 0 THEN <<>> ELSE Trim(SubSeq(Trim(s), start, Len(Trim(s))))

\* A segment of a store path out of a name.
CleanName(s) ==
  LET dashed == [i \in DOMAIN Trim(s) |-> IF Trim(s)[i] = Slash THEN Letter ELSE Trim(s)[i]]
      start == SelectInSeq(dashed, LAMBDA c : c # Dot)
  IN  IF start = 0 THEN <<>> ELSE Trim(SubSeq(dashed, start, Len(dashed)))

SuggestName(issuer, account) ==
  LET parts == SelectSeq([i \in DOMAIN issuer |-> CleanName(issuer[i])]
                           \o <<CleanName(account)>>, LAMBDA s : s # <<>>)
  IN  IF parts = <<>> THEN << <<Letter>> >> ELSE parts   \* path segments; "otp"

BuildAccount(secret, account, issuer, algorithm, digits, type, counter) ==
  LET label == OtpLabel(issuer, account)
      kind == IF type = 1 THEN "hotp" ELSE "totp"
      config == Config(kind, secret, IF algorithm = 0 THEN Sha1 ELSE algorithm,
                       IF digits = 2 THEN MaxDigits ELSE DefaultDigits,
                       IF kind = "hotp" THEN counter ELSE DefaultPeriod, label, issuer)
  IN  CASE algorithm = 4 -> Skipped(label, "md5")
        [] algorithm > 4 -> Skipped(label, "unknown algorithm")
        [] digits > 2 -> Skipped(label, "unknown digits")
        [] secret = <<>> -> Skipped(label, "empty secret")
        [] type > 2 -> Skipped(label, "unknown type")
        [] OTHER -> [account |-> account, issuer |-> issuer, uri |-> ToUri(config),
                     suggested |-> SuggestName(issuer, account)]

\* The name may repeat the issuer, or be the only place that has it:
\* <<account, issuer>>.
SplitName(name, issuer) ==
  LET colon == SelectInSeq(name, LAMBDA c : c = Colon)
      prefix == Trim(SubSeq(name, 1, colon - 1))
  IN  IF colon # 0 /\ (issuer = <<>> \/ prefix = issuer)
      THEN <<Trim(SubSeq(name, colon + 1, Len(name))), Some(prefix)>>
      ELSE <<name, IF issuer = <<>> THEN None ELSE Some(issuer)>>

AccountOf(fields) ==
  LET Of(number, wire, default) == LastOf(fields, number, wire, default)
      split == SplitName(Trim(Of(2, 2, <<>>)), Trim(Of(3, 2, <<>>)))
  IN  BuildAccount(Of(1, 2, <<>>), split[1], split[2], Of(4, 0, 0), Of(5, 0, 0),
                   Of(6, 0, 0), Of(7, 0, 0))

ParseAccount(buf) == {AccountOf(fields) : fields \in FieldsOf(buf)}

\* One QR code; a damaged account spoils it all.
BatchOf(fields) ==
  LET records == SelectSeq(fields, LAMBDA f : f.number = 1 /\ f.wire = 2)
      parsed == [message \in {f.value : f \in ToSet(records)} |-> ParseAccount(message)]
      Size(n) == IF n = 0 THEN 1 ELSE n
  IN  {[accounts |-> accounts,
        size |-> Size(LastOf(fields, 3, 0, 1)),
        index |-> LastOf(fields, 4, 0, 0),
        id |-> LastOf(fields, 5, 0, 0)] :
          accounts \in IF {} \in Range(parsed) THEN {}
                       ELSE {[i \in DOMAIN records |->
                                CHOOSE a \in parsed[records[i].value] : TRUE]}}

ParsePayload(buf) == UNION {BatchOf(fields) : fields \in FieldsOf(buf)}

ParseMigrationUri(uri) ==
  CASE uri.prefix # "offline" -> <<"not a migration URI">>
    [] uri.data = <<>> -> <<"no data">>
    [] uri.data = BadChars -> <<"bad base64">>
    [] OTHER -> LET batches == ParsePayload(DecodeBase64(uri.data))
                IN  IF batches = {} THEN <<"bad payload">>
                    ELSE <<"batch", CHOOSE b \in batches : TRUE>>
=============================================================================

---------------------------------- MODULE Otp ----------------------------------
(***************************************************************************)
(* One-time passwords: the configurations the app builds and the otpauth    *)
(* URIs it stores (crates/pass-core/src/totp.rs, hotp.rs).  A URI is its    *)
(* kind, its label and its parameters in order, <<key, value>>.  What may   *)
(* be absent is a sequence of at most one element.  A number that does not  *)
(* parse is Bad, characters that do not decode are BadChars.                *)
(***************************************************************************)
EXTENDS Integers, TextCodec

CONSTANTS MaxCounter, MinDigits, MaxDigits, MaxUriDigits, DefaultDigits, DefaultPeriod

None == <<>>
Some(x) == <<x>>
Bad == -1
BadChars == << <<Bad>> >>
Sha1 == 1

OtpUri(kind, label, params) == [kind |-> kind, label |-> label, params |-> params]
Config(kind, secret, algorithm, digits, moving, label, issuer) ==
  [kind |-> kind, secret |-> secret, algorithm |-> algorithm, digits |-> digits,
   moving |-> moving, label |-> label, issuer |-> issuer]   \* moving: period or counter

OtpLabel(issuer, account) ==
  CASE issuer = None -> account
    [] account = <<>> -> issuer[1]
    [] OTHER -> issuer[1] \o <<Colon>> \o account

\* From the manual form.
NewOtp(form) ==
  LET named == SelectSeq([i \in DOMAIN form.issuer |-> Trim(form.issuer[i])],
                         LAMBDA s : s # <<>>)
  IN  IF \/ form.secret \in {<<>>, <<Bad>>}
         \/ form.digits \notin MinDigits..MaxDigits
         \/ form.kind = "totp" /\ form.moving = 0
      THEN None
      ELSE Some(Config(form.kind, form.secret, form.algorithm, form.digits, form.moving,
                       OtpLabel(named, Trim(form.account)), named))

\* Mutant: left out whatever it is.
Omitted(default, key, value) == <<>>

Unless(default, key, value) == IF value = default THEN <<>> ELSE << <<key, value>> >>
IssuerParam(c) ==
  [i \in DOMAIN c.issuer |-> <<"issuer", PercentEncode(c.issuer[i])>>]

TotpToUri(c) ==
  OtpUri("totp", PercentEncode(c.label),
      << <<"secret", EncodeBase32(c.secret)>> >> \o IssuerParam(c)
        \o Unless(Sha1, "algorithm", c.algorithm)
        \o Unless(DefaultDigits, "digits", c.digits)
        \o Unless(DefaultPeriod, "period", c.moving))

HotpToUri(c) ==
  OtpUri("hotp", PercentEncode(c.label),
      << <<"secret", EncodeBase32(c.secret)>>, <<"counter", c.moving>> >> \o IssuerParam(c)
        \o Unless(Sha1, "algorithm", c.algorithm)
        \o Unless(DefaultDigits, "digits", c.digits))

ToUri(c) == IF c.kind = "totp" THEN TotpToUri(c) ELSE HotpToUri(c)

Lower(key) == IF key = "COUNTER" THEN "counter" ELSE key

\* One value per key, the last one; none when a value read is no value.
Parameters(params, keys) ==
  LET Read(p) == CASE Lower(p[1]) = "secret" -> DecodeBase32(p[2])
                   [] Lower(p[1]) = "issuer" -> PercentDecode(p[2])
                   [] OTHER -> p[2]
      At(key) == SelectLastInSeq(params, LAMBDA p : Lower(p[1]) = key)
      bad == \E i \in DOMAIN params :
               /\ Lower(params[i][1]) \in keys \ {"issuer"}
               /\ \/ Lower(params[i][1]) = "secret" /\ params[i][2] = BadChars
                  \/ Lower(params[i][1]) # "secret" /\ params[i][2] = Bad
  IN  IF bad THEN None
      ELSE Some([k \in keys |-> IF At(k) = 0 THEN None ELSE Some(Read(params[At(k)]))])

Default(option, default) == IF option = None THEN default ELSE option[1]

\* A stored TOTP may ask for any number of digits; a period of 0 is 1.
TotpFromUri(uri) ==
  LET read == Parameters(uri.params, {"secret", "issuer", "algorithm", "digits", "period"})
  IN  IF uri.kind # "totp" \/ read = None THEN None
      ELSE LET p == read[1] IN
           IF p["secret"] \in {None, Some(<<>>)} THEN None
           ELSE Some(Config("totp", p["secret"][1], Default(p["algorithm"], Sha1),
                     Default(p["digits"], DefaultDigits),
                     LET period == Default(p["period"], DefaultPeriod)
                     IN  IF period = 0 THEN 1 ELSE period,
                     PercentDecode(uri.label), p["issuer"]))

HotpFromUri(uri) ==
  LET read == Parameters(uri.params, {"secret", "issuer", "algorithm", "digits", "counter"})
  IN  IF uri.kind # "hotp" \/ read = None THEN None
      ELSE LET p == read[1] IN
           IF \/ p["secret"] \in {None, Some(<<>>)}
              \/ p["counter"] = None
              \/ Default(p["digits"], DefaultDigits) \notin 1..MaxUriDigits
           THEN None
           ELSE Some(Config("hotp", p["secret"][1], Default(p["algorithm"], Sha1),
                     Default(p["digits"], DefaultDigits), p["counter"][1],
                     PercentDecode(uri.label), p["issuer"]))

OtpKind(uri) == IF uri.kind \in {"totp", "hotp"} THEN Some(uri.kind) ELSE None

-----------------------------------------------------------------------------
\* Codes differ whenever anything they depend on does.
HotpCode(c, counter) == <<c.secret, counter, c.algorithm, c.digits>>

CodeAt(c, time) == HotpCode(c, time \div c.moving)

\* Mutant: the seconds gone, not the seconds left.
SecondsGone(c, time) == time % c.moving

SecondsRemaining(c, time) == c.moving - (time % c.moving)

CodeAtCounter(c, counter) == HotpCode(c, counter)

\* The counter stored is the last one used.
NextStep(c) ==
  IF c.moving = MaxCounter THEN None
  ELSE Some([code |-> CodeAtCounter(c, c.moving + 1), counter |-> c.moving + 1])

IsCounter(p) == Lower(p[1]) = "counter"

\* Mutant: the new counter is put in front, and the last one counts.
PrependCounter(uri, n) == [uri EXCEPT !.params = <<<<"counter", n>>>> \o @]

\* Only the first counter changes.
UriWithCounter(uri, n) ==
  LET i == SelectInSeq(uri.params, IsCounter)
  IN  IF i = 0 THEN [uri EXCEPT !.params = Append(@, <<"counter", n>>)]
      ELSE [uri EXCEPT !.params[i][2] = n]
=============================================================================

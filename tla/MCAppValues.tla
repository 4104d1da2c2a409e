------------------------------ MODULE MCAppValues ------------------------------
(* Small texts and values of every shape the edits and codecs tell apart. *)
EXTENDS AppValues

MCCredential == <<"pk1">> :> "c1" @@ <<"pk2">> :> "c2"
MCUris == {<<"u1">>, <<"u2">>}
MCPasswords == {Blank, Plain(<<"pw">>)}
MCFieldKeys == {"user"}
MCFieldValues == {<<"v1">>, <<"v2">>}
MCPasskeyValues == DOMAIN MCCredential

EntryBodies ==
  {Blank, FieldLine("user", <<"v1">>), FieldLine(UriKey, <<"u1">>),
   FieldLine(PasskeyKey, <<"pk1">>), FieldLine(PasskeyKey, <<"damaged">>)}

MCRecipientKeys == {<<"k1", FALSE>>, <<"k2", FALSE>>}
RecipientBodies == MCRecipientKeys \union {<<"k1", TRUE>>, <<NoKey, TRUE>>, BlankLine}

MCCanon == [s \in {"S1", "s1", "S2", "x"} |-> IF s = "s1" THEN "S1" ELSE s]
MCValid == {"S1", "S2"}
IdentityBodies ==
  {Void, <<"hint", "p1">>, <<"note", "">>, <<"secret", "S1">>, <<"secret", "x">>}
MCImportedTexts ==
  {[i \in DOMAIN bodies |-> Line(bodies[i], "lf")] : bodies \in
     { << <<"secret", "s1">>, <<"hint", "p2">>, <<"secret", "S2">> >>,
       << <<"note", "">>, Void, <<"hint", "p2">>, <<"note", "">>, <<"secret", "S2">>,
          <<"secret", "S2">> >>,
       << <<"plugin", "">>, <<"hint", "p1">>, <<"secret", "S1">> >> } }

MCHosts == {"h1", "h2"}
MCHashed == {"|hash"}
MCHostKeys == {HostKey("ed", "k1"), HostKey("ed", "k2"), HostKey("rsa", "k3")}
HostBodies ==
  {<<"void">>, <<"other">>, Pin(<<"h1">>, "ed", "k1"), Pin(<<"h1", "h2">>, "ed", "k2"),
   Pin(<<"h2", "|hash">>, "rsa", "k3"), Pin(<<"h1">>, "ed", Garbled)}

-----------------------------------------------------------------------------
Optional(S) == {None} \union {Some(s) : s \in S}

\* Typed forms; an issuer and an account may be blank or hold a colon.
Forms ==
  [kind : {"totp", "hotp"}, secret : {<<>>, <<Bad>>, <<7, 255>>},
   account : {<<>>, <<Space>>, <<Letter, Space, 0>>}, issuer : Optional({<<Space>>, <<0, Colon>>}),
   algorithm : {Sha1, 2}, digits : {5, DefaultDigits, MaxDigits}, moving : {0, 2, DefaultPeriod}]

\* Stored URIs: parameters in any order, absent, damaged, repeated or
\* misspelled.
Params ==
  { <<"secret", EncodeBase32(<<7>>)>>, <<"secret", BadChars>>, <<"digits", 8>>,
    <<"digits", 0>>, <<"period", 0>>, <<"period", 2>>, <<"period", Bad>>, <<"counter", 0>>,
    <<"COUNTER", 6>>, <<"counter", MaxCounter>>, <<"other", 0>> }
StoredUris ==
  {OtpUri(k, PercentEncode(<<Letter>>), params) :
     k \in {"totp", "hotp"}, params \in SeqOf(Params, 3)}

\* A reference encoder of exports.
BytesField(number, bytes) == <<8 * number + 2, Len(bytes)>> \o bytes
NumberField(number, n) == <<8 * number>> \o (IF n < 128 THEN <<n>> ELSE <<128 + (n % 128), n \div 128>>)
Message(a) ==
  BytesField(1, a.secret) \o BytesField(2, a.name) \o BytesField(3, a.issuer)
    \o NumberField(4, a.algorithm) \o NumberField(5, a.digits)
    \o NumberField(6, a.type) \o NumberField(7, a.counter) \o BytesField(9, <<0>>)
Exported == [secret : {<<>>, <<8>>, <<3, 200>>},
             name : {<<>>, <<Letter, Slash>>, <<0, Colon, Letter>>, <<Dot, Slash>>},
             issuer : {<<>>, <<0>>, <<Space, Letter>>},
             algorithm : {0, 4}, digits : {2, 3}, type : {0, 1}, counter : {0, 200}]
Export(accounts, cut) ==
  LET all == FlattenSeq([i \in DOMAIN accounts |-> BytesField(1, Message(accounts[i]))])
               \o NumberField(3, 2)
  IN  [buf |-> all, cut |-> (Len(all) * cut) \div 8,
       secrets |-> [i \in DOMAIN accounts |-> accounts[i].secret],
       counters |-> [i \in DOMAIN accounts |-> accounts[i].counter]]
Sample == [secret |-> <<8>>, name |-> <<Letter>>, issuer |-> <<>>, algorithm |-> 2,
           digits |-> 1, type |-> 1, counter |-> 1]
Exports == {Export(<<a>>, 7) : a \in Exported}
             \union {Export(<<Sample, Sample, Sample>>, cut) : cut \in 0..8}

\* Sections, some of which hold the container's own syntax.
Contents == {<<>>, <<Newline>>, <<Trailer, Newline>>, << <<"byte">> >>,
             <<Newline, SectionLine(Section("otp", "y", <<>>)), Newline, Newline>>}
Backups == [sections : SeqOf({Section("identities", "x", d) : d \in Contents}, 2)]

Codes == SeqOf({0, 1, 15, 16, 17, 31}, CodeChars - 1) \ SeqOf({0, 1, 15, 16, 17, 31}, CodeChars - 2)

Specs == [length : 0..(MaxLength + 1), classes : SUBSET DOMAIN Classes]

MCClasses ==
  "lower" :> {"a", "b"} @@ "upper" :> {"A"} @@ "digits" :> {"0"} @@ "symbols" :> {"!"}

-----------------------------------------------------------------------------
\* Keys with one subkey, or two of which the second lives.  The primary may sign
\* only, and it may be revoked, expired or bound to certify, which the engine
\* does not ask.
Locks == {Plainly, Locked("p"), Locked("q"), <<"stub">>, <<"none">>}
Bindings == { <<>>, << Binding(0, TRUE, 0) >>,
              << Binding(0, TRUE, 0), Binding(1, TRUE, 1) >>,
              << Binding(1, FALSE, 0), Binding(0, TRUE, 0) >> }
Subs(id) == {Component(id, TRUE, revoked, b, lock) :
               revoked \in BOOLEAN, b \in Bindings,
               lock \in {Plainly, Locked("p"), <<"stub">>}}
Primaries(id) ==
  {Component(id, encrypts, revoked, b, lock) :
     encrypts \in BOOLEAN, revoked \in BOOLEAN,
     b \in { << Binding(0, TRUE, 0) >>, << Binding(0, FALSE, 0) >>, << Binding(0, TRUE, 1) >> },
     lock \in Locks}
Primary(id) == Component(id, TRUE, FALSE, << Binding(0, TRUE, 0) >>, Plainly)
Live(id) == Component(id, TRUE, FALSE, << Binding(0, TRUE, 0) >>, <<"none">>)
Keyrings ==
  { <<primary, sub>> : primary \in Primaries("a"), sub \in Subs("a2") }
    \union { <<Primary("a"), sub, Live("a3")>> : sub \in Subs("a2") }
Other == <<Primary("b"), Live("a2")>>
Engines ==
  {[blobs |-> blobs, passphrase |-> passphrase] :
     blobs \in {<< <<key>> >> : key \in Keyrings}
                 \union {<< <<key, Other>> >> : key \in Keyrings}
                 \union {<< <<Other>>, <<key>> >> : key \in Keyrings},
     passphrase \in {NoPassphrase, "p"}}

KeyFiles == {KeyFile(f, p, type, "k") : f \in {"openssh", "pem", "public", "other"},
                p \in {<<>>, <<"p">>}, type \in KeyTypes \union {"dsa"}}

Remotes ==
  {RemoteUrl(f, u, None, h, p) : f \in {"ssh", "git+ssh", "scp", "https", "path"},
     u \in Optional({"git"}), h \in {NoHost, "h1", "h2"},
     p \in {NoPort, EmptyPort, BadPort, 22, 2222}}

MCInitialTexts ==
  [of \in {"entry", "recipients", "identities", "hosts", "bytes", "label", "form", "uri",
           "export", "backup", "code", "spec", "alphabet", "pgp", "key file", "urls",
           "length"} |->
     CASE of = "entry" -> TextsUpTo(3, EntryBodies, Ends, Blank)
       [] of = "recipients" -> TextsUpTo(3, RecipientBodies, {"lf", "none"}, BlankLine)
       [] of = "identities" -> TextsUpTo(3, IdentityBodies, {"lf", "none"}, Void)
       [] of = "hosts" -> TextsUpTo(3, HostBodies, {"lf", "none"}, <<"void">>)
       [] of = "bytes" -> SeqOf({0, 90, 255}, 6)
       [] of = "label" -> SeqOf(Bytes, 4)
       [] of = "form" -> Forms
       [] of = "uri" -> StoredUris
       [] of = "export" -> Exports
       [] of = "backup" -> Backups
       [] of = "code" -> Codes
       [] of = "spec" -> Specs
       [] of = "alphabet" -> {1, 2, 3, 5, 10, 26, 64, 94, 128, 200}
       [] of = "pgp" -> Engines
       [] of = "key file" -> KeyFiles
       [] of = "urls" -> Remotes \X Remotes
       [] of = "length" -> {0, 23, 24, 25, 255, 256, 257, 65535, 65536, 16777217}]
=============================================================================

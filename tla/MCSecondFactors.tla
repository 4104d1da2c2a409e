---------------------------- MODULE MCSecondFactors ----------------------------
(* Two devices, an entry that starts empty, unterminated or damaged.       *)
EXTENDS SecondFactors

Json(rp, handle, algorithms, exclude) ==
  [rp |-> <<rp>>, user |-> <<handle>>, algorithms |-> algorithms, exclude |-> exclude]

MCRequests ==
  {[platform |-> "android", verified |-> TRUE,
    json |-> Json("site", "handle", << <<"RS256", "ES256">> >>, <<"id1">>)],
   [platform |-> "android", verified |-> TRUE,
    json |-> Json("site", "handle", << <<"RS256">> >>, <<>>)],
   [platform |-> "ios", verified |-> FALSE, json |-> Json("other", Long, <<>>, <<>>)]}

MCIds == {"id1", "id2"}

MCCredential ==
  LET values == [id \in MCIds |-> ToValue(Passkey(id, "site", "handle", PrivateKey(id)))]
  IN  [v \in Range(values) |-> v[2].id]

Hotp(counter) ==
  FieldLine(UriKey, <<"otp", OtpUri("hotp", <<>>,
    << <<"secret", EncodeBase32(<<7>>)>>, <<"counter", counter>> >>)>>)

Old == Plain(<<"old">>)
MCTexts ==
  {<<>>,
   <<Line(Old, "lf"), Line(Hotp(0), "none")>>,
   <<Line(Old, "crlf"), Line(FieldLine(PasskeyKey, <<"damaged">>), "lf"), Line(Hotp(MaxCounter - 1), "crlf")>>}
MCSymmetry == Permutations(Devices)
=============================================================================

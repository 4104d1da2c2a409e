------------------------------ MODULE MCTransport ------------------------------
EXTENDS Transport

Git == <<"git">>
MCUrls ==
  { RemoteUrl("scp", Git, <<>>, "h", NoPort),
    RemoteUrl("ssh", <<>>, <<>>, "h", 2222),
    RemoteUrl("https", Git, <<"right">>, "h", NoPort) }
MCTypes ==
  <<"h", 22>> :> {"ed25519", "rsa"} @@ <<"h", 2222>> :> {"rsa"} @@ <<"h", 443>> :> {}
MCMethods ==
  <<"h", 22>> :> {"key", "password"} @@ <<"h", 2222>> :> {"key"} @@ <<"h", 443>> :> {"password"}
MCPasswords ==
  <<"h", 22>> :> {} @@ <<"h", 2222>> :> {} @@ <<"h", 443>> :> {<<"git", "right">>}
MCHashed == {}
=============================================================================

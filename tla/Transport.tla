------------------------------- MODULE Transport -------------------------------
(***************************************************************************)
(* A network operation of the Git engine: libgit2 connects, shows the host  *)
(* key to one callback and asks another for credentials, as often as the    *)
(* server makes it (crates/pass-core/src/git.rs, transport_callbacks).      *)
(* Around it the user pins and forgets host keys, points `origin`           *)
(* elsewhere and makes an SSH key; the handle works with the settings it    *)
(* was last given (crates/pass-ffi/src/store_api.rs, GitSync).              *)
(*                                                                          *)
(* A server is named as known_hosts would, <<host, port>> in full.  The     *)
(* server, the network and the user are external.                           *)
(***************************************************************************)
EXTENDS SshRemote, KnownHosts

CONSTANTS
  Urls,          \* remotes the user may enter
  Types,         \* endpoint -> the types of its host keys
  Methods,       \* endpoint -> what it lets a client authenticate with
  Passwords,     \* endpoint -> the <<user, password>> it accepts
  MaxUpsets      \* host keys replaced, connections broken, remotes entered and
                 \* restarts, together

VARIABLES
  url,        \* of `origin`
  app,        \* the app's known hosts and its key, as saved
  handle,     \* the settings the open handle has
  op,         \* the latest network operation
  prompt,     \* the dialog about an unknown host key still open
  generation, \* endpoint and type -> how often its host key was replaced
  authorised, \* the servers know the app's key
  meant,      \* endpoint and type -> the host key the user last agreed to; in
              \* the app, and in what the handle was given
  upsets
vars == <<url, app, handle, op, prompt, generation, authorised, meant, upsets>>

Settings(pins, key) == [pins |-> pins, key |-> key]   \* SshConfig
NoSettings == Settings(<<>>, <<>>)
AppKey == "app key"

SameAs(e) == <<e.host, e.port>>
\* Where a URL leads: an SSH endpoint, or the web server of the host.
ServerOf(u) ==
  IF SshEndpoint(u) # <<>> THEN SameAs(SshEndpoint(u)[1]) ELSE <<u.host, 443>>
EndpointsOf == {ServerOf(u) : u \in Urls}
NameOf(u) == KnownHostsName(SshEndpoint(u)[1].host, SshEndpoint(u)[1].port)

ASSUME TransportAssumption ==
  /\ MaxUpsets \in Nat
  \* HTTP has no authentication with SSH keys.  An ssh:// URL whose port does
  \* not parse has no endpoint either: it is taken to reach no SSH server.
  /\ \A u \in Urls : SshEndpoint(u) = <<>> => "key" \notin Methods[ServerOf(u)]

KeyOf(server, type) == HostKey(type, <<server, generation[server][type]>>)
Nothing == [s \in EndpointsOf |-> [t \in Types[s] |-> <<>>]]

NoOp == [kind |-> "none", phase |-> "done", settings |-> NoSettings, meant |-> Nothing,
         url |-> url, user |-> <<>>, presented |-> <<>>, given |-> <<>>, offered |-> FALSE,
         broken |-> FALSE, problem |-> <<>>, result |-> <<"none">>]

Init ==
  /\ url \in Urls
  /\ app = NoSettings
  /\ handle = NoSettings
  /\ op = NoOp
  /\ prompt = <<>>
  /\ generation = [s \in EndpointsOf |-> [t \in Types[s] |-> 0]]
  /\ authorised = FALSE
  /\ meant = [app |-> Nothing, handle |-> Nothing]
  /\ upsets = 0

Upset == upsets < MaxUpsets /\ upsets' = upsets + 1

Idle == op.phase = "done"

-----------------------------------------------------------------------------
(* The callbacks and what becomes of their refusals.                       *)

\* The username asked for, the URL's, or git.
UserFor(u, asked) ==
  CASE asked # <<>> -> asked[1]
    [] asked = <<>> /\ SshEndpoint(u) # <<>> /\ SshEndpoint(u)[1].user # <<>> ->
         SshEndpoint(u)[1].user[1]
    [] OTHER -> "git"

\* What the credentials callback answers; a refusal may leave a problem.
Credentials(allowed) ==
  LET creds == ParseUserinfo(op.url) IN
  CASE "password" \in allowed /\ creds # <<>> ->
         <<"password", creds[1].user, creds[1].password>>
    [] "username" \in allowed -> <<"username", UserFor(op.url, op.user)>>
    [] "key" \in allowed /\ ("password" \notin allowed \/ creds = <<>>) ->
         IF op.settings.key = <<>> THEN <<"refuse", <<"SshKeyMissing">>>>
         ELSE IF op.offered THEN <<"refuse", <<"SshAuthFailed">>>>
         ELSE <<"key", UserFor(op.url, op.user), op.settings.key[1]>>
    [] OTHER -> <<"refuse", <<>>>>

\* What the host key callback answers.
CertificateCheck(presented) ==
  LET name == NameOf(op.url) IN
  IF presented.key = Garbled THEN <<"refuse", <<"NoHostKey">>>>
  ELSE CASE KnownHostsCheck(op.settings.pins, name, presented) = "trusted" -> <<"ok">>
         [] KnownHostsCheck(op.settings.pins, name, presented) = "unknown" ->
              <<"refuse", <<"UnknownHostKey", name, presented>>>>
         [] OTHER -> <<"refuse", <<"HostKeyChanged", name, presented>>>>

\* Mutant: libgit2's own error is all that is reported.
GenericResult(connected, problem) ==
  IF connected THEN <<"ok">> ELSE <<"Git">>

\* A refusal goes before libgit2's error for it.
TransportResult(connected, problem) ==
  CASE connected -> <<"ok">>
    [] ~connected /\ problem # <<>> -> problem
    [] OTHER -> <<"Git">>

\* A push reports a refusal even if libgit2 called it done.
PushResult(connected, problem) ==
  IF problem # <<>> THEN problem ELSE TransportResult(connected, problem)

\* Mutant: an error the app has no case for goes through.
AsInTheCore(result) == result

\* Errors without a case of their own become Other.
FfiError(result) == IF result[1] = "Git" THEN <<"Other">> ELSE result

Ended(o, connected) ==
  LET problem == o.problem
      result == IF o.kind = "push" THEN PushResult(connected, problem)
                ELSE TransportResult(connected, problem)
  IN  [NoOp EXCEPT !.url = o.url, !.presented = o.presented, !.broken = o.broken,
                   !.result = FfiError(result)]

\* An unknown host key opens a dialog; a clone leaves a handle behind.
End(o, connected) ==
  LET ended == Ended(o, connected) IN
  /\ op' = ended
  /\ prompt' = IF ended.result[1] # "UnknownHostKey" THEN prompt
               ELSE <<[server |-> ServerOf(o.url), name |-> ended.result[2],
                       key |-> ended.result[3]]>>
  /\ IF ended.result = <<"ok">> /\ o.kind = "clone"
     THEN handle' = o.settings /\ meant' = [meant EXCEPT !.handle = o.meant]
     ELSE UNCHANGED <<handle, meant>>
  /\ UNCHANGED <<url, app, generation, authorised, upsets>>

Continue(o) ==
  /\ op' = o
  /\ UNCHANGED <<url, app, handle, prompt, generation, authorised, meant, upsets>>

-----------------------------------------------------------------------------
(* One operation.                                                          *)

\* GitStore::fetch and push, with the handle's settings; clone_with_ssh, with
\* the ones it is given.
Begin(kind) ==
  LET with == IF kind = "clone" THEN app ELSE handle
      by == IF kind = "clone" THEN meant.app ELSE meant.handle
  IN  /\ Idle
      /\ Continue([NoOp EXCEPT
           !.kind = kind, !.settings = with, !.meant = by,
           !.phase = IF SshEndpoint(url) = <<>> THEN "asking" ELSE "connecting"])

Start == \E kind \in {"clone", "fetch", "push"} : Begin(kind)

\* libgit2 shows the key the server chose of those it has.
ShowHostKey ==
  /\ op.phase = "connecting"
  /\ \E type \in Types[ServerOf(op.url)] :
       LET server == ServerOf(op.url)
           presented == KeyOf(server, type)
           reply == CertificateCheck(presented)
           shown == [op EXCEPT !.presented = <<presented>>]
       IN  IF reply[1] = "refuse" THEN End([shown EXCEPT !.problem = reply[2]], FALSE)
           ELSE Continue([shown EXCEPT
                  !.phase = IF SshEndpoint(op.url)[1].user = <<>> THEN "naming" ELSE "asking",
                  !.user = SshEndpoint(op.url)[1].user])

\* Without a user in the URL libgit2 asks for the name first.
AskUsername ==
  /\ op.phase = "naming"
  /\ LET reply == Credentials({"username"}) IN
     Continue([op EXCEPT !.phase = "asking", !.user = <<reply[2]>>])

\* libgit2 asks for credentials until the server accepts some or the callback
\* gives up.
AskCredentials ==
  /\ op.phase = "asking"
  /\ LET reply == Credentials(Methods[ServerOf(op.url)])
     IN  IF reply[1] = "refuse" THEN End([op EXCEPT !.problem = reply[2]], FALSE)
         ELSE Continue([op EXCEPT !.phase = "answering", !.given = reply,
                                  !.offered = @ \/ reply[1] = "key"])

Accepted ==
  \/ op.given[1] = "password"
       /\ <<op.given[2], op.given[3]>> \in Passwords[ServerOf(op.url)]
  \/ op.given[1] = "key" /\ authorised

ServerAnswers ==
  /\ op.phase = "answering"
  /\ IF Accepted THEN End(op, TRUE) ELSE Continue([op EXCEPT !.phase = "asking"])

\* The connection breaks, or the server hangs up.
Break ==
  /\ ~Idle
  /\ Upset
  /\ op' = Ended([op EXCEPT !.broken = TRUE], FALSE)
  /\ UNCHANGED <<url, app, handle, prompt, generation, authorised, meant>>

-----------------------------------------------------------------------------
(* The user, the app and the server.                                       *)

\* "Trust this host?" yes, perhaps long after it was asked: known_hosts_add.
Confirm ==
  /\ prompt # <<>>
  /\ LET p == prompt[1] IN
     /\ app' = [app EXCEPT !.pins = KnownHostsAdd(@, p.name, p.key)]
     /\ meant' = [meant EXCEPT !.app[p.server][p.key.type] = <<p.key>>]
  /\ prompt' = <<>>
  /\ UNCHANGED <<url, handle, op, generation, authorised, upsets>>

\* A changed key: the only way on is to forget the host, known_hosts_remove.
Forget ==
  /\ Idle /\ op.result[1] = "HostKeyChanged"
  /\ \E k \in KnownHostsList(app.pins) : k.host = op.result[2]
  /\ app' = [app EXCEPT !.pins = KnownHostsRemove(@, op.result[2])]
  /\ meant' = [meant EXCEPT !.app[ServerOf(op.url)] = Nothing[ServerOf(op.url)]]
  /\ UNCHANGED <<url, handle, op, prompt, generation, authorised, upsets>>

\* ssh_generate_key; the user gives the public half to the servers.
MakeKey ==
  /\ app.key = <<>>
  /\ app' = [app EXCEPT !.key = <<AppKey>>]
  /\ UNCHANGED <<url, handle, op, prompt, generation, authorised, meant, upsets>>

Authorise ==
  /\ app.key # <<>>
  /\ ~authorised /\ authorised' = TRUE
  /\ UNCHANGED <<url, app, handle, op, prompt, generation, meant, upsets>>

\* set_ssh waits for the handle's lock.
SetSsh ==
  /\ Idle
  /\ handle # app
  /\ handle' = app
  /\ meant' = [meant EXCEPT !.handle = meant.app]
  /\ UNCHANGED <<url, app, op, prompt, generation, authorised, upsets>>

\* set_remote does too.
SetRemote ==
  /\ Idle
  /\ Upset
  /\ \E u \in Urls \ {url} : url' = u
  /\ UNCHANGED <<app, handle, op, prompt, generation, authorised, meant>>

\* The app is killed; GitStore::open knows no settings.
Restart ==
  /\ Upset
  /\ handle' = NoSettings
  /\ meant' = [meant EXCEPT !.handle = Nothing]
  /\ op' = NoOp
  /\ prompt' = <<>>
  /\ UNCHANGED <<url, app, generation, authorised>>

Rotate ==
  /\ Upset
  /\ \E s \in EndpointsOf : \E t \in Types[s] :
       generation' = [generation EXCEPT ![s][t] = @ + 1]
  /\ UNCHANGED <<url, app, handle, op, prompt, authorised, meant>>

Operate == Start \/ ShowHostKey \/ AskUsername \/ AskCredentials \/ ServerAnswers
Answer == Confirm \/ MakeKey \/ Authorise

Next == Operate \/ Answer \/ SetSsh \/ Forget \/ Break \/ SetRemote \/ Restart \/ Rotate

Spec == Init /\ [][Next]_vars

\* The app retries and an operation goes on by itself; the user answers the
\* dialogs and makes a key; between two operations the app hands the handle
\* its settings, and the user forgets a host whose key changed.
FairSpec ==
  Spec /\ WF_vars(Operate) /\ WF_vars(Answer) /\ SF_vars(SetSsh) /\ SF_vars(Forget)
-----------------------------------------------------------------------------
Refusals == {"UnknownHostKey", "HostKeyChanged", "NoHostKey", "SshKeyMissing", "SshAuthFailed"}

TypeOK ==
  /\ url \in Urls
  /\ op.phase \in {"connecting", "naming", "asking", "answering", "done"}
  /\ op.result[1] \in Refusals \union {"none", "ok", "Other"}
  /\ Lines(app.pins) /\ Lines(handle.pins)
  /\ authorised \in BOOLEAN

\* The app's key goes to a server only under the host key the user last agreed
\* to for that server and key type, as far as the handle was told; whatever
\* was pinned for another port, another type, or by an answer to an older
\* question does not count (transport_callbacks, known_hosts_check,
\* known_hosts_add).
OfferedToAgreedHost ==
  op.offered =>   \* in the operation under way
    op.meant[ServerOf(op.url)][op.presented[1].type] = op.presented

PinnedAs(presented) ==
  {k \in KnownHostsList(op.settings.pins) :
     k.host = NameOf(op.url) /\ k.key.type = presented.type}

\* What is reported is what happened: each refusal has its cause, and an
\* operation over a sound connection to a server that takes keys does not end
\* in a message of libgit2's (transport_callbacks, transport_result,
\* GitStore::push, GitError::from).
CauseIsReported ==
  [][~Idle /\ Idle' /\ op'.result # <<"none">> =>
       CASE op'.result[1] = "UnknownHostKey" ->
              /\ <<op'.result[3]>> = op'.presented
              /\ PinnedAs(op'.presented[1]) = {}
         [] op'.result[1] = "HostKeyChanged" ->
              /\ PinnedAs(op'.presented[1]) # {}
              /\ op'.presented[1] \notin {k.key : k \in PinnedAs(op'.presented[1])}
         [] op'.result[1] = "NoHostKey" -> op'.presented[1].key = Garbled
         [] op'.result[1] = "SshKeyMissing" -> op.settings.key = <<>>
         [] op'.result[1] = "SshAuthFailed" -> op.offered
         [] op'.result[1] = "Other" ->
              op'.broken \/ "key" \notin Methods[ServerOf(op.url)]
         [] OTHER -> Accepted]_vars

\* A remote that takes the app's key, or the password in its URL.
Works(u) ==
  LET creds == ParseUserinfo(u)  methods == Methods[ServerOf(u)] IN
  \/ "key" \in methods /\ ("password" \notin methods \/ creds = <<>>)
  \/ "password" \in methods /\ creds # <<>>
       /\ <<creds[1].user, creds[1].password>> \in Passwords[ServerOf(u)]

\* However the server picks among its key types, and after any number of
\* replaced keys, restarts and late answers, a remote that works is reached
\* again and again: the questions the app asks come to an end.
Connects == <>[]Works(url) => []<>(op.result = <<"ok">>)
=============================================================================

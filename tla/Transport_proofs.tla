---------------------------- MODULE Transport_proofs ----------------------------
(***************************************************************************)
(* What a network operation tells a server, and what it reports, for any    *)
(* remotes, servers, key types and numbers of upsets (Transport): its       *)
(* types, that the app's key goes only to the host the user agreed to, and  *)
(* that every refusal reported has its cause.                               *)
(***************************************************************************)
EXTENDS Transport, LineText_proofs

SshUrls == {u \in Urls : SshEndpoint(u) # <<>>}
Names == {NameOf(u) : u \in SshUrls}
AllTypes == UNION {Types[s] : s \in EndpointsOf}
Keys == EndpointsOf \X Nat
PinTexts == {t \in Seq(HostLines(Names, AllTypes, Keys, {})) :
               \A i \in DOMAIN t : t[i].end = "lf"}

\* The fields of the records.
OpFields == {"kind", "phase", "settings", "meant", "url", "user", "presented", "given",
             "offered", "broken", "problem", "result"}
IsOp(o) == o = [f \in OpFields |-> o[f]]
IsSettings(a) == a = [f \in {"pins", "key"} |-> a[f]] /\ a.pins \in PinTexts
IsMeant(m) == m = [s \in EndpointsOf |-> [t \in Types[s] |-> m[s][t]]]

\* Every pin that can be used is of the key the user last agreed to.
PinsAreMeant(pins, m) ==
  \A u \in SshUrls : \A k \in KnownHostsList(pins) :
    k.host = NameOf(u) =>
      k.key.type \in Types[ServerOf(u)] /\ m[ServerOf(u)][k.key.type] = <<k.key>>

\* Settings, and what the user meant by them.
Settled(a, m) == IsSettings(a) /\ IsMeant(m) /\ PinsAreMeant(a.pins, m)

\* What may be reported about a host key, and of an operation at all.
AboutKey(u) ==
  {<<refusal, NameOf(u), HostKey(type, key)>> :
     refusal \in {"UnknownHostKey", "HostKeyChanged"}, type \in Types[ServerOf(u)], key \in Keys}
Problems(u) ==
  {<<"NoHostKey">>, <<"SshKeyMissing">>, <<"SshAuthFailed">>} \cup
    {r \in AboutKey(u) : u \in SshUrls}
Reports(u) == Problems(u) \cup {<<"none">>, <<"ok">>, <<"Other">>}

\* A dialog about a host key.
Prompts == {[server |-> ServerOf(u), name |-> NameOf(u), key |-> HostKey(type, key)] :
              u \in SshUrls, type \in AllTypes, key \in Keys}
PromptOK(p) == p \in Prompts /\ p.key.type \in Types[p.server]

\* An operation: beyond its first step its host key is the one agreed to.
Operation(o) ==
  /\ IsOp(o)
  /\ o.url \in Urls
  /\ o.phase \in {"connecting", "naming", "asking", "answering", "done"}
  /\ Settled(o.settings, o.meant)
  /\ o.result \in Reports(o.url)
  /\ o.phase # "done" => o.problem = <<>>
  /\ o.phase \in {"connecting", "naming"} => o.url \in SshUrls
  /\ o.phase \in {"naming", "asking", "answering"} /\ o.url \in SshUrls =>
       o.meant[ServerOf(o.url)][o.presented[1].type] = o.presented
  /\ o.offered => o.phase \in {"asking", "answering"} /\ o.url \in SshUrls

Generations ==
  /\ generation = [s \in EndpointsOf |-> [t \in Types[s] |-> generation[s][t]]]
  /\ \A s \in EndpointsOf : \A t \in Types[s] : generation[s][t] \in Nat

Trusting ==
  /\ url \in Urls
  /\ authorised \in BOOLEAN
  /\ meant = [f \in {"app", "handle"} |-> meant[f]]
  /\ Settled(app, meant.app)
  /\ Settled(handle, meant.handle)
  /\ Operation(op)
  /\ prompt = <<>> \/ \E p \in Prompts : prompt = <<p>> /\ PromptOK(p)
  /\ Generations

-----------------------------------------------------------------------------
(***************************************************************************)
(* Names, servers and pins.                                                *)
(***************************************************************************)
\* A name stands for one server.
LEMMA NamesAreServers ==
  ASSUME NEW u \in SshUrls, NEW v \in SshUrls
  PROVE  NameOf(u) = NameOf(v) <=> ServerOf(u) = ServerOf(v)
<1> DEFINE e == SshEndpoint(u)[1]
           f == SshEndpoint(v)[1]
<1>1. ServerOf(u) = <<e.host, e.port>> /\ ServerOf(v) = <<f.host, f.port>>
  BY DEF ServerOf, SameAs, SshUrls
<1>2. NameOf(u) = KnownHostsName(e.host, e.port) /\ NameOf(v) = KnownHostsName(f.host, f.port)
  BY DEF NameOf
<1> HIDE DEF e, f
<1> QED BY <1>1, <1>2 DEF KnownHostsName

LEMMA ServersAreEndpoints ==
  ASSUME NEW u \in Urls
  PROVE  ServerOf(u) \in EndpointsOf
BY DEF EndpointsOf

\* The key a server shows.
LEMMA KeysShown ==
  ASSUME Generations, NEW s \in EndpointsOf, NEW t \in Types[s]
  PROVE  /\ KeyOf(s, t) = HostKey(t, <<s, generation[s][t]>>)
         /\ <<s, generation[s][t]>> \in Keys
         /\ KeyOf(s, t).type = t /\ t \in AllTypes
BY DEF KeyOf, HostKey, Keys, Generations, AllTypes

\* Nothing is pinned, and nothing meant, at first.
LEMMA NothingSettled == Settled(NoSettings, Nothing)
<1>1. IsSettings(NoSettings) /\ NoSettings.pins = <<>>
  BY DEF IsSettings, NoSettings, Settings, PinTexts
<1>2. IsMeant(Nothing)
  <2> DEFINE row(s) == [t \in Types[s] |-> <<>>]
  <2>1. \A s \in EndpointsOf : Nothing[s] = row(s)
    BY DEF Nothing
  <2>2. \A s \in EndpointsOf : row(s) = [t \in Types[s] |-> row(s)[t]]
    OBVIOUS
  <2> HIDE DEF row
  <2>3. \A s \in EndpointsOf : [t \in Types[s] |-> Nothing[s][t]] = Nothing[s]
    BY <2>1, <2>2
  <2>4. Nothing = [s \in EndpointsOf |-> Nothing[s]]
    BY DEF Nothing
  <2> QED BY <2>3, <2>4 DEF IsMeant
<1>3. KnownHostsList(<<>>) = {}
  BY DEF KnownHostsList, ToSet
<1> QED BY <1>1, <1>2, <1>3 DEF Settled, PinsAreMeant

\* An operation not under way yet.
LEMMA NoOpIs ==
  ASSUME url \in Urls
  PROVE  /\ Operation(NoOp)
         /\ NoOp.url = url /\ NoOp.phase = "done" /\ NoOp.problem = <<>>
         /\ NoOp.offered = FALSE /\ NoOp.result = <<"none">>
<1>1. /\ IsOp(NoOp)
      /\ NoOp.url = url /\ NoOp.phase = "done" /\ NoOp.problem = <<>>
      /\ NoOp.offered = FALSE /\ NoOp.result = <<"none">>
      /\ NoOp.settings = NoSettings /\ NoOp.meant = Nothing
  BY DEF NoOp, IsOp, OpFields
<1>2. <<"none">> \in Reports(url)
  BY DEF Reports
<1> QED BY <1>1, <1>2, NothingSettled DEF Operation

\* known_hosts_add of an agreed key.
LEMMA AddedIsMeant ==
  ASSUME NEW a, NEW m, Settled(a, m), NEW u \in SshUrls,
         NEW type \in Types[ServerOf(u)], NEW key \in Keys,
         NEW b, b = [a EXCEPT !.pins = KnownHostsAdd(@, NameOf(u), HostKey(type, key))],
         NEW n, n = [m EXCEPT ![ServerOf(u)][type] = <<HostKey(type, key)>>]
  PROVE  Settled(b, n)
<1> DEFINE name == NameOf(u)
           server == ServerOf(u)
           pins == KnownHostsAdd(a.pins, name, HostKey(type, key))
<1>1. server \in EndpointsOf /\ name \in Names /\ type \in AllTypes
  BY ServersAreEndpoints DEF SshUrls, Names, AllTypes
<1>2. a.pins \in Seq(HostLines(Names, AllTypes, Keys, {}))
  BY DEF Settled, IsSettings, PinTexts
<1>3. /\ pins \in PinTexts
      /\ \A k \in KnownHostsList(pins) :
           \/ k \in KnownHostsList(a.pins) /\ ~(k.host = name /\ k.key.type = type)
           \/ k = KnownHost(name, type, key)
  BY <1>1, <1>2, PinsAdded DEF PinTexts
<1> HIDE DEF pins
<1>4. IsSettings(b) /\ b.pins = pins
  BY <1>3 DEF Settled, IsSettings, pins
<1>5. /\ IsMeant(n)
      /\ n[server][type] = <<HostKey(type, key)>>
      /\ \A s \in EndpointsOf : \A t \in Types[s] :
           s # server \/ t # type => n[s][t] = m[s][t]
  <2>1. IsMeant(m)
    BY DEF Settled
  <2> HIDE DEF server
  <2> DEFINE v == <<HostKey(type, key)>>
  <2> HIDE DEF v
  <2>2. n = [m EXCEPT ![server] = [m[server] EXCEPT ![type] = v]] /\ type \in Types[server]
    BY DEF v, server
  <2>3. m = [s \in EndpointsOf |-> m[s]] /\ \A s \in EndpointsOf : m[s] = [t \in Types[s] |-> m[s][t]]
    BY <2>1 DEF IsMeant
  <2>4. /\ n = [s \in EndpointsOf |-> n[s]]
        /\ n[server] = [m[server] EXCEPT ![type] = v]
        /\ \A s \in EndpointsOf : s # server => n[s] = m[s]
    BY <1>1, <2>2, <2>3
  <2>5. n[server] = [t \in Types[server] |-> n[server][t]]
    BY <1>1, <2>3, <2>4
  <2>6. n[server][type] = v /\ \A t \in Types[server] : t # type => n[server][t] = m[server][t]
    BY <1>1, <2>2, <2>3, <2>4
  <2>7. ASSUME NEW s \in EndpointsOf
        PROVE  n[s] = [t \in Types[s] |-> n[s][t]]
    <3>1. CASE s = server
      BY <2>5, <3>1
    <3>2. CASE s # server
      <4>1. n[s] = m[s] /\ m[s] = [t \in Types[s] |-> m[s][t]]
        BY <2>3, <2>4, <3>2
      <4> QED BY <4>1
    <3> QED BY <3>1, <3>2
  <2> QED BY <2>4, <2>6, <2>7 DEF IsMeant, v
<1>6. ASSUME NEW v \in SshUrls, NEW k \in KnownHostsList(pins), k.host = NameOf(v)
      PROVE  /\ k.key.type \in Types[ServerOf(v)]
             /\ n[ServerOf(v)][k.key.type] = <<k.key>>
  <2>1. ServerOf(v) \in EndpointsOf
    BY ServersAreEndpoints DEF SshUrls
  <2>2. CASE k = KnownHost(name, type, key)
    <3>1. k.host = name /\ k.key = HostKey(type, key) /\ k.key.type = type
      BY <2>2 DEF KnownHost, HostKey
    <3>2. ServerOf(v) = server
      BY <1>6, <3>1, NamesAreServers
    <3> QED BY <1>5, <3>1, <3>2
  <2>3. CASE k \in KnownHostsList(a.pins) /\ ~(k.host = name /\ k.key.type = type)
    <3>1. /\ k.key.type \in Types[ServerOf(v)]
          /\ m[ServerOf(v)][k.key.type] = <<k.key>>
      BY <1>6, <2>3 DEF Settled, PinsAreMeant
    <3>2. ServerOf(v) # server \/ k.key.type # type
      BY <1>6, <2>3, NamesAreServers
    <3> QED BY <1>5, <2>1, <3>1, <3>2
  <2> QED BY <1>3, <2>2, <2>3
<1> QED BY <1>4, <1>5, <1>6 DEF Settled, PinsAreMeant

\* known_hosts_remove of a host, and of all that was agreed about it.
LEMMA ForgottenIsMeant ==
  ASSUME NEW a, NEW m, Settled(a, m), NEW u \in SshUrls,
         NEW b, b = [a EXCEPT !.pins = KnownHostsRemove(@, NameOf(u))],
         NEW n, n = [m EXCEPT ![ServerOf(u)] = Nothing[ServerOf(u)]]
  PROVE  Settled(b, n)
<1> DEFINE name == NameOf(u)
           server == ServerOf(u)
           pins == KnownHostsRemove(a.pins, name)
<1>1. server \in EndpointsOf
  BY ServersAreEndpoints DEF SshUrls
<1>2. a.pins \in Seq(HostLines(Names, AllTypes, Keys, {}))
  BY DEF Settled, IsSettings, PinTexts
<1>3. pins \in PinTexts
  BY <1>2, LinesLeft DEF PinTexts, KnownHostsRemove
<1>4. \A k \in KnownHostsList(pins) : k \in KnownHostsList(a.pins) /\ k.host # name
  BY <1>2, PinsForgotten
<1> HIDE DEF pins
<1>5. IsSettings(b) /\ b.pins = pins
  BY <1>3 DEF Settled, IsSettings, pins
<1>6. IsMeant(n) /\ \A s \in EndpointsOf : s # server => n[s] = m[s]
  <2>1. IsMeant(m) /\ IsMeant(Nothing)
    BY NothingSettled DEF Settled
  <2> HIDE DEF server
  <2>2. n = [m EXCEPT ![server] = Nothing[server]]
    BY DEF server
  <2>3. /\ m = [s \in EndpointsOf |-> m[s]]
        /\ \A s \in EndpointsOf : m[s] = [t \in Types[s] |-> m[s][t]]
        /\ \A s \in EndpointsOf : Nothing[s] = [t \in Types[s] |-> Nothing[s][t]]
    BY <2>1 DEF IsMeant
  <2>4. /\ n = [s \in EndpointsOf |-> n[s]] /\ n[server] = Nothing[server]
        /\ \A s \in EndpointsOf : s # server => n[s] = m[s]
    BY <1>1, <2>2, <2>3
  <2>5. \A s \in EndpointsOf : n[s] = [t \in Types[s] |-> n[s][t]]
    BY <2>3, <2>4
  <2> QED BY <2>4, <2>5 DEF IsMeant
<1>7. ASSUME NEW v \in SshUrls, NEW k \in KnownHostsList(pins), k.host = NameOf(v)
      PROVE  /\ k.key.type \in Types[ServerOf(v)]
             /\ n[ServerOf(v)][k.key.type] = <<k.key>>
  <2>1. /\ k.key.type \in Types[ServerOf(v)]
        /\ m[ServerOf(v)][k.key.type] = <<k.key>>
    BY <1>4, <1>7 DEF Settled, PinsAreMeant
  <2>2. ServerOf(v) # server /\ ServerOf(v) \in EndpointsOf
    BY <1>4, <1>7, NamesAreServers, ServersAreEndpoints DEF SshUrls
  <2> QED BY <1>6, <2>1, <2>2
<1> QED BY <1>5, <1>6, <1>7 DEF Settled, PinsAreMeant

-----------------------------------------------------------------------------
(***************************************************************************)
(* How an operation ends, and every step.                                  *)
(***************************************************************************)
\* The words a report begins with.
LEMMA ReportsAre ==
  ASSUME NEW u, NEW r \in Reports(u)
  PROVE  /\ r # <<>>
         /\ r[1] \in Refusals \cup {"none", "ok", "Other"}
         /\ r[1] # "Git"
         /\ r \in Problems(u) => r[1] \in Refusals
         /\ r[1] = "none" => r = <<"none">>
         /\ r[1] = "ok" => r = <<"ok">>
         /\ r[1] \in {"UnknownHostKey", "HostKeyChanged"} =>
              /\ u \in SshUrls
              /\ \E type \in Types[ServerOf(u)], key \in Keys :
                   r = <<r[1], NameOf(u), HostKey(type, key)>>
<1>1. CASE r \in {q \in AboutKey(u) : u \in SshUrls}
  <2>1. PICK refusal \in {"UnknownHostKey", "HostKeyChanged"}, type \in Types[ServerOf(u)],
             key \in Keys : r = <<refusal, NameOf(u), HostKey(type, key)>>
    BY <1>1 DEF AboutKey
  <2> DEFINE k == HostKey(type, key)
             name == NameOf(u)
  <2> HIDE DEF k, name
  <2>2. r = <<refusal, name, k>>
    BY <2>1 DEF k, name
  <2>3. r # <<>> /\ r[1] = refusal /\ r = <<r[1], name, k>>
    BY <2>2
  <2> QED BY <1>1, <2>1, <2>3 DEF Refusals, k, name
<1>2. CASE r \in {<<"NoHostKey">>, <<"SshKeyMissing">>, <<"SshAuthFailed">>}
  BY <1>2 DEF Refusals
<1>3. CASE r \in {<<"none">>, <<"ok">>, <<"Other">>} /\ r \notin Problems(u)
  BY <1>3 DEF Refusals
<1> QED BY <1>1, <1>2, <1>3 DEF Reports, Problems

LEMMA EndedIs ==
  ASSUME url \in Urls, NEW o, IsOp(o), o.url \in Urls,
         o.problem = <<>> \/ o.problem \in Problems(o.url), NEW connected \in BOOLEAN
  PROVE  /\ Operation(Ended(o, connected))
         /\ Ended(o, connected).phase = "done" /\ Ended(o, connected).offered = FALSE
         /\ Ended(o, connected).url = o.url
         /\ Ended(o, connected).presented = o.presented
         /\ Ended(o, connected).broken = o.broken
         /\ \/ o.problem # <<>> /\ Ended(o, connected).result = o.problem
            \/ connected /\ Ended(o, connected).result = <<"ok">>
            \/ ~connected /\ o.problem = <<>> /\ Ended(o, connected).result = <<"Other">>
<1> DEFINE result == IF o.kind = "push" THEN PushResult(connected, o.problem)
                     ELSE TransportResult(connected, o.problem)
           e == Ended(o, connected)
<1>1. FfiError(o.problem) = o.problem \/ o.problem = <<>>
  <2>1. CASE o.problem \in Problems(o.url)
    BY <2>1, ReportsAre DEF Reports, FfiError
  <2> QED BY <2>1
<1>2. FfiError(<<"ok">>) = <<"ok">> /\ FfiError(<<"Git">>) = <<"Other">>
  BY DEF FfiError
<1>3. \/ o.problem # <<>> /\ result = o.problem
      \/ connected /\ result = <<"ok">>
      \/ ~connected /\ o.problem = <<>> /\ result = <<"Git">>
  BY DEF PushResult, TransportResult
<1> HIDE DEF result
<1>4. \/ o.problem # <<>> /\ FfiError(result) = o.problem
      \/ connected /\ FfiError(result) = <<"ok">>
      \/ ~connected /\ o.problem = <<>> /\ FfiError(result) = <<"Other">>
  BY <1>1, <1>2, <1>3
<1>5. FfiError(result) \in Reports(o.url)
  BY <1>4 DEF Reports
<1>6. e = [NoOp EXCEPT !.url = o.url, !.presented = o.presented, !.broken = o.broken,
                       !.result = FfiError(result)]
  BY DEF Ended, result
<1> HIDE DEF e
<1>7. Operation(NoOp) /\ NoOp.phase = "done" /\ NoOp.offered = FALSE
  BY NoOpIs
<1>8. /\ IsOp(e) /\ e.url = o.url /\ e.presented = o.presented /\ e.broken = o.broken
      /\ e.result = FfiError(result) /\ e.phase = "done" /\ e.offered = FALSE
      /\ e.settings = NoOp.settings /\ e.meant = NoOp.meant
  BY <1>6, <1>7 DEF Operation, IsOp, OpFields
<1>9. Operation(e)
  BY <1>5, <1>7, <1>8 DEF Operation
<1> QED BY <1>4, <1>8, <1>9 DEF e

\* The settings of the app and of the handle, after a step that gives them a value.
LEMMA AppSettled ==
  ASSUME NEW a, NEW m, Settled(a, m), app' = a, meant'.app = m
  PROVE  Settled(app, meant.app)'
BY DEF Settled, IsSettings, IsMeant, PinsAreMeant

LEMMA HandleSettled ==
  ASSUME NEW a, NEW m, Settled(a, m), handle' = a, meant'.handle = m
  PROVE  Settled(handle, meant.handle)'
BY DEF Settled, IsSettings, IsMeant, PinsAreMeant

\* Ending an operation.
LEMMA EndKeeps ==
  ASSUME Trusting, NEW o, IsOp(o), o.url \in Urls, Settled(o.settings, o.meant),
         o.problem = <<>> \/ o.problem \in Problems(o.url), NEW connected \in BOOLEAN,
         End(o, connected)
  PROVE  Trusting'
<1> DEFINE e == Ended(o, connected)
<1>1. /\ Operation(e) /\ e.url = o.url
      /\ \/ o.problem # <<>> /\ e.result = o.problem
         \/ connected /\ e.result = <<"ok">>
         \/ ~connected /\ o.problem = <<>> /\ e.result = <<"Other">>
  BY EndedIs DEF Trusting
<1> HIDE DEF e
<1>2. /\ op' = e
      /\ prompt' = IF e.result[1] # "UnknownHostKey" THEN prompt
                   ELSE <<[server |-> ServerOf(o.url), name |-> e.result[2],
                           key |-> e.result[3]]>>
      /\ IF e.result = <<"ok">> /\ o.kind = "clone"
         THEN handle' = o.settings /\ meant' = [meant EXCEPT !.handle = o.meant]
         ELSE UNCHANGED <<handle, meant>>
      /\ UNCHANGED <<url, app, generation, authorised, upsets>>
  BY DEF End, e
<1>3. /\ meant' = [f \in {"app", "handle"} |-> meant'[f]]
      /\ Settled(app, meant.app)' /\ Settled(handle, meant.handle)'
  <2>1. meant = [f \in {"app", "handle"} |-> meant[f]] /\ app' = app
    BY <1>2 DEF Trusting
  <2>2. Settled(app, meant.app) /\ Settled(handle, meant.handle)
    BY DEF Trusting
  <2>3. CASE UNCHANGED <<handle, meant>>
    <3>1. meant'.app = meant.app /\ meant'.handle = meant.handle
      BY <2>3
    <3> QED BY <2>1, <2>2, <2>3, <3>1, AppSettled, HandleSettled
  <2>4. CASE handle' = o.settings /\ meant' = [meant EXCEPT !.handle = o.meant]
    <3>1. /\ meant' = [f \in {"app", "handle"} |-> meant'[f]]
          /\ meant'.app = meant.app /\ meant'.handle = o.meant
      BY <2>1, <2>4
    <3> QED BY <2>1, <2>2, <2>4, <3>1, AppSettled, HandleSettled
  <2> QED BY <1>2, <2>3, <2>4
<1>4. Operation(op)'
  BY <1>1, <1>2 DEF Operation, Settled, IsSettings, IsMeant, PinsAreMeant, Reports, Problems
<1>5. prompt' = <<>> \/ \E p \in Prompts : prompt' = <<p>> /\ PromptOK(p)
  <2>1. CASE e.result[1] # "UnknownHostKey"
    BY <1>2, <2>1 DEF Trusting
  <2>2. CASE e.result[1] = "UnknownHostKey"
    <3>1. e.result \in Reports(o.url)
      BY <1>1 DEF Operation
    <3>2. /\ o.url \in SshUrls
          /\ \E type \in Types[ServerOf(o.url)], key \in Keys :
               e.result = <<e.result[1], NameOf(o.url), HostKey(type, key)>>
      BY <2>2, <3>1, ReportsAre
    <3>3. PICK type \in Types[ServerOf(o.url)], key \in Keys :
            e.result = <<e.result[1], NameOf(o.url), HostKey(type, key)>>
      BY <3>2
    <3> DEFINE k == HostKey(type, key)
               p == [server |-> ServerOf(o.url), name |-> NameOf(o.url), key |-> k]
    <3>4. e.result[2] = NameOf(o.url) /\ e.result[3] = k
      BY <3>3
    <3>5. prompt' = <<p>>
      BY <1>2, <2>2, <3>4
    <3>6. p \in Prompts
      BY <3>2, ServersAreEndpoints DEF Prompts, AllTypes
    <3>7. p.key.type = type /\ p.server = ServerOf(o.url)
      BY DEF HostKey
    <3> HIDE DEF p
    <3> QED BY <3>5, <3>6, <3>7 DEF PromptOK
  <2> QED BY <2>1, <2>2
<1>6. url' \in Urls /\ authorised' \in BOOLEAN /\ Generations'
  BY <1>2 DEF Trusting, Generations
<1> QED BY <1>3, <1>4, <1>5, <1>6 DEF Trusting

\* Going on with an operation.
LEMMA ContinueKeeps ==
  ASSUME Trusting, NEW o, Operation(o), Continue(o)
  PROVE  Trusting'
<1>1. op' = o /\ UNCHANGED <<url, app, handle, prompt, generation, authorised, meant, upsets>>
  BY DEF Continue
<1>2. Operation(op)'
  BY <1>1 DEF Operation, Settled, IsSettings, IsMeant, PinsAreMeant, Reports, Problems
<1>3. Settled(app, meant.app)' /\ Settled(handle, meant.handle)'
  BY <1>1, AppSettled, HandleSettled DEF Trusting
<1>4. Generations'
  BY <1>1 DEF Trusting, Generations
<1> QED BY <1>1, <1>2, <1>3, <1>4 DEF Trusting

\* The host key callback: a refusal has its cause, and a key let through is the
\* one the user agreed to.
Judged(presented) ==
  \/ /\ CertificateCheck(presented) = <<"refuse", <<"NoHostKey">>>>
     /\ <<"NoHostKey">> \in Problems(op.url)
     /\ presented.key = Garbled
  \/ /\ CertificateCheck(presented) =
          <<"refuse", <<"UnknownHostKey", NameOf(op.url), presented>>>>
     /\ <<"UnknownHostKey", NameOf(op.url), presented>> \in Problems(op.url)
     /\ PinnedAs(presented) = {}
  \/ /\ CertificateCheck(presented) =
          <<"refuse", <<"HostKeyChanged", NameOf(op.url), presented>>>>
     /\ <<"HostKeyChanged", NameOf(op.url), presented>> \in Problems(op.url)
     /\ PinnedAs(presented) # {}
     /\ presented \notin {k.key : k \in PinnedAs(presented)}
  \/ /\ CertificateCheck(presented) = <<"ok">>
     /\ op.meant[ServerOf(op.url)][presented.type] = <<presented>>

LEMMA HostKeyShown ==
  ASSUME Trusting, op.phase = "connecting", NEW type \in Types[ServerOf(op.url)],
         NEW presented, presented = KeyOf(ServerOf(op.url), type)
  PROVE  presented.type = type /\ Judged(presented)
<1>1. op.url \in SshUrls /\ op.url \in Urls /\ Settled(op.settings, op.meant)
  BY DEF Trusting, Operation
<1> DEFINE server == ServerOf(op.url)
           name == NameOf(op.url)
           check == KnownHostsCheck(op.settings.pins, name, presented)
<1>2. server \in EndpointsOf
  BY <1>1, ServersAreEndpoints
<1>3. \E key \in Keys : presented = HostKey(type, key) /\ presented.type = type
  BY <1>2, KeysShown DEF Trusting
<1>4. \A refusal \in {"UnknownHostKey", "HostKeyChanged"} :
        <<refusal, name, presented>> \in Problems(op.url)
  BY <1>1, <1>3 DEF Problems, AboutKey
<1>5. \/ check = "unknown" /\ PinnedAs(presented) = {}
      \/ /\ check = "trusted"
         /\ presented \in {k.key : k \in PinnedAs(presented)}
      \/ /\ check = "changed"
         /\ PinnedAs(presented) # {}
         /\ presented \notin {k.key : k \in PinnedAs(presented)}
  BY DEF KnownHostsCheck, PinnedAs
<1>6. presented \in {k.key : k \in PinnedAs(presented)} => op.meant[server][type] = <<presented>>
  <2>1. SUFFICES ASSUME NEW k \in PinnedAs(presented), presented = k.key
                 PROVE  op.meant[server][type] = <<presented>>
    OBVIOUS
  <2>2. k \in KnownHostsList(op.settings.pins) /\ k.host = name /\ k.key.type = type
    BY <1>3 DEF PinnedAs
  <2>3. op.meant[server][k.key.type] = <<k.key>>
    BY <1>1, <2>2 DEF Settled, PinsAreMeant
  <2> QED BY <2>1, <2>2, <2>3
<1> HIDE DEF check
<1>7. <<"NoHostKey">> \in Problems(op.url)
  BY DEF Problems
<1>8. \/ CertificateCheck(presented) = <<"refuse", <<"NoHostKey">>>> /\ presented.key = Garbled
      \/ check = "trusted" /\ CertificateCheck(presented) = <<"ok">>
      \/ /\ check = "unknown"
         /\ CertificateCheck(presented) = <<"refuse", <<"UnknownHostKey", name, presented>>>>
      \/ /\ check \notin {"trusted", "unknown"}
         /\ CertificateCheck(presented) = <<"refuse", <<"HostKeyChanged", name, presented>>>>
  BY DEF CertificateCheck, check
<1> QED BY <1>3, <1>4, <1>5, <1>6, <1>7, <1>8 DEF Judged

\* The credentials callback: a refusal has its cause.
LEMMA CredentialsGiven ==
  ASSUME NEW allowed
  PROVE  \/ /\ Credentials(allowed) = <<"refuse", <<"SshKeyMissing">>>>
            /\ op.settings.key = <<>>
         \/ /\ Credentials(allowed) = <<"refuse", <<"SshAuthFailed">>>>
            /\ op.offered
         \/ /\ Credentials(allowed) = <<"refuse", <<>>>>
            /\ "key" \notin allowed
         \/ /\ Credentials(allowed)[1] \in {"password", "username", "key"}
            /\ Credentials(allowed)[1] = "key" => "key" \in allowed
<1> DEFINE creds == ParseUserinfo(op.url)
           P == "password" \in allowed /\ creds # <<>>
           U == "username" \in allowed
           K == "key" \in allowed /\ ("password" \notin allowed \/ creds = <<>>)
           password == <<"password", creds[1].user, creds[1].password>>
           name == UserFor(op.url, op.user)
           key == IF op.settings.key = <<>> THEN <<"refuse", <<"SshKeyMissing">>>>
                  ELSE IF op.offered THEN <<"refuse", <<"SshAuthFailed">>>>
                  ELSE <<"key", name, op.settings.key[1]>>
<1>1. \/ P /\ Credentials(allowed) = password
      \/ U /\ Credentials(allowed) = <<"username", name>>
      \/ K /\ Credentials(allowed) = key
      \/ ~P /\ ~U /\ ~K /\ Credentials(allowed) = <<"refuse", <<>>>>
  BY DEF Credentials
<1>2. password[1] = "password" /\ <<"username", name>>[1] = "username"
  OBVIOUS
<1>3. \/ key = <<"refuse", <<"SshKeyMissing">>>> /\ op.settings.key = <<>>
      \/ key = <<"refuse", <<"SshAuthFailed">>>> /\ op.offered
      \/ key[1] = "key"
  OBVIOUS
<1> HIDE DEF password, name, key
<1>4. K => "key" \in allowed
  OBVIOUS
<1>5. ~P /\ ~K => "key" \notin allowed
  OBVIOUS
<1> HIDE DEF P, U, K
<1> QED BY <1>1, <1>2, <1>3, <1>4, <1>5

\* Web servers take no keys.
LEMMA KeysAreForSsh ==
  ASSUME NEW u \in Urls, "key" \in Methods[ServerOf(u)]
  PROVE  u \in SshUrls
BY TransportAssumption DEF SshUrls

LEMMA InitTrusts ==
  ASSUME Init
  PROVE  Trusting
<1>1. Operation(op)
  BY NoOpIs DEF Init
<1>2. meant = [f \in {"app", "handle"} |-> meant[f]] /\ meant.app = Nothing /\ meant.handle = Nothing
  BY DEF Init
<1>3. Settled(app, meant.app) /\ Settled(handle, meant.handle)
  BY <1>2, NothingSettled DEF Init
<1>4. Generations
  <2> DEFINE row(s) == [t \in Types[s] |-> 0]
  <2>1. \A s \in EndpointsOf : generation[s] = row(s)
    BY DEF Init
  <2>2. \A s \in EndpointsOf : row(s) = [t \in Types[s] |-> row(s)[t]]
                               /\ \A t \in Types[s] : row(s)[t] = 0
    OBVIOUS
  <2> HIDE DEF row
  <2>3. generation = [s \in EndpointsOf |-> generation[s]]
    BY DEF Init
  <2>4. \A s \in EndpointsOf : [t \in Types[s] |-> generation[s][t]] = generation[s]
    BY <2>1, <2>2
  <2> QED BY <2>1, <2>2, <2>3, <2>4 DEF Generations
<1> QED BY <1>1, <1>2, <1>3, <1>4 DEF Trusting, Init

\* An operation's next state is the same operation with some fields changed.
LEMMA StartTrusts ==
  ASSUME Trusting, Start
  PROVE  Trusting'
<1>1. PICK kind \in {"clone", "fetch", "push"} : Begin(kind)
  BY DEF Start
<1> DEFINE with == IF kind = "clone" THEN app ELSE handle
           by == IF kind = "clone" THEN meant.app ELSE meant.handle
           phase == IF SshEndpoint(url) = <<>> THEN "asking" ELSE "connecting"
           o == [NoOp EXCEPT !.kind = kind, !.settings = with, !.meant = by, !.phase = phase]
<1>2. Continue(o)
  BY <1>1 DEF Begin
<1>3. Settled(with, by)
  BY DEF Trusting
<1>4. /\ phase \in {"connecting", "asking"} /\ url \in Urls
      /\ phase = "connecting" <=> url \in SshUrls
  BY DEF Trusting, SshUrls
<1>5. Operation(NoOp) /\ NoOp.url = url /\ NoOp.problem = <<>> /\ NoOp.offered = FALSE
  BY <1>4, NoOpIs
<1> HIDE DEF with, by, phase
<1>6. /\ IsOp(o) /\ o.settings = with /\ o.meant = by /\ o.phase = phase /\ o.url = url
      /\ o.problem = <<>> /\ o.offered = FALSE /\ o.result = NoOp.result
  BY <1>5 DEF Operation, IsOp, OpFields
<1> HIDE DEF o
<1>7. Operation(o)
  BY <1>3, <1>4, <1>5, <1>6 DEF Operation
<1> QED BY <1>2, <1>7, ContinueKeeps

LEMMA ShowHostKeyTrusts ==
  ASSUME Trusting, ShowHostKey
  PROVE  Trusting'
<1> DEFINE server == ServerOf(op.url)
<1>1. /\ Operation(op) /\ op.phase = "connecting" /\ op.url \in Urls /\ op.url \in SshUrls
      /\ IsOp(op) /\ Settled(op.settings, op.meant)
  BY DEF ShowHostKey, Trusting, Operation
<1>2. PICK type \in Types[server] :
        LET presented == KeyOf(server, type)
            reply == CertificateCheck(presented)
            shown == [op EXCEPT !.presented = <<presented>>]
        IN  IF reply[1] = "refuse" THEN End([shown EXCEPT !.problem = reply[2]], FALSE)
            ELSE Continue([shown EXCEPT
                   !.phase = IF SshEndpoint(op.url)[1].user = <<>> THEN "naming" ELSE "asking",
                   !.user = SshEndpoint(op.url)[1].user])
  BY DEF ShowHostKey
<1> DEFINE presented == KeyOf(server, type)
           reply == CertificateCheck(presented)
           shown == [op EXCEPT !.presented = <<presented>>]
           phase == IF SshEndpoint(op.url)[1].user = <<>> THEN "naming" ELSE "asking"
           user == SshEndpoint(op.url)[1].user
           refused == [shown EXCEPT !.problem = reply[2]]
           going == [shown EXCEPT !.phase = phase, !.user = user]
<1>3. IF reply[1] = "refuse" THEN End(refused, FALSE) ELSE Continue(going)
  BY <1>2
<1>4. /\ presented.type = type
      /\ \/ reply[1] = "refuse" /\ reply[2] \in Problems(op.url)
         \/ reply = <<"ok">> /\ op.meant[server][type] = <<presented>>
  <2>1. presented = KeyOf(ServerOf(op.url), type) /\ type \in Types[ServerOf(op.url)]
    BY <1>2
  <2> HIDE DEF presented
  <2>2. presented.type = type /\ Judged(presented)
    BY <1>1, <2>1, HostKeyShown
  <2> QED BY <2>2 DEF Judged
<1>5. phase \in {"naming", "asking"}
  OBVIOUS
<1> HIDE DEF presented, reply, phase, user, server
<1>6. IsOp(shown) /\ shown.presented = <<presented>> /\ shown.url = op.url
      /\ shown.settings = op.settings /\ shown.meant = op.meant
      /\ shown.result = op.result /\ shown.problem = op.problem /\ shown.offered = op.offered
  BY <1>1 DEF IsOp, OpFields
<1> HIDE DEF shown
<1>7. CASE reply[1] = "refuse"
  <2>1. /\ IsOp(refused) /\ refused.url = op.url /\ refused.problem = reply[2]
        /\ refused.settings = op.settings /\ refused.meant = op.meant
    BY <1>6 DEF IsOp, OpFields
  <2>2. reply[2] \in Problems(op.url)
    BY <1>4, <1>7
  <2>3. End(refused, FALSE)
    BY <1>3, <1>7
  <2> HIDE DEF refused
  <2> QED BY <1>1, <2>1, <2>2, <2>3, EndKeeps
<1>8. CASE reply[1] # "refuse"
  <2>1. /\ IsOp(going) /\ going.url = op.url /\ going.phase = phase
        /\ going.settings = op.settings /\ going.meant = op.meant
        /\ going.presented = <<presented>> /\ going.result = op.result
        /\ going.problem = op.problem /\ going.offered = op.offered
    BY <1>6 DEF IsOp, OpFields
  <2>2. Continue(going)
    BY <1>3, <1>8
  <2> HIDE DEF going
  <2>3. op.meant[server][type] = <<presented>>
    BY <1>4, <1>8
  <2>4. Operation(going)
    BY <1>1, <1>4, <1>5, <2>1, <2>3 DEF Operation, server
  <2> QED BY <2>2, <2>4, ContinueKeeps
<1> QED BY <1>7, <1>8

LEMMA AskUsernameTrusts ==
  ASSUME Trusting, AskUsername
  PROVE  Trusting'
<1> DEFINE reply == Credentials({"username"})
           o == [op EXCEPT !.phase = "asking", !.user = <<reply[2]>>]
<1>1. Operation(op) /\ op.phase = "naming" /\ Continue(o)
  BY DEF AskUsername, Trusting
<1> HIDE DEF reply
<1>2. /\ IsOp(o) /\ o.url = op.url /\ o.phase = "asking" /\ o.settings = op.settings
      /\ o.meant = op.meant /\ o.presented = op.presented /\ o.result = op.result
      /\ o.problem = op.problem /\ o.offered = op.offered
  BY <1>1 DEF Operation, IsOp, OpFields
<1> HIDE DEF o
<1>3. Operation(o)
  BY <1>1, <1>2 DEF Operation
<1> QED BY <1>1, <1>3, ContinueKeeps

LEMMA AskCredentialsTrusts ==
  ASSUME Trusting, AskCredentials
  PROVE  Trusting'
<1> DEFINE methods == Methods[ServerOf(op.url)]
           reply == Credentials(methods)
           refused == [op EXCEPT !.problem = reply[2]]
           going == [op EXCEPT !.phase = "answering", !.given = reply,
                               !.offered = @ \/ reply[1] = "key"]
<1>1. /\ Operation(op) /\ op.phase = "asking"
      /\ IF reply[1] = "refuse" THEN End(refused, FALSE) ELSE Continue(going)
  BY DEF AskCredentials, Trusting
<1>2. \/ reply[1] = "refuse" /\ (reply[2] = <<>> \/ reply[2] \in Problems(op.url))
      \/ /\ reply[1] \in {"password", "username", "key"}
         /\ reply[1] = "key" => "key" \in methods
  BY CredentialsGiven DEF Problems
<1>3. "key" \in methods => op.url \in SshUrls
  BY <1>1, KeysAreForSsh DEF Operation
<1> HIDE DEF reply, methods
<1>4. CASE reply[1] = "refuse"
  <2>1. /\ IsOp(refused) /\ refused.url = op.url /\ refused.problem = reply[2]
        /\ refused.settings = op.settings /\ refused.meant = op.meant
    BY <1>1 DEF Operation, IsOp, OpFields
  <2>2. reply[2] = <<>> \/ reply[2] \in Problems(op.url)
    BY <1>2, <1>4
  <2>3. End(refused, FALSE)
    BY <1>1, <1>4
  <2> HIDE DEF refused
  <2> QED BY <1>1, <2>1, <2>2, <2>3, EndKeeps DEF Operation
<1>5. CASE reply[1] # "refuse"
  <2>1. Continue(going)
    BY <1>1, <1>5
  <2>2. /\ IsOp(going) /\ going.url = op.url /\ going.phase = "answering"
        /\ going.settings = op.settings /\ going.meant = op.meant
        /\ going.presented = op.presented /\ going.result = op.result
        /\ going.problem = op.problem
        /\ going.offered = (op.offered \/ reply[1] = "key")
    BY <1>1 DEF Operation, IsOp, OpFields
  <2> HIDE DEF going
  <2>3. reply[1] = "key" => op.url \in SshUrls
    BY <1>2, <1>3
  <2>4. Operation(going)
    BY <1>1, <2>2, <2>3 DEF Operation
  <2> QED BY <2>1, <2>4, ContinueKeeps
<1> QED BY <1>4, <1>5

LEMMA ServerAnswersTrusts ==
  ASSUME Trusting, ServerAnswers
  PROVE  Trusting'
<1> DEFINE o == [op EXCEPT !.phase = "asking"]
<1>1. /\ Operation(op) /\ op.phase = "answering"
      /\ IF Accepted THEN End(op, TRUE) ELSE Continue(o)
  BY DEF ServerAnswers, Trusting
<1>2. CASE End(op, TRUE)
  BY <1>1, <1>2, EndKeeps DEF Operation
<1>3. CASE Continue(o)
  <2>1. /\ IsOp(o) /\ o.url = op.url /\ o.phase = "asking" /\ o.settings = op.settings
        /\ o.meant = op.meant /\ o.presented = op.presented /\ o.result = op.result
        /\ o.problem = op.problem /\ o.offered = op.offered
    BY <1>1 DEF Operation, IsOp, OpFields
  <2> HIDE DEF o
  <2>2. Operation(o)
    BY <1>1, <2>1 DEF Operation
  <2> QED BY <1>3, <2>2, ContinueKeeps
<1> QED BY <1>1, <1>2, <1>3

\* An operation is not touched by what leaves it alone.
LEMMA OperationStays ==
  ASSUME Trusting, UNCHANGED op
  PROVE  Operation(op)'
BY DEF Trusting, Operation, Settled, IsSettings, IsMeant, PinsAreMeant, Reports, Problems

LEMMA ConfirmTrusts ==
  ASSUME Trusting, Confirm
  PROVE  Trusting'
<1>1. /\ prompt # <<>>
      /\ app' = [app EXCEPT !.pins = KnownHostsAdd(@, prompt[1].name, prompt[1].key)]
      /\ meant' = [meant EXCEPT !.app[prompt[1].server][prompt[1].key.type] =
                                  <<prompt[1].key>>]
      /\ prompt' = <<>>
      /\ UNCHANGED <<url, handle, op, generation, authorised, upsets>>
  BY DEF Confirm
<1>2. PICK p \in Prompts : prompt = <<p>> /\ PromptOK(p)
  BY <1>1 DEF Trusting
<1>3. PICK u \in SshUrls, type \in AllTypes, key \in Keys :
        p = [server |-> ServerOf(u), name |-> NameOf(u), key |-> HostKey(type, key)]
  BY DEF Prompts
<1> DEFINE k == HostKey(type, key)
           server == ServerOf(u)
           name == NameOf(u)
<1>4. k.type = type
  BY DEF HostKey
<1> HIDE DEF k
<1>5. p.server = server /\ p.name = name /\ p.key = k
  BY <1>3 DEF k
<1> HIDE DEF server, name
<1>6. type \in Types[server]
  BY <1>2, <1>4, <1>5 DEF PromptOK
<1>7. prompt[1] = p
  BY <1>2
<1>8. /\ app' = [app EXCEPT !.pins = KnownHostsAdd(@, name, k)]
      /\ meant' = [meant EXCEPT !.app[server][type] = <<k>>]
  BY <1>1, <1>4, <1>5, <1>7
<1>9. /\ meant' = [f \in {"app", "handle"} |-> meant'[f]]
      /\ meant'.app = [meant.app EXCEPT ![server][type] = <<k>>]
      /\ meant'.handle = meant.handle
  BY <1>8 DEF Trusting
<1>10. Settled(app', meant'.app)
  BY <1>6, <1>8, <1>9, AddedIsMeant DEF Trusting, k, server, name
<1>11. Settled(handle', meant'.handle)
  BY <1>1, <1>9 DEF Trusting
<1>12. Operation(op)' /\ Generations'
  BY <1>1, OperationStays DEF Trusting, Generations
<1>13. Settled(app, meant.app)' /\ Settled(handle, meant.handle)'
  BY <1>10, <1>11, AppSettled, HandleSettled
<1> QED BY <1>1, <1>9, <1>12, <1>13 DEF Trusting

LEMMA ForgetTrusts ==
  ASSUME Trusting, Forget
  PROVE  Trusting'
<1>1. /\ op.result[1] = "HostKeyChanged"
      /\ app' = [app EXCEPT !.pins = KnownHostsRemove(@, op.result[2])]
      /\ meant' = [meant EXCEPT !.app[ServerOf(op.url)] = Nothing[ServerOf(op.url)]]
      /\ UNCHANGED <<url, handle, op, prompt, generation, authorised, upsets>>
  BY DEF Forget
<1>2. op.result \in Reports(op.url)
  BY DEF Trusting, Operation
<1>3. op.url \in SshUrls /\ op.result[2] = NameOf(op.url)
  <2>1. op.url \in SshUrls /\ \E type \in Types[ServerOf(op.url)], key \in Keys :
          op.result = <<op.result[1], NameOf(op.url), HostKey(type, key)>>
    BY <1>1, <1>2, ReportsAre
  <2>2. PICK k : op.result = <<op.result[1], NameOf(op.url), k>>
    BY <2>1
  <2> QED BY <2>1, <2>2
<1>4. /\ meant' = [f \in {"app", "handle"} |-> meant'[f]]
      /\ meant'.app = [meant.app EXCEPT ![ServerOf(op.url)] = Nothing[ServerOf(op.url)]]
      /\ meant'.handle = meant.handle
  BY <1>1 DEF Trusting
<1>5. Settled(app', meant'.app)
  BY <1>1, <1>3, <1>4, ForgottenIsMeant DEF Trusting
<1>6. Settled(handle', meant'.handle)
  BY <1>1, <1>4 DEF Trusting
<1>7. Operation(op)' /\ Generations'
  BY <1>1, OperationStays DEF Trusting, Generations
<1>8. Settled(app, meant.app)' /\ Settled(handle, meant.handle)'
  BY <1>5, <1>6, AppSettled, HandleSettled
<1> QED BY <1>1, <1>4, <1>7, <1>8 DEF Trusting

LEMMA MakeKeyTrusts ==
  ASSUME Trusting, MakeKey
  PROVE  Trusting'
<1>1. /\ app' = [app EXCEPT !.key = <<AppKey>>]
      /\ UNCHANGED <<url, handle, op, prompt, generation, authorised, meant, upsets>>
  BY DEF MakeKey
<1>2. Settled(app, meant.app)
  BY DEF Trusting
<1>3. IsSettings(app)' /\ app'.pins = app.pins
  BY <1>1, <1>2 DEF Settled, IsSettings
<1>4. Settled(app', meant.app)
  BY <1>2, <1>3 DEF Settled, IsSettings
<1>5. Operation(op)' /\ Generations'
  BY <1>1, OperationStays DEF Trusting, Generations
<1>6. Settled(app, meant.app)' /\ Settled(handle, meant.handle)'
  BY <1>1, <1>4, AppSettled, HandleSettled DEF Trusting
<1> QED BY <1>1, <1>5, <1>6 DEF Trusting

LEMMA SetSshTrusts ==
  ASSUME Trusting, SetSsh
  PROVE  Trusting'
<1>1. /\ handle' = app /\ meant' = [meant EXCEPT !.handle = meant.app]
      /\ UNCHANGED <<url, app, op, prompt, generation, authorised, upsets>>
  BY DEF SetSsh
<1>2. /\ meant' = [f \in {"app", "handle"} |-> meant'[f]]
      /\ meant'.app = meant.app /\ meant'.handle = meant.app
  BY <1>1 DEF Trusting
<1>3. Settled(app', meant'.app) /\ Settled(handle', meant'.handle)
  BY <1>1, <1>2 DEF Trusting
<1>4. Operation(op)' /\ Generations'
  BY <1>1, OperationStays DEF Trusting, Generations
<1>5. Settled(app, meant.app)' /\ Settled(handle, meant.handle)'
  BY <1>3, AppSettled, HandleSettled
<1> QED BY <1>1, <1>2, <1>4, <1>5 DEF Trusting

LEMMA RestartTrusts ==
  ASSUME Trusting, Restart
  PROVE  Trusting'
<1>1. /\ handle' = NoSettings /\ meant' = [meant EXCEPT !.handle = Nothing]
      /\ op' = NoOp /\ prompt' = <<>>
      /\ UNCHANGED <<url, app, generation, authorised>>
  BY DEF Restart
<1>2. /\ meant' = [f \in {"app", "handle"} |-> meant'[f]]
      /\ meant'.app = meant.app /\ meant'.handle = Nothing
  BY <1>1 DEF Trusting
<1>3. Settled(app', meant'.app) /\ Settled(handle', meant'.handle)
  BY <1>1, <1>2, NothingSettled DEF Trusting
<1>4. Operation(op') /\ Generations'
  BY <1>1, NoOpIs DEF Trusting, Generations
<1> QED
  BY <1>1, <1>2, <1>3, <1>4
  DEF Trusting, Operation, Reports, Problems, Settled, IsSettings, IsMeant, PinsAreMeant

LEMMA BreakTrusts ==
  ASSUME Trusting, Break
  PROVE  Trusting'
<1> DEFINE o == [op EXCEPT !.broken = TRUE]
<1>1. /\ op.phase # "done" /\ op' = Ended(o, FALSE)
      /\ UNCHANGED <<url, app, handle, prompt, generation, authorised, meant>>
  BY DEF Break, Idle
<1>2. IsOp(o) /\ o.url \in Urls /\ o.problem = <<>>
  BY <1>1 DEF Trusting, Operation, IsOp, OpFields
<1> HIDE DEF o
<1>3. Operation(op')
  BY <1>1, <1>2, EndedIs DEF Trusting
<1>4. Generations'
  BY <1>1 DEF Trusting, Generations
<1>5. Settled(app', meant'.app) /\ Settled(handle', meant'.handle)
  BY <1>1 DEF Trusting
<1> QED
  BY <1>1, <1>3, <1>4, <1>5
  DEF Trusting, Operation, Reports, Problems, Settled, IsSettings, IsMeant, PinsAreMeant

LEMMA RotateTrusts ==
  ASSUME Trusting, Rotate
  PROVE  Trusting'
<1>1. PICK s \in EndpointsOf : \E t \in Types[s] :
        generation' = [generation EXCEPT ![s][t] = @ + 1]
  BY DEF Rotate
<1>2. PICK t \in Types[s] : generation' = [generation EXCEPT ![s][t] = @ + 1]
  BY <1>1
<1>3. UNCHANGED <<url, app, handle, op, prompt, authorised, meant>>
  BY DEF Rotate
<1>4. Generations'
  <2> DEFINE g == generation[s][t] + 1
  <2>1. g \in Nat
    <3>1. generation[s][t] \in Nat
      BY DEF Trusting, Generations
    <3> QED BY <3>1
  <2> HIDE DEF g
  <2>2. generation' = [generation EXCEPT ![s] = [generation[s] EXCEPT ![t] = g]]
    BY <1>2 DEF g
  <2>3. /\ generation = [x \in EndpointsOf |-> generation[x]]
        /\ \A x \in EndpointsOf : generation[x] = [y \in Types[x] |-> generation[x][y]]
        /\ \A x \in EndpointsOf : \A y \in Types[x] : generation[x][y] \in Nat
    BY DEF Trusting, Generations
  <2>4. /\ generation' = [x \in EndpointsOf |-> generation'[x]]
        /\ generation'[s] = [generation[s] EXCEPT ![t] = g]
        /\ \A x \in EndpointsOf : x # s => generation'[x] = generation[x]
    BY <2>2, <2>3
  <2>5. generation'[s] = [y \in Types[s] |-> generation'[s][y]]
    BY <2>3, <2>4
  <2>6. \A y \in Types[s] : generation'[s][y] \in Nat
    BY <2>1, <2>3, <2>4
  <2> QED BY <2>3, <2>4, <2>5, <2>6 DEF Generations
<1>5. Operation(op)'
  BY <1>3, OperationStays
<1>6. Settled(app, meant.app)' /\ Settled(handle, meant.handle)'
  BY <1>3, AppSettled, HandleSettled DEF Trusting
<1> QED BY <1>3, <1>4, <1>5, <1>6 DEF Trusting

LEMMA NextTrusts ==
  ASSUME Trusting, [Next]_vars
  PROVE  Trusting'
<1>1. CASE Operate
  BY <1>1, StartTrusts, ShowHostKeyTrusts, AskUsernameTrusts, AskCredentialsTrusts,
     ServerAnswersTrusts DEF Operate
<1>2. CASE Authorise \/ SetRemote \/ UNCHANGED vars
  <2>1. /\ UNCHANGED <<app, handle, op, prompt, generation, meant>>
        /\ url' \in Urls /\ authorised' \in BOOLEAN
    BY <1>2 DEF Authorise, SetRemote, vars, Trusting
  <2>2. Operation(op)' /\ Generations'
    BY <2>1, OperationStays DEF Trusting, Generations
  <2>3. Settled(app, meant.app)' /\ Settled(handle, meant.handle)'
    BY <2>1, AppSettled, HandleSettled DEF Trusting
  <2> QED BY <2>1, <2>2, <2>3 DEF Trusting
<1>3. CASE Confirm \/ MakeKey \/ SetSsh \/ Forget \/ Break \/ Restart \/ Rotate
  BY <1>3, ConfirmTrusts, MakeKeyTrusts, SetSshTrusts, ForgetTrusts, BreakTrusts,
     RestartTrusts, RotateTrusts
<1> QED BY <1>1, <1>2, <1>3 DEF Next, Answer

LEMMA AlwaysTrusting == Spec => []Trusting
BY InitTrusts, NextTrusts, PTL DEF Spec

-----------------------------------------------------------------------------
(***************************************************************************)
(* The theorems.                                                           *)
(***************************************************************************)
\* Every variable keeps its type; the known hosts stay whole lines
\* (known_hosts_add, known_hosts_remove, transport_result).
THEOREM TypeCorrect == Spec => []TypeOK
<1>1. Trusting => TypeOK
  <2> SUFFICES ASSUME Trusting
               PROVE  TypeOK
    OBVIOUS
  <2>1. url \in Urls /\ authorised \in BOOLEAN
        /\ op.phase \in {"connecting", "naming", "asking", "answering", "done"}
    BY DEF Trusting, Operation
  <2>2. op.result[1] \in Refusals \cup {"none", "ok", "Other"}
    BY ReportsAre DEF Trusting, Operation
  <2>3. \A t \in PinTexts : Lines(t)
    BY DEF PinTexts, Lines
  <2>4. app.pins \in PinTexts /\ handle.pins \in PinTexts
    BY DEF Trusting, Settled, IsSettings
  <2> QED BY <2>1, <2>2, <2>3, <2>4 DEF TypeOK
<1> QED BY <1>1, AlwaysTrusting, PTL

\* Whatever remotes the user goes between, however the servers replace their
\* keys and whenever a dialog is answered, the app's key is offered only under
\* the host key the user last agreed to for that server and key type
\* (transport_callbacks, known_hosts_check, known_hosts_add, GitSync::set_ssh).
THEOREM KeyOnlyToAgreedHost == Spec => []OfferedToAgreedHost
<1>1. Trusting => OfferedToAgreedHost
  BY DEF Trusting, Operation, OfferedToAgreedHost
<1> QED BY <1>1, AlwaysTrusting, PTL

\* How an operation that ends in this step came to its report.
Caused ==
  /\ op'.result[1] = "UnknownHostKey" =>
       <<op'.result[3]>> = op'.presented /\ PinnedAs(op'.presented[1]) = {}
  /\ op'.result[1] = "HostKeyChanged" =>
       /\ PinnedAs(op'.presented[1]) # {}
       /\ op'.presented[1] \notin {k.key : k \in PinnedAs(op'.presented[1])}
  /\ op'.result[1] = "NoHostKey" => op'.presented[1].key = Garbled
  /\ op'.result[1] = "SshKeyMissing" => op.settings.key = <<>>
  /\ op'.result[1] = "SshAuthFailed" => op.offered
  /\ op'.result[1] = "Other" => op'.broken \/ "key" \notin Methods[ServerOf(op.url)]
  /\ op'.result[1] = "ok" => Accepted
  /\ op'.result[1] \in Refusals \cup {"ok", "Other"}

LEMMA ShowHostKeyCaused ==
  ASSUME Trusting, ShowHostKey, Idle'
  PROVE  Caused
<1> DEFINE server == ServerOf(op.url)
<1>1. /\ op.phase = "connecting" /\ op.url \in Urls /\ IsOp(op)
  BY DEF ShowHostKey, Trusting, Operation
<1>2. PICK type \in Types[server] :
        LET presented == KeyOf(server, type)
            reply == CertificateCheck(presented)
            shown == [op EXCEPT !.presented = <<presented>>]
        IN  IF reply[1] = "refuse" THEN End([shown EXCEPT !.problem = reply[2]], FALSE)
            ELSE Continue([shown EXCEPT
                   !.phase = IF SshEndpoint(op.url)[1].user = <<>> THEN "naming" ELSE "asking",
                   !.user = SshEndpoint(op.url)[1].user])
  BY DEF ShowHostKey
<1> DEFINE presented == KeyOf(server, type)
           reply == CertificateCheck(presented)
           shown == [op EXCEPT !.presented = <<presented>>]
           phase == IF SshEndpoint(op.url)[1].user = <<>> THEN "naming" ELSE "asking"
           user == SshEndpoint(op.url)[1].user
           refused == [shown EXCEPT !.problem = reply[2]]
           going == [shown EXCEPT !.phase = phase, !.user = user]
<1>3. IF reply[1] = "refuse" THEN End(refused, FALSE) ELSE Continue(going)
  BY <1>2
<1>4. Judged(presented)
  <2>1. presented = KeyOf(ServerOf(op.url), type) /\ type \in Types[ServerOf(op.url)]
    BY <1>2
  <2> HIDE DEF presented
  <2> QED BY <1>1, <2>1, HostKeyShown
<1> HIDE DEF presented, server
<1>5. phase \in {"naming", "asking"}
  OBVIOUS
<1> HIDE DEF reply, phase, user
<1>6. IsOp(shown) /\ shown.presented = <<presented>> /\ shown.url = op.url
  BY <1>1 DEF IsOp, OpFields
<1> HIDE DEF shown
<1>7. going.phase = phase
  BY <1>6 DEF IsOp, OpFields
<1>8. reply[1] = "refuse" /\ End(refused, FALSE)
  <2> HIDE DEF going, refused
  <2>1. Continue(going) => FALSE
    BY <1>5, <1>7 DEF Continue, Idle
  <2> QED BY <1>3, <2>1
<1>9. /\ IsOp(refused) /\ refused.url = op.url /\ refused.problem = reply[2]
      /\ refused.presented = <<presented>>
  BY <1>6 DEF IsOp, OpFields
<1> HIDE DEF refused
<1>10. reply[2] \in Problems(op.url)
  BY <1>4, <1>8 DEF Judged, reply
<1>11. op' = Ended(refused, FALSE)
  BY <1>8 DEF End
<1>12. reply[2] # <<>>
  BY <1>10, ReportsAre DEF Reports
<1>13. op'.result = reply[2] /\ op'.presented = <<presented>>
  BY <1>1, <1>9, <1>10, <1>11, <1>12, EndedIs DEF Trusting
<1>14. op'.presented[1] = presented
  BY <1>13
<1>15. \/ op'.result = <<"NoHostKey">> /\ presented.key = Garbled
       \/ /\ op'.result = <<"UnknownHostKey", NameOf(op.url), presented>>
          /\ PinnedAs(presented) = {}
       \/ /\ op'.result = <<"HostKeyChanged", NameOf(op.url), presented>>
          /\ PinnedAs(presented) # {}
          /\ presented \notin {k.key : k \in PinnedAs(presented)}
  BY <1>4, <1>8, <1>13 DEF Judged, reply
<1> QED BY <1>13, <1>14, <1>15 DEF Caused, Refusals

LEMMA AskCredentialsCaused ==
  ASSUME Trusting, AskCredentials, Idle'
  PROVE  Caused
<1> DEFINE methods == Methods[ServerOf(op.url)]
           reply == Credentials(methods)
           refused == [op EXCEPT !.problem = reply[2]]
           going == [op EXCEPT !.phase = "answering", !.given = reply,
                               !.offered = @ \/ reply[1] = "key"]
<1>1. /\ Operation(op) /\ op.phase = "asking" /\ op.url \in Urls /\ IsOp(op)
      /\ IF reply[1] = "refuse" THEN End(refused, FALSE) ELSE Continue(going)
  BY DEF AskCredentials, Trusting, Operation
<1>2. \/ reply = <<"refuse", <<"SshKeyMissing">>>> /\ op.settings.key = <<>>
      \/ reply = <<"refuse", <<"SshAuthFailed">>>> /\ op.offered
      \/ reply = <<"refuse", <<>>>> /\ "key" \notin methods
      \/ reply[1] \in {"password", "username", "key"}
  BY CredentialsGiven
<1> HIDE DEF reply, methods
<1>3. going.phase = "answering"
  BY <1>1 DEF IsOp, OpFields
<1>4. IsOp(refused) /\ refused.url = op.url /\ refused.problem = reply[2]
  BY <1>1 DEF IsOp, OpFields
<1> HIDE DEF going, refused
<1>5. reply[1] = "refuse" /\ op' = Ended(refused, FALSE)
  <2>1. Continue(going) => FALSE
    BY <1>3 DEF Continue, Idle
  <2> QED BY <1>1, <2>1 DEF End
<1>6. reply[2] = <<>> \/ reply[2] \in Problems(op.url)
  BY <1>2, <1>5 DEF Problems
<1>7. \/ reply[2] # <<>> /\ op'.result = reply[2]
      \/ reply[2] = <<>> /\ op'.result = <<"Other">>
  BY <1>1, <1>4, <1>5, <1>6, EndedIs DEF Trusting
<1>8. \/ op'.result = <<"SshKeyMissing">> /\ op.settings.key = <<>>
      \/ op'.result = <<"SshAuthFailed">> /\ op.offered
      \/ op'.result = <<"Other">> /\ "key" \notin Methods[ServerOf(op.url)]
  <2>1. \/ reply[2] = <<"SshKeyMissing">> /\ op.settings.key = <<>>
        \/ reply[2] = <<"SshAuthFailed">> /\ op.offered
        \/ reply[2] = <<>> /\ "key" \notin methods
    BY <1>2, <1>5
  <2>2. <<"SshKeyMissing">> # <<>> /\ <<"SshAuthFailed">> # <<>>
    OBVIOUS
  <2> QED BY <1>7, <2>1, <2>2 DEF methods
<1> QED BY <1>8 DEF Caused, Refusals

LEMMA ServerAnswersCaused ==
  ASSUME Trusting, ServerAnswers, Idle'
  PROVE  Caused
<1> DEFINE o == [op EXCEPT !.phase = "asking"]
<1>1. /\ op.phase = "answering" /\ op.url \in Urls /\ IsOp(op) /\ op.problem = <<>>
      /\ IF Accepted THEN End(op, TRUE) ELSE Continue(o)
  BY DEF ServerAnswers, Trusting, Operation
<1>2. o.phase = "asking"
  BY <1>1 DEF IsOp, OpFields
<1> HIDE DEF o
<1>3. Accepted /\ op' = Ended(op, TRUE)
  <2>1. Continue(o) => FALSE
    BY <1>2 DEF Continue, Idle
  <2> QED BY <1>1, <2>1 DEF End
<1>4. op'.result = <<"ok">>
  BY <1>1, <1>3, EndedIs DEF Trusting
<1>5. op'.result[1] = "ok"
  BY <1>4
<1>6. "ok" \notin {"UnknownHostKey", "HostKeyChanged", "NoHostKey", "SshKeyMissing",
                  "SshAuthFailed", "Other"}
  OBVIOUS
<1> QED BY <1>3, <1>5, <1>6, Zenon DEF Caused

LEMMA BreakCaused ==
  ASSUME Trusting, Break
  PROVE  Caused
<1> DEFINE o == [op EXCEPT !.broken = TRUE]
<1>1. op.phase # "done" /\ op' = Ended(o, FALSE)
  BY DEF Break, Idle
<1>2. IsOp(o) /\ o.url \in Urls /\ o.problem = <<>> /\ o.broken = TRUE
  BY <1>1 DEF Trusting, Operation, IsOp, OpFields
<1> HIDE DEF o
<1>3. op'.result = <<"Other">> /\ op'.broken = TRUE
  BY <1>1, <1>2, EndedIs DEF Trusting
<1> QED BY <1>3 DEF Caused, Refusals

\* Each refusal the app is told of has its cause, a success was the server's,
\* and a message of libgit2's stands only for a broken connection or a server
\* that takes no keys (transport_callbacks, transport_result, GitStore::push,
\* GitError::from).
THEOREM CausesAreReported == Spec => CauseIsReported
<1>1. ASSUME Trusting, [Next]_vars, ~Idle, Idle', op'.result # <<"none">>
      PROVE  Caused
  <2>1. CASE Operate
    <3>1. ~Start /\ ~AskUsername
      <4>1. ~Start
        BY <1>1 DEF Start, Begin
      <4>2. ASSUME AskUsername
            PROVE  FALSE
        <5> DEFINE o == [op EXCEPT !.phase = "asking",
                                   !.user = <<Credentials({"username"})[2]>>]
        <5>1. op' = o
          BY <4>2 DEF AskUsername, Continue
        <5>2. o.phase = "asking"
          BY <1>1 DEF Trusting, Operation, IsOp, OpFields
        <5> HIDE DEF o
        <5> QED BY <1>1, <5>1, <5>2 DEF Idle
      <4> QED BY <4>1, <4>2
    <3> QED
      BY <1>1, <2>1, <3>1, ShowHostKeyCaused, AskCredentialsCaused, ServerAnswersCaused
      DEF Operate
  <2>2. CASE Break
    BY <1>1, <2>2, BreakCaused
  <2>3. ASSUME Restart
        PROVE  FALSE
    <3>1. op' = NoOp /\ NoOp.result = <<"none">>
      BY <1>1, <2>3, NoOpIs DEF Restart, Trusting
    <3> QED BY <1>1, <3>1
  <2>4. ASSUME Answer \/ SetSsh \/ Forget \/ SetRemote \/ Rotate \/ UNCHANGED vars
        PROVE  FALSE
    <3>1. UNCHANGED op
      BY <2>4 DEF Answer, Confirm, MakeKey, Authorise, SetSsh, Forget, SetRemote, Rotate, vars
    <3> QED BY <1>1, <3>1 DEF Idle
  <2> QED BY <1>1, <2>1, <2>2, <2>3, <2>4 DEF Next
<1>2. Trusting /\ [Next]_vars =>
      [~Idle /\ Idle' /\ op'.result # <<"none">> =>
       CASE op'.result[1] = "UnknownHostKey" ->
              /\ <<op'.result[3]>> = op'.presented
              /\ PinnedAs(op'.presented[1]) = {}
         [] op'.result[1] = "HostKeyChanged" ->
              /\ PinnedAs(op'.presented[1]) # {}
              /\ op'.presented[1] \notin {k.key : k \in PinnedAs(op'.presented[1])}
         [] op'.result[1] = "NoHostKey" -> op'.presented[1].key = Garbled
         [] op'.result[1] = "SshKeyMissing" -> op.settings.key = <<>>
         [] op'.result[1] = "SshAuthFailed" -> op.offered
         [] op'.result[1] = "Other" ->
              op'.broken \/ "key" \notin Methods[ServerOf(op.url)]
         [] OTHER -> Accepted]_vars
  BY <1>1 DEF Caused, Refusals
<1> QED BY <1>2, AlwaysTrusting, PTL DEF Spec, CauseIsReported
=============================================================================

----------------------------- MODULE SecondFactors -----------------------------
(***************************************************************************)
(* One entry with a counter-based code and passkeys, on devices that share  *)
(* a remote (crates/pass-core/src/hotp.rs, webauthn.rs, entry.rs through    *)
(* keys_otp_api.rs and passkey_api.rs).  The app computes the new text,     *)
(* writes it, commits it and only then tells somebody: it shows the code or *)
(* answers the site.  A device may stop between any two of these steps.     *)
(*                                                                         *)
(* Ciphertexts never agree, so two devices that both committed conflict and *)
(* one side is kept.  `known' is what has been told in the history a text   *)
(* belongs to: it travels with the text and is lost with it.  A device does *)
(* one thing at a time (the run doc_mutex shows what two do), and the       *)
(* conflict choice that keeps both files is left to GitSync.                *)
(***************************************************************************)
EXTENDS EntryText, Otp, WebAuthn

CONSTANTS Devices, Texts,      \* Texts: what the entry may hold at first
          Requests, Ids,       \* creation requests; credential ids, each drawn once
          MaxTasks, MaxCrashes

\* A URI with one counter: a number, or what is not one.
OneCounter(uri) ==
  /\ uri = OtpUri(uri.kind, uri.label, uri.params)
  /\ uri.params \in Seq({<<p[1], p[2]>> : p \in Range(uri.params)})
  /\ \A i, j \in DOMAIN uri.params :
       IsCounter(uri.params[i]) /\ IsCounter(uri.params[j]) =>
         i = j /\ uri.params[i][2] \in Nat \union {Bad}

StoredPasskeys(t) == {FromValue(v)[2] : v \in Range(EntryPasskeys(t))}

\* Android hands over the request's JSON, iOS its parts; the app has
\* verified the user or not.
CreationOptions(request) ==
  IF request.platform = "ios"
  THEN <<"ok", [rp |-> request.json.rp[1], handle |-> request.json.user[1], exclude |-> <<>>]>>
  ELSE ParseCreateOptions(request.json)

PrivateKey(id) == id   \* the platform draws a key with each id

\* The password stands on line 1 and what else an entry holds at first is not
\* drawn again; a passkey read is the one the value says, and those that may be
\* made can be read if the code can read them.  "elsewhere" is no site here.
ASSUME FactorsAssumption ==
  /\ MaxTasks \in Nat /\ MaxCrashes \in Nat
  /\ \A t \in Texts :
       /\ IsText(t) /\ UriAt(t) # 1
       /\ UriAt(t) # 0 =>
            /\ Otpauth(t) = <<"otp", Otpauth(t)[2]>>
            /\ OneCounter(Otpauth(t)[2])
       /\ \A i, j \in PasskeysAt(t) :
            Credential[t[i].body.value] = Credential[t[j].body.value] => i = j
       /\ \A p \in StoredPasskeys(t) : p.id \notin Ids
  /\ \A v \in DOMAIN Credential : FromValue(v) = <<"ok", FromValue(v)[2]>>
                                 /\ FromValue(v)[2].id = Credential[v]
  /\ \A request \in Requests : CreationOptions(request)[1] = "ok" =>
       LET options == CreationOptions(request)[2] IN
       /\ options.rp # "elsewhere"
       /\ \A id \in Ids :
            LET value == ToValue(Passkey(id, options.rp, options.handle, PrivateKey(id)))
            IN  FromValue(value)[1] = "ok" => value \in DOMAIN Credential

VARIABLES disk, saved,         \* per device: the file, the last commit
          ahead, behind,       \* per device: commits to push, to take
          known,               \* per device: what was told in its history
          task,                \* per device: what the app is doing
          remote,              \* the branch on the server
          used, sites,         \* ids drawn; the credentials sites hold
          tasks, crashes

factors == <<disk, saved, ahead, behind, known, task, remote, used, sites, tasks, crashes>>

Nobody == <<"nobody">>
Idle == [stage |-> "idle", text |-> <<>>, tells |-> Nobody]

ChosenPassword == Plain(<<"chosen">>)

Init ==
  /\ \E t \in Texts :
       /\ disk = [d \in Devices |-> t]
       /\ saved = [d \in Devices |-> t]
       /\ remote = [text |-> t, known |-> {}]
  /\ ahead = [d \in Devices |-> FALSE]
  /\ behind = [d \in Devices |-> FALSE]
  /\ known = [d \in Devices |-> {}]
  /\ task = [d \in Devices |-> Idle]
  /\ used = {}
  /\ sites = {}
  /\ tasks = 0
  /\ crashes = 0

-----------------------------------------------------------------------------
\* The next code of an entry, and the entry with its counter advanced.
AdvanceEntry(t) ==
  LET uri == Otpauth(t)[2]
      config == IF UriAt(t) = 0 THEN None ELSE HotpFromUri(uri)
      step == IF config = None THEN None ELSE NextStep(config[1])
  IN  [i \in DOMAIN step |->
         [code |-> step[i].code,
          text |-> SetOtpauth(t, <<"otp", UriWithCounter(uri, step[i].counter)>>)]]

Busy(stage, text, tells) == [stage |-> stage, text |-> text, tells |-> tells]

Begin(d, text, tells) ==
  /\ task[d] = Idle /\ tasks < MaxTasks
  /\ tasks' = tasks + 1
  /\ task' = [task EXCEPT ![d] = Busy("write", text, tells)]
  /\ UNCHANGED <<disk, saved, ahead, behind, remote, sites, crashes>>

AskForCode(d) ==
  \E step \in Range(AdvanceEntry(disk[d])) :
    /\ Begin(d, step.text, <<"code", step.code>>)
    /\ UNCHANGED <<known, used>>

CreatePasskey(d) ==
  \E request \in Requests, id \in Ids \ used :
    LET options == CreationOptions(request) IN
    /\ options[1] = "ok"
    /\ \A p \in StoredPasskeys(disk[d]) : ~Contains(options[2].exclude, p.id)
    /\ LET made == Register(id, options[2].rp, options[2].handle, PrivateKey(id), request.verified) IN
       /\ made[1] = "ok"
       /\ Begin(d, EntryAddPasskey(disk[d], made[2].value),
                <<"credential", options[2].rp, options[2].handle, RegistrationResponse(made[2])>>)
    /\ used' = used \union {id}
    /\ UNCHANGED known

\* Asked for by the user: from here on nothing promises it.
DeletePasskey(d) ==
  \E p \in StoredPasskeys(disk[d]) :
    /\ Begin(d, EntryRemovePasskey(disk[d], p.id), Nobody)
    /\ known' = [known EXCEPT ![d] = @ \ {<<"credential", p.id>>}]
    /\ UNCHANGED used

ChangePassword(d) ==
  /\ Password(disk[d])[1] # ChosenPassword
  /\ Begin(d, SetPassword(disk[d], ChosenPassword), Nobody)
  /\ UNCHANGED <<known, used>>

Write(d) ==
  /\ task[d].stage = "write"
  /\ disk' = [disk EXCEPT ![d] = task[d].text]
  /\ task' = [task EXCEPT ![d].stage = "commit"]
  /\ UNCHANGED <<saved, ahead, behind, known, remote, used, sites, tasks, crashes>>

\* A write that a crash left uncommitted is offered for committing.
Commit(d) ==
  /\ task[d].stage = "commit" \/ (task[d] = Idle /\ disk[d] # saved[d])
  /\ saved' = [saved EXCEPT ![d] = disk[d]]
  /\ ahead' = [ahead EXCEPT ![d] = TRUE]
  /\ task' = [task EXCEPT ![d] = IF @.tells = Nobody THEN Idle ELSE Busy("tell", <<>>, @.tells)]
  /\ UNCHANGED <<disk, behind, known, remote, used, sites, tasks, crashes>>

\* What a site keeps of a registration it accepts.
Account(rp, handle, response) ==
  LET data == response.attestation.authData
  IN  [rp |-> rp, handle |-> handle, id |-> data.attested[1][1],
       public |-> data.attested[1][2], eligible |-> "BE" \in data.flags]

ShowCode(d) ==
  /\ task[d].stage = "tell" /\ task[d].tells[1] = "code"
  /\ known' = [known EXCEPT ![d] = @ \union {task[d].tells}]
  /\ task' = [task EXCEPT ![d] = Idle]
  /\ UNCHANGED <<disk, saved, ahead, behind, remote, used, sites, tasks, crashes>>

AnswerSite(d) ==
  /\ task[d].stage = "tell" /\ task[d].tells[1] = "credential"
  /\ LET response == task[d].tells[4] IN
     /\ known' = [known EXCEPT ![d] = @ \union {<<"credential", response.id>>}]
     /\ sites' = sites \union {Account(task[d].tells[2], task[d].tells[3], response)}
  /\ task' = [task EXCEPT ![d] = Idle]
  /\ UNCHANGED <<disk, saved, ahead, behind, remote, used, tasks, crashes>>

Crash(d) ==
  /\ task[d] # Idle /\ crashes < MaxCrashes
  /\ task' = [task EXCEPT ![d] = Idle]
  /\ crashes' = crashes + 1
  /\ UNCHANGED <<disk, saved, ahead, behind, known, remote, used, sites, tasks>>

-----------------------------------------------------------------------------
\* Syncing needs a clean work tree.
Clean(d) == task[d] = Idle /\ disk[d] = saved[d]

\* With nothing to take, or over what the other side has.
Push(d) ==
  /\ Clean(d) /\ ahead[d]
  /\ remote' = [text |-> saved[d], known |-> known[d]]
  /\ ahead' = [ahead EXCEPT ![d] = FALSE]
  /\ behind' = [e \in Devices |-> e # d]
  /\ UNCHANGED <<disk, saved, known, task, used, sites, tasks, crashes>>

\* With nothing to push, or giving up what this side has.
Take(d) ==
  /\ Clean(d) /\ behind[d]
  /\ disk' = [disk EXCEPT ![d] = remote.text]
  /\ saved' = [saved EXCEPT ![d] = remote.text]
  /\ known' = [known EXCEPT ![d] = remote.known]
  /\ ahead' = [ahead EXCEPT ![d] = FALSE]
  /\ behind' = [behind EXCEPT ![d] = FALSE]
  /\ UNCHANGED <<task, remote, used, sites, tasks, crashes>>

Next == \E d \in Devices :
  \/ AskForCode(d) \/ CreatePasskey(d) \/ DeletePasskey(d) \/ ChangePassword(d)
  \/ Write(d) \/ Commit(d) \/ ShowCode(d) \/ AnswerSite(d) \/ Crash(d)
  \/ Push(d) \/ Take(d)

Spec == Init /\ [][Next]_factors

-----------------------------------------------------------------------------
\* What a sign-in offers: the stored passkeys of the asking site, or of the
\* host the request came from when it names none.
Offered(t, request, host) ==
  LET options == ParseGetOptions(request)
      rp == IF options[2].rp = Empty THEN host ELSE options[2].rp
  IN  IF options[1] # "ok" THEN {}
      ELSE {p \in StoredPasskeys(t) :
              p.rp = rp /\ (options[2].allow = <<>> \/ Contains(options[2].allow, p.id))}

SignIn(p, verified, clientHash) ==
  LET a == AssertPasskey(p, verified)
  IN  AssertionResponse(a, <<a.key, SignedMessage(a.data, clientHash)>>)

\* What a site checks of an answer (WebAuthn, verifying an assertion).
SiteAccepts(account, needsVerified, clientHash, response) ==
  /\ response.id = account.id
  /\ response.handle = account.handle
  /\ response.data.rpHash = <<"hash", account.rp>>
  /\ "UP" \in response.data.flags
  /\ needsVerified => "UV" \in response.data.flags
  /\ account.eligible = ("BE" \in response.data.flags)
  /\ ("BS" \in response.data.flags) => "BE" \in response.data.flags
  /\ response.data.counter = 0
  /\ <<"cose", <<"public", response.signature[1]>> >> = account.public
  /\ response.signature[2] = <<response.data, clientHash>>

-----------------------------------------------------------------------------
(* Texts are whole lines, a device behind nobody holds what the server has, *)
(* and no credential id stands twice in an entry.                           *)
TypeOK ==
  /\ \A d \in Devices :
       /\ Lines(disk[d]) /\ Lines(saved[d])
       /\ task[d].stage \in {"idle", "write", "commit", "tell"}
       /\ ~ahead[d] /\ ~behind[d] => saved[d] = remote.text
       /\ LET held == EntryPasskeys(disk[d])
          IN  \A i, j \in DOMAIN held : Credential[held[i]] = Credential[held[j]] => i = j
  /\ tasks \in 0..MaxTasks /\ crashes \in 0..MaxCrashes

(* Whatever was told outside is on the disk of every device that has the    *)
(* history it was told in: a site never holds a credential the entry lost,  *)
(* and a counter never stands before a code that was shown -- through       *)
(* crashes, edits of other lines and syncs.                                 *)
ToldIsSaved ==
  \A d \in Devices : \A fact \in known[d] :
    IF fact[1] = "code"
    THEN /\ UriAt(disk[d]) # 0
         /\ HotpFromUri(Otpauth(disk[d])[2])[1].moving >= fact[2][2]
    ELSE \E p \in StoredPasskeys(disk[d]) : p.id = fact[2]

(* No code is shown twice in one history (keys_otp_api.rs: "a code shown    *)
(* before its counter is saved could be shown again").                      *)
CodesShownOnce ==
  [][\A d \in Devices :
       task[d].stage = "tell" /\ task'[d] = Idle /\ crashes' = crashes
         => task[d].tells \notin known[d]]_factors

(* A site that accepted a registration accepts every later sign-in with it, *)
(* from each device that has it, however the site asks; and no other site   *)
(* is answered with it.                                                     *)
SignInAccepted ==
  \A d \in Devices : \A account \in sites :
    LET asks == {[rp |-> rp, allow |-> allow] : rp \in {<<>>, <<account.rp>>},
                                                allow \in {<<>>, <<account.id>>}}
        mine(ask, host) == {p \in Offered(disk[d], ask, host) : p.id = account.id}
    IN  <<"credential", account.id>> \in known[d] =>
          \A ask \in asks, verified \in BOOLEAN :
            /\ mine(ask, account.rp) # {}
            /\ \A p \in mine(ask, account.rp) :
                 SiteAccepts(account, verified, "asked", SignIn(p, verified, "asked"))
            /\ mine([ask EXCEPT !.rp = <<>>], "elsewhere") = {}
=============================================================================

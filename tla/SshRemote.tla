------------------------------- MODULE SshRemote -------------------------------
(***************************************************************************)
(* Remote URLs and SSH keys (crates/pass-core/src/ssh.rs, git.rs).  A URL   *)
(* is taken apart: form (what it looks like), userinfo (a user and a        *)
(* password, each absent or present), host, and the port as written: none,  *)
(* empty, bad or a number.  The case of letters and a scp-like name in      *)
(* brackets are left out.  What may be absent is a sequence of at most one  *)
(* element.                                                                 *)
(***************************************************************************)
EXTENDS Integers, Sequences

RemoteUrl(form, user, password, host, port) ==
  [form |-> form, user |-> user, password |-> password, host |-> host, port |-> port]
NoPort == -1
EmptyPort == -2
BadPort == -3
NoHost == ""

\* user@host:path with no scheme; a path and a port are the same thing there.
ScpLike(url) == url.form = "scp" /\ url.host # NoHost

RemoteScheme(url) ==
  CASE url.form \in {"https", "http", "file"} -> url.form
    [] url.form \in {"ssh", "git+ssh", "ssh+git"} -> "ssh"
    [] url.form = "path" -> "file"
    [] ScpLike(url) -> "ssh"
    [] OTHER -> "other"

Endpoint(user, host, port) == <<[user |-> user, host |-> host, port |-> port]>>

SshEndpoint(url) ==
  CASE RemoteScheme(url) # "ssh" -> <<>>
    [] ScpLike(url) -> Endpoint(url.user, url.host, 22)
    [] url.port = BadPort \/ url.host = NoHost -> <<>>
    [] url.port \in {NoPort, EmptyPort} -> Endpoint(url.user, url.host, 22)
    [] OTHER -> Endpoint(url.user, url.host, url.port)

\* Mutant: the port is not part of the name.
HostOnly(host, port) == <<host>>

KnownHostsName(host, port) == IF port = 22 THEN <<host>> ELSE <<host, port>>

\* A user and a password, or neither.
ParseUserinfo(url) ==
  IF url.form \in {"scp", "path"} \/ url.user = <<>> \/ url.password = <<>> THEN <<>>
  ELSE <<[user |-> url.user[1], password |-> url.password[1]]>>

-----------------------------------------------------------------------------
\* A key file: its format, its passphrase if it has one, and its key.
KeyFile(format, passphrase, type, key) ==
  [format |-> format, passphrase |-> passphrase, type |-> type, key |-> key]
KeyTypes == {"ed25519", "rsa", "ecdsa"}

KeyIsEncrypted(file) == file.format = "openssh" /\ file.passphrase # <<>>

\* Mutant: the key is kept as it was imported.
KeptAsImported(file) == file

DescribeKey(file) == KeyFile("openssh", <<>>, file.type, file.key)

GenerateKey(key) == DescribeKey(KeyFile("openssh", <<>>, "ed25519", key))

ImportPrivateKey(file, passphrase) ==
  CASE file.format = "pem" -> <<"legacy pem">>
    [] file.format = "public" -> <<"public key">>
    [] file.format = "other" -> <<"not a key">>
    [] KeyIsEncrypted(file) /\ passphrase = <<>> -> <<"needs passphrase">>
    [] KeyIsEncrypted(file) /\ passphrase \notin {<<>>, file.passphrase} -> <<"wrong passphrase">>
    [] OTHER -> IF file.type \in KeyTypes THEN <<"key", DescribeKey(file)>>
                ELSE <<"unsupported">>
=============================================================================

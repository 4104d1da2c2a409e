------------------------------- MODULE KnownHosts -------------------------------
(***************************************************************************)
(* The known-hosts file as text (crates/pass-core/src/ssh.rs).  A line is   *)
(* <<"void">>, <<"other">> (a comment, a marker, or too few fields) or      *)
(* <<"pin", hosts, type, key>>; hosts is a sequence of names, lower case.   *)
(* A name in Hashed is stored hashed; the key Garbled is not one of its     *)
(* line's type.                                                             *)
(***************************************************************************)
EXTENDS LineText

CONSTANT Hashed
Garbled == "garbled"
Pin(hosts, type, key) == <<"pin", hosts, type, key>>
HostKey(type, key) == [type |-> type, key |-> key]
KnownHost(host, type, key) == [host |-> host, key |-> HostKey(type, key)]

\* The pins a line makes, and those of the file that can be used.
PinsOf(line) == {KnownHost(h, line.body[3], line.body[4]) : h \in ToSet(line.body[2])}

KnownHostsList(t) ==
  LET pins == {line \in ToSet(t) : line.body[1] = "pin" /\ line.body[4] # Garbled}
  IN  {k \in UNION {PinsOf(line) : line \in pins} : k.host \notin Hashed}

\* Mutant: a key of another type is refused as a changed one.
CheckAnyType(t, host, presented) ==
  LET pinned == {k \in KnownHostsList(t) : k.host = host}
  IN  CASE pinned = {} -> "unknown"
        [] presented \in {k.key : k \in pinned} -> "trusted"
        [] OTHER -> "changed"

\* Mutant: a key of a type not pinned yet is taken on trust.
CheckPinnedHost(t, host, presented) ==
  LET pinned == {k \in KnownHostsList(t) : k.host = host}
  IN  CASE pinned = {} -> "unknown"
        [] \E k \in pinned : k.key.type # presented.type \/ k.key = presented -> "trusted"
        [] OTHER -> "changed"

KnownHostsCheck(t, host, presented) ==
  LET pinned == {k \in KnownHostsList(t) :
                   k.host = host /\ k.key.type = presented.type}
  IN  CASE pinned = {} -> "unknown"
        [] presented \in {k.key : k \in pinned} -> "trusted"
        [] OTHER -> "changed"

\* What a line is without a host, as far as its key is of one of the types.
BodyWithout(body, host, types) ==
  IF body[1] # "pin" THEN body
  ELSE IF body[3] \notin types THEN body
  ELSE Pin(Only(body[2], ToSet(body[2]) \ {host}), body[3], body[4])

\* A host goes from every line that names it; the line goes with its last
\* host.  Blank lines go, and every line ends in a plain newline.
RemoveLines(t, host, types) ==
  LET bodies == [i \in DOMAIN t |-> BodyWithout(t[i].body, host, types)]
      left == Only(bodies, {b \in ToSet(bodies) :
                              IF b[1] = "pin" THEN b[2] # <<>> ELSE b # <<"void">>})
  IN  [i \in DOMAIN left |-> Line(left[i], "lf")]

KnownHostsAdd(t, host, key) ==
  WithLine(RemoveLines(t, host, {key.type}),
           Pin(<<host>>, key.type, key.key))

\* Mutant: a line of several hosts goes whole.
RemoveWholeLines(t, host) ==
  SelectSeq(t, LAMBDA line : line.body[1] # "pin" \/ ~Contains(line.body[2], host))

TypesIn(t) == {line.body[3] : line \in {l \in ToSet(t) : l.body[1] = "pin"}}

KnownHostsRemove(t, host) == RemoveLines(t, host, TypesIn(t))
=============================================================================

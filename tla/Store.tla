-------------------------------- MODULE Store --------------------------------
(***************************************************************************)
(* PassStore on one device (crates/pass-core/src/store.rs and the text     *)
(* edits of recipients.rs): entries in nested directories, each encrypted  *)
(* to the recipients file nearest above it.  A call works in steps, with   *)
(* the user's keys prompting in between; it may fail or the app may be     *)
(* killed at any of them.  GitSync checks out other devices' versions in   *)
(* the same directory.                                                     *)
(*                                                                         *)
(* A call that fails before it has changed anything is not an action, nor  *)
(* is a call that only reads (entries, tree, has_entry, read_entry,        *)
(* reencrypt_targets, root_recipients).  copy_entry, which the FFI does    *)
(* not expose, is left out.                                                *)
(***************************************************************************)
EXTENDS Integers, Sequences

CONSTANTS Last,         \* number of entries; they count in the byte order of their names
          Names,        \* of directories
          Dirs,         \* directories, as sequences of names from the root
          Home,         \* the directory of each entry
          Keys, Own,    \* all keys, and those this device holds
          Formats,      \* the formats a store may have, of "passage" and "pass"
          SelfMoves,    \* an entry may be moved onto itself, which destroys it
                        \* (doc_self_move.cfg)
          MaxTexts,     \* bound: versions ever written or pulled
          MaxPulls,     \* bound: checkouts by a sync
          MaxFailures,  \* bound: foreign or I/O errors
          MaxCrashes    \* bound: app kills

Entries == 1..Last
Root == <<>>
Ancestors(d) == {SubSeq(d, 1, k) : k \in 0..Len(d)}   \* d among them

ASSUME StoreAssumption ==
  /\ Last \in Nat
  /\ Dirs \subseteq Seq(Names)
  /\ \A d \in Dirs : Ancestors(d) \subseteq Dirs
  /\ Root \in Dirs
  /\ Home \in [Entries -> Dirs]
  /\ Own \subseteq Keys /\ Own # {}
  /\ Formats \subseteq {"passage", "pass"}
  /\ SelfMoves \in BOOLEAN
  /\ MaxTexts \in Nat /\ MaxPulls \in Nat /\ MaxFailures \in Nat /\ MaxCrashes \in Nat

VARIABLES
  format,  \* of the store; never changes
  files,   \* what each entry's file holds
  keyed,   \* directories with a recipients file
  recips,  \* the keys those files list
  dirs,    \* directories that exist
  litter,  \* directories with a temporary file nobody will rename
  call,    \* the running call: operation, entry moved away, subtree, entries
           \* to do, the files when it began; how the last one returned
  staged,  \* the ciphertext on its way to a file, if any: <<entry, ciphertext>>
  live,    \* history variable: versions nobody has given up
  out,     \* history variable: keys a re-encryption of the store shut out
  texts, pulls, failures, crashes   \* counters

recipients == <<format, keyed, recips>>
tree == <<files, recipients, dirs, litter>>
counters == <<texts, pulls, failures, crashes>>
vars == <<tree, call, staged, live, out, counters>>

\* A ciphertext is the version it says and the keys that open it.
Absent == <<>>
Damaged == <<0, {}>>
Ciphertexts == Nat \X SUBSET Keys
Text(c) == c[1]
Opens(c) == c # Absent /\ c[2] \cap Own # {}
TextsOf(e) == IF files[e] = Absent THEN {} ELSE {Text(files[e])}

Ops == {"none", "write", "move", "copy", "remove source", "reencrypt", "readable"}
Calls == [op : Ops, from : Entries \cup {0}, sub : Dirs, todo : SUBSET Entries,
          before : [Entries -> Ciphertexts \cup {Absent}], ok : BOOLEAN]
NoCall == [op |-> "none", from |-> 0, sub |-> Root, todo |-> {},
           before |-> [e \in Entries |-> Absent], ok |-> TRUE]
Idle == call.op = "none"
Return(ok) == call' = [NoCall EXCEPT !.ok = ok]
SpendFailure == failures < MaxFailures /\ failures' = failures + 1

(***************************************************************************)
(* resolve_recipients and encryption_recipients.  An age file that lists   *)
(* nobody means the device's own keys, as having no file does; a pass      *)
(* store without recipients cannot encrypt.                                *)
(***************************************************************************)
Source(d) ==
  {a \in Ancestors(d) \cap keyed : \A b \in Ancestors(d) \cap keyed : Len(b) <= Len(a)}

Listed(d) == UNION {recips[a] : a \in Source(d)}

Readers(e) ==
  IF format = "passage" /\ Listed(Home[e]) = {} THEN Own ELSE Listed(Home[e])

CanEncrypt(e) == Readers(e) # {}

\* pass re-encrypts a moved entry only where the resolved recipients differ.
MustReencrypt(from, to) ==
  \/ format = "passage"
  \/ Listed(Home[from]) # Listed(Home[to])
  \/ (Source(Home[from]) = {}) # (Source(Home[to]) = {})

Init ==
  /\ format \in Formats
  /\ keyed \in SUBSET Dirs
  /\ recips \in {r \in [Dirs -> SUBSET Keys] : \A d \in Dirs \ keyed : r[d] = {}}
  /\ \E S \in SUBSET {e \in Entries : CanEncrypt(e)} :
       files = [e \in Entries |-> IF e \in S THEN <<e, Readers(e)>> ELSE Absent]
  /\ dirs = {Root} \cup
              UNION {Ancestors(d) : d \in keyed \cup {Home[e] : e \in {f \in Entries : files[f] # Absent}}}
  /\ litter = {}
  /\ call = NoCall
  /\ staged = {}
  /\ live = UNION {TextsOf(e) : e \in Entries}
  /\ out = {}
  /\ texts = Last
  /\ pulls = 0 /\ failures = 0 /\ crashes = 0

-----------------------------------------------------------------------------
(***************************************************************************)
(* atomic_write: the ciphertext goes to a temporary file in the entry's    *)
(* directory, which is renamed over the entry.                             *)
(***************************************************************************)
\* What the call does once the entry is written.
Written(e) ==
  CASE call.op = "write" -> Return(TRUE)
    [] call.op = "move" -> call' = [call EXCEPT !.op = "remove source"]
    [] OTHER -> IF call.todo = {e} THEN Return(TRUE)
                ELSE call' = [call EXCEPT !.todo = @ \ {e}]

\* A save gives up the version it replaces.  A strict re-encryption of the
\* whole store shuts out every key that no recipients file lists.  The temporary
\* file is named after process and thread, so it may take over one left there.
Rename ==
  /\ \E f \in staged :
       /\ files' = [files EXCEPT ![f[1]] = f[2]]
       /\ live' = IF call.op = "write" THEN (live \ TextsOf(f[1])) \cup {Text(f[2])} ELSE live
       /\ Written(f[1])
       /\ out' = IF call.op = "reencrypt" /\ call.sub = Root /\ call.todo = {f[1]}
                 THEN Keys \ (Own \cup UNION {recips[d] : d \in keyed}) ELSE out
  /\ staged' = {}
  /\ litter' \in {litter, litter \ {Home[f[1]] : f \in staged}}
  /\ UNCHANGED <<recipients, dirs, counters>>

\* Mutant: the ciphertext is written straight over the entry.
WriteInPlaceFails ==
  /\ staged # {}
  /\ SpendFailure
  /\ Return(FALSE)
  /\ staged' = {}
  /\ files' = [e \in Entries |-> IF \E f \in staged : f[1] = e THEN Damaged ELSE files[e]]
  /\ UNCHANGED <<recipients, dirs, litter, live, out, texts, pulls, crashes>>

\* Only a failed rename takes the temporary file away again.
AtomicWriteFails ==
  /\ staged # {}
  /\ SpendFailure
  /\ Return(FALSE)
  /\ staged' = {}
  /\ litter' \in {litter, litter \cup {Home[f[1]] : f \in staged}}
  /\ UNCHANGED <<files, recipients, dirs, live, out, texts, pulls, crashes>>

Write(e) ==
  /\ Idle
  /\ CanEncrypt(e)
  /\ texts < MaxTexts
  /\ call' = [NoCall EXCEPT !.op = "write"]
  /\ staged' = {<<e, <<texts + 1, Readers(e)>>>>}
  /\ dirs' = dirs \cup Ancestors(Home[e])
  /\ texts' = texts + 1
  /\ UNCHANGED <<files, recipients, litter, live, out, pulls, failures, crashes>>

\* A call that cannot go on, for a reason of its own or a foreign or I/O
\* error, returns and leaves what it did.
CallFails(reason) ==
  /\ ~Idle
  /\ staged = {}
  /\ \/ reason /\ UNCHANGED failures
     \/ SpendFailure
  /\ Return(FALSE)
  /\ UNCHANGED <<tree, staged, live, out, texts, pulls, crashes>>

-----------------------------------------------------------------------------
\* Mutant: recipients files do not keep a directory alive.
PrunedWithKeys(d) ==
  {a \in Ancestors(d) \ {Root} :
     \A b \in {c \in dirs : a \in Ancestors(c)} :
       /\ b \in Ancestors(d)
       /\ \A e \in Entries : Home[e] = b => files'[e] = Absent}

\* The directories remove_dir prunes from d upwards: the empty ones.
Pruned(d) ==
  {a \in Ancestors(d) \ {Root} :
     \A b \in {c \in dirs : a \in Ancestors(c)} :
       /\ b \in Ancestors(d)
       /\ b \notin keyed \cup litter
       /\ \A e \in Entries : Home[e] = b => files'[e] = Absent}

Remove(e) ==
  /\ Idle
  /\ files[e] # Absent
  /\ files' = [files EXCEPT ![e] = Absent]
  /\ live' = live \ TextsOf(e)
  /\ dirs' = dirs \ Pruned(Home[e])
  /\ UNCHANGED <<recipients, litter, call, staged, out, counters>>

\* transfer_entry creates the destination's directory before it decrypts.
\* The version at the destination is given up.
Move(from, to) ==
  /\ Idle
  /\ files[from] # Absent
  /\ from # to \/ SelfMoves
  /\ dirs' = dirs \cup Ancestors(Home[to])
  /\ live' = IF from = to THEN live ELSE live \ (TextsOf(to) \ TextsOf(from))
  /\ IF MustReencrypt(from, to)
     THEN /\ Opens(files[from]) /\ CanEncrypt(to)
          /\ staged' = {<<to, <<Text(files[from]), Readers(to)>>>>}
          /\ call' = [NoCall EXCEPT !.op = "move", !.from = from]
          /\ UNCHANGED files
     ELSE /\ files' = [files EXCEPT ![to] = Damaged]   \* fs::copy truncates first
          /\ call' = [NoCall EXCEPT !.op = "copy", !.from = from, !.todo = {to}]
          /\ UNCHANGED staged
  /\ UNCHANGED <<recipients, litter, out, counters>>

MoveRefused(from, to) ==
  /\ Idle
  /\ files[from] # Absent
  /\ MustReencrypt(from, to)
  /\ \/ (~Opens(files[from]) \/ ~CanEncrypt(to)) /\ UNCHANGED failures
     \/ SpendFailure
  /\ dirs' = dirs \cup Ancestors(Home[to])
  /\ Return(FALSE)
  /\ UNCHANGED <<files, recipients, litter, staged, live, out, texts, pulls, crashes>>

EndCopy ==
  /\ call.op = "copy"
  /\ \E to \in call.todo : files' = [files EXCEPT ![to] = files[call.from]]
  /\ call' = [call EXCEPT !.op = "remove source", !.todo = {}]
  /\ UNCHANGED <<recipients, dirs, litter, staged, live, out, counters>>

RemoveSource ==
  /\ call.op = "remove source"
  /\ files[call.from] # Absent
  /\ files' = [files EXCEPT ![call.from] = Absent]
  /\ dirs' = dirs \ Pruned(Home[call.from])
  /\ Return(TRUE)
  /\ UNCHANGED <<recipients, litter, staged, live, out, counters>>

MoveFails ==
  /\ call.op \in {"copy", "remove source"}
  /\ CallFails(files[call.from] = Absent)

-----------------------------------------------------------------------------
(***************************************************************************)
(* reencrypt_subtree ("reencrypt") and reencrypt_readable ("readable").    *)
(***************************************************************************)
\* Mutant: only the directory's own entries.
TargetsHere(sub) ==
  {e \in Entries : files[e] # Absent /\ sub = Home[e]}

Targets(sub) ==
  {e \in Entries : files[e] # Absent /\ sub \in Ancestors(Home[e])}

Reencrypt(op, sub) ==
  /\ Idle
  /\ Targets(sub) # {}
  /\ call' = [NoCall EXCEPT !.op = op, !.sub = sub, !.todo = Targets(sub), !.before = files]
  /\ UNCHANGED <<tree, staged, live, out, counters>>

Reencrypting == call.op \in {"reencrypt", "readable"} /\ staged = {}
Target == CHOOSE e \in call.todo : \A f \in call.todo : e <= f

ReencryptTarget ==
  /\ Reencrypting
  /\ Opens(files[Target]) /\ CanEncrypt(Target)
  /\ staged' = {<<Target, <<Text(files[Target]), Readers(Target)>>>>}
  /\ UNCHANGED <<tree, call, live, out, counters>>

\* Mutant: the strict variant skips too.
SkipAnyUnreadable ==
  /\ Reencrypting
  /\ files[Target] # Absent /\ ~Opens(files[Target])
  /\ Written(Target)
  /\ UNCHANGED <<tree, staged, live, out, counters>>

SkipUnreadable ==
  /\ Reencrypting
  /\ call.op = "readable"
  /\ files[Target] # Absent /\ ~Opens(files[Target])
  /\ Written(Target)
  /\ UNCHANGED <<tree, staged, live, out, counters>>

ReencryptFails ==
  /\ Reencrypting
  /\ CallFails(\/ files[Target] = Absent
               \/ ~Opens(files[Target]) /\ call.op = "reencrypt"
               \/ Opens(files[Target]) /\ ~CanEncrypt(Target))

-----------------------------------------------------------------------------
\* recipients_add or recipients_remove, then set_root_recipients.
SetRootRecipients ==
  /\ Idle
  /\ \E k \in Keys :
       /\ \/ k \notin recips[Root] /\ recips' = [recips EXCEPT ![Root] = @ \cup {k}]
          \/ k \in recips[Root] /\ recips' = [recips EXCEPT ![Root] = @ \ {k}]
       /\ out' = out \ {k}
  /\ keyed' = keyed \cup {Root}
  /\ UNCHANGED <<format, files, dirs, litter, call, staged, live, counters>>

\* Its atomic_write fails or the app is killed, and the temporary file stays.
SetRootRecipientsFails ==
  /\ Idle
  /\ \/ SpendFailure /\ UNCHANGED crashes
     \/ crashes < MaxCrashes /\ crashes' = crashes + 1 /\ UNCHANGED failures
  /\ litter' = litter \cup {Root}
  /\ Return(FALSE)
  /\ UNCHANGED <<recipients, files, dirs, staged, live, out, texts, pulls>>

\* A sync checks out another device's version or removal of an entry, or its
\* edit of the root's recipients, between two calls: the app must keep it out of
\* a running one (Workdir shows what overlapping does).  It refuses to start on
\* a dirty tree.
MaySync ==
  /\ Idle
  /\ litter = {}
  /\ pulls < MaxPulls
  /\ pulls' = pulls + 1

PullEntry(e) ==
  /\ MaySync
  /\ \/ /\ texts < MaxTexts
        /\ \E K \in SUBSET Keys \ {{}} :
             /\ files' = [files EXCEPT ![e] = <<texts + 1, K>>]
             /\ out' = out \ K
        /\ live' = (live \ TextsOf(e)) \cup {texts + 1}
        /\ dirs' = dirs \cup Ancestors(Home[e])
        /\ texts' = texts + 1
     \/ /\ files[e] # Absent
        /\ files' = [files EXCEPT ![e] = Absent]
        /\ live' = live \ TextsOf(e)
        /\ dirs' = dirs \ Pruned(Home[e])
        /\ UNCHANGED <<out, texts>>
  /\ UNCHANGED <<recipients, litter, call, staged, failures, crashes>>

PullRecipients ==
  /\ MaySync
  /\ \E K \in SUBSET Keys :
       /\ recips' = [recips EXCEPT ![Root] = K]
       /\ out' = out \ K
  /\ keyed' = keyed \cup {Root}
  /\ UNCHANGED <<format, files, dirs, litter, call, staged, live, texts, failures, crashes>>

Crash ==
  /\ ~Idle
  /\ crashes < MaxCrashes
  /\ crashes' = crashes + 1
  /\ Return(FALSE)
  /\ staged' = {}
  /\ litter' = litter \cup {Home[f[1]] : f \in staged}
  /\ UNCHANGED <<files, recipients, dirs, live, out, texts, pulls, failures>>

Next ==
  \/ Rename \/ AtomicWriteFails \/ EndCopy \/ RemoveSource \/ MoveFails
  \/ \E e \in Entries : Write(e) \/ Remove(e) \/ PullEntry(e)
  \/ \E from, to \in Entries : Move(from, to) \/ MoveRefused(from, to)
  \/ \E op \in {"reencrypt", "readable"}, sub \in Dirs : Reencrypt(op, sub)
  \/ ReencryptTarget \/ SkipUnreadable \/ ReencryptFails
  \/ SetRootRecipients \/ SetRootRecipientsFails \/ PullRecipients \/ Crash

Spec == Init /\ [][Next]_vars

-----------------------------------------------------------------------------
(***************************************************************************)
(* Properties.                                                             *)
(***************************************************************************)
\* Every variable has its type; a file and a recipients file stand in a
\* directory that exists, and a temporary file belongs to a running call.
TypeOK ==
  /\ format \in Formats
  /\ files \in [Entries -> Ciphertexts \cup {Absent}]
  /\ keyed \subseteq dirs /\ litter \subseteq dirs /\ dirs \subseteq Dirs
  /\ recips \in [Dirs -> SUBSET Keys]
  /\ call \in Calls
  /\ staged \subseteq Entries \X Ciphertexts
  /\ live \subseteq Nat /\ out \subseteq Keys
  /\ texts \in Nat /\ pulls \in Nat /\ failures \in Nat /\ crashes \in Nat
  /\ Idle => staged = {} /\ call.todo = {}
  /\ \A e \in Entries : files[e] # Absent => Home[e] \in dirs

\* A version is in the store until somebody saves over it, removes it or moves
\* another entry onto it: no failure or kill of a save, a move or a
\* re-encryption, at any of its steps, makes one disappear.
EveryVersionKept == live \subseteq UNION {TextsOf(e) : e \in Entries}

\* What a finished re-encryption leaves an entry with: if it is below the
\* directory and this device could open it, what it said, to exactly the
\* recipients resolved for it; else what it was, and only reencrypt_readable
\* passes over one below the directory.
Settled(e, c) ==
  LET was == call.before[e]
  IN  IF Opens(was) /\ call.sub \in Ancestors(Home[e])
      THEN c = <<Text(was), Readers(e)>>
      ELSE /\ c = was
           /\ call.op = "reencrypt" /\ was # Absent => call.sub \notin Ancestors(Home[e])

\* A re-encryption that returned Ok has settled every entry of the store.
ReencryptedExactly ==
  [][call.op \in {"reencrypt", "readable"} /\ call'.op = "none" /\ call'.ok =>
       \A e \in Entries : Settled(e, files'[e])]_vars

\* A key taken off every recipients file opens no entry any more once the whole
\* store has been re-encrypted, whatever is saved, moved and re-encrypted
\* afterwards, until somebody lists it again.
RemovedKeysStayOut ==
  \A e \in Entries : files[e] # Absent => files[e][2] \cap out = {}
=============================================================================

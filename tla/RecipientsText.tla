----------------------------- MODULE RecipientsText -----------------------------
(***************************************************************************)
(* A store's recipients files as text: `.age-recipients`                    *)
(* (crates/pass-core/src/recipients.rs) and pass's `.gpg-id` (store.rs).    *)
(* A line is <<key, commented>>: a key or nothing, and whether a # comment  *)
(* follows.  Keys compare after trimming.                                   *)
(***************************************************************************)
EXTENDS LineText

NoKey == ""
BlankLine == <<NoKey, FALSE>>

\* In .age-recipients a # only makes a comment at the start of a line.
RecipientsIn(t) ==
  LET Listed(i) == /\ t[i].body[1] # NoKey
                   /\ \A j \in 1..(i - 1) : t[j].body # t[i].body
  IN  Picked(Bodies(t), {i \in DOMAIN t : Listed(i)})

\* Mutant: a file that already lists somebody is left as it is.
AddIfNone(t, keys) ==
  IF RecipientsIn(t) # <<>> THEN t
  ELSE WithLines(t, keys)

AddRecipients(t, keys) ==
  LET New(i) == /\ keys[i][1] # NoKey /\ ~Contains(RecipientsIn(t), keys[i])
                /\ \A j \in 1..(i - 1) : keys[j] # keys[i]
      new == Picked(keys, {i \in DOMAIN keys : New(i)})
  IN  IF new = <<>> THEN t ELSE WithLines(t, new)

\* Mutant: only the first of two equal lines goes.
RemoveFirstRecipient(t, k) == Without(t, SelectInSeq(t, LAMBDA line : line.body = k))

RemoveRecipient(t, k) ==
  Only(t, {line \in ToSet(t) : line.body # k \/ k = BlankLine})

\* Everything after a # goes, and so does a last line without a newline.
ParseGpgIdFile(t) ==
  LET ids == Picked(t, {i \in DOMAIN t : t[i].end # "none" /\ t[i].body[1] # NoKey})
  IN  [i \in DOMAIN ids |-> ids[i].body[1]]
=============================================================================

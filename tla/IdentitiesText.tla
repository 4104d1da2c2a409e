----------------------------- MODULE IdentitiesText -----------------------------
(***************************************************************************)
(* The age identities file as text (crates/pass-core/src/identities.rs) and *)
(* as the engine loads it (crates/pass-ffi/src/age_engine.rs).  A line is   *)
(* <<kind, name>>: nothing, a comment (a public key hint or any other), a   *)
(* line that starts like a secret key, or anything else.                    *)
(***************************************************************************)
EXTENDS LineText

CONSTANTS
  Canon,    \* the upper-case spelling of each secret key line's name
  Valid     \* the upper-case spellings that are keys; the rest are damaged

Void == <<"void", "">>
Comments == {"hint", "note"}

Block(comments, secret) == [comments |-> comments, secret |-> secret]

\* Comments go with the next secret key unless a blank or foreign line comes
\* between.
ParseIdentities(t) ==
  LET kind(i) == t[i].body[1]
      secrets == Only([i \in DOMAIN t |-> i], {i \in DOMAIN t : kind(i) = "secret"})
      before(i) == Max({0} \union {j \in 1..(i - 1) : kind(j) \notin Comments})
      comments(i) == [k \in 1..(i - 1 - before(i)) |-> t[before(i) + k].body]
  IN  [k \in DOMAIN secrets |-> Block(comments(secrets[k]), t[secrets[k]].body[2])]

EndsInBlankLine(t) == Len(t) > 1 /\ Last(t) = Line(Void, "lf")

\* Mutant: a block follows the last line directly.
NotSeparated(t) == Terminated(t)

Separated(t) ==
  IF t = <<>> \/ EndsInBlankLine(t) THEN t ELSE WithLine(t, Void)

Keys(t) == {Canon[b.secret] : b \in ToSet(ParseIdentities(t))}

\* Mutant: only an empty file takes what is imported.
MergeIntoNothing(existing, imported) == IF existing = <<>> THEN imported ELSE existing

MergeIdentities(existing, imported) ==
  LET Merge(u, b) ==
        IF Canon[b.secret] \in Keys(u) THEN u
        ELSE WithLines(Separated(u), Append(b.comments, <<"secret", b.secret>>))
      blocks == ParseIdentities(imported)
      merged[i \in 0..Len(blocks)] ==
        IF i = 0 THEN existing ELSE Merge(merged[i - 1], blocks[i])
  IN  Terminated(merged[Len(blocks)])

\* Mutant: reading stops at the first line that is no key.
UpToDamaged(t) ==
  LET secrets == SelectSeq(t, LAMBDA line : line.body[1] = "secret")
      bad == SelectInSeq(secrets, LAMBDA line : Canon[line.body[2]] \notin Valid)
  IN  [i \in 1..(IF bad = 0 THEN Len(secrets) ELSE bad - 1) |-> Canon[secrets[i].body[2]]]

\* Which secret keys the engine holds, in order; it skips what it cannot read.
FromIdentitiesText(t) ==
  LET secrets == SelectSeq(t, LAMBDA line : line.body[1] = "secret"
                                              /\ Canon[line.body[2]] \in Valid)
  IN  [i \in DOMAIN secrets |-> Canon[secrets[i].body[2]]]

\* The public keys of the file, each once.
AgeIdentitiesRecipients(t) == Distinct(FromIdentitiesText(t))
=============================================================================

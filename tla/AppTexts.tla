------------------------------- MODULE AppTexts -------------------------------
(***************************************************************************)
(* The four texts the app edits in place, each through any sequence of the  *)
(* edits the FFI offers: an entry (EntryText), the recipients file          *)
(* (RecipientsText), the identities file (IdentitiesText) and the known     *)
(* hosts (KnownHosts).  A behaviour is the life of one of them, `kind`;     *)
(* `last` remembers the latest edit and its arguments for the properties.   *)
(***************************************************************************)
EXTENDS EntryText, RecipientsText, IdentitiesText, KnownHosts

CONSTANTS
  InitialTexts,   \* kind -> the texts a behaviour may start from
  FieldKeys, FieldValues, Passwords, Uris, PasskeyValues,   \* of entries
  RecipientKeys, ImportedTexts, Hosts, HostKeys,            \* of the others
  MaxEdits

\* Everything else is not edited.
Edited == {"entry", "recipients", "identities", "hosts"}

\* A line that is a pin names its hosts, a type and a key.
HasPins(t) ==
  \A i \in DOMAIN t :
    LET body == t[i].body
    IN  body[1] = "pin" => /\ body[2] \in Seq(ToSet(body[2]))
                           /\ body = Pin(body[2], body[3], body[4])

\* No field has a key that marks the lines which are no field; what is pinned is
\* a plain name and a key that was presented.
ASSUME TextsAssumption ==
  /\ \A of \in DOMAIN InitialTexts \cap Edited :
       \A t \in InitialTexts[of] : IsText(t) /\ (of = "hosts" => HasPins(t))
  /\ \A t \in ImportedTexts : IsText(t)
  /\ FieldKeys \cap {"", UriKey} = {}
  /\ Hosts \cap Hashed = {}
  /\ \A k \in HostKeys : k = HostKey(k.type, k.key) /\ k.key # Garbled

VARIABLES kind, text, last, edits
vars == <<kind, text, last, edits>>

Init ==
  /\ kind \in DOMAIN InitialTexts
  /\ text \in InitialTexts[kind]
  /\ last = <<"none">>
  /\ edits = 0

Edit(of, op, new) ==
  /\ kind = of
  /\ edits < MaxEdits
  /\ text' = new
  /\ last' = op
  /\ edits' = edits + 1
  /\ UNCHANGED kind

EntryEdit ==
  \/ \E p \in Passwords : Edit("entry", <<"password", p>>, SetPassword(text, p))
  \/ \E u \in Uris : Edit("entry", <<"otpauth", u>>, SetOtpauth(text, u))
  \/ Edit("entry", <<"no otpauth">>, RemoveOtpauth(text))
  \/ \E k \in FieldKeys, v \in FieldValues :
       Edit("entry", <<"field", k, v>>, SetField(text, k, v))
  \/ \E v \in PasskeyValues :
       \/ Edit("entry", <<"passkey", v>>, EntryAddPasskey(text, v))
       \/ Edit("entry", <<"no passkey", Credential[v]>>,
               EntryRemovePasskey(text, Credential[v]))

RecipientsEdit ==
  \E k \in RecipientKeys :
    \/ \E j \in RecipientKeys :
         Edit("recipients", <<"add", <<k, j>>>>, AddRecipients(text, <<k, j>>))
    \/ Edit("recipients", <<"remove", k>>, RemoveRecipient(text, k))

IdentitiesEdit ==
  \E imported \in ImportedTexts :
    Edit("identities", <<"merge", imported>>, MergeIdentities(text, imported))

HostsEdit ==
  \E h \in Hosts :
    \/ \E k \in HostKeys : Edit("hosts", <<"pin", h, k>>, KnownHostsAdd(text, h, k))
    \/ Edit("hosts", <<"forget", h>>, KnownHostsRemove(text, h))

Done == (kind \notin Edited \/ edits = MaxEdits) /\ UNCHANGED vars

Next == EntryEdit \/ RecipientsEdit \/ IdentitiesEdit \/ HostsEdit \/ Done

Spec == Init /\ [][Next]_vars

-----------------------------------------------------------------------------
\* No sequence of edits joins two lines: only the last line may lack its
\* newline (entry.rs set_field, set_otpauth and append_field, recipients.rs
\* add_recipients and identities.rs merge_identities supply it).
NeverGlued == kind \in Edited => Lines(text)

\* The one line an edit of an entry rewrites, adds or takes away.
Rewrites(t, u, i) == Len(u) = Len(t) /\ RemoveAt(Bodies(u), i) = RemoveAt(Bodies(t), i)
Adds(t, u) == Len(u) = Len(t) + 1 /\ Front(Bodies(u)) = Bodies(t)
Drops(t, u, i) == Bodies(u) = RemoveAt(Bodies(t), i)

\* An edit of an entry touches one line, and the password line only when the
\* password is what is set or the URI to be replaced is on it: no edit of a
\* field, a URI or a passkey promotes another line to password.
OneLineTouched ==
  [][kind = "entry" /\ text # <<>> =>
       \/ text' = text
       \/ Adds(text, text')
       \/ \E i \in 2..Len(text) : Rewrites(text, text', i) \/ Drops(text, text', i)
       \/ /\ last'[1] = "password" \/ (last'[1] = "otpauth" /\ IsOtpOnly(text))
          /\ Rewrites(text, text', 1) \/ (Len(text) = 1 /\ text' = <<>>)]_vars

FieldValue(t, k) ==
  LET i == FieldAt(t, k, Values(t)) IN IF i = 0 THEN <<>> ELSE t[i].body.value

Count(t) == Len(Picked(Bodies(t), {i \in DOMAIN t : t[i].body.key = UriKey}))

ReadsBack(t, u, op) ==
  CASE op[1] = "field" /\ t # <<>> -> FieldValue(u, op[2]) = op[3]
    [] op[1] = "otpauth" -> Otpauth(u) = op[2]
    [] op[1] = "no otpauth" -> Count(u) = Count(t) - (IF UriAt(t) > 1 THEN 1 ELSE 0)
    [] op[1] = "passkey" ->
         /\ EntryPasskeys(u) = EntryPasskeys(t) \o Only(<<op[2]>>, DOMAIN Credential)
         /\ Password(u)[1] = Password(t)[1]
    [] op[1] = "no passkey" ->
         LET at == SelectInSeq(EntryPasskeys(t), LAMBDA v : Credential[v] = op[2])
         IN  EntryPasskeys(u) = Without(EntryPasskeys(t), at)
    [] OTHER -> TRUE

\* What was set is what the readers find afterwards, through whatever lines
\* the entry had before: set_field, set_otpauth, entry_add_passkey and
\* entry_remove_passkey against fields, otpauth and entry_passkeys.
EditReadsBack == [][kind = "entry" => ReadsBack(text, text', last')]_vars

\* The list a recipients file stands for follows the edits: a key added is at
\* the end, one removed is on no line, the others keep their order; and after
\* an addition pass reads the whole list, its last line included (recipients.rs,
\* store.rs parse_gpg_id_file).
RecipientsFollow ==
  [][kind = "recipients" =>
       LET before == RecipientsIn(text)  after == RecipientsIn(text')
           keys == IF last'[1] = "add" THEN last'[2] ELSE <<last'[2]>>
       IN  IF last'[1] = "add"
           THEN /\ ToSet(after) = ToSet(before) \union {k \in ToSet(keys) : k[1] # NoKey}
                /\ IsPrefix(before, after)
                /\ text' # text => ToSet(ParseGpgIdFile(text')) = {k[1] : k \in ToSet(after)}
           ELSE after = Only(before, ToSet(before) \ ToSet(keys))]_vars

\* Merging appends the imported identities the file lacks, each with its own
\* comments, and changes no identity that was there, not even by giving it or
\* a new one a comment left over at the end of the file; the engine can then
\* use exactly the keys it could and the imported ones, and a device lists
\* each of their public keys once (identities.rs merge_identities,
\* age_engine.rs from_identities_text, age_identities_recipients).
MergeKeepsKeys ==
  [][kind = "identities" =>
       LET before == ParseIdentities(text)  after == ParseIdentities(text')
       IN  /\ IsPrefix(before, after)
           /\ Keys(text') = Keys(text) \union Keys(last'[2])
           /\ \A i \in DOMAIN after \ DOMAIN before :
                /\ Contains(ParseIdentities(last'[2]), after[i])
                /\ \A j \in DOMAIN after \ {i} :
                     Canon[after[j].secret] # Canon[after[i].secret]
           /\ ToSet(FromIdentitiesText(text')) =
                ToSet(FromIdentitiesText(text)) \union ToSet(FromIdentitiesText(last'[2]))
           /\ IsPrefix(AgeIdentitiesRecipients(text), AgeIdentitiesRecipients(text'))]_vars

Pins(t) == KnownHostsList(t)

\* The pins follow the edits: pinning a key replaces the host's key of that
\* type and nothing else, forgetting a host takes all of its keys and no other
\* host's, also when one line names several hosts.
PinsFollow ==
  [][kind = "hosts" =>
       IF last'[1] = "pin"
       THEN Pins(text') =
              {p \in Pins(text) : p.host # last'[2] \/ p.key.type # last'[3].type}
                \union {KnownHost(last'[2], last'[3].type, last'[3].key)}
       ELSE Pins(text') = {p \in Pins(text) : p.host # last'[2]}]_vars

\* What entry.rs says of line endings: an edit never normalizes them.  The
\* code keeps them except on the line edited (doc_line_ends.cfg).
LineEndsKept ==
  [][kind = "entry" /\ Len(text') = Len(text) =>
       \A i \in DOMAIN text : text'[i].end = text[i].end]_vars
=============================================================================

-------------------------------- MODULE Custody --------------------------------
(***************************************************************************)
(* Who can read the store: devices that keep their secret keys to           *)
(* themselves, list their public keys in one shared recipients file and     *)
(* re-encrypt what they can open (crates/pass-core/src/recipients.rs,       *)
(* identities.rs, store.rs, backup.rs; crates/pass-ffi/src/age_engine.rs).  *)
(* A device may be lost and brought back from its backup.                   *)
(*                                                                         *)
(* The store is a flat passage store.  A sync is one step here (GitSync has *)
(* its steps): a file only one side changed is taken from that side, and    *)
(* the user picks a side for one that both changed.                         *)
(***************************************************************************)
EXTENDS RecipientsText, IdentitiesText, AgeEngine, Backup

CONSTANTS
  Devices, Names,
  First, Spare,        \* each device's first key, and the one it makes after a loss
  Owner, Lists,        \* who used the store first; what its recipients file may hold
  Random, Typed,       \* the recovery code's values; what is typed for it
  MaxTexts, MaxRemovals, MaxLosses

VARIABLES
  identities,          \* per device: the identities file
  tree, touched, stale,\* per device: its checkout, the files it changed since
                       \* its last sync, those the server changed since
  remote,              \* the files on the server
  backup,              \* per device: its backup file, if any
  condition,           \* per device: whole, lost, or brought back
  gone,                \* devices taken off the list
  texts, losses

custody == <<identities, tree, touched, stale, remote, backup, condition, gone, texts, losses>>

ListFile == ".age-recipients"
Files == Names \union {ListFile}

Public(secret) == <<secret, FALSE>>
Publics(t) ==
  LET secrets == AgeIdentitiesRecipients(t) IN [i \in DOMAIN secrets |-> Public(secrets[i])]
Own(d) == Publics(identities[d])
ListOn(files) == files[ListFile]

KeyLines(key) == <<Line(<<"hint", key>>, "lf"), Line(<<"secret", key>>, "lf")>>

NoBackup == <<"no backup">>

\* One device has used the store alone before the others cloned it.
Init ==
  /\ identities = [d \in Devices |-> KeyLines(First[d])]
  /\ \E list \in Lists :
       remote = [f \in Files |-> IF f = ListFile THEN list
                                 ELSE Sealed({Public(First[Owner])}, 0)]
  /\ tree = [d \in Devices |-> remote]
  /\ touched = [d \in Devices |-> {}]
  /\ stale = [d \in Devices |-> {}]
  /\ backup = [d \in Devices |-> NoBackup]
  /\ condition = [d \in Devices |-> "whole"]
  /\ gone = {}
  /\ texts = 0
  /\ losses = 0

-----------------------------------------------------------------------------
Put(d, f, content) ==
  /\ tree' = [tree EXCEPT ![d][f] = content]
  /\ touched' = [touched EXCEPT ![d] = @ \union {f}]

EncryptOn(d, text) == AdaptEncrypt(AgeEncrypt(Own(d), RecipientsIn(ListOn(tree[d])), text))

Opens(d, sealed) == AdaptDecrypt(AgeDecrypt(Own(d), sealed))[1] = "ok"

\* A device lists the keys of its identities file.
Join(d) ==
  /\ d \notin gone
  /\ \E own \in {Own(d)} : \E list \in {AddRecipients(ListOn(tree[d]), own)} :
       list # ListOn(tree[d]) /\ Put(d, ListFile, list)
  /\ UNCHANGED <<identities, stale, remote, backup, condition, gone, texts, losses>>

\* A device takes another one's key off the list.
TakeOff(d, e) ==
  /\ d # e /\ Cardinality(gone) < MaxRemovals
  /\ Contains(RecipientsIn(ListOn(tree[d])), Public(First[e]))
  /\ Put(d, ListFile, RemoveRecipient(ListOn(tree[d]), Public(First[e])))
  /\ gone' = gone \union {e}
  /\ UNCHANGED <<identities, stale, remote, backup, condition, texts, losses>>

\* An edit reads the entry first.
Save(d, n) ==
  /\ texts < MaxTexts
  /\ Opens(d, tree[d][n])
  /\ LET made == EncryptOn(d, texts + 1) IN
     /\ made[1] = "ok"
     /\ Put(d, n, made[2])
  /\ texts' = texts + 1
  /\ UNCHANGED <<identities, stale, remote, backup, condition, gone, losses>>

\* Mutant: an entry every listed key can already open is left alone.
RewrittenIfMissing(d, sealed) ==
  IF ToSet(RecipientsIn(ListOn(tree[d]))) \subseteq sealed.to THEN sealed
  ELSE EncryptOn(d, sealed.text)[2]

Rewritten(d, sealed) == EncryptOn(d, sealed.text)[2]

\* reencrypt_readable: what the device cannot open stays and is counted.
Reencrypt(d) ==
  \E open \in {{n \in Names : Opens(d, tree[d][n])}} :
  /\ open # {} /\ EncryptOn(d, 0)[1] = "ok"
  /\ tree' = [tree EXCEPT ![d] = [f \in Files |-> IF f \in open THEN Rewritten(d, @[f]) ELSE @[f]]]
  /\ touched' = [touched EXCEPT ![d] = @ \union open]
  /\ UNCHANGED <<identities, stale, remote, backup, condition, gone, texts, losses>>

\* Fetch, settle, push.
Sync(d) ==
  \E mine \in SUBSET (touched[d] \intersect stale[d]) :
    LET kept == (touched[d] \ stale[d]) \union mine
        merged == [f \in Files |-> IF f \in kept THEN tree[d][f] ELSE remote[f]]
    IN  /\ remote' = merged
        /\ tree' = [tree EXCEPT ![d] = merged]
        /\ touched' = [touched EXCEPT ![d] = {}]
        /\ stale' = [e \in Devices |-> IF e = d THEN {} ELSE stale[e] \union kept]
        /\ UNCHANGED <<identities, backup, condition, gone, texts, losses>>

-----------------------------------------------------------------------------
IdentitiesSection == "age-identities"

\* A section's data is the text's lines.
Pieces(t) == [i \in DOMAIN t |-> <<"line", t[i]>>]
LinesOf(data) == [i \in DOMAIN data |-> data[i][2]]

BackUp(t) ==
  AgeEncryptWithPassphrase(
    BackupEncode(<<Section(IdentitiesSection, "", Pieces(t))>>), RecoveryCode(Random))

\* The device, and what it had not pushed, but not the backup the user made
\* of it.  The one in its place clones the store and may make a key.
Lose(d) ==
  /\ condition[d] = "whole" /\ losses < MaxLosses
  /\ \E t \in {<<>>, KeyLines(Spare[d])} : identities' = [identities EXCEPT ![d] = t]
  /\ backup' = [backup EXCEPT ![d] = <<"backup", BackUp(identities[d])>>]
  /\ tree' = [tree EXCEPT ![d] = remote]
  /\ touched' = [touched EXCEPT ![d] = {}]
  /\ stale' = [stale EXCEPT ![d] = {}]
  /\ condition' = [condition EXCEPT ![d] = "lost"]
  /\ losses' = losses + 1
  /\ UNCHANGED <<remote, gone, texts>>

\* The typed code is put in its canonical form, the file opened with it and
\* the container decoded; the sections, or nothing when one step fails.
Recovered(file, typed) ==
  LET code == NormalizeRecoveryCode(typed)
      opened == IF code[1] = "ok" THEN DecryptIdentitiesFile(file, code[2]) ELSE code
      decoded == IF opened[1] = "ok" THEN BackupDecode(opened[2]) ELSE opened
  IN  IF decoded[1] = "ok" THEN {decoded[2]} ELSE {}

WithSections(t, sections) ==
  FoldLeft(LAMBDA u, s : IF s.kind = IdentitiesSection THEN MergeIdentities(u, LinesOf(s.data))
                         ELSE u, t, sections)

Restore(d) ==
  /\ condition[d] = "lost"
  /\ \E sections \in UNION {Recovered(backup[d][2], typed) : typed \in Typed} :
       \E merged \in {WithSections(identities[d], sections)} :
         identities' = [identities EXCEPT ![d] = merged]
  /\ condition' = [condition EXCEPT ![d] = "brought back"]
  /\ UNCHANGED <<tree, touched, stale, remote, backup, gone, texts, losses>>

Next == \E d \in Devices :
  \/ Join(d) \/ \E e \in Devices : TakeOff(d, e)
  \/ \E n \in Names : Save(d, n)
  \/ Reencrypt(d) \/ Sync(d) \/ Lose(d) \/ Restore(d)

Spec == Init /\ [][Next]_custody

(* Each app keeps listing its key, re-encrypting and syncing.  Nothing in   *)
(* the core does that by itself.                                            *)
FairSpec ==
  /\ Spec
  /\ \A d \in Devices :
       WF_custody(Join(d)) /\ WF_custody(Reencrypt(d)) /\ WF_custody(Sync(d))

-----------------------------------------------------------------------------
(* Texts keep whole lines; what a device has not touched and the server has *)
(* not changed since is what the server has.                                *)
TypeOK ==
  /\ \A d \in Devices :
       /\ Lines(identities[d]) /\ Lines(ListOn(tree[d]))
       /\ \A f \in Files \ (touched[d] \union stale[d]) : tree[d][f] = remote[f]
       /\ condition[d] \in {"whole", "lost", "brought back"}
  /\ texts \in 0..MaxTexts /\ losses \in 0..MaxLosses

(* A backup brings a lost device's keys back and takes none away that the   *)
(* new one made (BACKUP.md: merged, "never replacing what is there").       *)
RestoreBringsBack ==
  [][\A d \in Devices :
       condition[d] = "lost" /\ condition'[d] = "brought back" =>
         ToSet(FromIdentitiesText(identities'[d]))
           = ToSet(FromIdentitiesText(identities[d])) \union {First[d]}]_custody

AllRestored == <>[](\A d \in Devices : condition[d] # "lost")

(* Unless a device stays lost, the recipients file says in the end who      *)
(* opens what: every entry is for exactly the keys listed, whichever lists  *)
(* and entries met in a conflict, whoever saved under an old list and       *)
(* whoever was taken off.                                                   *)
ListDecides ==
  AllRestored =>
    <>[](\A n \in Names : remote[n].to = ToSet(RecipientsIn(ListOn(remote))))

(* Unless a device stays lost, every device not taken off reads every entry *)
(* in the end (recipients.rs: "whatever any of them saves is readable by    *)
(* all of them").                                                           *)
EveryoneReads ==
  AllRestored => <>[](\A d \in Devices \ gone, n \in Names : Opens(d, remote[n]))
=============================================================================

# PassPonyCore in TLA+

TLA+ models of the shared core of PassPony: the git engine that several devices
sync a password store through, the store on one device, the texts and values the
app keeps in it, and what becomes of keys, codes, passkeys and host keys when
devices are killed, lost or out of date. The models are checked with TLC on small
instances; the safety properties of the git engine, the store, the transport and
of what is told outside, and most of those of the texts, are proved with TLAPS for
every value of their constants.

Paths are relative to the repository; `git.rs`, `store.rs` and so on are in
`crates/pass-core/src/`, the engines and `*_api.rs` in `crates/pass-ffi/src/`.

## 1. Inventory

### Components that keep state

| component | state | operations | interacts with |
|---|---|---|---|
| git engine, `git.rs` (`GitStore`), exported as `GitSync` in `store_api.rs` behind a mutex | repository: `refs/heads/main`, `refs/remotes/origin/main`, HEAD, index, `.git/rebase-merge`; working tree; SSH settings | `init`, `open`, `clone_with_ssh`, `commit_paths`, `commit_all`, `status`, `log`, `sync` (fetch, fast-forward or rebase), `push`, `set_remote`, `set_ssh` | the server; the app's `ConflictResolver`, called back in the middle of a rebase; the store's files |
| store, `store.rs` (`Store`), exported as `PassStore` without a lock | entry files, recipients files, directories | `write_entry`, `remove_entry`, `move_entry`, `copy_entry` (not exported), `reencrypt_subtree`, `reencrypt_readable`, `set_root_recipients`, and readers | the app's `CryptoBackend`, called back in the middle of every write; the same directory as the git engine |
| recipients file, `recipients.rs` | a text file in the store, shared through git | `recipients_in`, `add_recipients`, `remove_recipient` | decides what `store.rs` encrypts to |
| HOTP, `hotp.rs` | the counter in the entry's `otpauth://` line | `next`, `advance_entry` | entry codec, then save, commit, sync |
| passkeys, `webauthn.rs`, `passkey.rs` | `passkey:` lines of an entry; the credential the site keeps | `register`, `assert`, `entry_add_passkey`, `entry_remove_passkey` | entry codec, then save, commit, sync; the site |
| identities and backups, `identities.rs`, `backup.rs`, `age_engine.rs` | the device's identities file; a backup file under a recovery code | `merge_identities`, `encode`, `decode`, `age_encrypt_with_passphrase` | decide what the device can open |
| known hosts, `ssh.rs` | OpenSSH text kept by the app | check, add, remove, list | transport callbacks |
| transport callbacks, `git.rs` 651-751 | per connection: key offered, the refusal to report | credentials, certificate check | libgit2, known hosts |

### Components without state

TOTP (`totp.rs`), password generator (`generate.rs`), migration import
(`migration.rs`), the OpenPGP engine once it is made (`pgp_engine.rs`), SSH keys
and URLs (`ssh.rs`), the texts' codecs (`entry.rs`, `recipients.rs`,
`identities.rs`, the known hosts of `ssh.rs`) and the FFI conversions
(`keys_otp_api.rs`, `passkey_api.rs`, `ssh_api.rs`, `lib.rs` of pass-ffi).

### What is hard, and what makes it correct

- **Several devices, one branch.** Each commits offline, rebases on what it
  fetched and pushes with a compare-and-swap the server may refuse, or accept
  and then lose the reply. Correct means: an edit is published once, nobody's
  published commit disappears, and once the edits stop all devices agree.
- **A rebase that stops to ask.** `sync` leaves the repository with a detached
  HEAD and possibly an unmerged index while the user decides; the app may be
  killed there, and an error may end the call there. Correct means: no version
  of an entry is lost except one the user gave up.
- **Two objects, one directory.** `PassStore` writes files without a lock while
  `GitSync` checks files out by force. Correct means: a save that was committed
  stays saved, and a commit contains what it is said to contain.
- **Calls of many steps.** A save, a move or a re-encryption calls the user's
  keys in the middle and may fail, or be killed, anywhere. Correct means: no
  version disappears, and a re-encryption that answers Ok did all of it.
- **Recipients.** Which keys an entry is encrypted to depends on the recipients
  file a device had when it wrote it, and the file itself is synced and
  conflicts. Correct means: in the end the list decides, and everybody on it reads.
- **Told outside.** A code is shown and a site is answered outside the store,
  and nothing takes that back. Correct means: whatever was told is saved first,
  on every device of that history, after any kill.
- **Keys that exist on one device only.** A lost device comes back from a backup
  onto a device that has made a key since. Correct means: merging loses neither.
- **Callbacks of a connection.** Host key and credentials are checked with the
  settings the handle was last given, while dialogs are open. Correct means: the
  key goes only to a host as the user last agreed to it.
- **Boundaries of pure code.** Final newlines, counters at their maximum, cut
  exports and backups, escapes, check characters, rejection sampling.

`PROJECT.json` lists each of these at its line under `hazards`.

## 2. Modules

| module | models | how |
|---|---|---|
| `GitTree` | trees, histories, the conflict and its resolution (`rebase_onto`'s loop, `conflict_sibling`) | operators only, shared by the next three |
| `RemoteLog` | the abstract specification: one log that only grows, a queue of unpublished edits per device | `Enqueue`, `Publish`, `Withdraw` |
| `GitSync` | `GitStore` on several devices and the server | one action per step between two callbacks, transfers or kills; refines `RemoteLog` through `Log` |
| `Workdir` | one device's branch, HEAD, index and files between the steps of a call | one action per step of a save, a commit, a fast-forward and a rebase; errors and kills between any two |
| `Store` | `PassStore` on one device | one action per read-and-encrypt, rename, copy and removal |
| `LineText`, `EntryText`, `RecipientsText`, `IdentitiesText`, `KnownHosts` | the four texts the core edits by hand | operators on sequences of lines with their ends |
| `AppTexts` | each of these texts through any sequence of the edits the FFI offers | one action per edit |
| `TextCodec`, `Otp`, `Migration`, `Backup`, `Generate`, `SshRemote`, `WebAuthn`, `PgpEngine`, `AgeEngine` | the pure code: encodings, otpauth URIs and codes, protobuf exports, backup container and recovery code, generator, remote URLs and key files, WebAuthn messages, the two engines | operators only |
| `AppValues` | `AppTexts`, and behaviours that are one value and what the code makes of it | extends `AppTexts`; properties over bounded sets of values |
| `SecondFactors` | HOTP codes and passkeys of one entry on several devices, and the sites | compute, write, commit, tell, push and take as actions of their own; composes `EntryText`, `Otp`, `WebAuthn` |
| `Custody` | who can read the store: recipients, identities, re-encryption, loss and restore | composes `RecipientsText`, `IdentitiesText`, `AgeEngine`, `Backup` |
| `Transport` | the callbacks of one connection, the handle's settings, the dialogs | composes `SshRemote`, `KnownHosts` |
| `GitTree_proofs`, `GitSync_proofs`, `Workdir_proofs`, `Store_proofs`, `LineText_proofs`, `Transport_proofs`, `AppTexts_proofs`, `SecondFactors_proofs` | | theorems, and the lemmas they rest on (section 4) |
| `MCGitSync`, `MCStore`, `MCAppValues`, `MCSecondFactors`, `MCCustody`, `MCTransport` | | definitions for TLC |

### GitSync and the code

A *commit* is its edit number, its author and its tree; a replayed commit keeps
edit and author, as libgit2 keeps author and message. A *blob* is the edit that
wrote it and the path it was written at: ciphertexts are fresh each time, so two
blobs are equal only if one is a copy. `local`, `tracking` and `remote` are the
histories the references name. `detached` is HEAD during a rebase. The rebase's
todo list is `local` from `step` on.

| code | action |
|---|---|
| `init`, `clone_with_ssh` | `InitStore`, `Clone` |
| a PassStore edit and `commit_paths` | `Save`, `Remove`, `Transfer`, `Reencrypt` |
| `sync`: fetch and the comparison of HEAD with the new tracking reference | `SyncUpToDate`, `SyncFastForward`, `SyncDiverged` |
| `rebase_onto`: a commit that applies | `ReplayClean` |
| a commit that conflicts; the resolver is called; the choices are applied; they fail | `AskResolver`, `Answer`, `ApplyChoices`, `ApplyFails` |
| `rebase.finish` | `FinishRebase` |
| `push`: the client's check; the server's answer | `PushStart`, `PushNothing`; `PushAccepted`, `PushRejected`, `PushBroken` |
| the app is killed; somebody else force-pushes | `Crash`, `Rewrite` |

What libgit2 does is modelled from how `git.rs` uses it: the three-way merge of
one commit, the checkout, and that a reference update the server declines is
reported per reference and not as an error of `push`.

A kill during the resolver call, or an error after it, leaves HEAD detached. The
next `sync` looks for the tracking reference of a branch called `HEAD`, finds none
and answers UpToDate. An edit clears the conflict of the paths it stages: where no
other is left it is committed on top of the detached HEAD, else `write_tree`
refuses the index, and the edit is staged but not committed (`StageTree`; `staged`
is the tree of the stopped merge with such edits). What a failing answer had
written before it failed is left to `Workdir`.

### Workdir and the code

`branch`, `detached`, `index`, `unmerged` and `files` are one device's references,
index and directory. Edits and syncs interleave freely but for the mutex that
`commit_paths` takes.

| code | action |
|---|---|
| `write_entry`: the temporary file, its rename; `remove_entry` | `BeginSave`, `EndSave`; `RemoveEntry` |
| `commit_paths`; it writes the index and fails | `CommitPaths`; `CommitFails` |
| `sync`: the dirty check; UpToDate; `set_target` and the forced checkout | `BeginSync`; `SyncUpToDate`; `MoveBranch`, `Checkout` |
| `rebase_onto`: the rebase opens, or libgit2 refuses it | `OpenRebase`, `RebaseRefused` |
| `rebase.next`; the answers, any of the three for each path; `rebase.commit` | `NextCommit`; `Answer`; `CommitReplayed` |
| `rebase.finish` and the checkout after it | `FinishRebase`, `Checkout` |
| an error of `rebase.next` or `rebase.commit`; of `add_path` after a choice | `ReplayRefused`; `AnswerFails` |
| a checkout or a reference update fails; the app is killed or the resolver throws | `SyncFails`; `Crash` |

Nothing is rolled back where a call stops: the next one finds HEAD detached, the
index as last written, the files of a checkout that got anywhere. Three history
variables serve the properties: `overlap` (an edit and a sync ran at the same time,
which nothing in the core prevents and the app has to), `interrupted` (a call was
killed or failed half way) and `dropped` (the versions that answers cost: the other
side was chosen, or the copy of another entry took the name).

### Store and the code

An entry's file is a *version* and the keys that open it. `staged` is the
temporary file of `atomic_write`; between it and its rename the app may be
killed or the write may fail. `call` is the running call with what is left to
do. `Damaged` is what `fs::copy` leaves when it stops after truncating. `live`
and `out` are history variables: the versions nobody gave up, and the keys a
complete re-encryption shut out. Between calls a sync may check out another
device's version, removal or recipients file. The order of the keys in a
recipients file is abstracted, and so is its text, which `RecipientsText` has.

### The texts and the code

A line is its body and its end (LF, CRLF, none). A body keeps what the code
tells apart: of an entry a key and a value, where `otpauth` URIs and lines that
are no field have keys of their own; of a recipients file a key, or a comment; of
an identities file a secret, a public-key hint, another comment or a blank; of
known hosts a pin with several names, a comment or a blank. So `SetField` is
`set_field` on bytes with the scan for the colon taken as done. `AppTexts`
applies the edits one after another; `last` keeps the edit for the properties.

### The values and the code

A secret is a sequence of bytes and its base32 or base64 the groups of bits the
code's accumulator gives out; an escape is a percent sign and what follows, so
that a label may hold one. A URI is its kind, label and list of parameters, in
any order, repeated or damaged. An export is bytes and `Migration` reads them
field by field. HMAC, the age and OpenPGP formats, the signature of a passkey
and JSON are records of what goes into them: equal only for equal inputs.

An OpenPGP key is a sequence of components, each with its purpose, revocation,
bindings (what they allow, when they were made and until when) and lock (open,
under a passphrase, a stub, absent). The clock is `Now`.

### SecondFactors and the code

| code | action |
|---|---|
| `entry_hotp_next`, `passkey_register`, `entry_remove_passkey`, `entry_set_password` on the file's content | `AskForCode`, `CreatePasskey`, `DeletePasskey`, `ChangePassword` |
| `PassStore::write_entry`, `GitSync::commit_paths` | `Write`, `Commit` |
| the app shows the code; `webauthn_registration_json` goes to the site | `ShowCode`, `AnswerSite` |
| `push`; `sync` with the conflict choices for one side | `Push`, `Take` |
| the app is killed | `Crash` |

The order compute, write, commit, tell is the one `keys_otp_api.rs` 97-101 asks
of the app for codes, and is taken for passkeys. `known` is what was told in the
history a text belongs to; a history given up in a conflict takes it along.

### Custody and the code

`Join` and `TakeOff` are `recipients_add` and `recipients_remove` with
`set_root_recipients`; `Save` and `Reencrypt` are `write_entry` and
`reencrypt_readable`; `Sync` is `sync` and `push` in one step, taking either
side of a file both changed. `Lose` replaces a device and its key, `Restore`
decodes the backup under what the user typed and merges it.

### Transport and the code

`Start` sets the callbacks up with the handle's settings (`git.rs` 661-671);
`ShowHostKey` calls `certificate_check`, `AskUsername` and `AskCredentials` the
credentials callback; `ServerAnswers` and `Break` end the operation through
`transport_result` and the FFI's `GitError::from`. `Confirm`, `Forget`, `MakeKey`
change what the app keeps; only `SetSsh` (and `Restart`) hands it to the handle.
`Rotate`, `Authorise` and which key type or method a server picks are external.

## 3. Runs

Passing:

| run | shows |
|---|---|
| `sync_safety` | `TypeOK`; what is not yet published is the device's own work (`ForeignCommitsArePublished`); a completed rebase drops no version that nobody gave up (`EveryVersionSurvives`) |
| `sync_refines_log` | `GitSync` implements `RemoteLog`; no edit is published twice (`PublishedOnce`) |
| `sync_converges` | the devices end with the server's history (`Convergence`), through a kill, a lost or declined push and somebody else's force-push; through PassPony alone that history never shrinks (`NeverForcePushes`) |
| `workdir` | a commit changes only its path, however edits and syncs interleave, until a call stops half way (`CommitsOnlyItsPaths`); if edits and syncs are kept apart, a committed save stays in the history of the branch, or of the HEAD a stopped rebase left, through fast-forwards, rebases, errors and kills at any step, unless an answer to the resolver cost that version (`SavedSurvives`); then too, until a call is killed or returns an error half way, calls leave HEAD on the branch and a clean tree (`CleanBetweenCalls`) |
| `store` | in passage and pass stores: no failure or kill of a call loses a version (`EveryVersionKept`); a re-encryption that answers Ok did exactly its job (`ReencryptedExactly`); a removed key stays out (`RemovedKeysStayOut`) |
| `app_values` | after any two edits of any text of up to three lines: no two lines are joined (`NeverGlued`), an edit of an entry touches one line and never makes a new password (`OneLineTouched`), what was set is what the readers find (`EditReadsBack`), the list, the keys and the pins follow the edits (`RecipientsFollow`, `MergeKeepsKeys`, `PinsFollow`). For every value of the bounded sets: what is stored reads back as meant (`StoredReadsBack`: base32 and base64, percent escapes, CBOR lengths, otpauth forms, key files, names of pins); codes move on when the app says so (`CodesMoveOn`); exports are read whole (`ExportImported`); backups restore whole or not at all and no typo passes (`BackupsRestore`); the generator ends and is fair (`DrawsAreSound`); an open OpenPGP key reads what is encrypted to it and lock states are true (`KeysOpenAsReported`); encryption leaves no recipient out, and reaches every live subkey of a recipient's key and no revoked, expired or otherwise purposed one, with the primary only where no subkey lives (`NeverNarrowed`) |
| `factors` | nothing told outside is missing from the entry (`ToldIsSaved`); no code is shown twice in one history (`CodesShownOnce`); a registration is accepted at every later sign-in on every device, and answers no other site (`SignInAccepted`) |
| `custody` | a restore brings the old key back and keeps the new one (`RestoreBringsBack`); in the end every entry is for exactly the keys listed (`ListDecides`) and every device not taken off reads every entry (`EveryoneReads`) |
| `transport` | the app's key is offered only under the host key the user last agreed to (`OfferedToAgreedHost`); each refusal reported has its cause (`CauseIsReported`); a remote that works is reached again and again (`Connects`) |

Refuting, each a statement of the repository the code does not keep (quoted in
`PROJECT.json`, `findings`):

| run | statement | what happens |
|---|---|---|
| `doc_keep_both` | keeping both loses nothing | `<name>.conflict` is written over what is there |
| `doc_badge` | unpushed work is never hidden | a declined update counts as pushed |
| `doc_mutex` | GitSync is safe to hold alongside PassStore | a file saved after the dirty check is overwritten |

### Further disagreements

These have a property and a configuration of their own, which TLC refutes in the
same way, and are not listed as runs:

| configuration (module, property) | statement | what happens |
|---|---|---|
| `doc_chosen_side.cfg` (`MCGitSync`, `ChosenSideWins`) | the chosen side wins (`git.rs` 161-163) | choosing a deletion keeps the other side's file |
| `doc_partial_sync.cfg` (`MCGitSync`, `PartialSyncNeverPersisted`) | a sync that does not complete leaves everything as before (`docs/conflict-ux.md` 42-43) | an error inside the loop leaves HEAD detached and the index unmerged |
| `doc_commit_paths.cfg` (`Workdir`, `StagesGivenPaths`) | a commit contains the given paths (`git.rs` 315-316) | what an earlier call had staged when it was killed or failed is committed too; a kill between branch and checkout makes the next commit revert others |
| `doc_self_move.cfg` (`MCStore`, `EveryVersionKept`) | a move is a plain rename (`store.rs` 344-345) | a move onto itself destroys the entry |
| `doc_line_ends.cfg` (`MCAppValues`, `LineEndsKept`) | line endings are never normalized (`entry.rs` 8-10) | setting a field or the password replaces the bytes up to the LF, so an edited CRLF line ends in LF |

These have none, since the model shows them only by what it has to leave out:

- the resolver is asked again about a path when a later local commit conflicts
  on it (`git.rs` 423-424 says once per path);
- a force-push upstream is rebased onto and not detected (`docs/conflict-ux.md`
  60-62; its coverage map leaves the detection to later work);
- a kill between the temporary file of a save and its rename leaves a file that
  makes every later sync fail as dirty;
- `Hotp::from_uri` takes the last `counter` of a URI that has two and the
  rewrite changes the first, so such an entry never advances; `CounterAdvances`
  and `SecondFactors` take URIs with one;
- a digit count of 20 or more overflows `10u64.pow(digits)` in `hotp` (`totp.rs`
  231); digits are bounded below that;
- an account named `:alice` without an issuer imports with an empty issuer
  (`migration.rs` 23-25), and `suggest_name` keeps the second dot of `. .x`,
  though leading dots are to go (250-251);
- where no subkey lives, the primary is encrypted to if its algorithm can encrypt,
  also if it is revoked, expired or bound to certify only, though it is to be used
  only when it can itself encrypt (`pgp_engine.rs` 295-297, 305); `NeverNarrowed`
  states what the code does;
- a PGP key with an open primary key and a locked subkey is loaded without a
  passphrase, though every loaded key was unlocked at load and what is still
  locked then is a stub (`pgp_engine.rs` 166-167);
- an edit of known hosts drops blank lines, and lines of the edited host and
  type whose key cannot be read, though other lines are to be kept verbatim
  (`ssh.rs` 303-305);
- a damaged identity line that differs from a good key only in case makes a
  merge take the good key for present (`identities.rs` 84-86);
- a blob that holds secret and public keys yields only the secret ones;
- a user and a wrong password in an `ssh://` URL are offered at every question of
  a server that takes passwords: only keys are limited to one offer;
- a conflict on the recipients file can put a key back that was taken off:
  `ListDecides` then holds for the list as it ends up.

### Bounds, and why they are enough

- *Two devices.* A conflict, a lost push and an overtaken push all take two; a
  third only adds orders of pushes, which the server's compare-and-swap
  serialises.
- *Three or four commits.* Two local commits on one path make the resolver ask
  twice; with the initial commit and one by the other device that is four.
  `sync_safety` has four on one entry; the runs with all operations, or with
  fairness, have three.
- *One `.conflict` suffix* (`MaxSuffix`): the copy of an entry can conflict
  itself; a copy of the copy is left out.
- *One kill, one lost or declined push, one force-push.* A second repeats the
  situation of the first from a state that is reached without it.
- *Workdir:* one entry and its `.conflict` copy, two paths, so that one commit can
  wrongly touch the other and the answer for one overwrite the other; four edits,
  made here or pushed by others, so that a rebase replays two commits and rebases
  and fast-forwards follow each other; one kill or failure, at any step.
- *Store:* an entry in the root and one in a directory below it, recipients
  files in neither, either or both, the device's key and one other, two versions
  beyond the initial ones; one pull, one failure and one kill, at any step.
- *AppValues:* texts of up to three lines, so that an edit has a line before and
  after it; two edits, since an edit sees of the earlier ones only the text, and
  all texts are initial ones. Counters up to 7, codes of 6 to 8 digits (up to 10
  in a URI), recovery codes of four values in the code's own base 32, an alphabet
  of five characters, draws of eight bits for alphabets of up to 200, varints
  of up to ten bytes with values of two. OpenPGP keys of a primary (able to encrypt
  or not, revoked or not, good, expired or certify-only) and one subkey of every
  revocation, binding and lock, or of a good primary and two subkeys; alone and
  beside another key that shares a subkey's id.
- *SecondFactors:* two devices (symmetric), four tasks, one kill, a counter up to
  2, which makes the third code impossible; entries that are empty, with CRLF, a
  damaged passkey and no final newline.
- *Custody:* two devices, one entry, one save, one removal, one loss; the
  recipients file starts as a comment without a newline; a code of three values in
  base 4. A further save or loss meets the same lists and keys.
- *Transport:* one upset (a replaced host key, a broken connection, another
  remote or a restart); three remotes: a host on port 22 with two key types that
  takes keys and passwords, the same host on port 2222, and an HTTPS server with
  a password in its URL.

`EveryVersionSurvives` is checked, and proved for any constants, with operations
that write one entry per commit: saves, removals and copies. It does not hold for
a commit that conflicts on an entry and on its `.conflict` copy at once, because
keeping both of the one writes over the other: a re-encryption of a whole store,
or a move of `a.conflict` onto `a` where the upstream changed both, is another
case of `doc_keep_both`.

Deadlock is checked in `sync_safety`, `sync_refines_log`, `app_values`,
`custody` and `transport`. In `sync_converges` the system really may stop: a
device whose rebase was interrupted, a clone of an empty server, and no commits
left. In `workdir` a kill may leave a tree that refuses everything, and in
`store` the bounds may be used up. In `factors` the devices stop when the tasks
are used up.

### Fairness

Safety is checked without fairness. `Convergence` assumes, for each device, weak
fairness of `Sync`, of the steps of a rebase, of `PushStart` and of the server's
reply. The code has no scheduler: `docs/conflict-ux.md` (50-52) has the app sync
and push again after each refusal, and the user answers the conflict sheet.
Edits are not fair: they may stop. Kills, faults and force-pushes are never
required and are bounded.

A device whose rebase was interrupted does not converge: nothing in the core
resumes or aborts it. `Convergence` excepts it, with the device that has no store
and the clone of an empty server that never committed.

In `Custody` each device that is not taken off keeps syncing, adds its key where
it is missing and re-encrypts what it can open: that is what the app does with
`recipients_add` and `reencrypt_readable` when a device joins. The core promises
nothing about when, so `ListDecides` and `EveryoneReads` are statements about an
app that does. Saves, removals and losses may stop, and a lost device need not
be restored: both properties except that.

In `Transport` an operation goes on and the user answers dialogs under weak
fairness. `SetSsh` and `Forget` are possible between operations only, again and
again, so they have strong fairness: an app that never hands over what the user
has confirmed, or a user who never forgets a host whose key changed, does not
connect.

## 4. Proofs

Each theorem is about the specification the runs check, for every value of the
constants that the modules' named assumptions allow. The assumptions beyond
those are in the theorem's statement and in this table.

| theorem | property | assumed besides |
|---|---|---|
| `GitSync_proofs`: `TypeCorrect`, `NoForcePush` | `TypeOK`, `NeverForcePushes` | |
| `OnlyOwnWorkIsUnpublished` | `ForeignCommitsArePublished` | `MaxRewrites = 0`: nobody force-pushes |
| `RebasesKeepVersions` | `EveryVersionSurvives` | no moves, no re-encryptions |
| `EditsPublishedOnce`, `EngineImplementsLog` | `PublishedOnce`, `ImplementsLog` | `MaxRewrites = 0` |
| `Workdir_proofs`: `TypeCorrect`, `SavedVersionsSurvive`, `CommitsAreOfTheirPaths`, `TreeIsCleanBetweenCalls` | `TypeOK`, `SavedSurvives`, `CommitsOnlyItsPaths`, `CleanBetweenCalls` | |
| `Store_proofs`: `TypeCorrect`, `RemovedKeysNeverReturn`, `ReencryptionIsExact` | `TypeOK`, `RemovedKeysStayOut`, `ReencryptedExactly` | |
| `NoVersionLost` | `EveryVersionKept` | `~SelfMoves`: no move of an entry onto itself |
| `Transport_proofs`: `TypeCorrect`, `KeyOnlyToAgreedHost`, `CausesAreReported` | `TypeOK`, `OfferedToAgreedHost`, `CauseIsReported` | |
| `AppTexts_proofs`: `NoLinesJoined`, `PinsFollowTheEdits`, `EditsTouchOneLine`, `EditsReadBack`, `ListFollowsTheEdits` | `NeverGlued`, `PinsFollow`, `OneLineTouched`, `EditReadsBack`, `RecipientsFollow` | |
| `SecondFactors_proofs`: `TypeCorrect`, `ToldThingsAreSaved`, `NoCodeIsShownTwice`, `SignInsAreAccepted` | `TypeOK`, `ToldIsSaved`, `CodesShownOnce`, `SignInAccepted` | |

None of the four restrictions is for the prover's sake: a force-push does
republish or drop edits, a move of `a.conflict` onto `a` and a re-encryption do
lose a version in a conflict (*Bounds*), and a move onto itself destroys the
entry (`doc_self_move.cfg`). TLC shows each of them.

The arguments:

- *Type correctness of `GitSync`* is inductive as it stands: beside the types it
  relates the phase of a call, HEAD, the index, the answers and the replay
  position, which the induction needs to know that a replayed commit exists and
  that answers are for the paths in conflict.
- *`NoForcePush`* adds `SendingExtends`: what a push in flight sends extends the
  history it was checked against. With the server's compare-and-swap an accepted
  push then extends the server's history. *`OnlyOwnWorkIsUnpublished`* adds
  `OwnWork`: which commits of a branch, of a history under rebase and of those
  still to replay are the device's own.
- *`RebasesKeepVersions`* adds `Carrying`: each commit of a branch, and of a history
  under rebase, writes one version (not so the commit of an edit on top of a HEAD
  left detached at a conflict, which takes the stopped merge along), and every version of a commit already replayed is in the rebased
  history, or was given up. `GitTree_proofs` has the case for one commit: the
  three-way merge and the answers leave its version in the new tree, at its
  path or at the first free `.conflict` name.
- *`EditsPublishedOnce`* adds `Once`: an edit stands once in each branch, rebased
  history and on the server; a branch has an edit of the server's only where the
  server has it (`OnServer`); and the commits still to replay lie beyond the
  point where branch and server part (`Parted`), so that none is at HEAD already.
  *`EngineImplementsLog`* adds `Rebased`: what is replayed so far is a selection,
  in order, of the branch's commits beyond the merge base. A save then enqueues,
  an accepted push publishes the queue, a completed rebase withdraws what it
  dropped, everything else stutters.
- *`Workdir`*: `Surviving` says that, while edits and syncs are kept apart (`Apart`),
  the file of an edit being made is that edit's, so that its commit stages the
  version saved (`FileIsEdit`), and that during a rebase every version of the
  commits below the one to replay is in the replayed history or was dropped by an
  answer (`Carried`). For the commit under way the index holds the merge until it
  is answered (`MergeStaged`) and afterwards each version the commit brings, or an
  answer dropped it (`AnswersIn`, by cases on the choice and on the order in which
  a path and its copy are written). `Undisturbed` says that until a call stops half
  way the index differs from HEAD only between the two steps of a checkout or while
  a commit is replayed, when no edit can commit; `FilesAreStaged` that the files
  agree with the index but for the edit being made.
- *`Store`*: `Underway` says what a re-encryption has done and has left to do,
  `ShutOut` that a key shut out is in no recipients file, and `Moving` that the
  versions nobody gave up are all outside a move's destination until that is
  written, and then all outside its source: which is why the two must differ.
- *`Transport`*: `Trusting` says that every pin that can be used, in the app, in
  the handle and in the running operation, is of the key the user last agreed to
  for the server of that name, that a name stands for one server, and that an
  operation beyond the certificate callback showed such a key. The lemmas on
  known hosts say what `known_hosts_add` and `known_hosts_remove` leave pinned in
  a file of any lines.
- *`AppTexts`*: the invariant `Glueless` says that an edited text is a sequence of
  lines of which only the last may lack its ending, and that the pins of a
  known-hosts file have their fields. Each operator has a lemma that it keeps
  this; those on entries also say which line they touch, those on known hosts
  which pins are left. `TextsAssumption` asks the same of the texts a behaviour
  starts from and of those imported, and that a host to be pinned has a plain name
  and a key that can be read: `known_hosts_add` is given what a server presented.
  It also keeps the two keys that mark the lines which are no field from being
  keys of fields. What a reader makes of a text (`Picked`, `Only`) is proved from
  what one more line adds to it, by induction over the text (`SequencesGrow`). For
  `EditsReadBack` each reader is a function of the bodies of the lines: the first
  place of a set of bodies (`FirstIn`) or all of them (`AllIn`). A body put at the
  first place is the first (`PutInPlace`, `PutLast`), and taking the first of a
  kind from a text takes the first of that kind from what a reader picks out of
  it (`FirstOfAllGoes`), which is what `entry_remove_passkey` and
  `remove_otpauth` do to `entry_passkeys` and to the URIs.
- *`SecondFactors`*: the invariant `Inv` says that there is a registry, from the
  credential ids drawn so far to the passkeys made with them, which everything
  agrees with. Every text, on a device, in its last commit, in a call that is
  running and on the server, is of whole lines and holds, of the ids drawn, only
  the passkeys the registry has, each id once (`TextFits`); it keeps what was told in its
  history: the counter has reached each code shown, and the credential of each
  answered site is there (`Holds`). What a call is to tell is in the text it
  is about to commit and, if it is a code, beyond every code of the history
  (`Told`, `TaskFits`): hence `CodesShownOnce`. Every account of a site is the
  registry's passkey (`AccountFits`): hence `SignInAccepted`. The registry only
  grows, and with it everything that fits still does (`WidenedFits`). The lemmas
  below the invariant say what an edit does to an entry of any lines: a rewritten
  URI is read back with its counter one further and every other parameter in place
  (`CounterWritten`, `UriReplaced`), adding, removing and rewriting a line keep all
  other passkeys and the first URI (`PasskeyMade`, `PasskeyDeleted`,
  `PasswordChanged`).

`FactorsAssumption` restricts the texts a behaviour starts from. A URI has one
counter (with two the entry never advances, see *Further disagreements*), and each
credential id stands once and is not drawn again: the platform draws ids at random. The URI
does not stand on line 1: `set_password` overwrites line 1 whatever it is, so that
changing the password of an entry that is only an OTP gives up its counter. That a
stored value reads back as the passkey it says, and a made one likewise, is what
`Credential` has to be for the values of a run; `"elsewhere"` names a host that
is no account's.

Where a definition is recursive (`Picked`, `MergeIdentities`, the suffix of a
copy), the induction is by the least number at which the claim fails
(`NumbersHaveLeast`), since the library's induction theorems take an operator,
which none of the installed provers can instantiate.

Only model-checked: liveness (`Convergence`, `ListDecides`, `EveryoneReads`,
`Connects`), which is out of the prover's reach; the properties of `AppValues`,
which compare values computed by searches and folds over sequences with a
reference over bounded sets; of `AppTexts`, `MergeKeepsKeys`, which rests on
such a fold (`MergeIdentities`) and on `SelectSeq`; and of `Custody`, `TypeOK`
and `RestoreBringsBack`, which rest on `MergeIdentities` and the backup container.

## 5. Not modelled

`commit_all` and the wording of `log`, shallow clones and the options of
`docs/conflict-ux.md` that the core does not implement; `copy_entry`, which the
FFI does not export; two PassStore calls at once, and a sync in the middle of a
PassStore call other than a save or removal; the readers of the store (`entries`,
`tree`, `render_ls`) and the names it takes for sneaky. Of the text formats: a
lone carriage return at the end of a text, spaces around a colon, keys with a
colon. Of the values: integers of more than a few bytes (a varint's tenth byte
shifts by 63 and drops bits without an error), JSON and base64url syntax,
fingerprints, SPKI. Cryptography, the formats of libraries, the developer tools,
fixtures and the platform bindings stay out.

## 6. Plan

1. *Done:* every module of section 2 with its runs, and the proofs above.
2. Proofs that are left: `TypeOK` of `Custody`, and `MergeKeepsKeys` of
   `AppTexts`, for which `Distinct` has to be written with `Picked`.
3. Model: a sync in the middle of a re-encryption; the readers of the store.
